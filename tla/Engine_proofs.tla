--------------------------- MODULE Engine_proofs ----------------------------
(***************************************************************************)
(* Proofs about parts that MCEngine runs together: ExchangeQueue, for any  *)
(* writers and items, the events and threads of Sync, and the cameras of   *)
(* Physics and the playbacks of Mixer, for any calls and messages.         *)
(***************************************************************************)
EXTENDS ExchangeQueue, Sync, Physics, Mixer, FiniteSetTheorems, TLAPS

-----------------------------------------------------------------------------
(* ExchangeQueue.                                                          *)

Cell == 0 .. 2

ExchangeTypeOK ==
    /\ lasti \in Cell /\ readi \in Cell /\ writei \in Cell
    /\ writebits \in SUBSET Cell /\ cells \in [Cell -> Nat]
    /\ readpc \in {"idle", "test", "reset", "store"}
    /\ wpc \in [Writers -> {"idle", "set", "store", "exchange", "remove"}]
    /\ writelock \in Writers \cup {NoWriter}
    /\ published \in Nat /\ polled \in Nat /\ missed \in Nat /\ broken \in BOOLEAN

\* The reader's change of writebits and a writer's, each a load and a store,
\* are not on their way at the same time.
NoOverlap == \A w \in Writers : ~(readpc = "store" /\ wpc[w] = "store")

\* What was loaded is what is there still.
LoadedNow ==
    /\ readpc = "store" => rloaded = writebits
    /\ \A w \in Writers : wpc[w] = "store" => wloaded = writebits

\* The three cells are apart, and a writer inside try_push has the lock.
CellsApart == lasti # readi /\ lasti # writei /\ readi # writei
OneWriter == \A w \in Writers : wpc[w] # "idle" <=> writelock = w

\* A bit tells whether there is an item, except in the cell of the writers:
\* there an item that was never polled is destructed and its bit is left.
BitsTell ==
    /\ lasti \in writebits <=> cells[lasti] # Raw
    /\ readi \in writebits <=> cells[readi] # Raw
    /\ readpc = "idle" => cells[readi] = Raw
    /\ readpc \in {"reset", "store"} => cells[readi] # Raw

\* What is in the cell of the writers at each point of try_push.
WriterCell ==
    /\ writelock = NoWriter => cells[writei] = Raw
    /\ \A w \in Writers :
         /\ wpc[w] \in {"set", "store"} => cells[writei] = Raw
         /\ wpc[w] = "exchange" => writei \in writebits /\ cells[writei] = published + 1
         /\ wpc[w] = "remove" => (writei \in writebits <=> cells[writei] # Raw)

\* The latest item is on its way to the reader: in the cell between, in the
\* reader's cell and about to be seen, or polled and nothing newer there.
LatestAtHand ==
    /\ cells[lasti] \in {Raw, published}
    /\ readpc # "test" => polled = published \/ cells[lasti] = published
    /\ readpc = "test" =>
         \/ cells[lasti] = published \/ cells[readi] = published
         \/ polled = published /\ cells[readi] = Raw

ExchangeInv ==
    /\ ExchangeTypeOK /\ CellsApart /\ OneWriter /\ BitsTell /\ WriterCell /\ LatestAtHand
    /\ LoadedNow /\ missed = Raw /\ ~broken

\* The part of it that no lost change of a bit can disturb.
CellsInv ==
    /\ lasti \in Cell /\ readi \in Cell /\ writei \in Cell /\ CellsApart
    /\ wpc \in [Writers -> {"idle", "set", "store", "exchange", "remove"}] /\ OneWriter

\* The queue starts empty: no bit set, and the reader, the writer and the
\* last index on three different cells.
LEMMA ExchangeInvInit == ExchangeInit => ExchangeInv
<1> SUFFICES ASSUME ExchangeInit PROVE ExchangeInv
  OBVIOUS
<1> USE ExchangeAssumption DEF ExchangeAssumption, ExchangeInit, Cell, Raw, NoWriter
<1>1. ExchangeTypeOK
  <2>1. broken \in BOOLEAN /\ wpc \in [Writers -> {"idle", "set", "store", "exchange", "remove"}]
    OBVIOUS
  <2>2. writebits \in SUBSET Cell /\ cells \in [Cell -> Nat]
    OBVIOUS
  <2> QED
    BY <2>1, <2>2 DEF ExchangeTypeOK
<1>2. CellsApart /\ BitsTell /\ LatestAtHand
  BY DEF CellsApart, BitsTell, LatestAtHand
<1>3. OneWriter /\ WriterCell /\ LoadedNow
  BY DEF OneWriter, WriterCell, LoadedNow
<1> QED
  BY <1>1, <1>2, <1>3 DEF ExchangeInv

\* Each access of try_push and try_pop keeps the cells apart, while no two
\* changes of writebits overlap.
LEMMA ExchangeInvStep ==
  ASSUME NoOverlap, ExchangeInv, [ExchangeNext]_exchangeVars
  PROVE  ExchangeInv'
<1> USE ExchangeAssumption
    DEF ExchangeAssumption, ExchangeInv, ExchangeTypeOK, Cell, CellsApart, OneWriter, BitsTell, WriterCell, LatestAtHand, LoadedNow, NoOverlap,
        Raw, NoWriter, readerVars, writerVars
<1>1. CASE PopExchange
  BY <1>1 DEF PopExchange
<1>2. CASE PopTest
  BY <1>2 DEF PopTest
<1>3. CASE PopLoadBits
  BY <1>3 DEF PopLoadBits
<1>4. CASE PopReset
  BY <1>4 DEF PopReset
<1>5. ASSUME NEW w \in Writers, Lock(w) PROVE ExchangeInv'
  BY <1>5 DEF Lock
<1>6. ASSUME NEW w \in Writers, PushLoad(w) PROVE ExchangeInv'
  BY <1>6 DEF PushLoad
<1>7. ASSUME NEW w \in Writers, PushSet(w) PROVE ExchangeInv'
  <2>1. /\ wpc[w] = "store" /\ readpc # "store" /\ wloaded = writebits /\ writelock = w
        /\ \A v \in Writers \ {w} : wpc[v] = "idle"
    BY <1>7 DEF PushSet
  <2>2. /\ writebits' = writebits \cup {writei} /\ cells' = [cells EXCEPT ![writei] = published + 1]
        /\ wpc' = [wpc EXCEPT ![w] = "exchange"]
        /\ UNCHANGED <<lasti, readi, writei, readpc, rloaded, writelock, published, polled, missed, broken>>
    BY <1>7, <2>1 DEF PushSet
  <2>3. ExchangeTypeOK' /\ CellsApart' /\ OneWriter'
    BY <2>1, <2>2
  <2>4. BitsTell' /\ LatestAtHand'
    BY <2>1, <2>2
  <2>5. WriterCell' /\ LoadedNow'
    BY <2>1, <2>2
  <2> QED
    BY <2>2, <2>3, <2>4, <2>5
<1>8. ASSUME NEW w \in Writers, PushExchange(w) PROVE ExchangeInv'
  BY <1>8 DEF PushExchange
<1>9. ASSUME NEW w \in Writers, PushRemove(w) PROVE ExchangeInv'
  BY <1>9 DEF PushRemove
<1>10. CASE UNCHANGED exchangeVars
  BY <1>10 DEF exchangeVars
<1> QED
  BY <1>1, <1>2, <1>3, <1>4, <1>5, <1>6, <1>7, <1>8, <1>9, <1>10 DEF ExchangeNext

\* Three indices that differ are three cells.
LEMMA ThreeCells == CellsApart => Cardinality({lasti, readi, writei}) = 3
<1> SUFFICES ASSUME CellsApart PROVE Cardinality({lasti, readi, writei}) = 3
  OBVIOUS
<1>1. Cardinality({lasti}) = 1 /\ IsFiniteSet({lasti})
  BY FS_Singleton
<1>2. Cardinality({lasti, readi}) = 2 /\ IsFiniteSet({lasti, readi})
  <2>1. {lasti, readi} = {lasti} \cup {readi} /\ readi \notin {lasti}
    BY DEF CellsApart
  <2> QED
    BY <1>1, <2>1, FS_AddElement
<1>3. {lasti, readi, writei} = {lasti, readi} \cup {writei} /\ writei \notin {lasti, readi}
  BY DEF CellsApart
<1> QED
  BY <1>2, <1>3, FS_AddElement

\* What the reader polls is what the invariant says its cell holds.
LEMMA ExchangeInvPolls == ExchangeInv => LatestPolled
<1> SUFFICES ASSUME ExchangeInv PROVE LatestPolled
  OBVIOUS
<1>1. Cardinality({lasti, readi, writei}) = 3
  BY ThreeCells DEF ExchangeInv
<1>2. PollsLatest
  BY DEF ExchangeInv, LatestAtHand, PollsLatest
<1> QED
  BY <1>1, <1>2 DEF ExchangeInv, WriterCell, LatestPolled

\* The exchanges swap cells, whatever the bits say, and only the writer that
\* has the lock exchanges.
LEMMA CellsInvStep == CellsInv /\ [ExchangeNext]_exchangeVars => CellsInv'
<1> SUFFICES ASSUME CellsInv, [ExchangeNext]_exchangeVars PROVE CellsInv'
  OBVIOUS
<1> USE ExchangeAssumption DEF ExchangeAssumption, CellsInv, Cell, CellsApart, OneWriter, readerVars, writerVars
<1>1. CASE PopExchange
  BY <1>1 DEF PopExchange
<1>2. CASE PopTest \/ PopLoadBits \/ PopReset
  BY <1>2 DEF PopTest, PopLoadBits, PopReset
<1>3. ASSUME NEW w \in Writers, Lock(w) PROVE CellsInv'
  BY <1>3 DEF Lock
<1>4. ASSUME NEW w \in Writers, PushLoad(w) \/ PushSet(w) PROVE CellsInv'
  BY <1>4 DEF PushLoad, PushSet
<1>5. ASSUME NEW w \in Writers, PushExchange(w) PROVE CellsInv'
  BY <1>5 DEF PushExchange
<1>6. ASSUME NEW w \in Writers, PushRemove(w) PROVE CellsInv'
  BY <1>6 DEF PushRemove
<1>7. CASE UNCHANGED exchangeVars
  BY <1>7 DEF exchangeVars
<1> QED
  BY <1>1, <1>2, <1>3, <1>4, <1>5, <1>6, <1>7 DEF ExchangeNext

\* However many writers push, whenever the reader pops and whatever changes
\* of bits are lost between them: the cells of the reader, of the writers and
\* in between are three, and at most one writer is inside try_push
\* (ExchangeQueue.hpp try_push, try_pop).
THEOREM ExchangeCellsApart == ExchangeSpec => [](Cardinality({lasti, readi, writei}) = 3 /\ OneWriter)
<1>1. ExchangeInit => CellsInv
  BY ExchangeInvInit DEF ExchangeInv, ExchangeTypeOK, CellsInv
<1>2. CellsInv /\ [ExchangeNext]_exchangeVars => CellsInv'
  BY CellsInvStep
<1>3. CellsInv => Cardinality({lasti, readi, writei}) = 3 /\ OneWriter
  BY ThreeCells DEF CellsInv
<1> QED
  BY <1>1, <1>2, <1>3, PTL DEF ExchangeSpec

\* However many writers push and whenever the reader pops: no item is used
\* where there is none and the reader polls the latest, as long as the reader
\* and a writer do not change writebits at the same time.  Nothing in the
\* code keeps them from it, and what happens then is a lost change
\* (ExchangeQueue.hpp try_push, try_pop).
THEOREM ExchangeQueueCorrect == ExchangeSpec /\ []NoOverlap => []LatestPolled
<1>1. ExchangeInit => ExchangeInv
  BY ExchangeInvInit
<1>2. NoOverlap /\ ExchangeInv /\ [ExchangeNext]_exchangeVars => ExchangeInv'
  BY ExchangeInvStep
<1>3. ExchangeInv => LatestPolled
  BY ExchangeInvPolls
<1> QED
  BY <1>1, <1>2, <1>3, PTL DEF ExchangeSpec

-----------------------------------------------------------------------------
(* Sync: the Event.                                                        *)

Place == {"idle", "calling", "inside", "leaving", "failed", "asleep", "woken", "late"}
EventCall == {"none", "set", "reset", "wait", "timed"}

EventRecord ==
    [platform : {"pthread", "kernel32"}, manual : BOOLEAN, is_set : BOOLEAN,
     mutex : SyncThreads \cup {Nobody}, cond : SUBSET SyncThreads]

EventTypeOK ==
    /\ event \in EventRecord
    /\ IsFiniteSet(event.cond)
    /\ at \in [SyncThreads -> Place] /\ op \in [SyncThreads -> EventCall]
    /\ sets \in Nat /\ released \in Nat /\ syncCalls \in Nat

\* Who is between the lock and the unlock has the mutex; the kernel's event has none.
MutexHeld ==
    /\ \A t \in SyncThreads : at[t] \in {"inside", "leaving", "failed"} <=> event.mutex = t
    /\ event.platform = "kernel32" => \A t \in SyncThreads : at[t] \in {"idle", "calling", "asleep"}

\* Who sleeps on cond, or did, is in a wait.
SleepersWait ==
    \A t \in SyncThreads :
        /\ t \in event.cond <=> at[t] = "asleep"
        /\ at[t] \in {"asleep", "woken", "late"} => IsWait(op[t])

\* The kernel's event is not set while anyone sleeps on it.
KernelReleases == event.platform = "kernel32" /\ event.is_set => event.cond = {}

\* A manual event has one waiter at a time, where clients keep to that.
OneWaiterKept == event.manual => ~ManyWaiters

WaitersAlone ==
    event.manual /\ OneWaiterKept => \A t, u \in SyncThreads :
        at[t] # "idle" /\ IsWait(op[t]) /\ at[u] # "idle" /\ IsWait(op[u]) => t = u

SetOnce == event.is_set => sets > 0

EventInv ==
    /\ EventTypeOK /\ MutexHeld /\ SleepersWait /\ KernelReleases /\ WaitersAlone /\ SetOnce
    /\ OneWaiterKept => EventDelivers

\* An event starts reset, with its mutex free.
LEMMA EventInvInit == SyncInit => EventInv
<1> SUFFICES ASSUME SyncInit PROVE EventInv
  OBVIOUS
<1>e. PICK e \in [platform : {"pthread", "kernel32"}, manual : BOOLEAN, is_set : BOOLEAN, mutex : {Nobody}, cond : {{}}] : event = e
  BY DEF SyncInit
<1>0. event.cond = {} /\ event.mutex = Nobody
  BY <1>e
<1>1. EventTypeOK
  <2>1. IsFiniteSet(event.cond)
    BY <1>0, FS_EmptySet
  <2>2. at \in [SyncThreads -> Place] /\ op \in [SyncThreads -> EventCall]
    BY DEF SyncInit, Place, EventCall
  <2>3. sets \in Nat /\ released \in Nat /\ syncCalls \in Nat
    BY DEF SyncInit
  <2>4. event \in EventRecord
    BY <1>e DEF EventRecord
  <2> QED
    BY <2>1, <2>2, <2>3, <2>4 DEF EventTypeOK
<1>2. MutexHeld /\ SleepersWait /\ KernelReleases /\ WaitersAlone
  BY <1>0, SyncAssumption DEF SyncInit, MutexHeld, SleepersWait, KernelReleases, WaitersAlone, SyncAssumption
<1>3. SetOnce /\ EventDelivers
  BY <1>0, <1>e DEF SyncInit, SetOnce, EventDelivers
<1> QED
  BY <1>1, <1>2, <1>3 DEF EventInv

\* Every lock, unlock, wait and notification of Event.hpp keeps the mutex
\* with one thread and, with one waiter at a time, delivers the signal.
LEMMA EventInvStep ==
  ASSUME EventInv, [SyncNext]_syncVars
  PROVE  EventInv'
<1> USE SyncAssumption DEF SyncAssumption, EventInv, EventTypeOK, MutexHeld, SleepersWait, KernelReleases, WaitersAlone, SetOnce, EventDelivers,
      OneWaiterKept, IsWait, EventRecord, Place, EventCall, Moved, threadVars
<1>1. ASSUME NEW t \in SyncThreads, NEW f \in {"set", "reset", "wait", "timed"}, SyncCall(t, f) PROVE EventInv'
  BY <1>1 DEF SyncCall
<1>2. ASSUME NEW t \in SyncThreads, Enter(t) PROVE EventInv'
  BY <1>2 DEF Enter, lock
<1>3. ASSUME NEW t \in SyncThreads, EventSet(t) PROVE EventInv'
  <2>0. at[t] = "inside" /\ event.platform = "pthread" /\ sets' = sets + 1 /\ UNCHANGED <<op, released, syncCalls>>
    BY <1>3 DEF EventSet
  <2>1. CASE event.cond = {}
    <3>1. /\ event' = [event EXCEPT !.is_set = TRUE] /\ at' = [at EXCEPT ![t] = "leaving"]
      BY <1>3, <2>1 DEF EventSet, notify_one
    <3>2. /\ event'.platform = event.platform /\ event'.manual = event.manual /\ event'.is_set
          /\ event'.mutex = event.mutex /\ event'.cond = event.cond
      BY <3>1
    <3>3. EventTypeOK'
      <4>1. event' \in EventRecord
        BY <3>1
      <4> QED
        BY <2>0, <3>1, <3>2, <4>1
    <3>4. MutexHeld' /\ SleepersWait' /\ WaitersAlone' /\ KernelReleases' /\ SetOnce'
      BY <2>0, <2>1, <3>1, <3>2
    <3>5. (OneWaiterKept => EventDelivers)'
      BY <2>0, <2>1, <3>1, <3>2
    <3> QED
      BY <3>3, <3>4, <3>5
  <2>2. CASE event.cond # {}
    <3>1. PICK s \in event.cond :
            /\ event' = [event EXCEPT !.is_set = TRUE, !.cond = event.cond \ {s}]
            /\ at' = [at EXCEPT ![t] = "leaving", ![s] = "woken"]
      BY <1>3, <2>2 DEF EventSet, notify_one
    <3>2. /\ event'.platform = event.platform /\ event'.manual = event.manual /\ event'.is_set
          /\ event'.mutex = event.mutex /\ event'.cond = event.cond \ {s}
      BY <3>1
    <3>3. s \in SyncThreads /\ at[s] = "asleep" /\ IsWait(op[s]) /\ s # t
      BY <2>0
    <3>4. EventTypeOK'
      <4>1. IsFiniteSet(event'.cond)
        BY <3>2, FS_RemoveElement
      <4>2. event' \in EventRecord
        BY <3>1
      <4>3. at' \in [SyncThreads -> Place]
        BY <3>1, <3>3
      <4> QED
        BY <2>0, <4>1, <4>2, <4>3
    <3>5. MutexHeld' /\ SleepersWait'
      BY <2>0, <3>1, <3>2, <3>3
    <3>6. WaitersAlone' /\ KernelReleases' /\ SetOnce'
      BY <2>0, <3>1, <3>2, <3>3
    <3>7. (OneWaiterKept => EventDelivers)'
      BY <2>0, <3>1, <3>2, <3>3
    <3> QED
      BY <3>4, <3>5, <3>6, <3>7
  <2> QED
    BY <2>1, <2>2
<1>4. ASSUME NEW t \in SyncThreads, EventReset(t) PROVE EventInv'
  <2>1. /\ event'.platform = event.platform /\ event'.manual = event.manual /\ ~event'.is_set
        /\ event'.mutex = event.mutex /\ event'.cond = event.cond
    BY <1>4 DEF EventReset
  <2>2. EventTypeOK'
    BY <1>4 DEF EventReset
  <2>3. MutexHeld' /\ SleepersWait' /\ WaitersAlone' /\ KernelReleases' /\ SetOnce'
    BY <1>4, <2>1 DEF EventReset
  <2>4. (OneWaiterKept => EventDelivers)'
    BY <1>4, <2>1 DEF EventReset
  <2> QED
    BY <2>2, <2>3, <2>4
<1>5. ASSUME NEW t \in SyncThreads, EventWait(t) PROVE EventInv'
  <2>0. at[t] = "inside" /\ IsWait(op[t]) /\ event.platform = "pthread" /\ UNCHANGED <<op, sets, syncCalls>>
    BY <1>5 DEF EventWait
  <2>1. CASE event.is_set
    <3>1. /\ event' = [event EXCEPT !.is_set = event.manual] /\ at' = [at EXCEPT ![t] = "leaving"]
          /\ released' = released + 1
      BY <1>5, <2>1 DEF EventWait
    <3>2. /\ event'.platform = event.platform /\ event'.manual = event.manual /\ event'.is_set = event.manual
          /\ event'.mutex = event.mutex /\ event'.cond = event.cond
      BY <3>1
    <3>3. EventTypeOK'
      BY <2>0, <3>1
    <3>4. MutexHeld' /\ SleepersWait' /\ KernelReleases' /\ SetOnce'
      BY <2>0, <2>1, <3>1, <3>2
    <3>5. WaitersAlone'
      BY <2>0, <3>1, <3>2
    <3>6. event.manual /\ OneWaiterKept => event.cond = {}
      BY <2>0
    <3>7. (OneWaiterKept => EventDelivers)'
      BY <2>0, <2>1, <3>1, <3>2, <3>6
    <3> QED
      BY <3>3, <3>4, <3>5, <3>7
  <2>2. CASE ~event.is_set
    <3>1. /\ event' = [event EXCEPT !.mutex = Nobody, !.cond = event.cond \cup {t}]
          /\ at' = [at EXCEPT ![t] = "asleep"] /\ released' = released
      BY <1>5, <2>2 DEF EventWait, cond_wait, unlock
    <3>2. /\ event'.platform = event.platform /\ event'.manual = event.manual /\ ~event'.is_set
          /\ event'.mutex = Nobody /\ event'.cond = event.cond \cup {t}
      BY <2>2, <3>1
    <3>3. EventTypeOK'
      <4>1. IsFiniteSet(event'.cond)
        BY <3>2, FS_AddElement
      <4> QED
        BY <2>0, <3>1, <4>1
    <3>4. MutexHeld' /\ SleepersWait' /\ KernelReleases' /\ SetOnce'
      BY <2>0, <2>2, <3>1, <3>2
    <3>5. WaitersAlone'
      BY <2>0, <3>1, <3>2
    <3>6. (OneWaiterKept => EventDelivers)'
      BY <2>0, <2>2, <3>1, <3>2
    <3> QED
      BY <3>3, <3>4, <3>5, <3>6
  <2> QED
    BY <2>1, <2>2
<1>6. ASSUME NEW t \in SyncThreads, EventWaitRefused(t) PROVE EventInv'
  BY <1>6 DEF EventWaitRefused
<1>7. ASSUME NEW t \in SyncThreads, Late(t) PROVE EventInv'
  BY <1>7, FS_RemoveElement DEF Late
<1>8. ASSUME NEW t \in SyncThreads, Leave(t) PROVE EventInv'
  BY <1>8 DEF Leave, Return, unlock
<1>9. ASSUME NEW t \in SyncThreads, KernelSet(t) PROVE EventInv'
  <2>0. event.platform = "kernel32" /\ at[t] = "calling" /\ op[t] = "set" /\ sets' = sets + 1 /\ UNCHANGED <<op, syncCalls>>
    BY <1>9 DEF KernelSet
  <2>1. ASSUME event.manual \/ event.cond = {},
               event' = [event EXCEPT !.is_set = TRUE, !.cond = {}],
               at' = [u \in SyncThreads |-> IF u = t \/ u \in event.cond THEN "idle" ELSE at[u]],
               released' = released + Cardinality(event.cond)
        PROVE  EventInv'
    <3>1. /\ event'.platform = event.platform /\ event'.manual = event.manual /\ event'.is_set
          /\ event'.mutex = event.mutex /\ event'.cond = {}
      BY <2>1
    <3>2. Cardinality(event.cond) \in Nat /\ (event.cond = {} => Cardinality(event.cond) = 0)
      BY FS_CardinalityType, FS_EmptySet
    <3>3. EventTypeOK'
      <4>1. IsFiniteSet(event'.cond)
        BY <3>1, FS_EmptySet
      <4>2. event' \in EventRecord
        BY <2>1
      <4>3. at' \in [SyncThreads -> Place]
        BY <2>1
      <4> QED
        BY <2>0, <2>1, <3>2, <4>1, <4>2, <4>3
    <3>4. MutexHeld' /\ SleepersWait' /\ KernelReleases' /\ SetOnce'
      BY <2>0, <2>1, <3>1
    <3>5. WaitersAlone'
      BY <2>0, <2>1, <3>1
    <3>6. (OneWaiterKept => EventDelivers)'
      BY <2>0, <2>1, <3>1, <3>2
    <3> QED
      BY <3>3, <3>4, <3>5, <3>6
  <2>2. ASSUME ~event.manual, NEW s \in event.cond,
               event' = [event EXCEPT !.cond = event.cond \ {s}],
               at' = [at EXCEPT ![s] = "idle", ![t] = "idle"],
               released' = released + 1
        PROVE  EventInv'
    <3>1. /\ event'.platform = event.platform /\ event'.manual = event.manual /\ event'.is_set = event.is_set
          /\ event'.mutex = event.mutex /\ event'.cond = event.cond \ {s}
      BY <2>2
    <3>2. ~event.is_set
      BY <2>0, <2>2
    <3>3. EventTypeOK'
      <4>1. IsFiniteSet(event'.cond)
        BY <3>1, FS_RemoveElement
      <4> QED
        BY <2>0, <2>2, <4>1
    <3>4. MutexHeld' /\ SleepersWait' /\ KernelReleases' /\ SetOnce'
      BY <2>0, <2>2, <3>1, <3>2
    <3>5. WaitersAlone'
      BY <2>2, <3>1
    <3>6. (OneWaiterKept => EventDelivers)'
      BY <2>0, <2>2, <3>1, <3>2
    <3> QED
      BY <3>3, <3>4, <3>5, <3>6
  <2> QED
    BY <1>9, <2>1, <2>2 DEF KernelSet
<1>10. ASSUME NEW t \in SyncThreads, KernelReset(t) PROVE EventInv'
  <2>1. /\ event'.platform = event.platform /\ event'.manual = event.manual /\ ~event'.is_set
        /\ event'.mutex = event.mutex /\ event'.cond = event.cond
    BY <1>10 DEF KernelReset
  <2>2. EventTypeOK'
    BY <1>10 DEF KernelReset
  <2>3. MutexHeld' /\ SleepersWait' /\ WaitersAlone' /\ KernelReleases' /\ SetOnce'
    BY <1>10, <2>1 DEF KernelReset
  <2>4. (OneWaiterKept => EventDelivers)'
    BY <1>10, <2>1 DEF KernelReset
  <2> QED
    BY <2>2, <2>3, <2>4
<1>11. ASSUME NEW t \in SyncThreads, KernelWait(t) PROVE EventInv'
  BY <1>11, FS_AddElement DEF KernelWait
<1>12. ASSUME NEW t \in SyncThreads, KernelTimeout(t) PROVE EventInv'
  BY <1>12, FS_RemoveElement DEF KernelTimeout
<1>13. CASE UNCHANGED eventVars
  BY <1>13 DEF eventVars
<1>14. CASE ThreadNext
  BY <1>13, <1>14 DEF ThreadNext, ThreadStart, ThreadJoin, ThreadDestruct, ThreadMove
<1> QED
  BY <1>1, <1>2, <1>3, <1>4, <1>5, <1>6, <1>7, <1>8, <1>9, <1>10, <1>11, <1>12, <1>13, <1>14 DEF SyncNext, EventNext, syncVars

-----------------------------------------------------------------------------
(* Sync: the Thread objects.                                               *)

ThreadTypeOK ==
    /\ objects \in [ThreadObjects -> Int] /\ started \in Nat
    /\ \A o \in ThreadObjects : objects[o] \in {NoObject, invalid_data} \/ objects[o] \in 1 .. started
    /\ joined \subseteq 1 .. started

\* A thread is held by at most one object, by one until it is joined, and by none after.
HeldOnce == \A o, q \in ThreadObjects : Valid(o) /\ objects[o] = objects[q] => o = q
HeldUntilJoined == \A n \in 1 .. started : n \in joined <=> \A o \in ThreadObjects : objects[o] # n

ThreadInv == ThreadTypeOK /\ HeldOnce /\ HeldUntilJoined

\* No thread runs and no Thread object holds one.
LEMMA ThreadInvInit == SyncInit => ThreadInv
BY DEF SyncInit, ThreadInv, ThreadTypeOK, HeldOnce, HeldUntilJoined, Valid, NoObject, invalid_data

\* The start, move, join and destruction of Thread.hpp keep each running
\* thread with one object.
LEMMA ThreadInvStep == ThreadInv /\ [SyncNext]_syncVars => ThreadInv'
<1> SUFFICES ASSUME ThreadInv, [SyncNext]_syncVars PROVE ThreadInv'
  OBVIOUS
<1> USE DEF ThreadInv, ThreadTypeOK, HeldOnce, HeldUntilJoined, Valid, NoObject, invalid_data
<1>1. ASSUME NEW o \in ThreadObjects, ThreadStart(o) PROVE ThreadInv'
  <2>0. objects[o] = NoObject /\ joined' = joined
    BY <1>1 DEF ThreadStart
  <2>1. CASE started' = started + 1 /\ objects' = [objects EXCEPT ![o] = started + 1]
    <3>1. ThreadTypeOK' /\ HeldOnce'
      BY <2>0, <2>1
    <3>2. ASSUME NEW n \in 1 .. started' PROVE n \in joined' <=> \A q \in ThreadObjects : objects'[q] # n
      BY <2>0, <2>1, n \in 1 .. started \/ n = started + 1
    <3> QED
      BY <3>1, <3>2
  <2>2. CASE started' = started /\ objects' = [objects EXCEPT ![o] = invalid_data]
    BY <2>0, <2>2
  <2> QED
    BY <1>1, <2>1, <2>2 DEF ThreadStart
<1>2. ASSUME NEW o \in ThreadObjects, ThreadJoin(o) PROVE ThreadInv'
  <2>0. /\ Valid(o) /\ objects' = [objects EXCEPT ![o] = invalid_data]
        /\ joined' = joined \cup {objects[o]} /\ started' = started
    BY <1>2 DEF ThreadJoin
  <2>1. ThreadTypeOK' /\ HeldOnce'
    <3>1. objects[o] \in 1 .. started
      BY <2>0
    <3>2. joined' \subseteq 1 .. started'
      BY <2>0, <3>1
    <3>3. objects' \in [ThreadObjects -> Int]
      BY <2>0
    <3>4. \A q \in ThreadObjects : objects'[q] \in {NoObject, invalid_data} \/ objects'[q] \in 1 .. started'
      BY <2>0
    <3>5. HeldOnce'
      BY <2>0
    <3> QED
      BY <2>0, <3>2, <3>3, <3>4, <3>5
  <2>2. ASSUME NEW n \in 1 .. started' PROVE n \in joined' <=> \A q \in ThreadObjects : objects'[q] # n
    <3>1. CASE n = objects[o]
      BY <2>0, <3>1
    <3>2. CASE n # objects[o]
      BY <2>0, <3>2
    <3> QED
      BY <3>1, <3>2
  <2> QED
    BY <2>1, <2>2
<1>3. ASSUME NEW o \in ThreadObjects, ThreadDestruct(o) PROVE ThreadInv'
  BY <1>3 DEF ThreadDestruct
<1>4. ASSUME NEW o \in ThreadObjects, NEW other \in ThreadObjects, ThreadMove(o, other) PROVE ThreadInv'
  BY <1>4 DEF ThreadMove
<1>5. CASE UNCHANGED threadVars
  BY <1>5 DEF threadVars
<1>6. EventNext => UNCHANGED threadVars
  BY DEF EventNext, SyncCall, Enter, EventSet, EventReset, EventWait, EventWaitRefused, Late, Leave,
         KernelSet, KernelReset, KernelWait, KernelTimeout
<1> QED
  BY <1>1, <1>2, <1>3, <1>4, <1>5, <1>6 DEF SyncNext, ThreadNext, syncVars

\* No object holds a thread that was joined, and one holds any other.
LEMMA ThreadInvHeld == ThreadInv => ThreadsHeld
<1> SUFFICES ASSUME ThreadInv, NEW n \in 1 .. started
             PROVE  Cardinality({o \in ThreadObjects : objects[o] = n}) = (IF n \in joined THEN 0 ELSE 1)
  BY DEF ThreadsHeld
<1>1. CASE n \in joined
  <2>1. {o \in ThreadObjects : objects[o] = n} = {}
    BY <1>1 DEF ThreadInv, HeldUntilJoined
  <2> QED
    BY <1>1, <2>1, FS_EmptySet
<1>2. CASE n \notin joined
  <2>1. PICK o \in ThreadObjects : objects[o] = n
    BY <1>2 DEF ThreadInv, HeldUntilJoined
  <2>2. Valid(o)
    BY <2>1 DEF ThreadInv, ThreadTypeOK, Valid, NoObject, invalid_data
  <2>3. {q \in ThreadObjects : objects[q] = n} = {o}
    BY <2>1, <2>2 DEF ThreadInv, HeldOnce
  <2> QED
    BY <1>2, <2>3, FS_Singleton
<1> QED
  BY <1>1, <1>2

\* However many threads set, reset and wait for an event, at most one of them
\* is between the lock and the unlock of its mutex (Mutex.hpp, Event.hpp).
THEOREM EventMutualExclusion ==
  SyncSpec => [](\A t, u \in SyncThreads :
     at[t] \in {"inside", "leaving", "failed"} /\ at[u] \in {"inside", "leaving", "failed"} => t = u)
<1>1. EventInv /\ [SyncNext]_syncVars => EventInv'
  BY EventInvStep
<1>2. EventInv => \A t, u \in SyncThreads :
       at[t] \in {"inside", "leaving", "failed"} /\ at[u] \in {"inside", "leaving", "failed"} => t = u
  BY DEF EventInv, MutexHeld
<1> QED
  BY EventInvInit, <1>1, <1>2, PTL DEF SyncSpec

\* Nobody sleeps through a set, an automatic event releases no more waits than
\* it was set, and a thread is held by one object until it is joined, for any
\* threads and objects, if a manual event has one waiter at a time
\* (Event.hpp set, wait; Thread.hpp).
THEOREM SyncCorrect == SyncSpec => [](OneWaiterKept => SyncKeeps)
<1>1. EventInv /\ [SyncNext]_syncVars => EventInv'
  BY EventInvStep
<1>2. EventInv /\ ThreadInv => (OneWaiterKept => SyncKeeps)
  BY ThreadInvHeld DEF EventInv, SyncKeeps
<1> QED
  BY EventInvInit, ThreadInvInit, ThreadInvStep, <1>1, <1>2, PTL DEF SyncSpec

-----------------------------------------------------------------------------
(* Physics.                                                                *)

IsBounds(b) == b \in Int \X Int /\ b[1] <= b[2]

\* What physics.cpp keeps: bounds in order, and cameras of their type.
PhysicsTyped(p) ==
    /\ p = [bounds |-> p.bounds, cameras |-> p.cameras, objects |-> p.objects, queue |-> p.queue]
    /\ IsBounds(p.bounds)
    /\ p.cameras = [c \in DOMAIN p.cameras |-> p.cameras[c]]
    /\ \A c \in DOMAIN p.cameras : p.cameras[c] \in [bounded : BOOLEAN, position : Int]

PostsTyped == cameraPosts = [c \in DOMAIN cameraPosts |-> cameraPosts[c]]

\* Cameras that are where they should be and that the viewer was told of.
InBounds(p, c) ==
    /\ p.cameras[c].bounded => p.bounds[1] <= p.cameras[c].position /\ p.cameras[c].position <= p.bounds[2]
    /\ c \in DOMAIN cameraPosts /\ cameraPosts[c] = p.cameras[c].position

PhysicsInv ==
    /\ PhysicsTyped(physics) /\ PostsTyped
    /\ pcalls \in Seq(PhysicsCalls)
    /\ \A c \in DOMAIN physics.cameras : InBounds(physics, c)

\* Camera::update leaves a bounded camera inside the bounds, wherever it was.
LEMMA CameraUpdateInBounds ==
    ASSUME NEW camera \in [bounded : BOOLEAN, position : Int], NEW movement \in Int,
           NEW b \in Int \X Int, b[1] <= b[2]
    PROVE  /\ CameraUpdate(camera, movement, b) \in [bounded : BOOLEAN, position : Int]
           /\ CameraUpdate(camera, movement, b).bounded =>
                 /\ b[1] <= CameraUpdate(camera, movement, b).position
                 /\ CameraUpdate(camera, movement, b).position <= b[2]
<1> DEFINE moved == camera.position + movement
           position == IF camera.bounded THEN Clamped(moved, b) ELSE moved
<1>1. moved \in Int /\ b[1] \in Int /\ b[2] \in Int
  OBVIOUS
<1>2. Clamped(moved, b) \in Int /\ b[1] <= Clamped(moved, b) /\ Clamped(moved, b) <= b[2]
  BY <1>1 DEF Clamped
<1>3. CameraUpdate(camera, movement, b) = [bounded |-> camera.bounded, position |-> position]
  BY DEF CameraUpdate
<1>4. position \in Int /\ (camera.bounded => b[1] <= position /\ position <= b[2])
  BY <1>1, <1>2
<1> HIDE DEF position
<1> QED
  BY <1>3, <1>4

\* The update of all cameras of cs, when every other one is where it should
\* be already.
LEMMA UpdateCamerasKeeps ==
    ASSUME NEW p, NEW cs, NEW movement \in Int, PhysicsTyped(p), PostsTyped, cs \subseteq DOMAIN p.cameras,
           \A c \in DOMAIN p.cameras \ cs : InBounds(p, c),
           UpdateCameras(p, cs, movement)
    PROVE  PhysicsTyped(physics)' /\ PostsTyped' /\ \A c \in DOMAIN physics'.cameras : InBounds(physics, c)'
<1> DEFINE cameras == [c \in DOMAIN p.cameras |->
                          IF c \in cs THEN CameraUpdate(p.cameras[c], movement, p.bounds) ELSE p.cameras[c]]
           q == [p EXCEPT !.cameras = cameras]
<1>1. physics' = q /\ cameraPosts' = [c \in DOMAIN cameraPosts \cup cs |->
                                         IF c \in cs THEN cameras[c].position ELSE cameraPosts[c]]
  BY DEF UpdateCameras
<1>2. q = [bounds |-> p.bounds, cameras |-> cameras, objects |-> p.objects, queue |-> p.queue]
  BY DEF PhysicsTyped
<1>3. IsBounds(p.bounds) /\ \A c \in DOMAIN p.cameras : p.cameras[c] \in [bounded : BOOLEAN, position : Int]
  BY DEF PhysicsTyped
<1>4. ASSUME NEW c \in DOMAIN p.cameras
      PROVE  /\ cameras[c] \in [bounded : BOOLEAN, position : Int]
             /\ c \in cs /\ cameras[c].bounded => p.bounds[1] <= cameras[c].position /\ cameras[c].position <= p.bounds[2]
             /\ c \notin cs => cameras[c] = p.cameras[c]
  BY <1>3, CameraUpdateInBounds DEF IsBounds
<1>5. DOMAIN cameras = DOMAIN p.cameras /\ cameras = [c \in DOMAIN cameras |-> cameras[c]]
  OBVIOUS
<1> HIDE DEF cameras
<1>6. PhysicsTyped(physics')
  BY <1>1, <1>2, <1>3, <1>4, <1>5 DEF PhysicsTyped
<1>7. PostsTyped'
  BY <1>1 DEF PostsTyped
<1>8. ASSUME NEW c \in DOMAIN physics'.cameras PROVE InBounds(physics, c)'
  <2>1. c \in DOMAIN p.cameras /\ physics'.cameras[c] = cameras[c] /\ physics'.bounds = p.bounds
    BY <1>1, <1>2, <1>5, <1>8
  <2>2. CASE c \in cs
    BY <2>1, <2>2, <1>1, <1>4 DEF InBounds
  <2>3. CASE c \notin cs
    <3>1. InBounds(p, c) /\ cameras[c] = p.cameras[c]
      BY <2>1, <2>3, <1>4
    <3> QED
      BY <2>1, <2>3, <3>1, <1>1 DEF InBounds
  <2> QED
    BY <2>2, <2>3
<1> QED
  BY <1>6, <1>7, <1>8 DEF PhysicsTyped

\* There is no camera and nothing was posted.
LEMMA PhysicsInvInit == PhysicsInit => PhysicsInv
<1> SUFFICES ASSUME PhysicsInit PROVE PhysicsInv
  OBVIOUS
<1>1. physics.bounds = <<-Unbounded, Unbounded>> /\ physics.cameras = <<>> /\ cameraPosts = <<>>
  BY DEF PhysicsInit
<1>2. DOMAIN physics.cameras = {} /\ DOMAIN cameraPosts = {}
  BY <1>1
<1>3. IsBounds(physics.bounds)
  BY <1>1, PhysicsAssumption DEF PhysicsAssumption, IsBounds
<1>4. physics.cameras = [c \in DOMAIN physics.cameras |-> physics.cameras[c]] /\ PostsTyped
  BY <1>1 DEF PostsTyped
<1>5. pcalls \in Seq(PhysicsCalls)
  BY PhysicsAssumption DEF PhysicsAssumption, PhysicsInit
<1>6. physics = [bounds |-> physics.bounds, cameras |-> physics.cameras, objects |-> physics.objects, queue |-> physics.queue]
  BY DEF PhysicsInit
<1> QED
  BY <1>2, <1>3, <1>4, <1>5, <1>6 DEF PhysicsInv, PhysicsTyped

\* Steps that change neither the bounds, the cameras nor what was posted.
LEMMA CamerasRest ==
    ASSUME PhysicsTyped(physics), PostsTyped, \A c \in DOMAIN physics.cameras : InBounds(physics, c),
           NEW bodies, NEW queue, UNCHANGED cameraPosts,
           physics' = [physics EXCEPT !.objects = bodies, !.queue = queue]
    PROVE  PhysicsTyped(physics)' /\ PostsTyped' /\ \A c \in DOMAIN physics'.cameras : InBounds(physics, c)'
<1>1. physics' = [bounds |-> physics.bounds, cameras |-> physics.cameras, objects |-> bodies, queue |-> queue]
  BY DEF PhysicsTyped
<1>2. PhysicsTyped(physics)'
  BY <1>1 DEF PhysicsTyped
<1> QED
  BY <1>1, <1>2 DEF PostsTyped, InBounds

\* Every call and every frame keeps the bounded cameras inside, and the
\* viewer told.
LEMMA PhysicsInvStep == PhysicsInv /\ [PhysicsNext]_physicsVars => PhysicsInv'
<1> SUFFICES ASSUME PhysicsInv, [PhysicsNext]_physicsVars PROVE PhysicsInv'
  OBVIOUS
<1>i. /\ PhysicsTyped(physics) /\ PostsTyped /\ pcalls \in Seq(PhysicsCalls)
      /\ \A c \in DOMAIN physics.cameras : InBounds(physics, c)
  BY DEF PhysicsInv
<1>r. physics = [bounds |-> physics.bounds, cameras |-> physics.cameras, objects |-> physics.objects, queue |-> physics.queue]
  BY <1>i DEF PhysicsTyped
<1>1. CASE PhysicsCall
  <2> DEFINE x == Head(pcalls)
  <2>1. pcalls # <<>> /\ pcalls' = Tail(pcalls) /\ x \in PhysicsCalls /\ pcalls' \in Seq(PhysicsCalls)
    BY <1>1, <1>i DEF PhysicsCall
  <2> SUFFICES PhysicsTyped(physics)' /\ PostsTyped' /\ \A c \in DOMAIN physics'.cameras : InBounds(physics, c)'
    BY <2>1 DEF PhysicsInv
  <2> HIDE DEF x
  <2>2. CASE x.type = "set" /\ set(x.bounds)
    <3> DEFINE p == [physics EXCEPT !.bounds = x.bounds]
    <3>1. IsBounds(x.bounds)
      BY <2>1, <2>2, PhysicsAssumption DEF PhysicsAssumption, IsBounds
    <3>2. p = [bounds |-> x.bounds, cameras |-> physics.cameras, objects |-> physics.objects, queue |-> physics.queue]
      BY <1>r
    <3>3. PhysicsTyped(p) /\ p.cameras = physics.cameras
      BY <3>1, <3>2, <1>i DEF PhysicsTyped
    <3>4. UpdateCameras(p, DOMAIN physics.cameras, 0)
      BY <2>2 DEF set
    <3> HIDE DEF p
    <3> QED
      BY <3>3, <3>4, <1>i, UpdateCamerasKeeps
  <2>3. CASE x.type = "add" /\ add(x.id, x.position, x.bounded)
    <3> DEFINE isNew == x.id \notin DOMAIN physics.cameras /\ Cardinality(DOMAIN physics.cameras) < CameraCells
               camera == [bounded |-> x.bounded, position |-> x.position]
               more == EmplaceCamera(physics.cameras, x.id, camera)
               p == IF isNew THEN [physics EXCEPT !.cameras = more] ELSE physics
    <3>1. camera \in [bounded : BOOLEAN, position : Int]
      BY <2>1, <2>3, PhysicsAssumption DEF PhysicsAssumption
    <3>2. UpdateCameras(p, {x.id} \cap DOMAIN p.cameras, 0)
      BY <2>3 DEF add
    <3>3. PhysicsTyped(p) /\ p.bounds = physics.bounds /\ \A c \in DOMAIN p.cameras \ ({x.id} \cap DOMAIN p.cameras) : InBounds(p, c)
      <4>1. CASE isNew
        <5>1. p = [bounds |-> physics.bounds, cameras |-> more, objects |-> physics.objects, queue |-> physics.queue]
          BY <4>1, <1>r
        <5>2. /\ DOMAIN more = DOMAIN physics.cameras \cup {x.id} /\ more = [c \in DOMAIN more |-> more[c]]
              /\ \A c \in DOMAIN more : \/ c = x.id /\ more[c] = camera
                                        \/ c \in DOMAIN physics.cameras /\ c # x.id /\ more[c] = physics.cameras[c]
          <6>1. more = [c \in DOMAIN physics.cameras \cup {x.id} |-> IF c = x.id THEN camera ELSE physics.cameras[c]]
            BY DEF EmplaceCamera
          <6> HIDE DEF more, camera
          <6>2. DOMAIN more = DOMAIN physics.cameras \cup {x.id}
            BY <6>1
          <6>3. more = [c \in DOMAIN more |-> more[c]]
            BY <6>1
          <6>4. \A c \in DOMAIN more : more[c] = IF c = x.id THEN camera ELSE physics.cameras[c]
            BY <6>1
          <6> QED
            BY <6>2, <6>3, <6>4
        <5> HIDE DEF more, camera, p
        <5>3. PhysicsTyped(p)
          BY <5>1, <5>2, <3>1, <1>i DEF PhysicsTyped
        <5>4. ASSUME NEW c \in DOMAIN p.cameras \ ({x.id} \cap DOMAIN p.cameras) PROVE InBounds(p, c)
          BY <5>1, <5>2, <1>i DEF InBounds
        <5> QED
          BY <5>1, <5>3, <5>4
      <4>2. CASE ~isNew
        BY <4>2, <1>i
      <4> QED
        BY <4>1, <4>2
    <3> HIDE DEF p
    <3> QED
      BY <3>2, <3>3, <1>i, UpdateCamerasKeeps
  <2>4. CASE x.type = "update" /\ updateCamera(x.id, x.movement)
    <3>1. x.movement \in Int
      BY <2>1, <2>4, PhysicsAssumption DEF PhysicsAssumption
    <3>2. UpdateCameras(physics, {x.id} \cap DOMAIN physics.cameras, x.movement)
      BY <2>4 DEF updateCamera
    <3> QED
      BY <3>1, <3>2, <1>i, UpdateCamerasKeeps
  <2>5. CASE x.type \notin {"set", "add", "update"} /\ physics' = PhysicsPosted(physics, x) /\ UNCHANGED cameraPosts
    <3>1. physics' = [physics EXCEPT !.objects = physics.objects, !.queue = Append(physics.queue, x)]
      BY <2>5, <1>r DEF PhysicsPosted
    <3> QED
      BY <3>1, <2>5, <1>i, CamerasRest
  <2> QED
    BY <1>1, <2>2, <2>3, <2>4, <2>5 DEF PhysicsCall, x
<1>2. CASE update_start
  <2>1. physics' = [physics EXCEPT !.objects = ProcessPhysics(physics.objects, Head(physics.queue)), !.queue = Tail(physics.queue)]
    BY <1>2, <1>r DEF update_start
  <2>2. UNCHANGED <<cameraPosts, pcalls>>
    BY <1>2 DEF update_start
  <2> QED
    BY <2>1, <2>2, <1>i, CamerasRest DEF PhysicsInv
<1>3. CASE update_finish \/ UNCHANGED physicsVars
  <2>1. UNCHANGED <<physics, cameraPosts, pcalls>>
    BY <1>3 DEF update_finish, physicsVars
  <2> QED
    BY <2>1, <1>i DEF PhysicsInv, PhysicsTyped, PostsTyped, InBounds
<1> QED
  BY <1>1, <1>2, <1>3 DEF PhysicsNext

\* Whatever is called and posted, a bounded camera is inside the bounds and
\* the viewer was told where every camera is (physics.cpp set, add, update).
THEOREM CamerasCorrect == PhysicsSpec => []CamerasInBounds
<1>1. PhysicsInv => CamerasInBounds
  BY DEF PhysicsInv, InBounds, CamerasInBounds
<1> QED
  BY <1>1, PhysicsInvInit, PhysicsInvStep, PTL DEF PhysicsSpec

-----------------------------------------------------------------------------
(* Mixer: the parts of the inductive invariant.                            *)

AssetMessages == {x \in MixerMessages : x.type \in {"armature", "object"}}

MessagesTyped ==
    /\ mscript \in Seq(MixerMessages)
    /\ queues \in [{"assets", "entities"} -> Seq(MixerMessages)]
    /\ queues["assets"] \in Seq(AssetMessages)

SourcesTyped ==
    \A s \in DOMAIN sources :
        nullptr \notin DOMAIN sources[s].actions /\ \A n \in DOMAIN sources[s].actions : sources[s].actions[n].length \in Nat

NumbersTyped ==
    /\ frames \in Nat /\ left \in Nat /\ next_mixer_key \in Nat
    /\ \A m \in DOMAIN mixers : m \in Nat /\ m < next_mixer_key

PlaybackTyped(x) ==
    /\ x = [type |-> x.type, source |-> x.source, action |-> x.action, repeat |-> x.repeat,
            finished |-> x.finished, framei |-> x.framei]
    /\ x.type \in {"Playback", "ObjectPlayback"} /\ x.repeat \in BOOLEAN /\ x.finished \in BOOLEAN /\ x.framei \in Nat

\* The source of a playback stays, with its action.
PlaybackOf(x) == x.source \in DOMAIN sources /\ x.action \in {nullptr} \cup DOMAIN sources[x.source].actions

PlaybacksTyped == \A m \in DOMAIN mixers : PlaybackTyped(mixers[m]) /\ PlaybackOf(mixers[m])

ComponentTyped(c) ==
    /\ c = [type |-> c.type, source |-> c.source, mixer |-> c.mixer]
    /\ c.type \in {"Character", "Model"} /\ c.source \in DOMAIN sources
    /\ c.mixer = invalid_mixer \/ c.mixer \in DOMAIN mixers

ComponentsTyped == \A e \in DOMAIN components : ComponentTyped(components[e])

AskedTyped ==
    \A e \in DOMAIN asked :
        /\ e \in DOMAIN components
        /\ asked[e].since \in Nat /\ asked[e].since <= frames /\ asked[e].repeat \in BOOLEAN
        /\ asked[e].action \in {nullptr} \cup DOMAIN sources[components[e].source].actions

Ticks(e) == frames - asked[e].since
LengthOf(e) == sources[components[e].source].actions[asked[e].action].length

\* The playback x of a component c that was given a, t frames ago.
InTime(c, a, x, t, length) ==
    /\ x.type = IF c.type = "Character" THEN "Playback" ELSE "ObjectPlayback"
    /\ x.source = c.source /\ x.action = a.action /\ x.repeat = a.repeat
    /\ c.type = "Model" => ~x.finished
    /\ x.action # nullptr /\ length > 0 =>
          /\ x.framei = FrameDue(c.type, a, length, t)
          /\ x.finished <=> (~x.repeat /\ t >= length)

\* A component without a mixer was never given an action, or has played it.
Rests(e) ==
    /\ components[e].mixer = invalid_mixer
    /\ e \in DOMAIN asked =>
          /\ components[e].type = "Model" /\ asked[e].action # nullptr
          /\ ~asked[e].repeat /\ Ticks(e) >= LengthOf(e)

Plays(e) ==
    /\ components[e].mixer # invalid_mixer /\ e \in DOMAIN asked
    /\ InTime(components[e], asked[e], mixers[components[e].mixer], Ticks(e), LengthOf(e))

ComponentsInTime == \A e \in DOMAIN components : Rests(e) \/ Plays(e)

Players == {e \in DOMAIN components : components[e].mixer # invalid_mixer}

MixersUnshared == \A e, f \in Players : components[e].mixer = components[f].mixer => e = f

MixersCounted ==
    /\ IsFiniteSet(DOMAIN mixers) /\ IsFiniteSet(Players)
    /\ Cardinality(DOMAIN mixers) = left + Cardinality(Players)

MixerSound ==
    /\ NumbersTyped /\ SourcesTyped /\ PlaybacksTyped /\ ComponentsTyped /\ AskedTyped
    /\ ComponentsInTime /\ MixersUnshared /\ MixersCounted

MixerInv == MessagesTyped /\ MixerSound /\ CrashesExplained

-----------------------------------------------------------------------------
(* A frame of one playback.                                                *)

\* The next remainder: t + 1 is one further, or back at the start.
LEMMA NextRemainder ==
    ASSUME NEW t \in Nat, NEW n \in Nat, n > 0
    PROVE  /\ (t % n) \in 0 .. (n - 1)
           /\ (t + 1) % n = IF (t % n) + 1 = n THEN 0 ELSE (t % n) + 1
           /\ ((t % n) + 1) % n = (t + 1) % n
           /\ t < n => t % n = t
<1> DEFINE q == t \div n
           r == t % n
<1>1. r \in 0 .. (n - 1) /\ q \in Nat
  OBVIOUS
<1>2. t = q * n + r
  OBVIOUS
<1>3. t < n => r = t
  OBVIOUS
<1>4. ASSUME NEW k \in Nat, NEW s \in 0 .. (n - 1) PROVE (k * n + s) % n = s
  OBVIOUS
<1>5. ASSUME NEW s \in Nat, s < n PROVE s % n = s
  BY <1>5
<1>6. n % n = 0
  OBVIOUS
<1> HIDE DEF q, r
<1>7. (t + 1) % n = IF r + 1 = n THEN 0 ELSE r + 1
  <2>1. CASE r + 1 = n
    <3>1. t + 1 = (q + 1) * n + 0
      BY <1>1, <1>2, <2>1
    <3>2. q + 1 \in Nat /\ 0 \in 0 .. (n - 1)
      BY <1>1
    <3>3. ((q + 1) * n + 0) % n = 0
      BY <3>2, <1>4
    <3> QED
      BY <3>1, <3>3, <2>1
  <2>2. CASE r + 1 # n
    <3>1. t + 1 = q * n + (r + 1) /\ r + 1 \in 0 .. (n - 1)
      BY <1>1, <1>2, <2>2
    <3> QED
      BY <3>1, <1>1, <1>4, <2>2
  <2> QED
    BY <2>1, <2>2
<1>8. (r + 1) % n = IF r + 1 = n THEN 0 ELSE r + 1
  BY <1>1, <1>5, <1>6
<1> QED
  BY <1>1, <1>3, <1>7, <1>8 DEF r

\* Playback::update and ObjectPlayback::update keep everything but the frame,
\* and take a playback in time from a frame to the next.
LEMMA PlaybackMoves ==
    ASSUME NEW x, PlaybackTyped(x), x.action # nullptr, NEW n \in Nat, n = ActionOf(x).length,
           ~Divides(x), NEW t \in Nat, NEW y, y = MixerUpdate(x)
    PROVE  /\ PlaybackTyped(y)
           /\ y.type = x.type /\ y.source = x.source /\ y.action = x.action /\ y.repeat = x.repeat
           /\ x.type = "Playback" /\ x.framei = t % n /\ (x.finished <=> (~x.repeat /\ t >= n)) =>
                 y.framei = (t + 1) % n /\ (y.finished <=> (~x.repeat /\ t + 1 >= n))
           /\ /\ x.type = "ObjectPlayback" /\ ~x.finished
              /\ n > 0 => x.framei = t % n /\ (x.repeat \/ t < n)
              => /\ y.finished <=> (~x.repeat /\ t + 1 >= n)
                 /\ n > 0 => y.framei = IF ~x.repeat /\ t + 1 >= n THEN n ELSE (t + 1) % n
<1>t. /\ x = [type |-> x.type, source |-> x.source, action |-> x.action, repeat |-> x.repeat,
              finished |-> x.finished, framei |-> x.framei]
      /\ x.type \in {"Playback", "ObjectPlayback"} /\ x.repeat \in BOOLEAN /\ x.finished \in BOOLEAN /\ x.framei \in Nat
  BY DEF PlaybackTyped
<1>1. CASE x.type = "Playback"
  <2>1. n > 0
    BY <1>1 DEF Divides
  <2> DEFINE framei == (x.framei + 1) % n
             finished == x.finished \/ (x.framei + 1 >= n /\ ~x.repeat)
  <2>2. y = [x EXCEPT !.framei = framei, !.finished = finished]
    BY <1>1 DEF MixerUpdate, PlaybackUpdate
  <2>3. framei \in Nat
    BY <2>1, <1>t
  <2>4. finished \in BOOLEAN
    OBVIOUS
  <2>5. x.framei = t % n => framei = (t + 1) % n /\ (t < n => x.framei = t)
    BY <2>1, NextRemainder
  <2>6. x.framei = t % n /\ (x.finished <=> (~x.repeat /\ t >= n)) => (finished <=> (~x.repeat /\ t + 1 >= n))
    BY <2>1, <2>5, <1>t, NextRemainder
  <2> HIDE DEF framei, finished
  <2>7. y = [type |-> x.type, source |-> x.source, action |-> x.action, repeat |-> x.repeat,
             finished |-> finished, framei |-> framei]
    BY <2>2, <1>t
  <2>8. PlaybackTyped(y)
    BY <2>7, <2>3, <2>4, <1>t DEF PlaybackTyped
  <2> QED
    BY <2>5, <2>6, <2>7, <2>8, <1>1
<1>2. CASE x.type = "ObjectPlayback"
  <2> DEFINE over == x.framei + 1 >= n /\ ~x.repeat
             framei == IF x.framei + 1 < n THEN x.framei + 1 ELSE IF x.repeat THEN (x.framei + 1) % n ELSE n
             finished == x.finished \/ over
  <2>1. n = 0 => ~x.repeat
    BY <1>2 DEF Divides
  <2>2. y = [type |-> x.type, source |-> x.source, action |-> x.action, repeat |-> x.repeat,
             finished |-> finished, framei |-> framei]
    <3>1. CASE x.framei + 1 < n
      <4>1. y = [x EXCEPT !.framei = x.framei + 1]
        BY <3>1, <1>2, <1>t DEF MixerUpdate, ObjectPlaybackUpdate
      <4>2. framei = x.framei + 1 /\ finished = x.finished
        BY <3>1, <1>t
      <4> HIDE DEF framei, finished
      <4> QED
        BY <4>1, <4>2, <1>t
    <3>2. CASE ~(x.framei + 1 < n) /\ x.repeat
      <4>1. y = [x EXCEPT !.framei = (x.framei + 1) % n]
        BY <3>2, <1>2, <1>t DEF MixerUpdate, ObjectPlaybackUpdate
      <4>2. framei = (x.framei + 1) % n /\ finished = x.finished
        BY <3>2, <1>t
      <4> HIDE DEF framei, finished
      <4> QED
        BY <4>1, <4>2, <1>t
    <3>3. CASE ~(x.framei + 1 < n) /\ ~x.repeat
      <4>1. y = [x EXCEPT !.finished = TRUE, !.framei = n]
        BY <3>3, <1>2, <1>t DEF MixerUpdate, ObjectPlaybackUpdate
      <4>2. framei = n /\ finished = TRUE
        BY <3>3, <1>t
      <4> HIDE DEF framei, finished
      <4> QED
        BY <4>1, <4>2, <1>t
    <3> QED
      BY <3>1, <3>2, <3>3
  <2>3. framei \in Nat
    BY <2>1, <1>t
  <2>4. finished \in BOOLEAN
    OBVIOUS
  <2>5. ASSUME ~x.finished, n > 0 => x.framei = t % n /\ (x.repeat \/ t < n)
        PROVE  /\ finished <=> (~x.repeat /\ t + 1 >= n)
               /\ n > 0 => framei = IF ~x.repeat /\ t + 1 >= n THEN n ELSE (t + 1) % n
    <3>1. CASE n = 0
      BY <3>1, <2>1, <2>5, <1>t
    <3>2. CASE n > 0
      BY <3>2, <2>5, <1>t, NextRemainder
    <3> QED
      BY <3>1, <3>2
  <2> HIDE DEF framei, finished
  <2>8. PlaybackTyped(y)
    BY <2>2, <2>3, <2>4, <1>t DEF PlaybackTyped
  <2> QED
    BY <2>2, <2>5, <2>8, <1>2
<1> QED
  BY <1>t, <1>1, <1>2

-----------------------------------------------------------------------------
(* The messages.                                                           *)

\* A source is registered: what was there stays as it is.
LEMMA RegisterKeeps ==
    ASSUME MixerSound, NEW x \in AssetMessages, RegisterSource(x), UNCHANGED frames
    PROVE  MixerSound'
<1> USE DEF MixerSound
<1>u. UNCHANGED <<components, mixers, next_mixer_key, asked, left, frames>>
  BY DEF RegisterSource
<1>1. \A s \in DOMAIN sources : s \in DOMAIN sources' /\ sources'[s] = sources[s]
  BY DEF RegisterSource, StoredOnce, Stored
<1>2. SourcesTyped'
  <2>1. nullptr \notin DOMAIN x.actions /\ \A n \in DOMAIN x.actions : x.actions[n].length \in Nat
    BY MixerAssumption DEF MixerAssumption, AssetMessages
  <2> DEFINE source == [type |-> x.type, actions |-> x.actions]
  <2>2. source.actions = x.actions
    OBVIOUS
  <2>3. ASSUME NEW s \in DOMAIN sources' PROVE (s \in DOMAIN sources /\ sources'[s] = sources[s]) \/ sources'[s] = source
    BY <2>3 DEF RegisterSource, StoredOnce, Stored
  <2> HIDE DEF source
  <2> QED
    BY <2>1, <2>2, <2>3 DEF SourcesTyped
<1>3. NumbersTyped'
  BY <1>u DEF NumbersTyped
<1>4. PlaybacksTyped'
  BY <1>u, <1>1 DEF PlaybacksTyped, PlaybackOf
<1>5. ComponentsTyped'
  BY <1>u, <1>1 DEF ComponentsTyped, ComponentTyped
<1>6. \A e \in DOMAIN components : components[e].source \in DOMAIN sources
  BY DEF ComponentsTyped, ComponentTyped
<1>7. AskedTyped'
  BY <1>u, <1>1, <1>6 DEF AskedTyped
<1>8. ComponentsInTime'
  <2> SUFFICES ASSUME NEW e \in DOMAIN components PROVE (Rests(e) \/ Plays(e))'
    BY <1>u DEF ComponentsInTime
  <2>1. LengthOf(e)' = LengthOf(e) /\ Ticks(e)' = Ticks(e)
    BY <1>u, <1>1, <1>6 DEF LengthOf, Ticks
  <2>2. Rests(e) \/ Plays(e)
    BY DEF ComponentsInTime
  <2> QED
    BY <1>u, <2>1, <2>2 DEF Rests, Plays
<1>9. Players' = Players
  BY <1>u DEF Players
<1>10. MixersUnshared' /\ MixersCounted'
  BY <1>u, <1>9 DEF MixersUnshared, MixersCounted
<1> QED
  BY <1>2, <1>3, <1>4, <1>5, <1>7, <1>8, <1>10

\* A component comes with no mixer and no action, unless there is one already.
LEMMA AddKeeps ==
    ASSUME MixerSound, NEW x, NEW type, NEW kind \in {"Character", "Model"},
           AddComponent(x, type, [type |-> kind, source |-> x.source, mixer |-> invalid_mixer]), UNCHANGED frames
    PROVE  MixerSound'
<1> USE DEF MixerSound
<1> DEFINE c == [type |-> kind, source |-> x.source, mixer |-> invalid_mixer]
<1>u. UNCHANGED <<sources, mixers, next_mixer_key, asked, left, frames>>
  BY DEF AddComponent
<1>1. CASE UNCHANGED components
  BY <1>1, <1>u DEF NumbersTyped, SourcesTyped, PlaybacksTyped, PlaybackOf, ComponentsTyped, ComponentTyped, AskedTyped,
                    ComponentsInTime, Rests, Plays, Ticks, LengthOf, Players, MixersUnshared, MixersCounted
<1>2. CASE x.entity \notin DOMAIN components /\ x.source \in DOMAIN sources /\ components' = Stored(components, x.entity, c)
  <2>1. /\ DOMAIN components' = DOMAIN components \cup {x.entity} /\ components'[x.entity] = c
        /\ \A e \in DOMAIN components : components'[e] = components[e]
    BY <1>2 DEF Stored
  <2>2. ComponentTyped(c)' /\ c.mixer = invalid_mixer
    BY <1>2, <1>u DEF ComponentTyped
  <2> HIDE DEF c
  <2>3. x.entity \notin DOMAIN asked /\ \A e \in DOMAIN asked : e \in DOMAIN components
    BY <1>2 DEF AskedTyped
  <2>4. NumbersTyped' /\ SourcesTyped' /\ PlaybacksTyped'
    BY <1>u DEF NumbersTyped, SourcesTyped, PlaybacksTyped, PlaybackOf
  <2>5. ComponentsTyped'
    BY <1>u, <2>1, <2>2 DEF ComponentsTyped, ComponentTyped
  <2>6. AskedTyped'
    BY <1>u, <2>1 DEF AskedTyped
  <2>7. ASSUME NEW e \in DOMAIN components' PROVE (Rests(e) \/ Plays(e))'
    <3>1. CASE e = x.entity
      BY <1>u, <2>1, <2>2, <2>3, <3>1 DEF Rests
    <3>2. CASE e \in DOMAIN components
      <4>1. components'[e] = components[e]
        BY <2>1, <3>2
      <4>2. LengthOf(e)' = LengthOf(e) /\ Ticks(e)' = Ticks(e)
        BY <1>u, <4>1 DEF LengthOf, Ticks
      <4>3. Rests(e) \/ Plays(e)
        BY <3>2 DEF ComponentsInTime
      <4> QED
        BY <1>u, <4>1, <4>2, <4>3 DEF Rests, Plays
    <3> QED
      BY <2>1, <3>1, <3>2
  <2>8. Players' = Players /\ \A e \in Players : components'[e] = components[e]
    BY <1>2, <2>1, <2>2 DEF Players
  <2>9. MixersUnshared' /\ MixersCounted'
    BY <1>u, <2>8 DEF MixersUnshared, MixersCounted
  <2> QED
    BY <2>4, <2>5, <2>6, <2>7, <2>9 DEF ComponentsInTime
<1> QED
  BY <1>1, <1>2 DEF AddComponent, StoredOnce

\* set_action: the mixer of before goes, and a new one starts at frame 0.
LEMMA SetActionKeeps ==
    ASSUME MixerSound, NEW x \in MixerMessages, x.type = "UpdateAction", x.entity \in DOMAIN components,
           set_action(x), UNCHANGED frames
    PROVE  MixerSound'
<1> USE DEF MixerSound
<1> DEFINE c == components[x.entity]
           action == IF x.name \in DOMAIN sources[c.source].actions THEN x.name ELSE nullptr
           k == next_mixer_key
           y == MakePlayback(c, action, x.repetative)
           a == [action |-> action, repeat |-> x.repetative, since |-> frames]
           d == [c EXCEPT !.mixer = k]
<1>u. UNCHANGED <<sources, left, frames>> /\ next_mixer_key' = k + 1
  BY DEF set_action
<1>c. ComponentTyped(c) /\ x.repetative \in BOOLEAN
  BY MixerAssumption DEF MixerAssumption, ComponentsTyped
<1>n. k \in Nat /\ k # invalid_mixer /\ frames \in Nat /\ \A m \in DOMAIN mixers : m \in Nat /\ m < k
  BY DEF NumbersTyped, invalid_mixer
<1>k. k \notin DOMAIN mixers
  BY <1>n
<1>1. /\ DOMAIN mixers' = (DOMAIN mixers \ {c.mixer}) \cup {k} /\ mixers'[k] = y
      /\ \A m \in DOMAIN mixers \ {c.mixer} : mixers'[m] = mixers[m]
  <2>1. mixers' = Stored(Without(mixers, c.mixer), k, y)
    BY DEF set_action
  <2> HIDE DEF y, k
  <2> QED
    BY <2>1, <1>k DEF Stored, Without
<1>2. /\ DOMAIN components' = DOMAIN components /\ components'[x.entity] = d
      /\ \A e \in DOMAIN components \ {x.entity} : components'[e] = components[e]
  BY DEF set_action
<1>3. /\ DOMAIN asked' = DOMAIN asked \cup {x.entity} /\ asked'[x.entity] = a
      /\ \A e \in DOMAIN asked \ {x.entity} : asked'[e] = asked[e]
  <2>1. asked' = Stored(asked, x.entity, a)
    BY DEF set_action
  <2> HIDE DEF a
  <2> QED
    BY <2>1 DEF Stored
<1>4. d = [type |-> c.type, source |-> c.source, mixer |-> k]
  BY <1>c DEF ComponentTyped
<1>5. /\ y = [type |-> IF c.type = "Character" THEN "Playback" ELSE "ObjectPlayback", source |-> c.source, action |-> action,
              repeat |-> x.repetative, finished |-> FALSE, framei |-> 0]
      /\ PlaybackTyped(y) /\ PlaybackOf(y)
  <2>1. y = [type |-> IF c.type = "Character" THEN "Playback" ELSE "ObjectPlayback", source |-> c.source, action |-> action,
             repeat |-> x.repetative, finished |-> FALSE, framei |-> 0]
    BY DEF MakePlayback, Playback, ObjectPlayback
  <2>2. action \in {nullptr} \cup DOMAIN sources[c.source].actions
    OBVIOUS
  <2> HIDE DEF y, action
  <2>3. PlaybackTyped(y)
    BY <2>1, <1>c DEF PlaybackTyped
  <2>4. PlaybackOf(y)
    BY <2>1, <2>2, <1>c DEF PlaybackOf, ComponentTyped
  <2> QED
    BY <2>1, <2>3, <2>4
<1>6. a.action = action /\ a.repeat = x.repetative /\ a.since = frames
  OBVIOUS
<1>7. action = nullptr \/ (action \in DOMAIN sources[c.source].actions /\ sources[c.source].actions[action].length \in Nat)
  BY <1>c DEF SourcesTyped, ComponentTyped
<1> HIDE DEF d, y, a, k
<1>8. NumbersTyped' /\ SourcesTyped'
  BY <1>u, <1>1, <1>n DEF NumbersTyped, SourcesTyped, k
<1>9. PlaybacksTyped'
  <2>1. ASSUME NEW m \in DOMAIN mixers' PROVE PlaybackTyped(mixers'[m]) /\ PlaybackOf(mixers'[m])
    <3>1. CASE m = k
      BY <3>1, <1>1, <1>5
    <3>2. CASE m # k
      BY <3>2, <1>1 DEF PlaybacksTyped
    <3> QED
      BY <3>1, <3>2
  <2> QED
    BY <2>1, <1>u DEF PlaybacksTyped, PlaybackOf
<1>10. \A e \in DOMAIN components \ {x.entity} :
          components[e].mixer = invalid_mixer \/ components[e].mixer \in DOMAIN mixers \ {c.mixer}
  <2> SUFFICES ASSUME NEW e \in DOMAIN components \ {x.entity}, components[e].mixer # invalid_mixer
               PROVE  components[e].mixer \in DOMAIN mixers /\ components[e].mixer # c.mixer
    OBVIOUS
  <2> QED
    BY DEF ComponentsTyped, ComponentTyped, MixersUnshared, Players
<1>11. ComponentsTyped'
  <2> SUFFICES ASSUME NEW e \in DOMAIN components PROVE ComponentTyped(components[e])'
    BY <1>2 DEF ComponentsTyped
  <2>1. CASE e = x.entity
    BY <2>1, <1>u, <1>c, <1>1, <1>2, <1>4 DEF ComponentTyped
  <2>2. CASE e # x.entity
    BY <2>2, <1>u, <1>1, <1>2, <1>10 DEF ComponentsTyped, ComponentTyped
  <2> QED
    BY <2>1, <2>2
<1>12. AskedTyped'
  <2> SUFFICES ASSUME NEW e \in DOMAIN asked'
               PROVE  /\ e \in DOMAIN components' /\ asked'[e].since \in Nat /\ asked'[e].since <= frames' /\ asked'[e].repeat \in BOOLEAN
                      /\ asked'[e].action \in {nullptr} \cup DOMAIN sources'[components'[e].source].actions
    BY DEF AskedTyped
  <2>1. CASE e = x.entity
    <3>1. components'[e].source = c.source
      BY <1>2, <1>4, <2>1
    <3> QED
      BY <1>u, <1>2, <1>3, <1>6, <1>7, <1>c, <1>n, <2>1, <3>1
  <2>2. CASE e # x.entity
    BY <1>u, <1>2, <1>3, <2>2 DEF AskedTyped
  <2> QED
    BY <2>1, <2>2
<1>13. ASSUME NEW e \in DOMAIN components PROVE (Rests(e) \/ Plays(e))'
  <2>1. CASE e = x.entity
    <3>1. components'[e].mixer = k /\ components'[e] = d /\ mixers'[k] = y /\ asked'[e] = a /\ e \in DOMAIN asked'
      BY <1>1, <1>2, <1>3, <1>4, <2>1
    <3>2. Ticks(e)' = 0
      BY <1>u, <1>n, <1>6, <3>1 DEF Ticks
    <3>3. LengthOf(e)' = sources[c.source].actions[action].length
      BY <1>u, <1>4, <1>6, <3>1 DEF LengthOf
    <3>4. ASSUME NEW n \in Nat, n > 0 PROVE FrameDue(d.type, a, n, 0) = 0
      BY <3>4 DEF FrameDue
    <3>5. y.finished = FALSE /\ y.framei = 0 /\ y.action = action /\ y.repeat = x.repetative /\ y.source = c.source
          /\ y.type = (IF c.type = "Character" THEN "Playback" ELSE "ObjectPlayback") /\ d.type = c.type /\ d.source = c.source
      BY <1>4, <1>5
    <3>6. InTime(d, a, y, 0, sources[c.source].actions[action].length)
      BY <3>4, <3>5, <1>6, <1>7 DEF InTime
    <3> QED
      BY <3>1, <3>2, <3>3, <3>6, <1>n DEF Plays
  <2>2. CASE e # x.entity
    <3>1. components'[e] = components[e] /\ (e \in DOMAIN asked' <=> e \in DOMAIN asked) /\ (e \in DOMAIN asked => asked'[e] = asked[e])
      BY <1>2, <1>3, <2>2
    <3>2. components[e].mixer # invalid_mixer => mixers'[components[e].mixer] = mixers[components[e].mixer]
      BY <1>1, <1>10, <2>2
    <3>3. e \in DOMAIN asked => LengthOf(e)' = LengthOf(e) /\ Ticks(e)' = Ticks(e)
      BY <1>u, <3>1 DEF LengthOf, Ticks
    <3>4. Rests(e) \/ Plays(e)
      BY DEF ComponentsInTime
    <3> QED
      BY <3>1, <3>2, <3>3, <3>4 DEF Rests, Plays
  <2> QED
    BY <2>1, <2>2
<1>14. Players' = Players \cup {x.entity}
  BY <1>2, <1>4, <1>n DEF Players
<1>15. MixersUnshared'
  <2> SUFFICES ASSUME NEW e \in Players', NEW f \in Players', components'[e].mixer = components'[f].mixer, e # f PROVE FALSE
    BY DEF MixersUnshared
  <2>1. CASE e # x.entity /\ f # x.entity
    BY <1>2, <1>14, <2>1 DEF MixersUnshared, Players
  <2>2. ASSUME NEW g \in Players', g # x.entity PROVE components'[g].mixer # k
    BY <2>2, <1>2, <1>10, <1>14, <1>k DEF Players
  <2> QED
    BY <2>1, <2>2, <1>2, <1>4
<1>16. MixersCounted'
  <2>1. IsFiniteSet(DOMAIN mixers) /\ IsFiniteSet(Players) /\ Cardinality(DOMAIN mixers) = left + Cardinality(Players) /\ left \in Nat
    BY DEF MixersCounted, NumbersTyped
  <2>2. CASE c.mixer = invalid_mixer
    <3>1. x.entity \notin Players /\ DOMAIN mixers' = DOMAIN mixers \cup {k}
      BY <2>2, <1>1, <1>n DEF Players, invalid_mixer
    <3>2. /\ IsFiniteSet(DOMAIN mixers') /\ Cardinality(DOMAIN mixers') = Cardinality(DOMAIN mixers) + 1
          /\ IsFiniteSet(Players') /\ Cardinality(Players') = Cardinality(Players) + 1
      BY <2>1, <3>1, <1>14, <1>k, FS_AddElement
    <3>3. Cardinality(Players) \in Nat
      BY <2>1, FS_CardinalityType
    <3> QED
      BY <2>1, <3>2, <3>3, <1>u DEF MixersCounted
  <2>3. CASE c.mixer # invalid_mixer
    <3>1. c.mixer \in DOMAIN mixers /\ Players' = Players
      BY <2>3, <1>c, <1>14 DEF ComponentTyped, Players
    <3>2. IsFiniteSet(DOMAIN mixers \ {c.mixer}) /\ Cardinality(DOMAIN mixers \ {c.mixer}) = Cardinality(DOMAIN mixers) - 1
      BY <2>1, <3>1, FS_RemoveElement
    <3>3. IsFiniteSet(DOMAIN mixers') /\ Cardinality(DOMAIN mixers') = Cardinality(DOMAIN mixers \ {c.mixer}) + 1
      <4> DEFINE others == DOMAIN mixers \ {c.mixer}
      <4>1. k \notin others /\ DOMAIN mixers' = others \cup {k} /\ IsFiniteSet(others)
        BY <1>1, <1>k, <3>2
      <4> HIDE DEF others
      <4>2. IsFiniteSet(others \cup {k}) /\ Cardinality(others \cup {k}) = Cardinality(others) + 1
        BY <4>1, FS_AddElement
      <4> QED
        BY <4>1, <4>2 DEF others
    <3>4. Cardinality(DOMAIN mixers) \in Nat /\ Cardinality(Players) \in Nat
      BY <2>1, FS_CardinalityType
    <3> QED
      BY <2>1, <3>1, <3>2, <3>3, <3>4, <1>u DEF MixersCounted
  <2> QED
    BY <2>2, <2>3
<1> QED
  BY <1>2, <1>8, <1>9, <1>11, <1>12, <1>13, <1>15, <1>16 DEF ComponentsInTime

\* A component goes and leaves its mixer behind.
LEMMA RemoveKeeps ==
    ASSUME MixerSound, NEW x, x.entity \in DOMAIN components, RemoveComponent(x), UNCHANGED frames
    PROVE  MixerSound'
<1> USE DEF MixerSound
<1>u. UNCHANGED <<sources, mixers, next_mixer_key, frames>>
  BY DEF RemoveComponent
<1>1. DOMAIN components' = DOMAIN components \ {x.entity} /\ \A e \in DOMAIN components' : components'[e] = components[e]
  BY DEF RemoveComponent, Without
<1>2. DOMAIN asked' = DOMAIN asked \ {x.entity} /\ \A e \in DOMAIN asked' : asked'[e] = asked[e]
  BY DEF RemoveComponent, Without
<1>3. left' = IF components[x.entity].mixer = invalid_mixer THEN left ELSE left + 1
  BY DEF RemoveComponent
<1>4. NumbersTyped' /\ SourcesTyped' /\ PlaybacksTyped'
  BY <1>u, <1>3 DEF NumbersTyped, SourcesTyped, PlaybacksTyped, PlaybackOf
<1>5. ComponentsTyped'
  BY <1>u, <1>1 DEF ComponentsTyped, ComponentTyped
<1>6. AskedTyped'
  BY <1>u, <1>1, <1>2 DEF AskedTyped
<1>7. ASSUME NEW e \in DOMAIN components' PROVE (Rests(e) \/ Plays(e))'
  <2>1. components'[e] = components[e] /\ (e \in DOMAIN asked' <=> e \in DOMAIN asked) /\ (e \in DOMAIN asked => asked'[e] = asked[e])
    BY <1>1, <1>2
  <2>2. e \in DOMAIN asked => LengthOf(e)' = LengthOf(e) /\ Ticks(e)' = Ticks(e)
    BY <1>u, <2>1 DEF LengthOf, Ticks
  <2>3. Rests(e) \/ Plays(e)
    BY <1>1 DEF ComponentsInTime
  <2> QED
    BY <1>u, <2>1, <2>2, <2>3 DEF Rests, Plays
<1>8. Players' = Players \ {x.entity}
  BY <1>1 DEF Players
<1>9. MixersUnshared'
  BY <1>1, <1>8 DEF MixersUnshared, Players
<1>10. MixersCounted'
  <2>1. IsFiniteSet(DOMAIN mixers) /\ IsFiniteSet(Players) /\ Cardinality(DOMAIN mixers) = left + Cardinality(Players) /\ left \in Nat
    BY DEF MixersCounted, NumbersTyped
  <2>2. IsFiniteSet(Players') /\ Cardinality(Players') = IF x.entity \in Players THEN Cardinality(Players) - 1 ELSE Cardinality(Players)
    BY <2>1, <1>8, FS_RemoveElement
  <2>3. x.entity \in Players <=> components[x.entity].mixer # invalid_mixer
    BY DEF Players
  <2>4. Cardinality(Players) \in Nat
    BY <2>1, FS_CardinalityType
  <2> QED
    BY <1>u, <1>3, <2>1, <2>2, <2>3, <2>4 DEF MixersCounted
<1> QED
  BY <1>4, <1>5, <1>6, <1>7, <1>9, <1>10 DEF ComponentsInTime

-----------------------------------------------------------------------------
(* A frame: every playback moves on, and the models that are done let go.  *)

\* update: every playback moves by a frame, the finished ones are finalized.
LEMMA FrameKeeps ==
    ASSUME MixerSound, Dereferences = {}, \A m \in DOMAIN mixers : ~Divides(mixers[m]),
           Finalize([m \in DOMAIN mixers |-> MixerUpdate(mixers[m])]),
           frames' = frames + 1, UNCHANGED <<sources, next_mixer_key, asked, left>>
    PROVE  MixerSound'
<1> USE DEF MixerSound
<1> DEFINE played == [m \in DOMAIN mixers |-> MixerUpdate(mixers[m])]
           over == finalizeFinished(played, "Model")
           dropped == {components[e].mixer : e \in over}
<1>1. DOMAIN mixers' = DOMAIN mixers \ dropped /\ \A m \in DOMAIN mixers' : mixers'[m] = MixerUpdate(mixers[m])
  BY DEF Finalize
<1>2. /\ DOMAIN components' = DOMAIN components
      /\ \A e \in over : components'[e] = [components[e] EXCEPT !.mixer = invalid_mixer]
      /\ \A e \in DOMAIN components \ over : components'[e] = components[e]
  BY DEF Finalize, finalizeFinished, Playing
<1>3. \A e \in DOMAIN components :
         e \in over <=> components[e].type = "Model" /\ e \in Players /\ MixerUpdate(mixers[components[e].mixer]).finished
  BY DEF finalizeFinished, Playing, Players, ComponentsTyped, ComponentTyped
<1> HIDE DEF over, played
<1>4. over \subseteq Players /\ \A e \in Players : components[e].mixer \in DOMAIN mixers /\ e \in DOMAIN components
  BY <1>3 DEF over, finalizeFinished, Playing, Players, ComponentsTyped, ComponentTyped
<1>5. \A e \in Players : e \notin over => components[e].mixer \notin dropped
  BY <1>4 DEF MixersUnshared
<1>6. ASSUME NEW m \in DOMAIN mixers
      PROVE  LET y == MixerUpdate(mixers[m]) IN PlaybackTyped(y) /\ y.source = mixers[m].source /\ y.action = mixers[m].action
  <2> DEFINE x == mixers[m]
  <2>1. PlaybackTyped(x) /\ PlaybackOf(x) /\ ~Divides(x)
    BY DEF PlaybacksTyped
  <2> HIDE DEF x
  <2>2. CASE x.action = nullptr
    <3>1. MixerUpdate(x) = x
      BY <2>2 DEF MixerUpdate, PlaybackUpdate, ObjectPlaybackUpdate
    <3> QED
      BY <2>1, <3>1 DEF x
  <2>3. CASE x.action # nullptr
    <3>1. ActionOf(x).length \in Nat
      BY <2>1, <2>3 DEF ActionOf, PlaybackOf, SourcesTyped
    <3> DEFINE y == MixerUpdate(x)
    <3>2. y = MixerUpdate(x) /\ 0 \in Nat
      OBVIOUS
    <3> HIDE DEF y
    <3> QED
      BY <2>1, <2>3, <3>1, <3>2, PlaybackMoves DEF x
  <2> QED
    BY <2>2, <2>3
<1>7. ASSUME NEW e \in Players
      PROVE  LET y == MixerUpdate(mixers[components[e].mixer])
             IN /\ e \in DOMAIN asked /\ asked[e].action # nullptr
                /\ e \in over => components[e].type = "Model" /\ ~asked[e].repeat /\ Ticks(e) + 1 >= LengthOf(e)
                /\ e \notin over => InTime(components[e], asked[e], y, Ticks(e) + 1, LengthOf(e))
  <2> DEFINE c == components[e]
             a == asked[e]
             x == mixers[c.mixer]
             y == MixerUpdate(x)
             t == Ticks(e)
             n == LengthOf(e)
  <2>1. e \in DOMAIN components /\ c.mixer # invalid_mixer /\ c.mixer \in DOMAIN mixers
    BY <1>4 DEF Players
  <2>2. e \in DOMAIN asked /\ InTime(c, a, x, t, n)
    BY <2>1 DEF ComponentsInTime, Rests, Plays
  <2>3. x.action # nullptr
    BY <2>1 DEF Dereferences
  <2>4. PlaybackTyped(x) /\ PlaybackOf(x) /\ ~Divides(x)
    BY <2>1 DEF PlaybacksTyped
  <2>5. x.source = c.source /\ x.action = a.action /\ x.repeat = a.repeat /\ c.type \in {"Character", "Model"}
        /\ x.type = (IF c.type = "Character" THEN "Playback" ELSE "ObjectPlayback")
    BY <2>1, <2>2 DEF InTime, ComponentsTyped, ComponentTyped
  <2>6. n = ActionOf(x).length /\ n \in Nat
    BY <2>3, <2>4, <2>5 DEF LengthOf, ActionOf, PlaybackOf, SourcesTyped
  <2>7. t \in Nat /\ a.repeat \in BOOLEAN
    BY <2>2 DEF Ticks, AskedTyped, NumbersTyped
  <2>8. e \in over <=> c.type = "Model" /\ y.finished
    BY <1>3, <2>1
  <2>9. y = MixerUpdate(x)
    OBVIOUS
  <2> HIDE DEF c, a, x, y, t, n
  <2>10. CASE c.type = "Character"
    <3>1. n > 0 /\ x.type = "Playback"
      BY <2>3, <2>4, <2>5, <2>6, <2>10 DEF Divides
    <3>2. x.framei = t % n /\ (x.finished <=> (~x.repeat /\ t >= n))
      BY <2>2, <2>3, <2>10, <3>1 DEF InTime, FrameDue
    <3>3. /\ y.framei = (t + 1) % n /\ (y.finished <=> (~x.repeat /\ t + 1 >= n))
          /\ y.type = x.type /\ y.source = x.source /\ y.action = x.action /\ y.repeat = x.repeat
      BY <2>3, <2>4, <2>6, <2>7, <2>9, <3>1, <3>2, PlaybackMoves
    <3>4. InTime(c, a, y, t + 1, n)
      BY <2>5, <2>10, <3>1, <3>3 DEF InTime, FrameDue
    <3> QED
      BY <2>2, <2>3, <2>5, <2>8, <2>10, <3>4 DEF c, a, x, y, t, n
  <2>11. CASE c.type = "Model"
    <3>1. x.type = "ObjectPlayback" /\ ~x.finished
      BY <2>2, <2>5, <2>11 DEF InTime
    <3>2. n > 0 => x.framei = t % n /\ (x.repeat \/ t < n)
      <4> SUFFICES ASSUME n > 0 PROVE x.framei = t % n /\ (x.repeat \/ t < n)
        OBVIOUS
      <4>1. x.framei = FrameDue(c.type, a, n, t) /\ ~(~x.repeat /\ t >= n)
        BY <2>2, <2>3, <3>1 DEF InTime
      <4>2. FrameDue(c.type, a, n, t) = t % n
        BY <2>5, <2>7, <4>1 DEF FrameDue
      <4> QED
        BY <4>1, <4>2, <2>6, <2>7
    <3>3. /\ y.finished <=> (~x.repeat /\ t + 1 >= n)
          /\ n > 0 => y.framei = IF ~x.repeat /\ t + 1 >= n THEN n ELSE (t + 1) % n
          /\ y.type = x.type /\ y.source = x.source /\ y.action = x.action /\ y.repeat = x.repeat
      BY <2>3, <2>4, <2>6, <2>7, <2>9, <3>1, <3>2, PlaybackMoves
    <3>4. y.finished => ~a.repeat /\ t + 1 >= n
      BY <2>5, <3>3
    <3>5. ~y.finished => InTime(c, a, y, t + 1, n)
      BY <2>5, <2>11, <3>3 DEF InTime, FrameDue
    <3> QED
      BY <2>2, <2>3, <2>5, <2>8, <2>11, <3>4, <3>5 DEF c, a, x, y, t, n
  <2> QED
    BY <2>5, <2>10, <2>11
<1>8. ASSUME NEW e \in over PROVE components'[e] = [type |-> components[e].type, source |-> components[e].source, mixer |-> invalid_mixer]
  BY <1>2, <1>4 DEF ComponentsTyped, ComponentTyped
<1>9. NumbersTyped' /\ SourcesTyped'
  BY <1>1 DEF NumbersTyped, SourcesTyped
<1>10. PlaybacksTyped'
  <2>1. ASSUME NEW m \in DOMAIN mixers' PROVE PlaybackTyped(mixers'[m]) /\ PlaybackOf(mixers'[m])
    <3>1. m \in DOMAIN mixers /\ mixers'[m] = MixerUpdate(mixers[m]) /\ PlaybackOf(mixers[m])
      BY <1>1 DEF PlaybacksTyped
    <3> QED
      BY <3>1, <1>6 DEF PlaybackOf
  <2> QED
    BY <2>1 DEF PlaybacksTyped, PlaybackOf
<1>11. \A e \in DOMAIN components : components'[e].type = components[e].type /\ components'[e].source = components[e].source
  BY <1>2, <1>8
<1>12. ComponentsTyped'
  <2> SUFFICES ASSUME NEW e \in DOMAIN components PROVE ComponentTyped(components[e])'
    BY <1>2 DEF ComponentsTyped
  <2>1. CASE e \in over
    <3>1. ComponentTyped(components[e])
      BY DEF ComponentsTyped
    <3>2. components'[e] = [type |-> components[e].type, source |-> components[e].source, mixer |-> invalid_mixer]
      BY <2>1, <1>8
    <3>3. components'[e].mixer = invalid_mixer /\ components'[e] = [type |-> components'[e].type, source |-> components'[e].source, mixer |-> components'[e].mixer]
      BY <3>2
    <3> QED
      BY <3>1, <3>3, <1>11 DEF ComponentTyped
  <2>2. CASE e \notin over
    BY <2>2, <1>1, <1>2, <1>5 DEF ComponentsTyped, ComponentTyped, Players
  <2> QED
    BY <2>1, <2>2
<1>13. AskedTyped'
  BY <1>2, <1>11 DEF AskedTyped, NumbersTyped
<1>14. ASSUME NEW e \in DOMAIN components PROVE (Rests(e) \/ Plays(e))'
  <2>1. LengthOf(e)' = LengthOf(e) /\ (e \in DOMAIN asked => Ticks(e)' = Ticks(e) + 1 /\ Ticks(e) \in Nat)
    BY <1>11 DEF LengthOf, Ticks, AskedTyped, NumbersTyped
  <2>2. CASE e \in over
    <3>1. components'[e].mixer = invalid_mixer
      <4>1. components'[e] = [type |-> components[e].type, source |-> components[e].source, mixer |-> invalid_mixer]
        BY <2>2, <1>8
      <4> QED
        BY <4>1
    <3>2. asked[e].action # nullptr /\ components[e].type = "Model" /\ ~asked[e].repeat /\ Ticks(e) + 1 >= LengthOf(e) /\ e \in DOMAIN asked
      BY <2>2, <1>4, <1>7
    <3> QED
      BY <2>1, <3>1, <3>2, <1>11 DEF Rests
  <2>3. CASE e \in Players \ over
    <3>1. components'[e] = components[e] /\ components[e].mixer # invalid_mixer
      BY <1>2, <2>3 DEF Players
    <3>2. mixers'[components[e].mixer] = MixerUpdate(mixers[components[e].mixer])
      BY <1>1, <1>4, <1>5, <2>3
    <3> QED
      BY <2>1, <2>3, <1>7, <3>1, <3>2 DEF Plays
  <2>4. CASE e \notin Players
    <3>1. components'[e] = components[e] /\ Rests(e)
      BY <1>2, <1>4, <2>4 DEF ComponentsInTime, Plays, Players
    <3>2. e \in DOMAIN asked => LengthOf(e) \in Nat
      BY <3>1 DEF Rests, LengthOf, AskedTyped, ComponentsTyped, ComponentTyped, SourcesTyped
    <3> QED
      BY <2>1, <3>1, <3>2 DEF Rests
  <2> QED
    BY <2>2, <2>3, <2>4, <1>4
<1>15. Players' = Players \ over
  BY <1>2, <1>4, <1>8 DEF Players
<1>16. MixersUnshared'
  BY <1>2, <1>4, <1>15 DEF MixersUnshared
<1>17. MixersCounted'
  <2>1. IsFiniteSet(DOMAIN mixers) /\ IsFiniteSet(Players) /\ Cardinality(DOMAIN mixers) = left + Cardinality(Players) /\ left \in Nat
    BY DEF MixersCounted, NumbersTyped
  <2>2. IsFiniteSet(over) /\ dropped \subseteq DOMAIN mixers
    BY <2>1, <1>4, FS_Subset
  <2>3. IsFiniteSet(dropped) /\ Cardinality(dropped) = Cardinality(over)
    <3> DEFINE f == [e \in over |-> components[e].mixer]
    <3>1. f \in Bijection(over, dropped)
      BY <1>4 DEF Bijection, Injection, Surjection, IsInjective, MixersUnshared
    <3>2. ExistsBijection(over, dropped)
      BY <3>1 DEF ExistsBijection
    <3> HIDE DEF dropped
    <3> QED
      BY <2>2, <3>2, FS_Bijection
  <2> HIDE DEF dropped
  <2>4. IsFiniteSet(DOMAIN mixers \ dropped) /\ Cardinality(DOMAIN mixers \ dropped) = Cardinality(DOMAIN mixers) - Cardinality(dropped)
    <3> DEFINE D == DOMAIN mixers
    <3>1. D \cap dropped = dropped /\ IsFiniteSet(D)
      BY <2>1, <2>2
    <3> HIDE DEF D
    <3>2. IsFiniteSet(D \ dropped) /\ Cardinality(D \ dropped) = Cardinality(D) - Cardinality(dropped)
      BY <3>1, FS_Difference
    <3> QED
      BY <3>2 DEF D
  <2>5. IsFiniteSet(Players \ over) /\ Cardinality(Players \ over) = Cardinality(Players) - Cardinality(over)
    <3>1. Players \cap over = over
      BY <1>4
    <3> QED
      BY <2>1, <3>1, FS_Difference
  <2>6. Cardinality(Players) \in Nat /\ Cardinality(over) \in Nat /\ Cardinality(DOMAIN mixers) \in Nat
    BY <2>1, <2>2, FS_CardinalityType
  <2> QED
    BY <1>1, <1>15, <2>1, <2>3, <2>4, <2>5, <2>6 DEF MixersCounted
<1> QED
  BY <1>2, <1>9, <1>10, <1>12, <1>13, <1>14, <1>16, <1>17 DEF ComponentsInTime

-----------------------------------------------------------------------------
(* The specification of the mixer.                                         *)

\* There is no source, no component and no mixer.
LEMMA MixerInvInit == MixerInit => MixerInv
<1> SUFFICES ASSUME MixerInit PROVE MixerInv
  OBVIOUS
<1>1. DOMAIN sources = {} /\ DOMAIN components = {} /\ DOMAIN mixers = {} /\ DOMAIN asked = {}
  BY DEF MixerInit
<1>2. MessagesTyped
  <2>1. mscript \in Seq(MixerMessages)
    BY MixerAssumption DEF MixerInit, MixerAssumption
  <2>2. queues = [q \in {"assets", "entities"} |-> <<>>]
    BY DEF MixerInit
  <2> QED
    BY <2>1, <2>2 DEF MessagesTyped
<1>3. Players = {} /\ left = 0 /\ frames = 0 /\ next_mixer_key = 0
  BY <1>1 DEF MixerInit, Players
<1>4. MixersCounted
  BY <1>1, <1>3, FS_EmptySet DEF MixersCounted
<1>5. CrashesExplained
  BY <1>1 DEF MixerInit, CrashesExplained, nullptr
<1> QED
  BY <1>1, <1>2, <1>3, <1>4, <1>5 DEF MixerInv, MixerSound, NumbersTyped, SourcesTyped, PlaybacksTyped, ComponentsTyped, AskedTyped,
                                     ComponentsInTime, MixersUnshared

\* Every message and every frame keeps the playbacks in time.
LEMMA MixerInvStep == MixerInv /\ [MixerNext]_mixerVars => MixerInv'
<1> SUFFICES ASSUME MixerInv, [MixerNext]_mixerVars PROVE MixerInv'
  OBVIOUS
<1>i. MessagesTyped /\ MixerSound /\ CrashesExplained
  BY DEF MixerInv
<1>r. ASSUME UNCHANGED <<sources, components, mixers, next_mixer_key, frames, asked, left>> PROVE MixerSound'
  BY <1>r, <1>i DEF MixerSound, NumbersTyped, SourcesTyped, PlaybacksTyped, PlaybackOf, ComponentsTyped, ComponentTyped, AskedTyped,
                    ComponentsInTime, Rests, Plays, Ticks, LengthOf, Players, MixersUnshared, MixersCounted
<1>c. ASSUME UNCHANGED <<sources, components, mixers, frames, asked, fault>> PROVE CrashesExplained'
  BY <1>c, <1>i DEF CrashesExplained, Overdue
<1>f. ASSUME fault' = nullptr, \A e \in DOMAIN asked' : asked'[e].action = nullptr => asked'[e].since = frames' PROVE CrashesExplained'
  BY <1>f DEF CrashesExplained, nullptr
<1>m. ASSUME UNCHANGED <<queues, mscript>> PROVE MessagesTyped'
  BY <1>m, <1>i DEF MessagesTyped
<1>1. CASE DrainAssets
  <2>0. fault = nullptr /\ fault' = fault /\ mscript' = mscript /\ frames' = frames
    BY <1>1 DEF DrainAssets, Drain
  <2>1. CASE queues["assets"] # <<>> /\ RegisterSource(Head(queues["assets"])) /\ queues' = [queues EXCEPT !["assets"] = Tail(@)]
    <3>1. Head(queues["assets"]) \in AssetMessages /\ Tail(queues["assets"]) \in Seq(AssetMessages) /\ Tail(queues["assets"]) \in Seq(MixerMessages)
      BY <2>1, <1>i DEF MessagesTyped, AssetMessages
    <3>2. MessagesTyped'
      BY <2>0, <2>1, <3>1, <1>i DEF MessagesTyped
    <3>3. CrashesExplained'
      <4>1. asked' = asked
        BY <2>1 DEF RegisterSource
      <4> QED
        BY <2>0, <4>1, <1>i, <1>f DEF CrashesExplained
    <3> QED
      BY <2>0, <2>1, <3>1, <3>2, <3>3, <1>i, RegisterKeeps DEF MixerInv
  <2>2. CASE queues["assets"] = <<>> /\ UNCHANGED <<queues, sources, components, mixers, next_mixer_key, asked, left>>
    BY <2>0, <2>2, <1>r, <1>c, <1>m DEF MixerInv
  <2> QED
    BY <1>1, <2>1, <2>2 DEF DrainAssets, Drain
<1>2. CASE DrainEntities
  <2>0. fault = nullptr /\ fault' = fault /\ mscript' = mscript /\ frames' = frames
    BY <1>2 DEF DrainEntities, Drain
  <2>1. CASE queues["entities"] # <<>> /\ ProcessEntity(Head(queues["entities"])) /\ queues' = [queues EXCEPT !["entities"] = Tail(@)]
    <3> DEFINE x == Head(queues["entities"])
    <3>1. x \in MixerMessages /\ Tail(queues["entities"]) \in Seq(MixerMessages)
      BY <2>1, <1>i DEF MessagesTyped
    <3>2. MessagesTyped'
      BY <2>0, <2>1, <3>1, <1>i DEF MessagesTyped
    <3>3. ProcessEntity(x)
      BY <2>1
    <3>c. ASSUME \A e \in DOMAIN asked' : asked'[e].since = frames \/ (e \in DOMAIN asked /\ asked'[e] = asked[e]) PROVE CrashesExplained'
      BY <2>0, <3>c, <1>i, <1>f DEF CrashesExplained
    <3> HIDE DEF x
    <3>4. CASE x.type = "AddCharacter" /\ AddComponent(x, "armature", Character(x.source))
      <4>1. asked' = asked
        BY <3>4 DEF AddComponent
      <4> QED
        BY <2>0, <3>2, <3>4, <3>c, <4>1, <1>i, AddKeeps DEF Character, MixerInv
    <3>5. CASE x.type = "AddModel" /\ AddComponent(x, "object", Model(x.source))
      <4>1. asked' = asked
        BY <3>5 DEF AddComponent
      <4> QED
        BY <2>0, <3>2, <3>5, <3>c, <4>1, <1>i, AddKeeps DEF Model, MixerInv
    <3>6. CASE x.type = "UpdateAction" /\ x.entity \in DOMAIN components /\ set_action(x)
      <4>1. \A e \in DOMAIN asked' : asked'[e].since = frames \/ (e \in DOMAIN asked /\ asked'[e] = asked[e])
        BY <3>6 DEF set_action, Stored
      <4> QED
        BY <2>0, <3>1, <3>2, <3>6, <3>c, <4>1, <1>i, SetActionKeeps DEF MixerInv
    <3>7. CASE x.type = "Remove" /\ x.entity \in DOMAIN components /\ RemoveComponent(x)
      <4>1. \A e \in DOMAIN asked' : e \in DOMAIN asked /\ asked'[e] = asked[e]
        BY <3>7 DEF RemoveComponent, Without
      <4> QED
        BY <2>0, <3>2, <3>7, <3>c, <4>1, <1>i, RemoveKeeps DEF MixerInv
    <3>8. CASE Nowhere(x)
      BY <2>0, <3>2, <3>8, <1>r, <1>c DEF Nowhere, MixerInv
    <3> QED
      BY <3>3, <3>4, <3>5, <3>6, <3>7, <3>8 DEF ProcessEntity
  <2>2. CASE queues["entities"] = <<>> /\ UNCHANGED <<queues, sources, components, mixers, next_mixer_key, asked, left>>
    BY <2>0, <2>2, <1>r, <1>c, <1>m DEF MixerInv
  <2> QED
    BY <1>2, <2>1, <2>2 DEF DrainEntities, Drain
<1>3. CASE MixerFrame
  <2>0. UNCHANGED <<sources, next_mixer_key, asked, left>> /\ MessagesTyped'
    BY <1>3, <1>m DEF MixerFrame
  <2>1. CASE MixerEnds
    <3>1. MixerSound'
      BY <2>0, <2>1, <1>i, FrameKeeps DEF MixerEnds
    <3>2. \A e \in DOMAIN asked : asked[e].action # nullptr
      <4> SUFFICES ASSUME NEW e \in DOMAIN asked, asked[e].action = nullptr PROVE FALSE
        OBVIOUS
      <4>1. e \in DOMAIN components /\ ~Rests(e)
        BY <1>i DEF MixerSound, AskedTyped, Rests
      <4>2. components[e].mixer # invalid_mixer /\ mixers[components[e].mixer].action = nullptr
        BY <4>1, <1>i DEF MixerSound, ComponentsInTime, Plays, InTime
      <4> QED
        BY <2>1, <4>1, <4>2 DEF MixerEnds, Dereferences
    <3>3. CrashesExplained'
      BY <1>3, <2>0, <2>1, <3>2, <1>f DEF MixerFrame, MixerEnds
    <3> QED
      BY <2>0, <3>1, <3>3 DEF MixerInv
  <2>2. CASE MixerCrashes
    <3>1. UNCHANGED <<frames, mixers, components, sources, asked>>
      BY <2>0, <2>2 DEF MixerCrashes
    <3>2. MixerSound'
      BY <2>0, <3>1, <1>r
    <3>3. fault' = "action" => \E e \in DOMAIN asked : asked[e].action = nullptr
      <4> SUFFICES ASSUME fault' = "action" PROVE \E e \in DOMAIN asked : asked[e].action = nullptr
        OBVIOUS
      <4>1. PICK e \in Dereferences : TRUE
        BY <2>2 DEF MixerCrashes
      <4>2. e \in DOMAIN components /\ components[e].mixer # invalid_mixer /\ mixers[components[e].mixer].action = nullptr
        BY DEF Dereferences
      <4>3. Plays(e)
        BY <4>2, <1>i DEF MixerSound, ComponentsInTime, Rests
      <4> QED
        BY <4>2, <4>3 DEF Plays, InTime
    <3>4. fault' = "division" => \E s \in DOMAIN sources : \E n \in DOMAIN sources[s].actions : sources[s].actions[n].length = 0
      <4> SUFFICES ASSUME fault' = "division"
                   PROVE  \E s \in DOMAIN sources : \E n \in DOMAIN sources[s].actions : sources[s].actions[n].length = 0
        OBVIOUS
      <4>1. PICK m \in DOMAIN mixers : Divides(mixers[m])
        BY <2>2 DEF MixerCrashes
      <4>2. PlaybackOf(mixers[m])
        BY <1>i DEF MixerSound, PlaybacksTyped
      <4> QED
        BY <4>1, <4>2 DEF Divides, ActionOf, PlaybackOf
    <3>5. fault' = "assertion" => \E m \in Overdue : \A e \in DOMAIN components : components[e].mixer # m
      <4> SUFFICES ASSUME fault' = "assertion" PROVE \E m \in Overdue : \A e \in DOMAIN components : components[e].mixer # m
        OBVIOUS
      <4>1. PICK m \in Overdue : TRUE
        BY <2>2 DEF MixerCrashes
      <4>2. m \in DOMAIN mixers /\ m # invalid_mixer /\ mixers[m].type = "ObjectPlayback" /\ mixers[m].finished
        BY <1>i DEF Overdue, MixerSound, NumbersTyped, invalid_mixer
      <4>3. ASSUME NEW e \in DOMAIN components, components[e].mixer = m PROVE FALSE
        <5>1. InTime(components[e], asked[e], mixers[m], Ticks(e), LengthOf(e))
          BY <4>2, <4>3, <1>i DEF MixerSound, ComponentsInTime, Rests, Plays
        <5>2. components[e].type \in {"Character", "Model"}
          BY <1>i DEF MixerSound, ComponentsTyped, ComponentTyped
        <5> QED
          BY <4>2, <5>1, <5>2 DEF InTime
      <4> QED
        BY <4>3
    <3>6. Overdue' = Overdue
      BY <3>1 DEF Overdue
    <3>7. CrashesExplained'
      BY <3>1, <3>3, <3>4, <3>5, <3>6, <1>i DEF CrashesExplained
    <3> QED
      BY <2>0, <3>2, <3>7 DEF MixerInv
  <2> QED
    BY <1>3, <2>1, <2>2 DEF MixerFrame
<1>4. CASE post
  <2> DEFINE x == Head(mscript)
             q == QueueOf(x)
  <2>1. x \in MixerMessages /\ Tail(mscript) \in Seq(MixerMessages) /\ mscript' = Tail(mscript)
    BY <1>4, <1>i DEF post, MessagesTyped
  <2>2. q \in {"assets", "entities"} /\ (q = "assets" => x \in AssetMessages)
    BY <2>1 DEF QueueOf, AssetMessages
  <2>3. queues' = [queues EXCEPT ![q] = Append(queues[q], x)]
    BY <1>4 DEF post
  <2> HIDE DEF x, q
  <2>4. queues' \in [{"assets", "entities"} -> Seq(MixerMessages)]
    BY <2>1, <2>2, <2>3, <1>i DEF MessagesTyped
  <2>5. queues'["assets"] \in Seq(AssetMessages)
    BY <2>2, <2>3, <1>i DEF MessagesTyped
  <2> QED
    BY <1>4, <2>1, <2>4, <2>5, <1>r, <1>c DEF post, MessagesTyped, MixerInv
<1>5. CASE UNCHANGED mixerVars
  BY <1>5, <1>r, <1>c, <1>m DEF mixerVars, MixerInv
<1> QED
  BY <1>1, <1>2, <1>3, <1>4, <1>5 DEF MixerNext

\* Whatever is posted and however the updates fall between, up to an update
\* that crashes: every component plays the action it was given last at the
\* frame its age gives, none shares its mixer, and the mixers too many are
\* those of removed components; and an update crashes where a component is to
\* play an action its source does not have, and otherwise only on an action
\* of no length or, in a build with assertions, on what a removed component
\* left behind (mixer.cpp set_action, update, finalize).
THEOREM MixerCorrect == MixerSpec => []MixerPlays
<1>1. MixerInv => MixerPlays
  <2> SUFFICES ASSUME MixerSound PROVE PlaybacksDue
    BY DEF MixerInv, MixerPlays
  <2> USE DEF MixerSound
  <2>1. Players = Playing(components, "Character") \cup Playing(components, "Model")
    BY DEF Players, Playing, ComponentsTyped, ComponentTyped
  <2>2. \A e, f \in DOMAIN components :
           components[e].mixer # invalid_mixer /\ components[e].mixer = components[f].mixer => e = f
    BY DEF MixersUnshared, Players
  <2>3. Cardinality(DOMAIN mixers) = left + Cardinality(Playing(components, "Character") \cup Playing(components, "Model"))
    BY <2>1 DEF MixersCounted
  <2>4. ASSUME NEW e \in DOMAIN components
        PROVE  LET c == components[e]
                   x == mixers[c.mixer]
                   ticks == frames - asked[e].since
                   length == sources[c.source].actions[asked[e].action].length
               IN \/ c.mixer = invalid_mixer /\ e \notin DOMAIN asked
                  \/ c.mixer = invalid_mixer /\ c.type = "Model" /\ ~asked[e].repeat /\ ticks >= length
                  \/ /\ c.mixer # invalid_mixer /\ x.action = asked[e].action
                     /\ c.type = "Model" => ~x.finished
                     /\ x.action # nullptr /\ length > 0 =>
                           /\ x.framei = FrameDue(c.type, asked[e], length, ticks)
                           /\ x.finished <=> (~x.repeat /\ ticks >= length)
    <3>1. Rests(e) \/ Plays(e)
      BY DEF ComponentsInTime
    <3>2. CASE Rests(e)
      BY <3>2 DEF Rests, Ticks, LengthOf
    <3>3. CASE Plays(e)
      BY <3>3 DEF Plays, InTime, Ticks, LengthOf
    <3> QED
      BY <3>1, <3>2, <3>3
  <2> QED
    BY <2>2, <2>3, <2>4 DEF PlaybacksDue
<1> QED
  BY <1>1, MixerInvInit, MixerInvStep, PTL DEF MixerSpec
=============================================================================
