-------------------------- MODULE Scheduler_proofs --------------------------
(***************************************************************************)
(* Proofs about Scheduler, for any number of posting threads, works and    *)
(* lives of the scheduler.                                                 *)
(***************************************************************************)
EXTENDS Scheduler, TLAPS

USE ThreadsAssumption, BoundsAssumption, TerminateAssumption
USE DEF ThreadsAssumption, BoundsAssumption, TerminateAssumption

-----------------------------------------------------------------------------

\* TypeOK is inductive together with this: the worker is in a work while it
\* runs, and there is a worker while there is a scheduler.
TypeInv ==
    /\ TypeOK
    /\ running # 0 <=> wpc = "run"
    /\ wpc = "none" <=> dpc = "none"

LEMMA TypeInit == Init => TypeInv
<1> SUFFICES ASSUME Init PROVE TypeInv
  OBVIOUS
<1>1. queue \in Seq(Work \cup {Terminate})
  BY DEF Init
<1>2. post \in [Threads -> {"idle", "set"}]
  BY DEF Init
<1>3. lives \in 0 .. MaxLives /\ posted \in 0 .. MaxWorks
  BY DEF Init
<1> QED
  BY <1>1, <1>2, <1>3 DEF Init, TypeOK, TypeInv

LEMMA TypeStep == TypeInv /\ [Next]_vars => TypeInv'
<1> SUFFICES ASSUME TypeInv, [Next]_vars PROVE TypeInv'
  OBVIOUS
<1> USE DEF TypeOK, TypeInv, Work
<1>e. <<>> \in Seq(Work \cup {Terminate})
  OBVIOUS
<1>1. CASE Construct
  <2>1. lives' \in 0 .. MaxLives
    BY <1>1 DEF Construct
  <2> QED
    BY <1>e, <1>1, <2>1 DEF Construct
<1>2. ASSUME NEW t \in Threads, Emplace(t) PROVE TypeInv'
  BY <1>2 DEF Emplace
<1>3. ASSUME NEW t \in Threads, SetEvent(t) PROVE TypeInv'
  BY <1>3 DEF SetEvent
<1>4. CASE Destruct
  <2>1. CASE DestructEmplace
    <3>1. queue' \in Seq(Work \cup {Terminate})
      BY <2>1 DEF DestructEmplace
    <3> QED
      BY <2>1, <3>1 DEF DestructEmplace
  <2>2. CASE DestructSet
    BY <2>2 DEF DestructSet
  <2>3. CASE DestructJoin
    BY <1>e, <2>3 DEF DestructJoin
  <2> QED
    BY <1>4, <2>1, <2>2, <2>3 DEF Destruct
<1>5. CASE Wait \/ Reset \/ PopEmpty
  BY <1>5 DEF Wait, Reset, PopEmpty
<1>6. CASE PopWork
  <2>1. Head(queue) \in Work /\ Tail(queue) \in Seq(Work \cup {Terminate})
    BY <1>6 DEF PopWork
  <2> QED
    BY <1>6, <2>1 DEF PopWork
<1>7. CASE PopTerminate
  BY <1>7 DEF PopTerminate
<1>8. CASE Return
  <2>1. done' \subseteq Work
    BY <1>8 DEF Return
  <2> QED
    BY <1>8, <2>1 DEF Return
<1>9. CASE UNCHANGED vars
  BY <1>9 DEF vars
<1> QED
  BY <1>1, <1>2, <1>3, <1>4, <1>5, <1>6, <1>7, <1>8, <1>9 DEF Next, WorkerStep

\* Every value stays of its type: what the worker runs is a work, never the
\* Terminate of the destructor (parse_message).
THEOREM TypeCorrect == Spec => []TypeOK
<1>1. TypeInv => TypeOK
  BY DEF TypeInv
<1> QED
  BY <1>1, TypeInit, TypeStep, PTL DEF Spec

-----------------------------------------------------------------------------
(* No wakeup is lost.  The worker itself posts only from inside a work, so *)
(* that it is never about to set the event while it sleeps.                *)

WakeupInv == NoLostWakeup /\ (post[Worker] = "set" => wpc = "run")

LEMMA WakeupInit == Init => WakeupInv
  BY DEF Init, WakeupInv, NoLostWakeup, Threads

LEMMA WakeupStep == TypeInv /\ WakeupInv /\ [Next]_vars => WakeupInv'
<1> SUFFICES ASSUME TypeInv, WakeupInv, [Next]_vars PROVE WakeupInv'
  OBVIOUS
<1> USE DEF TypeInv, TypeOK, WakeupInv, NoLostWakeup
<1>1. CASE Construct
  BY <1>1 DEF Construct
<1>2. ASSUME NEW t \in Threads, Emplace(t) PROVE WakeupInv'
  <2>1. CASE t = Worker
    BY <1>2, <2>1 DEF Emplace, MayPost
  <2>2. CASE t # Worker
    <3>1. t \in Posters /\ post'[t] = "set" /\ post'[Worker] = post[Worker]
      BY <1>2, <2>2 DEF Emplace, Threads
    <3> QED
      BY <1>2, <3>1 DEF Emplace
  <2> QED
    BY <2>1, <2>2
<1>3. ASSUME NEW t \in Threads, SetEvent(t) PROVE WakeupInv'
  BY <1>3 DEF SetEvent, Threads
<1>4. CASE Destruct
  BY <1>4 DEF Destruct, DestructEmplace, DestructSet, DestructJoin
<1>5. CASE WorkerStep
  BY <1>5 DEF WorkerStep, Wait, Reset, PopWork, PopTerminate, PopEmpty, Return
<1>6. CASE UNCHANGED vars
  BY <1>6 DEF vars
<1> QED
  BY <1>1, <1>2, <1>3, <1>4, <1>5, <1>6 DEF Next

\* While the worker sleeps with a message in the queue, someone has set or is
\* about to set the event (post_work, destruct, scheduler_thread).
THEOREM WakeupsAreNotLost == Spec => []NoLostWakeup
<1>1. WakeupInv => NoLostWakeup
  BY DEF WakeupInv
<1> QED
  BY <1>1, TypeInit, TypeStep, WakeupInit, WakeupStep, PTL DEF Spec

-----------------------------------------------------------------------------
(* The queue is drained.  A work that is due has run, is running, or is in *)
(* the queue before any Terminate; the worker exits at a Terminate only.   *)

\* The work is in the queue, and before the Terminate if that is there.
Ahead(w) ==
    \E i \in 1 .. Len(queue) :
        /\ queue[i] = w
        /\ \A j \in 1 .. Len(queue) : queue[j] = Terminate => i < j

DrainInv ==
    /\ dpc = "none" \/ wpc = "exited" => due \subseteq done
    /\ wpc = "exited" => dpc # "alive"
    /\ dpc = "alive" => \A i \in 1 .. Len(queue) : queue[i] # Terminate
    /\ \A w \in due : w \in done \/ w = running \/ Ahead(w)

LEMMA DrainInit == Init => DrainInv
  BY DEF Init, DrainInv

LEMMA DrainStep == TypeInv /\ DrainInv /\ [Next]_vars => DrainInv'
<1> SUFFICES ASSUME TypeInv, DrainInv, [Next]_vars PROVE DrainInv'
  OBVIOUS
<1> USE DEF TypeInv, TypeOK, Work
<1>1. CASE Construct
  BY <1>1 DEF Construct, DrainInv
<1>2. ASSUME NEW t \in Threads, Emplace(t) PROVE DrainInv'
  <2>1. /\ Len(queue') = Len(queue) + 1
        /\ queue'[Len(queue) + 1] = posted + 1
        /\ posted + 1 # Terminate
        /\ \A i \in 1 .. Len(queue) : queue'[i] = queue[i]
    BY <1>2 DEF Emplace
  <2>2. ASSUME NEW w \in due' PROVE (w \in done \/ w = running \/ Ahead(w))'
    <3>1. CASE w \in due
      BY <1>2, <2>1, <3>1 DEF Emplace, DrainInv, Ahead
    <3>2. CASE w \notin due
      <4>1. w = posted + 1 /\ dpc = "alive"
        BY <1>2, <3>2 DEF Emplace
      <4> QED
        BY <2>1, <4>1 DEF DrainInv, Ahead
    <3> QED
      BY <3>1, <3>2
  <2>3. dpc # "none" /\ wpc # "exited"
    BY <1>2 DEF Emplace, MayPost, DrainInv
  <2> QED
    BY <1>2, <2>1, <2>2, <2>3 DEF Emplace, DrainInv
<1>3. ASSUME NEW t \in Threads, SetEvent(t) PROVE DrainInv'
  BY <1>3 DEF SetEvent, DrainInv, Ahead
<1>4. CASE DestructEmplace
  <2>1. /\ Len(queue') = Len(queue) + 1
        /\ queue'[Len(queue) + 1] = Terminate
        /\ \A i \in 1 .. Len(queue) : queue'[i] = queue[i]
    BY <1>4 DEF DestructEmplace
  <2> QED
    BY <1>4, <2>1 DEF DestructEmplace, DrainInv, Ahead
<1>5. CASE DestructSet
  BY <1>5 DEF DestructSet, DrainInv, Ahead
<1>6. CASE DestructJoin
  BY <1>6 DEF DestructJoin, DrainInv
<1>7. CASE Wait \/ Reset
  BY <1>7 DEF Wait, Reset, DrainInv, Ahead
<1>8. CASE PopWork
  <2>1. /\ queue[1] = Head(queue) /\ Head(queue) \in Work
        /\ Len(queue') = Len(queue) - 1
        /\ \A i \in 1 .. Len(queue') : queue'[i] = queue[i + 1]
    BY <1>8 DEF PopWork
  <2>2. ASSUME NEW w \in due PROVE w \in done \/ w = Head(queue) \/ Ahead(w)'
    <3>1. CASE Ahead(w) /\ w # Head(queue)
      <4>1. PICK i \in 1 .. Len(queue) :
                /\ queue[i] = w
                /\ \A j \in 1 .. Len(queue) : queue[j] = Terminate => i < j
        BY <3>1 DEF Ahead
      <4>2. i - 1 \in 1 .. Len(queue') /\ queue'[i - 1] = w
        BY <2>1, <3>1, <4>1
      <4>3. \A j \in 1 .. Len(queue') : queue'[j] = Terminate => i - 1 < j
        BY <2>1, <4>1
      <4> QED
        BY <4>2, <4>3 DEF Ahead
    <3> QED
      BY <1>8, <3>1 DEF PopWork, DrainInv
  <2> QED
    BY <1>8, <2>1, <2>2 DEF PopWork, DrainInv
<1>9. CASE PopTerminate
  <2>1. queue[1] = Terminate /\ 1 \in 1 .. Len(queue)
    BY <1>9 DEF PopTerminate
  <2>2. \A w \in due : ~Ahead(w) /\ w # running
    BY <1>9, <2>1 DEF PopTerminate, DrainInv, Ahead
  <2> QED
    BY <1>9, <2>1, <2>2 DEF PopTerminate, DrainInv
<1>10. CASE PopEmpty
  BY <1>10 DEF PopEmpty, DrainInv, Ahead
<1>11. CASE Return
  BY <1>11 DEF Return, DrainInv, Ahead
<1>12. CASE UNCHANGED vars
  BY <1>12 DEF vars, DrainInv, Ahead
<1> QED
  BY <1>1, <1>2, <1>3, <1>4, <1>5, <1>6, <1>7, <1>8, <1>9, <1>10, <1>11, <1>12
  DEF Next, Destruct, WorkerStep

\* A scheduler that is gone has run every work posted before its destructor
\* was called (destruct, destroy_impl, parse_message).
THEOREM DestroyedIsDrained == Spec => []DrainedBeforeDestroy
<1>1. DrainInv => DrainedBeforeDestroy
  BY DEF DrainInv, DrainedBeforeDestroy
<1> QED
  BY <1>1, TypeInit, TypeStep, DrainInit, DrainStep, PTL DEF Spec

=============================================================================
