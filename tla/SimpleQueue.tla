----------------------------- MODULE SimpleQueue -----------------------------
(***************************************************************************)
(* core::container::SimpleQueue (core/container/Queue.hpp): a ring buffer  *)
(* with one consumer and a lock-free producer side.  A producer claims a   *)
(* slot by advancing writei_, constructs the item in it, and publishes it  *)
(* by advancing readendi_; the consumer moves items out of the slots in    *)
(* [readi_, readendi_) and advances readi_.  One slot is always left free, *)
(* so that readi_ = readendi_ means empty.                                 *)
(*                                                                         *)
(* Every load, store and compare-exchange of an index and every access to  *)
(* a slot is a step of its own; the loads are sequentially consistent.     *)
(***************************************************************************)
EXTENDS Integers, Sequences

CONSTANTS
    Producers,  \* the threads that call try_emplace/try_push
    Capacity,   \* data.capacity(): the slots of the storage
    MaxItems,   \* bound: how many try_emplace calls are ever made
    Nil         \* a slot in which nothing is constructed

ASSUME CapacityAssumption == Capacity \in Nat \ {0}
ASSUME MaxItemsAssumption == MaxItems \in Nat
ASSUME NilAssumption == Nil \notin Nat

VARIABLES
    readi, readendi, writei,    \* the three atomic indices
    storage,                    \* what is constructed in each slot
    pc, slot, next, item,       \* the locals of each producer
    rpc,                        \* where the consumer is in try_pop
    issued,                     \* try_emplace calls so far; numbers the items
    pushed,                     \* the items published, in that order
    popped                      \* the items moved out by try_pop, in that order

producerVars == <<pc, slot, next, item>>
vars == <<readi, readendi, writei, storage, producerVars, rpc, issued, pushed, popped>>

Slots == 0 .. Capacity - 1
Item == 1 .. MaxItems

\* utility::wrap_reset(value, max) with max = capacity().
wrap_reset(value) == IF value < Capacity THEN value ELSE 0

\* How many slots lie in [a, b) of the ring.
Distance(a, b) == IF a <= b THEN b - a ELSE Capacity - a + b

-----------------------------------------------------------------------------

Init ==
    /\ readi = 0 /\ readendi = 0 /\ writei = 0
    /\ storage = [s \in Slots |-> Nil]
    /\ pc = [p \in Producers |-> "idle"]
    /\ slot = [p \in Producers |-> 0]
    /\ next = [p \in Producers |-> 0]
    /\ item = [p \in Producers |-> Nil]
    /\ rpc = "idle"
    /\ issued = 0
    /\ pushed = <<>>
    /\ popped = <<>>

\* try_emplace is called: checkout_write_slot loads writei_.
LoadWritei(p) ==
    /\ pc[p] = "idle"
    /\ issued < MaxItems
    /\ issued' = issued + 1
    /\ item' = [item EXCEPT ![p] = issued + 1]
    /\ slot' = [slot EXCEPT ![p] = writei]
    /\ pc' = [pc EXCEPT ![p] = "load_readi"]
    /\ UNCHANGED <<readi, readendi, writei, storage, next, rpc, pushed, popped>>

\* checkout_write_slot loads readi_; one slot short of it the queue is full
\* and try_emplace returns false.
LoadReadi(p) ==
    /\ pc[p] = "load_readi"
    /\ next' = [next EXCEPT ![p] = wrap_reset(slot[p] + 1)]
    /\ IF readi = wrap_reset(slot[p] + 1)
       THEN /\ pc' = [pc EXCEPT ![p] = "idle"]
            /\ item' = [item EXCEPT ![p] = Nil]
       ELSE /\ pc' = [pc EXCEPT ![p] = "cas_writei"]
            /\ UNCHANGED item
    /\ UNCHANGED <<readi, readendi, writei, storage, slot, rpc, issued, pushed, popped>>

\* The compare-exchange of writei_ that claims the slot.
CasWritei(p) ==
    /\ pc[p] = "cas_writei"
    /\ writei = slot[p]
    /\ writei' = next[p]
    /\ pc' = [pc EXCEPT ![p] = "construct"]
    /\ UNCHANGED <<readi, readendi, storage, slot, next, item, rpc, issued, pushed, popped>>

\* The compare-exchange fails, because writei_ moved or spuriously (it is the
\* weak form): slot gets the value found and readi_ is loaded again.
CasWriteiFails(p) ==
    /\ pc[p] = "cas_writei"
    /\ slot' = [slot EXCEPT ![p] = writei]
    /\ pc' = [pc EXCEPT ![p] = "load_readi"]
    /\ UNCHANGED <<readi, readendi, writei, storage, next, item, rpc, issued, pushed, popped>>

\* construct_at_: the item is built in the claimed slot.
Construct(p) ==
    /\ pc[p] = "construct"
    /\ storage' = [storage EXCEPT ![slot[p]] = item[p]]
    /\ pc' = [pc EXCEPT ![p] = "checkin"]
    /\ UNCHANGED <<readi, readendi, writei, slot, next, item, rpc, issued, pushed, popped>>

\* checkin_write_slot spins until readendi_ is this producer's slot, and then
\* publishes the item; try_emplace returns true.
Checkin(p) ==
    /\ pc[p] = "checkin"
    /\ readendi = slot[p]
    /\ readendi' = next[p]
    /\ pushed' = Append(pushed, item[p])
    /\ item' = [item EXCEPT ![p] = Nil]
    /\ pc' = [pc EXCEPT ![p] = "idle"]
    /\ UNCHANGED <<readi, writei, storage, slot, next, rpc, issued, popped>>

\* Mutant: try_pop trusts writei_ instead of readendi_.
PopCheckClaimed ==
    /\ rpc = "idle"
    /\ readi # writei
    /\ rpc' = "move"
    /\ UNCHANGED <<readi, readendi, writei, storage, producerVars, issued, pushed, popped>>

\* Mutant: try_pop forgets that readendi_ wraps.
PopCheckUnwrapped == readi < readendi /\ PopCheckClaimed

\* try_pop compares readi_, which only the consumer writes, with readendi_.
\* When they are equal it returns false and nothing has changed.
PopCheck ==
    /\ rpc = "idle"
    /\ readi # readendi
    /\ rpc' = "move"
    /\ UNCHANGED <<readi, readendi, writei, storage, producerVars, issued, pushed, popped>>

\* Mutant: the item is not destructed.
PopMoveKeeps ==
    /\ rpc = "move"
    /\ popped' = Append(popped, storage[readi])
    /\ rpc' = "store"
    /\ UNCHANGED <<readi, readendi, writei, storage, producerVars, issued, pushed>>

\* The item is moved out of its slot and destructed.
PopMove ==
    /\ rpc = "move"
    /\ popped' = Append(popped, storage[readi])
    /\ storage' = [storage EXCEPT ![readi] = Nil]
    /\ rpc' = "store"
    /\ UNCHANGED <<readi, readendi, writei, producerVars, issued, pushed>>

\* readi_ is advanced past the slot, which gives it back to the producers.
PopStore ==
    /\ rpc = "store"
    /\ readi' = wrap_reset(readi + 1)
    /\ rpc' = "idle"
    /\ UNCHANGED <<readendi, writei, storage, producerVars, issued, pushed, popped>>

Producer(p) ==
    \/ LoadWritei(p)
    \/ LoadReadi(p)
    \/ CasWritei(p)
    \/ CasWriteiFails(p)
    \/ Construct(p)
    \/ Checkin(p)

Consumer == PopCheck \/ PopMove \/ PopStore

Next == Consumer \/ \E p \in Producers : Producer(p)

Spec == Init /\ [][Next]_vars

(***************************************************************************)
(* checkout_write_slot compares readi_ with next and then claims the slot  *)
(* with a compare-exchange that looks at writei_ only.  If the other       *)
(* producers and the consumer take writei_ once around the ring in between,*)
(* the compare-exchange succeeds although the check is out of date.        *)
(* NoStaleClaim says that this is not about to happen.                     *)
(***************************************************************************)
NoStaleClaim ==
    \A p \in Producers :
        pc[p] = "cas_writei" /\ writei = slot[p] => next[p] # readi

\* The behaviours in which no producer is held up for that long.
UnlappedSpec == Init /\ [][Next /\ NoStaleClaim']_vars

-----------------------------------------------------------------------------
(* Properties.                                                             *)

\* The indices stay inside the storage, and a producer has an item exactly while it
\* is inside try_emplace.
TypeOK ==
    /\ readi \in Slots /\ readendi \in Slots /\ writei \in Slots
    /\ storage \in [Slots -> Item \cup {Nil}]
    /\ pc \in [Producers -> {"idle", "load_readi", "cas_writei", "construct", "checkin"}]
    /\ slot \in [Producers -> Slots]
    /\ next \in [Producers -> Slots]
    /\ item \in [Producers -> Item \cup {Nil}]
    /\ \A p \in Producers : item[p] = Nil <=> pc[p] = "idle"
    /\ rpc \in {"idle", "move", "store"}
    /\ issued \in 0 .. MaxItems
    /\ pushed \in Seq(Item)
    /\ popped \in Seq(Item \cup {Nil})

(***************************************************************************)
(* No slot is used by two sides at once: a producer that is about to       *)
(* construct (construct_at_) finds its slot without a live item, and       *)
(* try_pop never moves out of a slot in which nothing is constructed.      *)
(***************************************************************************)
SlotExclusive ==
    /\ \A p \in Producers : pc[p] = "construct" => storage[slot[p]] = Nil
    /\ rpc = "move" => storage[readi] # Nil

(***************************************************************************)
(* try_pop hands out the items in the order they were published, none      *)
(* twice, none skipped and none made up.                                   *)
(***************************************************************************)
FifoOrder ==
    /\ Len(popped) <= Len(pushed)
    /\ \A i \in 1 .. Len(popped) : popped[i] = pushed[i]

(***************************************************************************)
(* While an item is published and not popped, try_pop does not report the  *)
(* queue empty.                                                            *)
(***************************************************************************)
NeverFalselyEmpty ==
    rpc = "idle" /\ Len(popped) < Len(pushed) => readi # readendi

(***************************************************************************)
(* The queue never holds more accepted items than capacity() says it can.  *)
(***************************************************************************)
WithinCapacity == Len(pushed) <= Len(popped) + (Capacity - 1)

\* The calls and returns of the ring buffer are those of a bounded FIFO; a push
\* takes effect when readendi_ is advanced, a pop when the item is moved out.
Fifo == INSTANCE BoundedFifo WITH
            Bound <- Capacity - 1,
            queue <- SubSeq(pushed, Len(popped) + 1, Len(pushed)),
            taken <- popped

\* The ring buffer implements the bounded FIFO: what try_emplace accepts and what
\* try_pop hands out could have come from one.
ImplementsFifo == Fifo!Spec

(***************************************************************************)
(* Liveness.  The consumer calls try_pop again and again (every user of    *)
(* the queue drains it in a loop), and a thread inside try_emplace is not  *)
(* suspended for ever.                                                     *)
(***************************************************************************)
Fairness ==
    /\ WF_vars(Consumer)
    /\ \A p \in Producers : WF_vars(Construct(p)) /\ WF_vars(Checkin(p))

FairSpec == Spec /\ Fairness
FairUnlappedSpec == UnlappedSpec /\ Fairness

(***************************************************************************)
(* Every claimed slot is published and every item in it is popped: a       *)
(* producer that advanced writei_ gets out of the spin in                  *)
(* checkin_write_slot, and its item reaches the consumer.                  *)
(***************************************************************************)
ClaimedIsPopped ==
    \A i \in Item :
        (\E p \in Producers : pc[p] = "construct" /\ item[p] = i)
            ~> (\E k \in 1 .. Len(popped) : popped[k] = i)

-----------------------------------------------------------------------------
(* The inductive invariant behind the properties.                          *)

Publishing(p) == pc[p] \in {"construct", "checkin"}

\* [readi, readendi) holds published items and [readendi, writei) claimed slots,
\* and together they leave at least one slot free.
IndexInv == Distance(readi, readendi) <= Distance(readi, writei)

\* Each producer that claimed a slot has one to itself in [readendi, writei).
ProducerInv ==
    \A p \in Producers :
        /\ pc[p] \in {"cas_writei", "construct", "checkin"}
              => next[p] = wrap_reset(slot[p] + 1)
        /\ Publishing(p) =>
              /\ Distance(readi, readendi) <= Distance(readi, slot[p])
              /\ Distance(readi, slot[p]) < Distance(readi, writei)
              /\ \A q \in Producers : Publishing(q) /\ q # p => slot[q] # slot[p]

\* Between the move and the store of readi_ the popped item's slot still counts
\* as occupied.
Moved == IF rpc = "store" THEN 1 ELSE 0

\* The ring holds exactly the items published and not popped.
CountInv ==
    /\ rpc # "idle" => readi # readendi
    /\ Distance(readi, readendi) = Len(pushed) - Len(popped) + Moved

\* A published item that try_pop has not moved out is in slot s.
Occupied(s) ==
    /\ Moved <= Distance(readi, s)
    /\ Distance(readi, s) < Distance(readi, readendi)

\* Which item slot s holds.
ContentAt(s) ==
    /\ Occupied(s) => storage[s] = pushed[Len(popped) - Moved + Distance(readi, s) + 1]
    /\ ~Occupied(s) => \/ storage[s] = Nil
                       \/ \E p \in Producers : pc[p] = "checkin" /\ s = slot[p]
    /\ \A p \in Producers : pc[p] = "checkin" /\ s = slot[p] => storage[s] = item[p]

ContentInv == \A s \in Slots : ContentAt(s)

RingInv == TypeOK /\ NoStaleClaim /\ IndexInv /\ ProducerInv /\ CountInv /\ ContentInv /\ FifoOrder

=============================================================================
