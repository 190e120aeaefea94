----------------------------- MODULE BoundedFifo -----------------------------
(***************************************************************************)
(* What core::container::SimpleQueue promises its callers: a first-in      *)
(* first-out buffer that holds at most Bound items, where a push and a pop *)
(* each take effect at one instant.                                        *)
(***************************************************************************)
EXTENDS Naturals, Sequences

CONSTANTS
    Item,   \* what can be pushed
    Bound   \* SimpleQueue::capacity(): the items the queue can hold

VARIABLES
    queue,  \* the items pushed and not yet popped, oldest first
    taken   \* the items popped, in that order

Init == queue = <<>> /\ taken = <<>>

\* try_emplace/try_push that returns true.
Put(i) ==
    /\ Len(queue) < Bound
    /\ queue' = Append(queue, i)
    /\ UNCHANGED taken

\* try_pop that returns true.
Take ==
    /\ queue # <<>>
    /\ queue' = Tail(queue)
    /\ taken' = Append(taken, Head(queue))

Next == Take \/ \E i \in Item : Put(i)

Spec == Init /\ [][Next]_<<queue, taken>>
=============================================================================
