------------------------------ MODULE Pointers ------------------------------
(***************************************************************************)
(* ext::shared_ptr, weak_ptr and unique_ptr.  The pointers are used by     *)
(* several threads, each by one thread at a time: what a call does to the  *)
(* atomic counters of a block, and to the block, is a list of steps that   *)
(* interleave with those of the calls on other pointers.                   *)
(***************************************************************************)
EXTENDS Integers, Sequences, FiniteSets

CONSTANTS
    SharedPtrs, WeakPtrs, UniquePtrs,
    MaxBlocks,          \* bound: blocks allocated
    MaxPointerCalls     \* bound: calls

VARIABLES
    data,       \* data(): the block a pointer refers to
    todo,       \* the steps left of the call on a pointer
    reading,    \* the pointer that the call on a pointer reads
    block,      \* of each block: the counters, whether its value lives, and whether it is allocated
    touched,    \* ghost: a block was used after it was freed, or destructed twice
    uniqueReset,\* ghost: reset was called on a unique_ptr, which keeps its pointer
    pointerCalls

pointerVars == <<data, todo, reading, block, touched, uniqueReset, pointerCalls>>

NoBlock == 0
NoPtr == "none"
Counted == SharedPtrs \cup WeakPtrs
AllPtrs == Counted \cup UniquePtrs

\* The three kinds of pointers, finitely many of each.
ASSUME PointersAssumption ==
    /\ IsFiniteSet(AllPtrs) /\ NoPtr \notin AllPtrs
    /\ SharedPtrs \cap WeakPtrs = {} /\ Counted \cap UniquePtrs = {}

PointersInit ==
    /\ data = [p \in AllPtrs |-> NoBlock] /\ todo = [p \in AllPtrs |-> <<>>] /\ reading = [p \in AllPtrs |-> NoPtr]
    /\ block = <<>> /\ touched = FALSE /\ uniqueReset = FALSE /\ pointerCalls = 0

-----------------------------------------------------------------------------
(* The steps of a call: what is done, and to which block.                  *)

Do(what, b) == [what |-> what, b |-> b, n |-> 0]
If(b, steps) == IF b = NoBlock THEN <<>> ELSE steps

shared_inc(b) == If(b, <<Do("shared+", b), Do("weak+", b)>>)
shared_dec(b) == If(b, <<Do("shared-", b), Do("weak-", b)>>)
weak_inc(b) == If(b, <<Do("weak+", b)>>)
weak_dec(b) == If(b, <<Do("weak-", b)>>)
inc(p, b) == IF p \in SharedPtrs THEN shared_inc(b) ELSE weak_inc(b)
dec(p, b) == IF p \in SharedPtrs THEN shared_dec(b) ELSE IF p \in WeakPtrs THEN weak_dec(b) ELSE If(b, <<Do("destruct", b), Do("free", b)>>)

\* Only who comes to zero destructs the value, and frees the block.
After(step, blk, rest) ==
    CASE step.what = "shared-" /\ blk.shared = 1 -> <<Do("destruct", step.b)>> \o rest
      [] step.what = "weak-" /\ blk.weak = 1 -> <<Do("free", step.b)>> \o rest
      [] step.what = "load" -> <<[Do("cas", step.b) EXCEPT !.n = blk.shared]>> \o rest
      \* compare_exchange_strong: a count of zero gives an empty pointer
      [] step.what = "cas" /\ step.n = 0 -> <<>>
      [] step.what = "cas" /\ step.n # 0 /\ blk.shared # step.n -> <<[step EXCEPT !.n = blk.shared]>> \o rest
      [] OTHER -> rest

Done(step, blk) ==
    CASE step.what = "shared+" -> [blk EXCEPT !.shared = @ + 1]
      [] step.what = "shared-" -> [blk EXCEPT !.shared = @ - 1]
      [] step.what = "weak+" -> [blk EXCEPT !.weak = @ + 1]
      [] step.what = "weak-" -> [blk EXCEPT !.weak = @ - 1]
      [] step.what = "destruct" -> [blk EXCEPT !.lives = FALSE]
      [] step.what = "free" -> [blk EXCEPT !.allocated = FALSE]
      [] step.what = "cas" /\ step.n # 0 /\ blk.shared = step.n -> [blk EXCEPT !.shared = @ + 1]
      [] OTHER -> blk

Step(p) ==
    /\ todo[p] # <<>>
    /\ LET step == Head(todo[p]) IN
       IF step.what = "set"
       THEN /\ data' = [data EXCEPT ![p] = step.b] /\ todo' = [todo EXCEPT ![p] = Tail(@)]
            /\ UNCHANGED <<block, touched>>
       ELSE LET blk == block[step.b] IN
            /\ todo' = [todo EXCEPT ![p] = After(step, blk, Tail(@))]
            /\ block' = [block EXCEPT ![step.b] = Done(step, blk)]
            /\ touched' = (touched \/ ~blk.allocated \/ (step.what = "destruct" /\ ~blk.lives))
            /\ UNCHANGED data
    /\ reading' = [reading EXCEPT ![p] = IF todo'[p] = <<>> THEN NoPtr ELSE @]
    /\ UNCHANGED <<uniqueReset, pointerCalls>>

-----------------------------------------------------------------------------
(* The calls.                                                              *)

Idle(p) == todo[p] = <<>> /\ \A q \in AllPtrs : reading[q] # p
SameKind(p, q) == \E k \in {SharedPtrs, WeakPtrs, UniquePtrs} : p \in k /\ q \in k

\* A call on p that leaves d in the pointers and then takes the steps, while it reads q.
Begin(p, q, d, steps) ==
    /\ pointerCalls < MaxPointerCalls /\ pointerCalls' = pointerCalls + 1
    /\ data' = d /\ todo' = [todo EXCEPT ![p] = steps]
    /\ reading' = [reading EXCEPT ![p] = IF steps = <<>> THEN NoPtr ELSE q]
    /\ UNCHANGED touched

\* The constructor in place; nothing is constructed when the allocation fails.
Make(p) ==
    /\ Idle(p) /\ data[p] = NoBlock /\ p \notin WeakPtrs /\ Len(block) < MaxBlocks
    /\ Begin(p, NoPtr, [data EXCEPT ![p] = Len(block) + 1], <<>>)
    /\ block' = Append(block, [shared |-> 1, weak |-> 1, lives |-> TRUE, allocated |-> TRUE])
    /\ UNCHANGED uniqueReset

\* The copy constructors; a weak_ptr is made from a shared_ptr too.
PtrCopy(p, q) ==
    /\ p # q /\ Idle(p) /\ todo[q] = <<>> /\ data[p] = NoBlock
    /\ p \in Counted /\ (SameKind(p, q) \/ (p \in WeakPtrs /\ q \in SharedPtrs))
    /\ Begin(p, q, [data EXCEPT ![p] = data[q]], inc(p, data[q])) /\ UNCHANGED <<block, uniqueReset>>

PtrMove(p, q) ==
    /\ p # q /\ Idle(p) /\ Idle(q) /\ data[p] = NoBlock /\ SameKind(p, q)
    /\ Begin(p, NoPtr, [data EXCEPT ![p] = data[q], ![q] = NoBlock], <<>>) /\ UNCHANGED <<block, uniqueReset>>

\* operator = that lets go of what it has before it counts the other.
PtrCopyAssignLate(p, q) ==
    /\ Idle(p) /\ todo[q] = <<>> /\ p \in Counted /\ SameKind(p, q)
    /\ Begin(p, q, data, dec(p, data[p]) \o inc(p, data[q]) \o <<Do("set", data[q])>>) /\ UNCHANGED <<block, uniqueReset>>

\* The other is counted first: it may be this.
PtrCopyAssign(p, q) ==
    /\ Idle(p) /\ todo[q] = <<>> /\ p \in Counted /\ SameKind(p, q)
    /\ Begin(p, q, data, inc(p, data[q]) \o dec(p, data[p]) \o <<Do("set", data[q])>>) /\ UNCHANGED <<block, uniqueReset>>

\* Of one moved to itself nothing is left.
PtrMoveAssign(p, q) ==
    /\ Idle(p) /\ Idle(q) /\ SameKind(p, q)
    /\ Begin(p, q, [data EXCEPT ![q] = IF p = q THEN @ ELSE NoBlock],
             dec(p, data[p]) \o <<Do("set", IF p = q THEN NoBlock ELSE data[q])>>)
    /\ UNCHANGED <<block, uniqueReset>>

\* The destructors, and reset.
PtrReset(p) ==
    /\ Idle(p) /\ data[p] # NoBlock
    /\ Begin(p, NoPtr, data, dec(p, data[p]) \o <<Do("set", NoBlock)>>) /\ UNCHANGED <<block, uniqueReset>>

\* unique_ptr::reset keeps the pointer to what it has freed.
UniqueReset(p) ==
    /\ p \in UniquePtrs /\ Idle(p) /\ data[p] # NoBlock
    /\ Begin(p, NoPtr, data, dec(p, data[p])) /\ uniqueReset' = TRUE /\ UNCHANGED block

\* weak_ptr::lock, whose result is a shared_ptr.
WeakLock(p, q) ==
    /\ p \in SharedPtrs /\ q \in WeakPtrs /\ Idle(p) /\ todo[q] = <<>> /\ data[p] = NoBlock
    /\ LET b == data[q]
       IN Begin(p, q, data, If(b, <<Do("load", b), Do("weak+", b), Do("set", b)>>))
    /\ UNCHANGED <<block, uniqueReset>>

expired(p) == data[p] = NoBlock \/ block[data[p]].shared = 0

PointersNext ==
    \/ \E p \in AllPtrs :
         \/ Step(p) \/ Make(p) \/ PtrReset(p) \/ UniqueReset(p)
         \/ \E q \in AllPtrs : PtrCopy(p, q) \/ PtrMove(p, q) \/ PtrCopyAssign(p, q) \/ PtrMoveAssign(p, q) \/ WeakLock(p, q)

PointersSpec == PointersInit /\ [][PointersNext]_pointerVars

-----------------------------------------------------------------------------
(* Properties.                                                             *)

Settled == \A p \in AllPtrs : todo[p] = <<>>
Referring(S, b) == Cardinality({p \in S : data[p] = b})

\* Whatever calls are under way on other pointers: a shared_ptr and a
\* unique_ptr refer to a value that lives, a weak_ptr to a block that is
\* allocated, expired tells whether anyone shares the value, no block is used
\* after it is freed, and none is left when nothing refers to it
\* (shared_ptr::dec, weak_ptr::lock, the order in operator =).
PointersHold ==
    uniqueReset \/
        /\ ~touched
        /\ \A p \in AllPtrs : (todo[p] = <<>> /\ data[p] # NoBlock) =>
             /\ block[data[p]].allocated
             /\ p \notin WeakPtrs => block[data[p]].lives
        /\ Settled => \A b \in DOMAIN block :
             LET owners == Referring(SharedPtrs \cup UniquePtrs, b)
                 weaks == Referring(WeakPtrs, b)
             IN /\ block[b].lives = (owners > 0) /\ block[b].allocated = (owners + weaks > 0)
                /\ \A p \in WeakPtrs : data[p] = b => expired(p) = (owners = 0)

=============================================================================
