------------------------------ MODULE Storages ------------------------------
(***************************************************************************)
(* The containers that other parts keep their elements in, as far as they  *)
(* differ from a sequence.                                                 *)
(*                                                                         *)
(* utility::vector (utility/container/vector.hpp): erase moves elements    *)
(* from the end into the gap, capacities are powers of two, and insert     *)
(* into a full vector goes through an iterator that the reallocation has   *)
(* invalidated.                                                            *)
(*                                                                         *)
(* utility::fragmentation (utility/container/fragmentation.hpp): elements  *)
(* that stay where they are.  Of the table of indices the first size name  *)
(* the elements in use and the others the free cells, the next one to be   *)
(* used first; indices start with 0.                                       *)
(***************************************************************************)
EXTENDS Integers, Sequences, FiniteSets, SequencesExt

-----------------------------------------------------------------------------
(* Vectors.                                                                *)

\* vector::erase(begin + i - 1): the last element takes the place of the i-th.
WithoutAt(s, i) == [j \in 1 .. Len(s) - 1 |-> IF j = i THEN s[Len(s)] ELSE s[j]]

\* vector::erase of the first x.
Without(s, x) == WithoutAt(s, SelectInSeq(s, LAMBDA y : y = x))

\* vector::erase(begin, begin + n): elements from the end fill the gap.
WithoutFirst(s, n) ==
    [j \in 1 .. Len(s) - n |-> IF j <= n THEN s[Len(s) + 1 - j] ELSE s[j]]

\* reserve_power_of_two: the capacity a vector of capacity cap has with n elements.
Reserved(cap, n) ==
    IF n <= cap THEN cap
    ELSE CHOOSE p \in {2 ^ k : k \in 0 .. n} : n <= p /\ p < 2 * n

\* vector::insert(begin + i, x) with capacity cap: the element there moves to
\* the end.  If that reallocates, the write of x through the old iterator is
\* lost and the element that moves is read from the freed storage, where it
\* may, or may not (none), still be.
Inserted(s, cap, i, x, none) ==
    CASE i = Len(s) -> {Append(s, x)}
      [] i < Len(s) /\ Len(s) < cap -> {Append([s EXCEPT ![i + 1] = x], s[i + 1])}
      [] i < Len(s) /\ Len(s) = cap -> {Append(s, s[i + 1]), Append(s, none)}

-----------------------------------------------------------------------------
(* Fragmentations.                                                         *)

\* A cell without an element.
NoElement == "no element"

\* The constructor: no elements, and every index in order.
FragmentationOf(cap) ==
    [size |-> 0, indices |-> [i \in 1 .. cap |-> i - 1], cells |-> [i \in 1 .. cap |-> NoElement]]

capacity(f) == Len(f.indices)

UsedIndices(f) == {f.indices[i] : i \in 1 .. f.size}
FreeIndices(f) == {f.indices[i] : i \in f.size + 1 .. capacity(f)}

\* How often the table names a cell as one in use: not once each, after an EraseCell
\* of another than the last of them.
TimesNamed(f, index) == Cardinality({i \in 1 .. f.size : f.indices[i] = index})

\* fragmented_data::move into a larger allocation: the table is copied and continued,
\* and the elements that its first size entries name are moved.  One that is not named
\* stays behind; one that is named again is moved again, from where it is no more.
MovedTo(f, cap) ==
    [size |-> f.size,
     indices |-> f.indices \o [i \in 1 .. cap - capacity(f) |-> capacity(f) + i - 1],
     cells |-> [i \in 1 .. cap |-> IF TimesNamed(f, i - 1) = 1 THEN f.cells[i] ELSE NoElement]]

\* try_reserve: FALSE is returned by leaving the capacity as it is.
try_reserve(f, n, storage, limit) ==
    IF n <= capacity(f) \/ storage = "static" \/ n > limit THEN f
    ELSE MovedTo(f, CHOOSE p \in {2 ^ k : k \in 0 .. n} : n <= p /\ p < 2 * n)

\* try_emplace into a fragmentation that has room; it returns NextIndex.
NextIndex(f) == f.indices[f.size + 1]
EmplaceCell(f, value) == [f EXCEPT !.size = @ + 1, !.cells[NextIndex(f) + 1] = value]

\* try_erase: an index that is free is refused.  The index that was the last one in
\* use is overwritten, not swapped: the free indices are right, those in use are not.
EraseCell(f, index) ==
    IF index \in FreeIndices(f) THEN f
    ELSE [size |-> f.size - 1,
          indices |-> [f.indices EXCEPT ![f.size] = index],
          cells |-> [f.cells EXCEPT ![index + 1] = NoElement]]

=============================================================================
