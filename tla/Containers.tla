----------------------------- MODULE Containers ------------------------------
(***************************************************************************)
(* Lifetimes in utility::vector and utility::array (vector.hpp, array.hpp) *)
(* over static_storage and heap_storage (storage.hpp), with the copies and *)
(* moves of container.hpp.  A cell of a storage is raw, or an element      *)
(* lives in it: a value, or MovedFrom.  What C++ leaves undefined sets     *)
(* broken: constructing over an element, or reading, assigning or          *)
(* destructing where there is none.                                        *)
(*                                                                         *)
(* A container is a record of its kind, whether its storage is static, the *)
(* cells of its storage, and end_; cap_ is the number of cells.            *)
(***************************************************************************)
EXTENDS Integers, Sequences

CONSTANTS
    Kinds,          \* <<kind, is static>> pairs the two containers may be of
    StaticCapacity,
    MaxCells,       \* bound: cells of a heap storage
    MaxCalls        \* bound: calls made

ASSUME KindsAssumption == Kinds \subseteq {"vector", "array"} \X BOOLEAN
ASSUME CapacityAssumption == StaticCapacity \in Nat

VARIABLES
    box,            \* the containers "a" and "b", and broken
    contents,       \* ghost: what the containers should hold
    misused,        \* ghost: what has been done that the containers do not survive
    ncalls

containerVars == <<box, contents, misused, ncalls>>

Names == {"a", "b"}
RawCell == 0
MovedFrom == -1
Fresh == -2     \* an element that a constructor without arguments made

\* Sequences of elements are written <<>> \o [...], a sequence whatever n is.
RawCells(n) == <<>> \o [i \in 1 .. n |-> RawCell]
Cap(x) == Len(x.cells)

-----------------------------------------------------------------------------
(* Storages.  A box is passed from step to step.                           *)

construct_at(w, c, i, value) ==
    IF i > Cap(w[c]) THEN [w EXCEPT !.broken = TRUE]
    ELSE [w EXCEPT ![c].cells[i] = value, !.broken = @ \/ w[c].cells[i] # RawCell \/ value = RawCell]

destruct_at(w, c, i) ==
    [w EXCEPT ![c].cells[i] = RawCell, !.broken = @ \/ w[c].cells[i] = RawCell]

assign_at(w, c, i, value) ==
    [w EXCEPT ![c].cells[i] = value, !.broken = @ \/ w[c].cells[i] = RawCell \/ value = RawCell]

\* iter_move: what is at i is taken, and is left MovedFrom once it is used.
leave_at(w, c, i) ==
    [w EXCEPT ![c].cells[i] = IF @ = RawCell THEN RawCell ELSE MovedFrom]

\* From the elements of a sequence of cells, one after the other.
construct_range(w, c, values) ==
    LET cells == w[c].cells
        n == Len(values)
    IN [w EXCEPT ![c].cells = <<>> \o [i \in 1 .. Cap(w[c]) |-> IF i <= n THEN values[i] ELSE cells[i]],
                 !.broken = @ \/ n > Cap(w[c]) \/ \E i \in 1 .. n : values[i] = RawCell \/ (i <= Cap(w[c]) /\ cells[i] # RawCell)]

construct_fill(w, c, from, count) ==
    LET cells == w[c].cells
        filled == from .. from + count - 1
    IN [w EXCEPT ![c].cells = <<>> \o [i \in 1 .. Cap(w[c]) |-> IF i \in filled THEN Fresh ELSE cells[i]],
                 !.broken = @ \/ \E i \in filled : i > Cap(w[c]) \/ cells[i] # RawCell]

destruct_range(w, c, from, to) ==
    LET cells == w[c].cells
    IN [w EXCEPT ![c].cells = <<>> \o [i \in 1 .. Cap(w[c]) |-> IF i \in from .. to THEN RawCell ELSE cells[i]],
                 !.broken = @ \/ \E i \in from .. to : cells[i] = RawCell]

Used(x) == SubSeq(x.cells, 1, x.end)

\* reserve_power_of_two for vectors, reserve_exact for arrays.
Reserve(x, n) ==
    IF x.static THEN StaticCapacity
    ELSE IF x.kind = "array" \/ n = 0 THEN n
    ELSE CHOOSE p \in {2 ^ k : k \in 0 .. n} : n <= p /\ p < 2 * n

\* allocate, in a storage that has nothing; w.memory says whether there is memory.
allocate(w, c, n) == [w EXCEPT ![c].cells = IF w.memory \/ w[c].static THEN RawCells(n) ELSE <<>>, ![c].end = 0]
Allocates(w, c) == w.memory \/ w[c].static

\* What is destructed is not what is deallocated: a static storage stays.
purge(w, c) ==
    LET u == destruct_range(w, c, 1, w[c].end)
    IN [u EXCEPT ![c].cells = IF w[c].static THEN @ ELSE <<>>, ![c].end = 0]

-----------------------------------------------------------------------------
(* Copies and moves.                                                       *)

SetEnd(w, c, n) == [w EXCEPT ![c].end = IF w[c].kind = "array" THEN Cap(w[c]) ELSE n]

\* An array is filled up to its capacity.
FilledUp(w, c, n) ==
    IF w[c].kind = "array" THEN construct_fill(w, c, n + 1, Cap(w[c]) - n) ELSE w

copy(w, c, values) == SetEnd(FilledUp(construct_range(w, c, values), c, Len(values)), c, Len(values))

\* copy_assign without the destruction of what is there.
copy_assign_over(w, c, d) ==
    IF Cap(w[c]) >= w[d].end /\ w[c].kind = "vector" THEN copy(w, c, Used(w[d]))
    ELSE LET u == allocate(purge(w, c), c, Reserve(w[c], w[d].end))
         IN IF Allocates(w, c) THEN copy(u, c, Used(u[d])) ELSE u

fits(x, y) == IF x.kind = "array" THEN Cap(x) = Cap(y) ELSE Cap(x) >= y.end

copy_assign(w, c, d) ==
    LET emptied == [destruct_range(w, c, 1, w[c].end) EXCEPT ![c].end = w[c].end]
        purged == allocate(purge(w, c), c, Reserve(w[c], w[d].end))
    IN IF fits(w[c], w[d]) THEN copy(emptied, c, Used(emptied[d]))
       ELSE IF Allocates(w, c) THEN copy(purged, c, Used(purged[d])) ELSE purged

\* A heap storage changes hands; the elements of a static one are moved.
move_assign(w, c, d) ==
    IF ~w[c].static
    THEN LET u == purge(w, c)
         IN [u EXCEPT ![c].cells = u[d].cells, ![c].end = u[d].end, ![d].cells = <<>>, ![d].end = 0]
    ELSE LET emptied == destruct_range(w, c, 1, w[c].end)
             u == copy(emptied, c, Used(emptied[d]))
         IN [u EXCEPT ![d].cells = <<>> \o [i \in 1 .. Cap(u[d]) |-> IF i <= u[d].end /\ @[i] # RawCell THEN MovedFrom ELSE @[i]]]

\* The new storage gets what is in the old one, however small it is.
Relocated(w, c, n) ==
    LET values == Used(w[c])
        fresh == [w EXCEPT ![c].cells = RawCells(Reserve(w[c], n)), ![c].end = 0]
    IN copy(fresh, c, values)

try_reallocate(w, c, n) ==
    IF w[c].static \/ ~w.memory THEN [w EXCEPT !.result = FALSE]
    ELSE [Relocated(w, c, n) EXCEPT !.result = TRUE]

vector_reserve(w, c, n) ==
    IF n <= Cap(w[c]) THEN [w EXCEPT !.result = TRUE] ELSE try_reallocate(w, c, n)

-----------------------------------------------------------------------------
(* Operations of vector.  Positions start with 1.                          *)

vector_clear(w, c) == SetEnd(destruct_range(w, c, 1, w[c].end), c, 0)

vector_resize(w, c, n) ==
    IF n < w[c].end THEN SetEnd(destruct_range(w, c, n + 1, w[c].end), c, n)
    ELSE LET u == vector_reserve(w, c, n)
         IN IF u.result THEN SetEnd(construct_fill(u, c, u[c].end + 1, n - u[c].end), c, n) ELSE u

try_emplace_back(w, c, value) ==
    LET u == vector_reserve(w, c, w[c].end + 1)
    IN IF u.result THEN SetEnd(construct_at(u, c, u[c].end + 1, value), c, u[c].end + 1) ELSE u

\* The element at i is constructed again at the end and then assigned: through an iterator
\* into the storage of before.
vector_insert(w, c, i, value) ==
    IF i > w[c].end THEN try_emplace_back(w, c, value)
    ELSE LET u == try_emplace_back(w, c, w[c].cells[i])
         IN IF ~u.result THEN u
            ELSE IF Cap(u[c]) # Cap(w[c]) THEN [u EXCEPT !.broken = TRUE]
            ELSE assign_at(leave_at(u, c, i), c, i, value)

vector_erase(w, c, i) ==
    LET last == w[c].end
    IN SetEnd(destruct_at(assign_at(w, c, i, w[c].cells[last]), c, last), c, last - 1)

\* [from, to): every position is assigned, those at the end after they were destructed.
erase_range(w, c, from, to) ==
    LET erased[n \in 0 .. to - from] == IF n = 0 THEN w ELSE vector_erase(erased[n - 1], c, from + n - 1)
    IN erased[to - from]

\* What comes after the range is moved down, one element after the other, and the rest
\* is destructed.
erase_stable(w, c, from, to) ==
    LET cells == w[c].cells
        n == to - from
        left == w[c].end - n
        moved == [w EXCEPT ![c].cells = <<>> \o [i \in 1 .. Cap(w[c]) |->
                                            IF i \in from .. left THEN cells[i + n]
                                            ELSE IF i \in to .. w[c].end /\ cells[i] # RawCell THEN MovedFrom ELSE cells[i]],
                           !.broken = @ \/ \E i \in from .. left : cells[i] = RawCell \/ cells[i + n] = RawCell]
    IN SetEnd(destruct_range(moved, c, left + 1, w[c].end), c, left)

-----------------------------------------------------------------------------
(* The calls, with what a sequence would become.                           *)

FreshOnes(n) == <<>> \o [i \in 1 .. n |-> Fresh]

\* The default constructor; an array has elements in all of its cells.
NewContainer(kind) ==
    LET n == IF kind[2] THEN StaticCapacity ELSE 0
        isArray == kind[1] = "array"
    IN [kind |-> kind[1], static |-> kind[2],
        cells |-> IF isArray THEN FreshOnes(n) ELSE RawCells(n), end |-> IF isArray THEN n ELSE 0]

ContainersInit ==
    /\ \E kind \in Kinds :
        /\ box = [a |-> NewContainer(kind), b |-> NewContainer(kind), broken |-> FALSE, memory |-> TRUE, result |-> TRUE]
        /\ contents = [c \in Names |-> Used(NewContainer(kind))]
    /\ misused = {} /\ ncalls = 0

\* c is left as w has it; q is what it should be when the call is done.
Call(w, c, q) ==
    /\ box' = [w EXCEPT !.memory = TRUE, !.result = TRUE]
    /\ contents' = [contents EXCEPT ![c] = q]

WithMemory(m) == [box EXCEPT !.memory = m, !.result = TRUE]
IsVector(c) == box[c].kind = "vector"
IsArray(c) == box[c].kind = "array"
Value == 1 + (ncalls % 2)

Clear(c) == IsVector(c) /\ Call(vector_clear(box, c), c, <<>>) /\ UNCHANGED misused

TryReserve(c, m, n) ==
    LET w == vector_reserve(WithMemory(m), c, n)
        grown == IF IsArray(c) /\ w.result /\ n > Cap(box[c]) THEN FreshOnes(n - Cap(box[c])) ELSE <<>>
    IN Call(w, c, contents[c] \o grown) /\ UNCHANGED misused

Resize(c, m, n) ==
    LET w == vector_resize(WithMemory(m), c, n)
        old == contents[c]
    IN /\ IsVector(c) /\ UNCHANGED misused
       /\ Call(w, c, CASE n < Len(old) -> SubSeq(old, 1, n) [] n >= Len(old) /\ w.result -> old \o FreshOnes(n - Len(old)) [] OTHER -> old)

\* array::resize reallocates whatever the size: a smaller one is overrun.
ResizeArray(c, m, n) ==
    LET w == try_reallocate(WithMemory(m), c, n)
    IN /\ IsArray(c)
       /\ misused' = IF w.result /\ n < Cap(box[c]) THEN misused \cup {"shrink"} ELSE misused
       /\ Call(w, c, IF w.result THEN contents[c] \o FreshOnes(n - Len(contents[c])) ELSE contents[c])

EmplaceBack(c, m) ==
    LET w == try_emplace_back(WithMemory(m), c, Value)
    IN IsVector(c) /\ UNCHANGED misused /\ Call(w, c, IF w.result THEN Append(contents[c], Value) ELSE contents[c])

Insert(c, m, i) ==
    LET w == vector_insert(WithMemory(m), c, i, Value)
        old == contents[c]
    IN /\ IsVector(c) /\ i <= Len(old)
       /\ misused' = IF w.result /\ box[c].end = Cap(box[c]) THEN misused \cup {"insert"} ELSE misused
       /\ Call(w, c, IF w.result THEN Append([old EXCEPT ![i] = Value], old[i]) ELSE old)

EraseRange(c, i, j) ==
    LET old == contents[c]
        n == Len(old)
        left == n - (j - i)
    IN /\ IsVector(c) /\ i < j /\ j <= n + 1
       /\ misused' = IF n + 1 - (j - i) < j - 1 THEN misused \cup {"overlap"} ELSE misused
       /\ Call(erase_range(box, c, i, j), c,
               [k \in 1 .. left |-> IF k >= i /\ k < j THEN old[n - (k - i)] ELSE old[k]])

EraseStable(c, i, j) ==
    /\ IsVector(c) /\ i < j /\ j <= Len(contents[c]) + 1 /\ UNCHANGED misused
    /\ Call(erase_stable(box, c, i, j), c, SubSeq(contents[c], 1, i - 1) \o SubSeq(contents[c], j, Len(contents[c])))

\* An assignment of a container to itself destructs what it is to copy.
CopyAssign(c, d, m) ==
    LET w == copy_assign(WithMemory(m), c, d)
    IN /\ misused' = IF c = d /\ box[c].end > 0 THEN misused \cup {"self"} ELSE misused
       /\ Call(w, c, IF fits(box[c], box[d]) \/ Allocates(WithMemory(m), c) THEN contents[d] ELSE <<>>)

MoveAssign(c, d) ==
    /\ c # d /\ UNCHANGED misused
    /\ box' = move_assign(box, c, d)
    /\ contents' = [contents EXCEPT ![c] = contents[d],
                                    ![d] = IF box[d].static THEN [i \in 1 .. Len(@) |-> MovedFrom] ELSE <<>>]

ContainersNext ==
    /\ ncalls < MaxCalls /\ ncalls' = ncalls + 1 /\ misused = {}
    /\ \E c \in Names, m \in BOOLEAN :
        \/ m /\ Clear(c)
        \/ \E n \in 1 .. MaxCells : TryReserve(c, m, n) \/ Resize(c, m, n) \/ ResizeArray(c, m, n)
        \/ Cap(box[c]) < MaxCells /\ EmplaceBack(c, m)
        \/ \E i \in 1 .. MaxCells : box[c].end < MaxCells /\ Insert(c, m, i)
        \/ \E i, j \in 1 .. MaxCells + 1 : m /\ (EraseRange(c, i, j) \/ EraseStable(c, i, j))
        \/ \E d \in Names : CopyAssign(c, d, m) \/ (m /\ MoveAssign(c, d))

ContainersSpec == ContainersInit /\ [][ContainersNext]_containerVars

-----------------------------------------------------------------------------
(* Properties.                                                             *)

\* However the calls follow each other, and wherever memory runs out, what
\* breaks a container is exactly this: making an array smaller, inserting in
\* the middle of a full vector, erasing a range in which the elements that are
\* to fill it lie, and assigning a container with elements to itself.
\* Otherwise no element is destructed twice or used where there is none,
\* every cell past the end is raw, and the elements are those that a sequence
\* would have (vector.hpp, array.hpp, container.hpp).
ElementsLive ==
    /\ box.broken <=> misused # {}
    /\ misused = {} =>
        \A c \in Names :
            /\ Used(box[c]) = contents[c]
            /\ \A i \in box[c].end + 1 .. Cap(box[c]) : box[c].cells[i] = RawCell

=============================================================================
