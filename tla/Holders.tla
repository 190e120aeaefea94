------------------------------- MODULE Holders -------------------------------
(***************************************************************************)
(* utility::variant, optional and any: two holders, and the objects that   *)
(* the operations construct in them, copy, move and destruct.  A           *)
(* constructor of an object may throw.                                     *)
(*                                                                         *)
(* index is index_, _has_value or handler_: which alternative a holder     *)
(* believes it has.  cell is its union, its buffer or its ptr_: the object *)
(* that is really there.  Alternative 0 of an any is small, 1 is big.      *)
(***************************************************************************)
EXTENDS Integers, Sequences, FiniteSets

CONSTANTS
    HolderKinds,        \* of "variant", "optional" and "any"
    MaxHolderCalls      \* bound: operations

VARIABLES
    holder,     \* kind, the holders h, the objects made, and broken: a dead object was used
    want,       \* ghost: the value that a holder should have
    abused,     \* ghost: an operation whose outcome the code does not define
    holderCalls

holderVars == <<holder, want, abused, holderCalls>>

Absent == -2
npos == -1
Bare == 0
Spent == 0
NoInstance == <<>>
NoHolder == [index |-> Absent, cell |-> Bare]
HolderNames == {"a", "b"}

\* The alternatives of a kind.
Alternatives(kind) == IF kind = "optional" THEN {0} ELSE {0, 1}

HoldersInit ==
    /\ holder \in {[kind |-> k, h |-> [x \in HolderNames \cup {"tmp"} |-> NoHolder], objects |-> <<>>, broken |-> FALSE] : k \in HolderKinds}
    /\ want = [x \in HolderNames |-> <<Absent>>] /\ abused = "none" /\ holderCalls = 0

Here(s, x) == s.h[x].index # Absent
Index(s, x) == s.h[x].index
Instance(s, x) == s.objects[s.h[x].cell]
Held(s, x) == IF Index(s, x) = Absent THEN <<Absent>>
               ELSE IF Index(s, x) = npos THEN NoInstance
               ELSE <<Index(s, x), Instance(s, x).val>>

-----------------------------------------------------------------------------
(* What all three are made of.                                             *)

construct_in(s, x, alt, val) ==
    [s EXCEPT !.objects = Append(@, [alt |-> alt, val |-> val, live |-> TRUE]), !.h[x].cell = Len(s.objects) + 1]

IsLive(s, x) == s.h[x].cell # Bare /\ Instance(s, x).live

destruct_in(s, x) ==
    IF IsLive(s, x) THEN [s EXCEPT !.objects[s.h[x].cell].live = FALSE, !.h[x].cell = Bare]
    ELSE [s EXCEPT !.broken = TRUE]

SetIndex(s, x, i) == [s EXCEPT !.h[x].index = i]

\* The move of an instance leaves it without its value.
take(s, x) == [s EXCEPT !.objects[s.h[x].cell].val = Spent]

copy_instance(s, x, y) == [s EXCEPT !.objects[s.h[x].cell].val = Instance(s, y).val]
move_instance(s, x, y) == take(copy_instance(s, x, y), y)
swap_instance(s, x, y) == [s EXCEPT !.objects[s.h[x].cell].val = Instance(s, y).val, !.objects[s.h[y].cell].val = Instance(s, x).val]

copy_construct(s, x, y) == SetIndex(construct_in(s, x, Index(s, y), Instance(s, y).val), x, Index(s, y))
move_construct_in(s, x, y) == take(copy_construct(s, x, y), y)

Dispose(s, x) == [(IF Index(s, x) >= 0 THEN destruct_in(s, x) ELSE s) EXCEPT !.h[x] = NoHolder]
ClearHolder(s, x) == IF Index(s, x) >= 0 THEN SetIndex(destruct_in(s, x), x, npos) ELSE s

-----------------------------------------------------------------------------
(* variant.  In these, throw is the construction that throws, 0 for none.  *)

variant_copy(s, x, y, throw) ==
    IF Index(s, y) = npos THEN SetIndex(s, x, npos)
    ELSE IF throw > 0 THEN s ELSE copy_construct(s, x, y)

variant_move(s, x, y, throw) ==
    IF Index(s, y) = npos THEN SetIndex(s, x, npos)
    ELSE IF throw > 0 THEN s ELSE move_construct_in(s, x, y)

\* A copy of the other is made before what is there is destructed.
variant_copy_assign(s, x, y, throw) ==
    IF Index(s, y) = npos THEN ClearHolder(s, x)
    ELSE IF Index(s, x) = Index(s, y) THEN copy_instance(s, x, y)
    ELSE IF throw = 1 THEN s
    ELSE IF Index(s, x) = npos THEN copy_construct(s, x, y)
    ELSE LET cleared == ClearHolder(copy_construct(s, "tmp", y), x)
         IN Dispose(IF throw = 2 THEN cleared ELSE move_construct_in(cleared, x, "tmp"), "tmp")

variant_move_assign(s, x, y, throw) ==
    IF Index(s, x) = Index(s, y) THEN (IF Index(s, x) = npos THEN s ELSE move_instance(s, x, y))
    ELSE IF Index(s, y) = npos \/ throw > 0 THEN ClearHolder(s, x)
    ELSE move_construct_in(ClearHolder(s, x), x, y)

emplace(s, x, alt, val, throw) ==
    LET cleared == ClearHolder(s, x)
    IN IF throw > 0 THEN cleared ELSE SetIndex(construct_in(cleared, x, alt, val), x, alt)

assign(s, x, alt, val, throw) ==
    IF Index(s, x) = alt THEN [s EXCEPT !.objects[s.h[x].cell].val = val] ELSE emplace(s, x, alt, val, throw)

variant_swap(s, x, y, throw) ==
    LET toEmpty(from, to) == IF throw > 0 THEN s ELSE ClearHolder(move_construct_in(s, to, from), from)
        \* tmp has this; each is destructed before it is constructed from the other
        tmp == ClearHolder(move_construct_in(s, "tmp", x), x)
        half == ClearHolder(move_construct_in(tmp, x, y), y)
    IN IF Index(s, x) = Index(s, y) THEN (IF Index(s, x) = npos THEN s ELSE swap_instance(s, x, y))
       ELSE IF Index(s, x) = npos THEN toEmpty(y, x)
       ELSE IF Index(s, y) = npos THEN toEmpty(x, y)
       ELSE CASE throw = 0 -> Dispose(move_construct_in(half, y, "tmp"), "tmp")
              [] throw = 1 -> s
              [] throw = 2 -> Dispose(tmp, "tmp")
              [] throw = 3 -> Dispose(half, "tmp")

-----------------------------------------------------------------------------
(* optional.                                                               *)

optional_construct(s, x, val) == SetIndex(construct_in(s, x, 0, val), x, 0)

\* The base has _has_value when the value is constructed: when that throws,
\* the base destructs a value that is not there.
optional_copy(s, x, y, throw) ==
    LET based == SetIndex(s, x, Index(s, y))
    IN IF Index(s, y) = npos THEN based
       ELSE IF throw > 0 THEN Dispose(based, x) ELSE construct_in(based, x, 0, Instance(s, y).val)

optional_move(s, x, y, throw) ==
    IF Index(s, y) = npos \/ throw > 0 THEN optional_copy(s, x, y, throw) ELSE take(optional_copy(s, x, y, throw), y)

optional_copy_assign(s, x, y, throw) ==
    IF Index(s, x) # npos THEN (IF Index(s, y) # npos THEN copy_instance(s, x, y) ELSE ClearHolder(s, x))
    ELSE IF Index(s, y) = npos \/ throw > 0 THEN s ELSE copy_construct(s, x, y)

optional_move_assign(s, x, y, throw) ==
    IF Index(s, x) # npos THEN (IF Index(s, y) # npos THEN move_instance(s, x, y) ELSE ClearHolder(s, x))
    ELSE IF Index(s, y) = npos \/ throw > 0 THEN s ELSE move_construct_in(s, x, y)

optional_assign(s, x, val, throw) ==
    IF Index(s, x) # npos THEN [s EXCEPT !.objects[s.h[x].cell].val = val]
    ELSE IF throw > 0 THEN s ELSE optional_construct(s, x, val)

\* A value that is there already is not destructed.
optional_emplace(s, x, val, throw) == IF throw > 0 THEN s ELSE optional_construct(s, x, val)

take_ownership_of(s, x, y, throw) == IF throw > 0 THEN s ELSE ClearHolder(move_construct_in(s, x, y), y)

optional_swap(s, x, y, throw) ==
    CASE Index(s, x) # npos /\ Index(s, y) # npos -> swap_instance(s, x, y)
      [] Index(s, x) # npos /\ Index(s, y) = npos -> take_ownership_of(s, y, x, throw)
      [] Index(s, x) = npos /\ Index(s, y) # npos -> take_ownership_of(s, x, y, throw)
      [] OTHER -> s

-----------------------------------------------------------------------------
(* any.                                                                    *)

\* any_action::move: a big object changes hands, a small one is made anew and
\* destructed where it was.  The handler of the one moved from stays.
big_move(s, x, y) == [s EXCEPT !.h[x] = s.h[y]]
small_move(s, x, y) == destruct_in(copy_construct(s, x, y), y)
handler_move(s, x, y) == IF Index(s, y) = 1 THEN big_move(s, x, y) ELSE small_move(s, x, y)

create(s, x, alt, val) == SetIndex(construct_in(s, x, alt, val), x, alt)

any_move(s, x, y) == IF Index(s, y) = npos THEN s ELSE SetIndex(handler_move(s, x, y), y, npos)

any_move_assign(s, x, y) == any_move(ClearHolder(s, x), x, y)

\* swap that lets tmp keep its handler.
any_swap_twice(s, x, y) ==
    IF x = y THEN s
    ELSE IF Index(s, x) # npos /\ Index(s, y) # npos
    THEN Dispose(handler_move(handler_move(handler_move(s, "tmp", x), x, y), y, "tmp"), "tmp")
    ELSE any_move(any_move(s, x, y), y, x)

any_swap(s, x, y) ==
    CASE Index(s, x) # npos /\ Index(s, y) # npos ->
           IF x = y THEN s
           ELSE Dispose(SetIndex(handler_move(handler_move(handler_move(s, "tmp", x), x, y), y, "tmp"), "tmp", npos), "tmp")
      [] Index(s, x) # npos /\ Index(s, y) = npos -> any_move(s, y, x)
      [] OTHER -> any_move(s, x, y)

any_assign(s, x, alt, val, throw) ==
    IF throw > 0 THEN s
    ELSE Dispose(any_move_assign(create(s, "tmp", alt, val), x, "tmp"), "tmp")

-----------------------------------------------------------------------------
(* The calls.                                                              *)

\* What a call leaves; what each holder should have then is given by w.  After
\* a throw a holder has what it has, as long as it owns it.
Does(s, w, throw, why) ==
    /\ abused = "none" /\ holderCalls < MaxHolderCalls
    /\ holder' = s /\ holderCalls' = holderCalls + 1
    /\ want' = [x \in HolderNames |-> IF throw > 0 THEN Held(s, x) ELSE w[x]]
    /\ abused' = why

Wants(x, v) == [want EXCEPT ![x] = v]
Spend(v) == IF Len(v) = 2 THEN <<v[1], Spent>> ELSE v
IsKind(k) == holder.kind = k
Throws == 0 .. 3

Default(x) ==
    /\ ~Here(holder, x)
    /\ LET empty == SetIndex(holder, x, npos)
       IN IF IsKind("variant") THEN Does(emplace(empty, x, 0, 1, 0), Wants(x, <<0, 1>>), 0, "none")
          ELSE Does(empty, Wants(x, NoInstance), 0, "none")

Destroy(x) == Here(holder, x) /\ Does(Dispose(holder, x), Wants(x, <<Absent>>), 0, "none")

CopyConstruct(x, y) ==
    /\ ~Here(holder, x) /\ Here(holder, y)
    /\ \E throw \in {0, 1} :
        \/ IsKind("variant") /\ Does(variant_copy(holder, x, y, throw), Wants(x, want[y]), throw, "none")
        \/ /\ IsKind("optional")
           /\ Does(optional_copy(holder, x, y, throw), Wants(x, want[y]), throw,
                   IF throw > 0 /\ Index(holder, y) # npos THEN "throws" ELSE "none")

MoveConstruct(x, y) ==
    /\ ~Here(holder, x) /\ Here(holder, y)
    /\ LET w == [Wants(x, want[y]) EXCEPT ![y] = Spend(want[y])]
       IN \E throw \in {0, 1} :
            \/ IsKind("variant") /\ Does(variant_move(holder, x, y, throw), w, throw, "none")
            \/ /\ IsKind("optional")
               /\ Does(optional_move(holder, x, y, throw), w, throw,
                       IF throw > 0 /\ Index(holder, y) # npos THEN "throws" ELSE "none")
            \/ /\ IsKind("any")
               /\ Does(any_move(SetIndex(holder, x, npos), x, y), [Wants(x, want[y]) EXCEPT ![y] = NoInstance], 0, "none")

CopyAssignHolder(x, y) ==
    /\ Here(holder, x) /\ Here(holder, y)
    /\ \E throw \in 0 .. 2 :
        \/ IsKind("variant") /\ Does(variant_copy_assign(holder, x, y, throw), Wants(x, want[y]), throw, "none")
        \/ IsKind("optional") /\ Does(optional_copy_assign(holder, x, y, throw), Wants(x, want[y]), throw, "none")

MoveAssignHolder(x, y) ==
    /\ x # y /\ Here(holder, x) /\ Here(holder, y)
    /\ LET w == [Wants(x, want[y]) EXCEPT ![y] = Spend(want[y])]
       IN \E throw \in {0, 1} :
            \/ IsKind("variant") /\ Does(variant_move_assign(holder, x, y, throw), w, throw, "none")
            \/ IsKind("optional") /\ Does(optional_move_assign(holder, x, y, throw), w, throw, "none")
            \/ IsKind("any") /\ Does(any_move_assign(holder, x, y), [Wants(x, want[y]) EXCEPT ![y] = NoInstance], 0, "none")

Assign(x, alt, val) ==
    /\ Here(holder, x)
    /\ \E throw \in {0, 1} :
        \/ IsKind("variant") /\ Does(assign(holder, x, alt, val, throw), Wants(x, <<alt, val>>), throw, "none")
        \/ IsKind("optional") /\ Does(optional_assign(holder, x, val, throw), Wants(x, <<alt, val>>), throw, "none")
        \/ IsKind("any") /\ Does(any_assign(holder, x, alt, val, throw), Wants(x, <<alt, val>>), throw, "none")

Emplace(x, alt, val) ==
    /\ Here(holder, x)
    /\ \E throw \in {0, 1} :
        \/ holder.kind # "optional" /\ Does(emplace(holder, x, alt, val, throw), Wants(x, <<alt, val>>), throw, "none")
        \/ /\ IsKind("optional")
           /\ Does(optional_emplace(holder, x, val, throw), Wants(x, <<alt, val>>), throw,
                   IF Index(holder, x) # npos THEN "emplace" ELSE "none")

Swap(x, y) ==
    /\ Here(holder, x) /\ Here(holder, y)
    /\ LET w == [want EXCEPT ![x] = want[y], ![y] = want[x]]
       IN \E throw \in Throws :
            \/ IsKind("variant") /\ Does(variant_swap(holder, x, y, throw), w, throw, "none")
            \/ IsKind("optional") /\ Does(optional_swap(holder, x, y, throw), w, throw, "none")
            \/ IsKind("any") /\ Does(any_swap(holder, x, y), w, 0, "none")

\* reset, and the assignment of nullopt.
Reset(x) ==
    /\ Here(holder, x) /\ ~IsKind("variant")
    /\ Does(ClearHolder(holder, x), Wants(x, NoInstance), 0, "none")

HoldersNext ==
    \E x \in HolderNames :
        \/ Default(x) \/ Destroy(x) \/ Reset(x)
        \/ \E y \in HolderNames : CopyConstruct(x, y) \/ MoveConstruct(x, y) \/ CopyAssignHolder(x, y) \/ MoveAssignHolder(x, y) \/ Swap(x, y)
        \/ \E alt \in Alternatives(holder.kind), val \in 1 .. 2 : Assign(x, alt, val) \/ Emplace(x, alt, val)

HoldersSpec == HoldersInit /\ [][HoldersNext]_holderVars

-----------------------------------------------------------------------------
(* The comparisons of variants and of optionals.                           *)

Both(a, b) == a # NoInstance /\ b # NoInstance
equality(a, b) == IF Both(a, b) THEN a[1] = b[1] /\ a[2] = b[2] ELSE a = NoInstance /\ b = NoInstance
inequality(a, b) == IF Both(a, b) THEN a[1] # b[1] \/ a[2] # b[2] ELSE a # NoInstance \/ b # NoInstance
less_than(a, b) == IF Both(a, b) THEN a[1] < b[1] \/ (a[1] = b[1] /\ a[2] < b[2]) ELSE a = NoInstance /\ b # NoInstance
greater_than(a, b) == IF Both(a, b) THEN a[1] > b[1] \/ (a[1] = b[1] /\ a[2] > b[2]) ELSE a # NoInstance /\ b = NoInstance
less_equal(a, b) == IF Both(a, b) THEN a[1] < b[1] \/ (a[1] = b[1] /\ a[2] <= b[2]) ELSE a = NoInstance
greater_equal(a, b) == IF Both(a, b) THEN a[1] > b[1] \/ (a[1] = b[1] /\ a[2] >= b[2]) ELSE b = NoInstance

compare(a, b) ==
    [eq |-> equality(a, b), ne |-> inequality(a, b), lt |-> less_than(a, b),
     le |-> less_equal(a, b), gt |-> greater_than(a, b), ge |-> greater_equal(a, b)]

\* An optional with nullopt, and nullopt with an optional.
with_null(a) == [eq |-> a = NoInstance, ne |-> a # NoInstance, lt |-> FALSE, le |-> a = NoInstance, gt |-> a # NoInstance, ge |-> TRUE]
of_null(a) == [eq |-> a = NoInstance, ne |-> a # NoInstance, lt |-> a # NoInstance, le |-> TRUE, gt |-> FALSE, ge |-> a = NoInstance]

\* An optional with a value, and a value with an optional: there != is an ==,
\* and >= names a member that is not there and does not compile.
with_value(a, v) ==
    IF a # NoInstance THEN compare(a, <<0, v>>)
    ELSE [eq |-> FALSE, ne |-> TRUE, lt |-> TRUE, le |-> TRUE, gt |-> FALSE, ge |-> FALSE]
of_value(v, a) ==
    LET c == compare(<<0, v>>, a)
    IN IF a # NoInstance THEN [eq |-> c.eq, ne |-> c.eq, lt |-> c.lt, le |-> c.le, gt |-> c.gt]
       ELSE [eq |-> FALSE, ne |-> TRUE, lt |-> FALSE, le |-> FALSE, gt |-> TRUE]

\* any_cast looks at the type; get of a variant only at whether it has a value.
any_get(s, x, alt) == IF Index(s, x) = alt THEN <<Instance(s, x).val>> ELSE NoInstance
variant_get(s, x) == IF Index(s, x) = npos THEN NoInstance ELSE <<Instance(s, x).val>>

-----------------------------------------------------------------------------
(* Properties.                                                             *)

\* A holder that believes that it has an alternative has a live object of it.
BeliefTrue ==
    \A x \in HolderNames : Index(holder, x) >= 0 => IsLive(holder, x) /\ Instance(holder, x).alt = Index(holder, x)

\* A live object is in one holder, that knows it.
NoneLost ==
    \A n \in DOMAIN holder.objects :
        holder.objects[n].live => Cardinality({x \in HolderNames : Index(holder, x) >= 0 /\ holder.h[x].cell = n}) = 1

\* Two holders are equal, or one is less, and the six operators agree on it.
Ordered(a, b) ==
    /\ Cardinality({r \in {1, 2, 3} : <<less_than(a, b), equality(a, b), greater_than(a, b)>>[r]}) = 1
    /\ inequality(a, b) = ~equality(a, b)
    /\ less_equal(a, b) = (less_than(a, b) \/ equality(a, b))
    /\ greater_equal(a, b) = (greater_than(a, b) \/ equality(a, b))

\* What is compared with nullopt or with a value is compared with an optional
\* that has as much; the != and the >= of a value and an optional are left out.
Comparable(a, v) ==
    /\ with_null(a) = compare(a, NoInstance) /\ of_null(a) = compare(NoInstance, a)
    /\ with_value(a, v) = compare(a, <<0, v>>)
    /\ LET b == of_value(v, a)
           c == compare(<<0, v>>, a)
       IN b.eq = c.eq /\ b.lt = c.lt /\ b.le = c.le /\ b.gt = c.gt

\* get of the alternative that was given, and a cast to any other, find what
\* is there.
Gets(x) ==
    /\ IsKind("any") => \A alt \in {0, 1} : any_get(holder, x, alt) = (IF Len(want[x]) = 2 /\ want[x][1] = alt THEN <<want[x][2]>> ELSE NoInstance)
    /\ IsKind("variant") => variant_get(holder, x) = (IF want[x] = NoInstance THEN NoInstance ELSE <<want[x][2]>>)

\* Whatever is copied, moved, swapped or emplaced in a variant, an optional or
\* an any, and whichever constructor throws: the holder has the value that it
\* was given, each object is destructed once, in the one holder that has it,
\* and none is lost; and the values compare as an order.  Left out is what
\* follows a copy or a move construction of an optional that throws, whose base
\* then destructs a value that was not made, and an emplace in an optional that
\* has a value, which is not destructed.
HoldersOwn ==
    abused = "none" =>
        /\ ~holder.broken /\ BeliefTrue /\ NoneLost
        /\ \A x \in HolderNames : Held(holder, x) = want[x]
        /\ \A x \in HolderNames : Here(holder, x) => Gets(x)
        /\ \A x \in HolderNames, v \in 1 .. 2 : (Here(holder, x) /\ IsKind("optional")) => Comparable(Held(holder, x), v)
        /\ \A x, y \in HolderNames :
             (Here(holder, x) /\ Here(holder, y) /\ ~IsKind("any")) => Ordered(Held(holder, x), Held(holder, y))

=============================================================================
