-------------------------- MODULE Holders_proofs ----------------------------
(***************************************************************************)
(* Proofs about the variant, optional and any of Holders, for any number   *)
(* of calls and any constructor that throws.                               *)
(***************************************************************************)
EXTENDS Holders, FiniteSetTheorems, SequenceTheorems, TLAPS

-----------------------------------------------------------------------------
(* Holders.  s stands for a state of the holders in the middle of an       *)
(* operation: some of them, the owners N, have the live objects, and the   *)
(* others have indices and cells that nobody looks at any more.            *)

HolderSlots == HolderNames \cup {"tmp"}
HolderIndex == {Absent, npos, 0, 1}
HeldValue == [index : HolderIndex, val : Int]
Emptied == [index |-> npos, val |-> Spent]
Gone == [index |-> Absent, val |-> Spent]

HolderCell == [index : HolderIndex, cell : Nat]
HolderObject == [alt : {0, 1}, val : Int, live : BOOLEAN]
HolderStates(k) == [kind : {k}, h : [HolderSlots -> HolderCell], objects : Seq(HolderObject), broken : BOOLEAN]

\* x has a live object of the alternative that it believes to have.
OwnsOne(s, x) ==
    /\ s.h[x].cell \in DOMAIN s.objects /\ Instance(s, x).live
    /\ Instance(s, x).alt = Index(s, x) /\ (s.kind = "optional" => Index(s, x) = 0)

Owners(s, N) == {x \in N : Index(s, x) >= 0}

\* Every live object has one owner.
OwnedOnce(s, N) ==
    /\ \A x \in Owners(s, N) : OwnsOne(s, x)
    /\ \A x, y \in Owners(s, N) : s.h[x].cell = s.h[y].cell => x = y
    /\ \A n \in DOMAIN s.objects : s.objects[n].live => \E x \in Owners(s, N) : s.h[x].cell = n

\* v is what the owners N have.
Shows(s, k, N, v) ==
    /\ s \in HolderStates(k) /\ ~s.broken /\ N \subseteq HolderSlots /\ OwnedOnce(s, N)
    /\ v \in [HolderSlots -> HeldValue]
    /\ \A x \in N : v[x].index = Index(s, x) /\ (Index(s, x) >= 0 => v[x].val = Instance(s, x).val)

\* An object is constructed in a holder that has none (construct_in, and the
\* index that is set with it).
LEMMA CreateShows ==
    ASSUME NEW s, NEW k, NEW N, NEW v, Shows(s, k, N, v), NEW x \in HolderSlots, x \in N => v[x].index < 0,
           NEW alt \in {0, 1}, k = "optional" => alt = 0, NEW val \in Int
    PROVE  Shows(create(s, x, alt, val), k, N \cup {x}, [v EXCEPT ![x] = [index |-> alt, val |-> val]])
<1> DEFINE o == [alt |-> alt, val |-> val, live |-> TRUE]
           n == Len(s.objects) + 1
           t == create(s, x, alt, val)
           w == [v EXCEPT ![x] = [index |-> alt, val |-> val]]
           u == construct_in(s, x, alt, val)
<1>1. s \in HolderStates(k) /\ ~s.broken /\ N \subseteq HolderSlots /\ OwnedOnce(s, N) /\ v \in [HolderSlots -> HeldValue]
  BY DEF Shows
<1>2. o \in HolderObject /\ n \in Nat
  BY <1>1 DEF HolderObject, HolderStates
<1>3. /\ u \in HolderStates(k) /\ ~u.broken /\ u.objects = Append(s.objects, o) /\ DOMAIN u.h = HolderSlots
      /\ u.h[x].cell = n /\ \A y \in HolderSlots \ {x} : u.h[y] = s.h[y]
  <2>1. [s.h EXCEPT ![x].cell = n] \in [HolderSlots -> HolderCell] /\ Append(s.objects, o) \in Seq(HolderObject)
    <3>1. s.h \in [HolderSlots -> HolderCell] /\ s.objects \in Seq(HolderObject)
      BY <1>1 DEF HolderStates
    <3> HIDE DEF o, n
    <3>2. Append(s.objects, o) \in Seq(HolderObject)
      BY <3>1, <1>2
    <3>3. [s.h EXCEPT ![x].cell = n] \in [HolderSlots -> HolderCell]
      BY <3>1, <1>2 DEF HolderCell
    <3> QED
      BY <3>2, <3>3
  <2>2. u = [s EXCEPT !.objects = Append(@, o), !.h[x].cell = n]
    BY DEF construct_in
  <2> HIDE DEF u, o, n
  <2>3. /\ u \in HolderStates(k) /\ u.broken = s.broken /\ u.objects = Append(s.objects, o)
        /\ u.h = [s.h EXCEPT ![x].cell = n]
    BY <1>1, <2>1, <2>2 DEF HolderStates
  <2> QED
    BY <1>1, <2>3 DEF HolderStates, HolderCell
<1>4. t = [u EXCEPT !.h[x].index = alt]
  BY DEF create, SetIndex
<1> HIDE DEF t, u
<1>5. /\ t \in HolderStates(k) /\ ~t.broken /\ t.objects = Append(s.objects, o)
      /\ t.h[x].index = alt /\ t.h[x].cell = n /\ \A y \in HolderSlots \ {x} : t.h[y] = s.h[y]
  <2>1. [u.h EXCEPT ![x].index = alt] \in [HolderSlots -> HolderCell]
    BY <1>3 DEF HolderStates, HolderCell, HolderIndex
  <2>2. t \in HolderStates(k) /\ t.broken = u.broken /\ t.objects = u.objects /\ t.h = [u.h EXCEPT ![x].index = alt]
    BY <1>3, <1>4, <2>1 DEF HolderStates
  <2> QED
    BY <1>3, <2>2 DEF HolderStates, HolderCell
<1>6. /\ DOMAIN t.objects = DOMAIN s.objects \cup {n} /\ n \notin DOMAIN s.objects
      /\ t.objects[n] = o /\ \A i \in DOMAIN s.objects : t.objects[i] = s.objects[i]
  BY <1>1, <1>2, <1>5 DEF HolderStates
<1>7. /\ Index(t, x) = alt /\ t.h[x].cell = n /\ x \in Owners(t, N \cup {x}) /\ Instance(t, x) = o
      /\ \A y \in HolderSlots \ {x} : t.h[y] = s.h[y] /\ Index(t, y) = Index(s, y)
  BY <1>5, <1>6 DEF Index, Owners, Instance
<1>8. Owners(t, N \cup {x}) = Owners(s, N) \cup {x} /\ x \notin Owners(s, N)
  <2>1. x \in N => ~(Index(s, x) >= 0)
    BY <1>1 DEF Shows, HeldValue, HolderIndex, Absent, npos
  <2>2. alt >= 0
    OBVIOUS
  <2>3. \A y \in N : y # x => Index(t, y) = Index(s, y)
    BY <1>1, <1>7
  <2>4. x \notin Owners(s, N) /\ x \in Owners(t, N \cup {x})
    BY <2>1, <2>2, <1>7 DEF Owners
  <2>5. ASSUME NEW y, y # x PROVE (y \in Owners(t, N \cup {x})) = (y \in Owners(s, N))
    BY <2>3, <2>5 DEF Owners
  <2> QED
    BY <2>4, <2>5
<1>9. \A y \in Owners(s, N) : t.h[y].cell = s.h[y].cell /\ t.h[y].cell \in DOMAIN s.objects /\ Instance(t, y) = Instance(s, y) /\ Index(t, y) = Index(s, y)
  <2> SUFFICES ASSUME NEW y \in Owners(s, N)
               PROVE  t.h[y].cell = s.h[y].cell /\ t.h[y].cell \in DOMAIN s.objects /\ Instance(t, y) = Instance(s, y) /\ Index(t, y) = Index(s, y)
    OBVIOUS
  <2>1. y \in HolderSlots \ {x} /\ OwnsOne(s, y)
    BY <1>1, <1>8 DEF OwnedOnce, Owners
  <2> QED
    BY <2>1, <1>6, <1>7 DEF OwnsOne, Instance
<1> HIDE DEF n, w
<1>10. OwnedOnce(t, N \cup {x})
  <2>1. \A y \in Owners(t, N \cup {x}) : OwnsOne(t, y)
    <3>1. OwnsOne(t, x)
      BY <1>1, <1>5, <1>6, <1>7 DEF OwnsOne, HolderStates
    <3>2. \A y \in Owners(s, N) : OwnsOne(t, y)
      BY <1>1, <1>5, <1>6, <1>9 DEF OwnsOne, OwnedOnce, HolderStates
    <3> QED
      BY <3>1, <3>2, <1>8
  <2>2. \A y, z \in Owners(t, N \cup {x}) : t.h[y].cell = t.h[z].cell => y = z
    <3>1. \A y, z \in Owners(s, N) : t.h[y].cell = t.h[z].cell => y = z
      BY <1>1, <1>9 DEF OwnedOnce
    <3>2. \A y \in Owners(s, N) : t.h[y].cell # n
      BY <1>6, <1>9
    <3> QED
      BY <3>1, <3>2, <1>7, <1>8
  <2>3. \A i \in DOMAIN t.objects : t.objects[i].live => \E y \in Owners(t, N \cup {x}) : t.h[y].cell = i
    <3>1. \A i \in DOMAIN s.objects : t.objects[i].live => \E y \in Owners(s, N) : t.h[y].cell = i
      BY <1>1, <1>6, <1>9 DEF OwnedOnce
    <3>2. \E y \in Owners(t, N \cup {x}) : t.h[y].cell = n
      BY <1>7
    <3> QED
      BY <3>1, <3>2, <1>6, <1>8
  <2> QED
    BY <2>1, <2>2, <2>3 DEF OwnedOnce
<1>11. w \in [HolderSlots -> HeldValue] /\ w[x] = [index |-> alt, val |-> val] /\ \A y \in HolderSlots \ {x} : w[y] = v[y]
  BY <1>1 DEF w, HeldValue, HolderIndex
<1>12. ASSUME NEW y \in N \cup {x} PROVE w[y].index = Index(t, y) /\ (Index(t, y) >= 0 => w[y].val = Instance(t, y).val)
  <2>1. CASE y = x
    BY <2>1, <1>7, <1>11
  <2>2. CASE y # x
    <3>1. y \in N /\ y \in HolderSlots \ {x} /\ Index(t, y) = Index(s, y) /\ w[y] = v[y]
      BY <2>2, <1>1, <1>7, <1>11
    <3>2. v[y].index = Index(s, y) /\ (Index(s, y) >= 0 => v[y].val = Instance(s, y).val)
      BY <3>1 DEF Shows
    <3>3. Index(s, y) >= 0 => y \in Owners(s, N)
      BY <3>1 DEF Owners
    <3> QED
      BY <3>1, <3>2, <3>3, <1>9
  <2> QED
    BY <2>1, <2>2
<1>13. N \cup {x} \subseteq HolderSlots
  BY <1>1
<1> QED
  BY <1>5, <1>10, <1>11, <1>12, <1>13 DEF Shows, t, w

\* An owner's object is destructed, whose index is left as it was.
LEMMA DestructShows ==
    ASSUME NEW s, NEW k, NEW N, NEW v, Shows(s, k, N, v), NEW x \in N, v[x].index >= 0
    PROVE  Shows(destruct_in(s, x), k, N \ {x}, v)
<1> DEFINE t == destruct_in(s, x)
           c == s.h[x].cell
           o == [s.objects[c] EXCEPT !.live = FALSE]
<1>1. s \in HolderStates(k) /\ ~s.broken /\ N \subseteq HolderSlots /\ OwnedOnce(s, N) /\ v \in [HolderSlots -> HeldValue]
  BY DEF Shows
<1>2. x \in Owners(s, N) /\ OwnsOne(s, x) /\ c \in DOMAIN s.objects
  BY <1>1 DEF Shows, OwnedOnce, Owners, OwnsOne
<1>3. IsLive(s, x)
  BY <1>1, <1>2 DEF IsLive, OwnsOne, Bare, Instance, HolderStates
<1>4. t = [s EXCEPT !.objects[c].live = FALSE, !.h[x].cell = Bare]
  BY <1>3 DEF destruct_in
<1> HIDE DEF t, c
<1>5. /\ t \in HolderStates(k) /\ ~t.broken /\ t.objects = [s.objects EXCEPT ![c].live = FALSE]
      /\ t.h = [s.h EXCEPT ![x].cell = Bare]
  <2>1. [s.h EXCEPT ![x].cell = Bare] \in [HolderSlots -> HolderCell] /\ [s.objects EXCEPT ![c].live = FALSE] \in Seq(HolderObject)
    <3>1. s.h \in [HolderSlots -> HolderCell] /\ s.objects \in Seq(HolderObject)
      BY <1>1 DEF HolderStates
    <3>2. [s.h EXCEPT ![x].cell = Bare] \in [HolderSlots -> HolderCell]
      BY <3>1 DEF HolderCell, Bare
    <3>3. [s.objects EXCEPT ![c].live = FALSE] \in Seq(HolderObject)
      <4>1. [s.objects[c] EXCEPT !.live = FALSE] \in HolderObject
        <5>1. s.objects[c] \in HolderObject
          BY <3>1, <1>2
        <5> QED
          BY <5>1 DEF HolderObject
      <4>2. [s.objects EXCEPT ![c].live = FALSE] = [s.objects EXCEPT ![c] = [s.objects[c] EXCEPT !.live = FALSE]]
        OBVIOUS
      <4> QED
        BY <3>1, <1>2, <4>1, <4>2, ExceptSeq
    <3> QED
      BY <3>2, <3>3
  <2>2. /\ t \in HolderStates(k) /\ t.broken = s.broken /\ t.objects = [s.objects EXCEPT ![c].live = FALSE]
        /\ t.h = [s.h EXCEPT ![x].cell = Bare]
    BY <1>1, <1>4, <2>1 DEF HolderStates
  <2> QED
    BY <1>1, <2>2
<1>6. /\ DOMAIN t.objects = DOMAIN s.objects /\ ~t.objects[c].live
      /\ \A i \in DOMAIN s.objects \ {c} : t.objects[i] = s.objects[i]
  BY <1>1, <1>2, <1>5 DEF HolderStates, HolderObject
<1>7. \A y \in HolderSlots \ {x} : t.h[y] = s.h[y] /\ Index(t, y) = Index(s, y)
  BY <1>1, <1>5 DEF Index, HolderStates, HolderCell
<1>8. Owners(t, N \ {x}) = Owners(s, N) \ {x}
  BY <1>1, <1>7 DEF Owners
<1>9. \A y \in Owners(s, N) \ {x} : s.h[y].cell \in DOMAIN s.objects \ {c} /\ Instance(t, y) = Instance(s, y)
  <2> SUFFICES ASSUME NEW y \in Owners(s, N) \ {x} PROVE s.h[y].cell \in DOMAIN s.objects \ {c} /\ Instance(t, y) = Instance(s, y)
    OBVIOUS
  <2>1. OwnsOne(s, y) /\ y \in HolderSlots \ {x} /\ s.h[y].cell # c
    BY <1>1, <1>2 DEF OwnedOnce, Owners, c
  <2> QED
    BY <2>1, <1>6, <1>7 DEF OwnsOne, Instance
<1>10. OwnedOnce(t, N \ {x})
  <2>1. \A y \in Owners(s, N) \ {x} : OwnsOne(t, y) /\ t.h[y].cell = s.h[y].cell
    BY <1>1, <1>5, <1>6, <1>7, <1>9 DEF OwnsOne, OwnedOnce, Owners, HolderStates
  <2>2. \A i \in DOMAIN t.objects : t.objects[i].live => \E y \in Owners(s, N) \ {x} : s.h[y].cell = i
    <3> SUFFICES ASSUME NEW i \in DOMAIN t.objects, t.objects[i].live PROVE \E y \in Owners(s, N) \ {x} : s.h[y].cell = i
      OBVIOUS
    <3>1. i \in DOMAIN s.objects /\ i # c /\ s.objects[i].live
      BY <1>6
    <3>2. PICK y \in Owners(s, N) : s.h[y].cell = i
      BY <3>1, <1>1 DEF OwnedOnce
    <3> QED
      BY <3>1, <3>2 DEF c
  <2>3. \A y, z \in Owners(s, N) \ {x} : t.h[y].cell = t.h[z].cell => y = z
    BY <2>1, <1>1 DEF OwnedOnce
  <2>4. \A i \in DOMAIN t.objects : t.objects[i].live => \E y \in Owners(s, N) \ {x} : t.h[y].cell = i
    BY <2>1, <2>2
  <2> QED
    BY <2>1, <2>3, <2>4, <1>8 DEF OwnedOnce
<1>11. ASSUME NEW y \in N \ {x} PROVE v[y].index = Index(t, y) /\ (Index(t, y) >= 0 => v[y].val = Instance(t, y).val)
  <2>1. Index(t, y) = Index(s, y) /\ (Index(s, y) >= 0 => y \in Owners(s, N) \ {x})
    BY <1>1, <1>7 DEF Owners
  <2> QED
    BY <2>1, <1>9 DEF Shows
<1> QED
  BY <1>1, <1>5, <1>10, <1>11 DEF Shows, t

\* A holder without an object gets another index below zero.
LEMMA EmptyShows ==
    ASSUME NEW s, NEW k, NEW N, NEW v, Shows(s, k, N, v), NEW x \in HolderSlots, x \in N => v[x].index < 0,
           NEW t, t \in HolderStates(k), ~t.broken, t.objects = s.objects,
           \A y \in HolderSlots \ {x} : t.h[y] = s.h[y],
           NEW i \in {Absent, npos}, t.h[x].index = i
    PROVE  Shows(t, k, N \cup {x}, [v EXCEPT ![x] = [index |-> i, val |-> Spent]])
<1> DEFINE w == [v EXCEPT ![x] = [index |-> i, val |-> Spent]]
<1>1. s \in HolderStates(k) /\ N \subseteq HolderSlots /\ OwnedOnce(s, N) /\ v \in [HolderSlots -> HeldValue]
  BY DEF Shows
<1>2. Index(t, x) = i /\ ~(Index(t, x) >= 0) /\ \A y \in HolderSlots \ {x} : Index(t, y) = Index(s, y) /\ Instance(t, y) = Instance(s, y)
  BY DEF Index, Instance, Absent, npos
<1>3. x \in N => ~(Index(s, x) >= 0)
  BY <1>1 DEF Shows, HeldValue, HolderIndex, Absent, npos
<1>4. Owners(t, N \cup {x}) = Owners(s, N) /\ x \notin Owners(s, N)
  <2>1. x \notin Owners(s, N) /\ x \notin Owners(t, N \cup {x})
    BY <1>2, <1>3 DEF Owners
  <2>2. ASSUME NEW y, y # x PROVE (y \in Owners(t, N \cup {x})) = (y \in Owners(s, N))
    BY <2>2, <1>1, <1>2 DEF Owners
  <2> QED
    BY <2>1, <2>2
<1>5. \A y \in Owners(s, N) : t.h[y] = s.h[y] /\ y \in HolderSlots \ {x}
  BY <1>1, <1>4 DEF Owners
<1>6. OwnedOnce(t, N \cup {x})
  <2>1. \A y \in Owners(s, N) : OwnsOne(t, y)
    BY <1>1, <1>2, <1>5 DEF OwnedOnce, OwnsOne, HolderStates
  <2>2. \A y, z \in Owners(s, N) : t.h[y].cell = t.h[z].cell => y = z
    BY <1>1, <1>5 DEF OwnedOnce
  <2>3. \A n \in DOMAIN t.objects : t.objects[n].live => \E y \in Owners(s, N) : t.h[y].cell = n
    BY <1>1, <1>5 DEF OwnedOnce
  <2> QED
    BY <2>1, <2>2, <2>3, <1>4 DEF OwnedOnce
<1>7. w \in [HolderSlots -> HeldValue] /\ w[x].index = i /\ \A y \in HolderSlots \ {x} : w[y] = v[y]
  BY <1>1 DEF HeldValue, HolderIndex, Spent
<1> HIDE DEF w
<1>8. \A y \in N \cup {x} : w[y].index = Index(t, y) /\ (Index(t, y) >= 0 => w[y].val = Instance(t, y).val)
  BY <1>1, <1>2, <1>7 DEF Shows
<1> QED
  BY <1>1, <1>6, <1>7, <1>8 DEF Shows, w

\* index_ = npos, of a holder that has no object.
LEMMA NposShows ==
    ASSUME NEW s, NEW k, NEW N, NEW v, Shows(s, k, N, v), NEW x \in HolderSlots, x \in N => v[x].index < 0
    PROVE  Shows(SetIndex(s, x, npos), k, N \cup {x}, [v EXCEPT ![x] = Emptied])
<1> DEFINE t == SetIndex(s, x, npos)
<1>1. s \in HolderStates(k) /\ ~s.broken
  BY DEF Shows
<1>2. s.h \in [HolderSlots -> HolderCell] /\ [s.h EXCEPT ![x].index = npos] \in [HolderSlots -> HolderCell]
  BY <1>1 DEF HolderStates, HolderCell, HolderIndex
<1>3. t = [s EXCEPT !.h[x].index = npos]
  BY DEF SetIndex
<1> HIDE DEF t
<1>4. t \in HolderStates(k) /\ t.broken = s.broken /\ t.objects = s.objects /\ t.h = [s.h EXCEPT ![x].index = npos]
  BY <1>1, <1>2, <1>3 DEF HolderStates
<1>5. t.h[x].index = npos /\ \A y \in HolderSlots \ {x} : t.h[y] = s.h[y]
  BY <1>2, <1>4 DEF HolderCell
<1>6. Shows(t, k, N \cup {x}, [v EXCEPT ![x] = [index |-> npos, val |-> Spent]])
  BY <1>1, <1>4, <1>5, EmptyShows
<1> QED
  BY <1>6 DEF Emptied, t

\* A holder without an object goes.
LEMMA GoneShows ==
    ASSUME NEW s, NEW k, NEW N, NEW v, Shows(s, k, N, v), NEW x \in HolderSlots, x \in N => v[x].index < 0
    PROVE  Shows([s EXCEPT !.h[x] = NoHolder], k, N \cup {x}, [v EXCEPT ![x] = Gone])
<1> DEFINE t == [s EXCEPT !.h[x] = NoHolder]
<1>1. s \in HolderStates(k) /\ ~s.broken
  BY DEF Shows
<1>2. NoHolder \in HolderCell /\ NoHolder.index = Absent
  BY DEF NoHolder, HolderCell, HolderIndex, Bare
<1>3. s.h \in [HolderSlots -> HolderCell] /\ [s.h EXCEPT ![x] = NoHolder] \in [HolderSlots -> HolderCell]
  BY <1>1, <1>2 DEF HolderStates
<1>4. t \in HolderStates(k) /\ t.broken = s.broken /\ t.objects = s.objects /\ t.h = [s.h EXCEPT ![x] = NoHolder]
  BY <1>1, <1>3 DEF HolderStates
<1> HIDE DEF t
<1>5. t.h[x].index = Absent /\ \A y \in HolderSlots \ {x} : t.h[y] = s.h[y]
  BY <1>2, <1>3, <1>4
<1>6. Shows(t, k, N \cup {x}, [v EXCEPT ![x] = [index |-> Absent, val |-> Spent]])
  BY <1>1, <1>4, <1>5, EmptyShows
<1> QED
  BY <1>6 DEF Gone, t

\* An object that is there gets another value.
SetValue(s, x, val) == [s EXCEPT !.objects[s.h[x].cell].val = val]

\* What a holder has gets another value, and no cell changes.
LEMMA SetValueShows ==
    ASSUME NEW s, NEW k, NEW N, NEW v, Shows(s, k, N, v), NEW x \in N, v[x].index >= 0, NEW val \in Int
    PROVE  /\ Shows(SetValue(s, x, val), k, N, [v EXCEPT ![x] = [index |-> v[x].index, val |-> val]])
           /\ SetValue(s, x, val).h = s.h
<1> DEFINE t == SetValue(s, x, val)
           c == s.h[x].cell
           w == [v EXCEPT ![x] = [index |-> v[x].index, val |-> val]]
<1>1. s \in HolderStates(k) /\ ~s.broken /\ N \subseteq HolderSlots /\ OwnedOnce(s, N) /\ v \in [HolderSlots -> HeldValue]
  BY DEF Shows
<1>2. x \in Owners(s, N) /\ OwnsOne(s, x) /\ c \in DOMAIN s.objects
  BY <1>1 DEF Shows, OwnedOnce, Owners, OwnsOne
<1>3. t = [s EXCEPT !.objects[c].val = val]
  BY DEF SetValue
<1>4. \A y \in Owners(s, N) \ {x} : s.h[y].cell # c
  BY <1>1, <1>2 DEF OwnedOnce
<1>5. s.objects[c] \in HolderObject /\ Instance(s, x) = s.objects[c]
  BY <1>1, <1>2 DEF HolderStates, Instance
<1> HIDE DEF t, c, w
<1> DEFINE o == [s.objects[c] EXCEPT !.val = val]
<1>6. o \in HolderObject /\ o.live = s.objects[c].live /\ o.alt = s.objects[c].alt /\ o.val = val
  BY <1>5 DEF HolderObject
<1> HIDE DEF o
<1>7. t \in HolderStates(k) /\ ~t.broken /\ t.objects = [s.objects EXCEPT ![c] = o] /\ t.h = s.h
  <2>1. [s.objects EXCEPT ![c] = o] \in Seq(HolderObject)
    BY <1>1, <1>2, <1>6, ExceptSeq DEF HolderStates
  <2>2. t = [s EXCEPT !.objects[c] = o]
    BY <1>3 DEF o
  <2>3. t \in HolderStates(k) /\ t.broken = s.broken /\ t.objects = [s.objects EXCEPT ![c] = o] /\ t.h = s.h
    BY <1>1, <2>1, <2>2 DEF HolderStates
  <2> QED
    BY <1>1, <2>3
<1>8. /\ DOMAIN t.objects = DOMAIN s.objects /\ t.objects[c] = o
      /\ \A i \in DOMAIN s.objects \ {c} : t.objects[i] = s.objects[i]
  BY <1>1, <1>2, <1>7 DEF HolderStates
<1>9. Owners(t, N) = Owners(s, N) /\ \A y \in N : Index(t, y) = Index(s, y)
  BY <1>7 DEF Owners, Index
<1>10. Instance(t, x) = o /\ \A y \in Owners(s, N) \ {x} : Instance(t, y) = Instance(s, y)
  BY <1>1, <1>4, <1>7, <1>8 DEF OwnedOnce, OwnsOne, Instance, c
<1>11. OwnedOnce(t, N)
  <2>1. \A y \in Owners(s, N) : OwnsOne(t, y)
    <3>1. OwnsOne(t, x)
      BY <1>1, <1>2, <1>5, <1>6, <1>7, <1>8, <1>9, <1>10 DEF OwnsOne, HolderStates, Index
    <3>2. \A y \in Owners(s, N) \ {x} : OwnsOne(t, y)
      BY <1>1, <1>7, <1>8, <1>10 DEF OwnedOnce, OwnsOne, HolderStates, Index
    <3> QED
      BY <3>1, <3>2
  <2>2. \A n \in DOMAIN t.objects : t.objects[n].live => s.objects[n].live
    BY <1>6, <1>8
  <2> QED
    BY <2>1, <2>2, <1>1, <1>7, <1>8, <1>9 DEF OwnedOnce
<1>12. /\ w \in [HolderSlots -> HeldValue] /\ w[x].index = v[x].index /\ w[x].val = val
       /\ \A y \in HolderSlots \ {x} : w[y] = v[y]
  BY <1>1 DEF HeldValue, w
<1>13. ASSUME NEW y \in N PROVE w[y].index = Index(t, y) /\ (Index(t, y) >= 0 => w[y].val = Instance(t, y).val)
  <2>1. v[y].index = Index(s, y) /\ (Index(s, y) >= 0 => v[y].val = Instance(s, y).val /\ y \in Owners(s, N))
    BY DEF Shows, Owners
  <2> QED
    BY <2>1, <1>1, <1>6, <1>9, <1>10, <1>12
<1> QED
  BY <1>1, <1>7, <1>11, <1>12, <1>13 DEF Shows, t, w

\* A big object of an any changes hands: the other holder has its address.
LEMMA BigMoveShows ==
    ASSUME NEW s, NEW k, NEW N, NEW v, Shows(s, k, N, v), NEW x \in HolderSlots, NEW y \in N, x # y,
           x \in N => v[x].index < 0, v[y].index >= 0
    PROVE  Shows(big_move(s, x, y), k, (N \cup {x}) \ {y}, [v EXCEPT ![x] = v[y]])
<1> DEFINE t == big_move(s, x, y)
           w == [v EXCEPT ![x] = v[y]]
           M == (N \cup {x}) \ {y}
<1>1. s \in HolderStates(k) /\ ~s.broken /\ N \subseteq HolderSlots /\ OwnedOnce(s, N) /\ v \in [HolderSlots -> HeldValue]
  BY DEF Shows
<1>2. t = [s EXCEPT !.h[x] = s.h[y]]
  BY DEF big_move
<1>3. [s.h EXCEPT ![x] = s.h[y]] \in [HolderSlots -> HolderCell] /\ s.h \in [HolderSlots -> HolderCell]
  BY <1>1 DEF HolderStates
<1> HIDE DEF t
<1>4. t \in HolderStates(k) /\ ~t.broken /\ t.objects = s.objects /\ t.h = [s.h EXCEPT ![x] = s.h[y]]
  BY <1>1, <1>2, <1>3 DEF HolderStates
<1>5. t.h[x] = s.h[y] /\ \A z \in HolderSlots \ {x} : t.h[z] = s.h[z]
  BY <1>3, <1>4
<1>6. /\ Index(t, x) = Index(s, y) /\ Instance(t, x) = Instance(s, y)
      /\ \A z \in HolderSlots \ {x} : Index(t, z) = Index(s, z) /\ Instance(t, z) = Instance(s, z)
  BY <1>4, <1>5 DEF Index, Instance
<1>7. y \in Owners(s, N) /\ x \notin Owners(s, N)
  BY <1>1 DEF Shows, Owners, HeldValue, HolderIndex, Absent, npos
<1>8. Owners(t, M) = (Owners(s, N) \ {y}) \cup {x}
  <2>1. x \in Owners(t, M) /\ y \notin Owners(t, M)
    BY <1>6, <1>7 DEF Owners
  <2>2. ASSUME NEW z, z # x PROVE (z \in Owners(t, M)) = (z \in Owners(s, N) \ {y})
    BY <2>2, <1>1, <1>6 DEF Owners
  <2> QED
    BY <2>1, <2>2, <1>7
<1>9. \A z \in Owners(s, N) \ {y} : z \in HolderSlots \ {x}
  BY <1>1, <1>7 DEF Owners
<1>10. OwnedOnce(t, M)
  <2>1. \A z \in Owners(t, M) : OwnsOne(t, z)
    <3>1. OwnsOne(t, x)
      BY <1>1, <1>4, <1>5, <1>6, <1>7 DEF OwnedOnce, OwnsOne, HolderStates
    <3>2. \A z \in Owners(s, N) \ {y} : OwnsOne(t, z)
      BY <1>1, <1>4, <1>5, <1>6, <1>9 DEF OwnedOnce, OwnsOne, HolderStates
    <3> QED
      BY <3>1, <3>2, <1>8
  <2>2. \A z, z2 \in Owners(t, M) : t.h[z].cell = t.h[z2].cell => z = z2
    <3>1. \A z \in Owners(s, N) \ {y} : t.h[z].cell # t.h[x].cell
      BY <1>1, <1>5, <1>7, <1>9 DEF OwnedOnce
    <3>2. \A z, z2 \in Owners(s, N) \ {y} : t.h[z].cell = t.h[z2].cell => z = z2
      BY <1>1, <1>5, <1>9 DEF OwnedOnce
    <3> QED
      BY <3>1, <3>2, <1>8
  <2>3. ASSUME NEW n \in DOMAIN t.objects, t.objects[n].live PROVE \E z \in Owners(t, M) : t.h[z].cell = n
    <3>1. PICK z \in Owners(s, N) : s.h[z].cell = n
      BY <2>3, <1>1, <1>4 DEF OwnedOnce
    <3> QED
      BY <3>1, <1>5, <1>8, <1>9
  <2> QED
    BY <2>1, <2>2, <2>3 DEF OwnedOnce
<1>11. w \in [HolderSlots -> HeldValue] /\ w[x] = v[y] /\ \A z \in HolderSlots \ {x} : w[z] = v[z]
  BY <1>1
<1> HIDE DEF w
<1>12. ASSUME NEW z \in M PROVE w[z].index = Index(t, z) /\ (Index(t, z) >= 0 => w[z].val = Instance(t, z).val)
  <2>1. CASE z = x
    BY <2>1, <1>6, <1>11 DEF Shows
  <2>2. CASE z # x
    BY <2>2, <1>1, <1>6, <1>11 DEF Shows
  <2> QED
    BY <2>1, <2>2
<1>13. M \subseteq HolderSlots
  BY <1>1
<1> QED
  BY <1>4, <1>10, <1>11, <1>12, <1>13 DEF Shows, t, w

\* Only what the owners have counts, and one without an object can be left out.
LEMMA SameShows ==
    ASSUME NEW s, NEW k, NEW N, NEW v, Shows(s, k, N, v), NEW M, M \subseteq N, \A x \in N \ M : v[x].index < 0,
           NEW w \in [HolderSlots -> HeldValue],
           \A x \in M : w[x].index = v[x].index /\ (v[x].index >= 0 => w[x].val = v[x].val)
    PROVE  Shows(s, k, M, w)
<1>1. \A x \in N \ M : ~(Index(s, x) >= 0)
  BY DEF Shows, HeldValue, HolderIndex, Absent, npos
<1>2. Owners(s, M) = Owners(s, N)
  BY <1>1 DEF Owners
<1>3. OwnedOnce(s, M)
  BY <1>2 DEF Shows, OwnedOnce
<1> QED
  BY <1>3 DEF Shows

\* An owner has an alternative of the kind; the others have one below zero.
LEMMA OwnerHas ==
    ASSUME NEW s, NEW k, NEW N, NEW v, Shows(s, k, N, v), NEW x \in N
    PROVE  /\ v[x] \in HeldValue /\ v[x].index = Index(s, x) /\ s.kind = k /\ x \in HolderSlots
           /\ v[x].index >= 0 => /\ v[x].index \in {0, 1} /\ (k = "optional" => v[x].index = 0)
                                 /\ v[x].val = Instance(s, x).val /\ Instance(s, x).val \in Int
           /\ ~(v[x].index >= 0) => v[x].index < 0 /\ v[x].index \in {Absent, npos}
<1>1. v[x] \in HeldValue /\ v[x].index = Index(s, x) /\ s.kind = k /\ x \in HolderSlots
  BY DEF Shows, HolderStates
<1>2. v[x].index \in {-2, -1, 0, 1}
  BY <1>1 DEF HeldValue, HolderIndex, Absent, npos
<1>3. v[x].index >= 0 => v[x].index \in {0, 1} /\ (k = "optional" => v[x].index = 0) /\ v[x].val = Instance(s, x).val
  BY <1>1, <1>2 DEF Shows, OwnedOnce, OwnsOne, Owners
<1>4. v[x].val \in Int
  BY <1>1 DEF HeldValue
<1> QED
  BY <1>1, <1>2, <1>3, <1>4 DEF Absent, npos

\* reset, clear: what was there is destructed.
LEMMA ClearShows ==
    ASSUME NEW s, NEW k, NEW N, NEW v, Shows(s, k, N, v), NEW x \in N, v[x].index # Absent
    PROVE  Shows(ClearHolder(s, x), k, N, [v EXCEPT ![x] = Emptied])
<1>1. CASE v[x].index >= 0
  <2>1. Shows(destruct_in(s, x), k, N \ {x}, v)
    BY <1>1, DestructShows
  <2>2. Shows(SetIndex(destruct_in(s, x), x, npos), k, (N \ {x}) \cup {x}, [v EXCEPT ![x] = Emptied])
    BY <2>1, OwnerHas, NposShows
  <2>3. (N \ {x}) \cup {x} = N /\ ClearHolder(s, x) = SetIndex(destruct_in(s, x), x, npos)
    BY <1>1, OwnerHas DEF ClearHolder
  <2> QED
    BY <2>2, <2>3
<1>2. CASE ~(v[x].index >= 0)
  <2> DEFINE w == [v EXCEPT ![x] = Emptied]
  <2>1. ClearHolder(s, x) = s /\ v[x].index = npos
    BY <1>2, OwnerHas DEF ClearHolder
  <2>2. v \in [HolderSlots -> HeldValue] /\ N \subseteq HolderSlots
    BY DEF Shows
  <2>3. Emptied \in HeldValue /\ Emptied.index = npos
    BY DEF Emptied, HeldValue, HolderIndex, Spent
  <2>4. w \in [HolderSlots -> HeldValue] /\ w[x] = Emptied /\ \A y \in N : y # x => w[y] = v[y]
    BY <2>2, <2>3
  <2> HIDE DEF w
  <2>5. Shows(s, k, N, w)
    BY <1>2, <2>1, <2>3, <2>4, SameShows
  <2> QED
    BY <2>1, <2>5 DEF w
<1> QED
  BY <1>1, <1>2

\* The destructor.
LEMMA DisposeShows ==
    ASSUME NEW s, NEW k, NEW N, NEW v, Shows(s, k, N, v), NEW x \in N
    PROVE  Shows(Dispose(s, x), k, N, [v EXCEPT ![x] = Gone])
<1>1. CASE v[x].index >= 0
  <2>1. Shows(destruct_in(s, x), k, N \ {x}, v)
    BY <1>1, DestructShows
  <2> DEFINE d == destruct_in(s, x)
  <2>2. Dispose(s, x) = [d EXCEPT !.h[x] = NoHolder]
    BY <1>1, OwnerHas DEF Dispose
  <2> HIDE DEF d
  <2>3. Shows([d EXCEPT !.h[x] = NoHolder], k, (N \ {x}) \cup {x}, [v EXCEPT ![x] = Gone])
    BY <2>1, OwnerHas, GoneShows DEF d
  <2>4. (N \ {x}) \cup {x} = N
    OBVIOUS
  <2> QED
    BY <2>2, <2>3, <2>4
<1>2. CASE ~(v[x].index >= 0)
  <2>1. Dispose(s, x) = [s EXCEPT !.h[x] = NoHolder]
    BY <1>2, OwnerHas DEF Dispose
  <2>2. Shows([s EXCEPT !.h[x] = NoHolder], k, N \cup {x}, [v EXCEPT ![x] = Gone])
    BY <1>2, OwnerHas, GoneShows
  <2>3. N \cup {x} = N
    OBVIOUS
  <2> QED
    BY <2>1, <2>2, <2>3
<1> QED
  BY <1>1, <1>2

\* What a move leaves of what was moved.
Taken(r) == [index |-> r.index, val |-> Spent]

\* Constructed as a copy of another, which keeps what it has.
LEMMA CopyConstructShows ==
    ASSUME NEW s, NEW k, NEW N, NEW v, Shows(s, k, N, v), NEW x \in HolderSlots, NEW y \in N,
           x \in N => v[x].index < 0, v[y].index >= 0
    PROVE  Shows(copy_construct(s, x, y), k, N \cup {x}, [v EXCEPT ![x] = v[y]])
<1>1. copy_construct(s, x, y) = create(s, x, Index(s, y), Instance(s, y).val)
  BY DEF copy_construct, create
<1>2. /\ v[y].index \in {0, 1} /\ (k = "optional" => v[y].index = 0) /\ v[y].val \in Int
      /\ v[y].index = Index(s, y) /\ v[y].val = Instance(s, y).val /\ v[y] \in HeldValue
  BY OwnerHas
<1>3. v[y] = [index |-> v[y].index, val |-> v[y].val]
  BY <1>2 DEF HeldValue
<1>4. Shows(create(s, x, v[y].index, v[y].val), k, N \cup {x}, [v EXCEPT ![x] = [index |-> v[y].index, val |-> v[y].val]])
  BY <1>2, CreateShows
<1> QED
  BY <1>1, <1>2, <1>3, <1>4

\* The value is moved out of what a holder has.
LEMMA TakeShows ==
    ASSUME NEW s, NEW k, NEW N, NEW v, Shows(s, k, N, v), NEW x \in N, v[x].index >= 0
    PROVE  Shows(take(s, x), k, N, [v EXCEPT ![x] = Taken(v[x])])
<1>1. take(s, x) = SetValue(s, x, Spent) /\ Spent \in Int
  BY DEF take, SetValue, Spent
<1> QED
  BY <1>1, SetValueShows DEF Taken

\* Constructed from what is moved out of another.
LEMMA MoveConstructShows ==
    ASSUME NEW s, NEW k, NEW N, NEW v, Shows(s, k, N, v), NEW x \in HolderSlots, NEW y \in N,
           x \in N => v[x].index < 0, v[y].index >= 0
    PROVE  Shows(move_construct_in(s, x, y), k, N \cup {x}, [v EXCEPT ![x] = v[y], ![y] = Taken(v[y])])
<1> DEFINE w == [v EXCEPT ![x] = v[y]]
<1>1. x # y /\ y \in HolderSlots /\ v \in [HolderSlots -> HeldValue] /\ N \subseteq HolderSlots
  BY DEF Shows, HeldValue, HolderIndex, Absent, npos
<1>2. Shows(copy_construct(s, x, y), k, N \cup {x}, w)
  BY CopyConstructShows
<1>3. w[y] = v[y] /\ y \in N \cup {x}
  BY <1>1
<1>4. [v EXCEPT ![x] = v[y], ![y] = Taken(v[y])] = [w EXCEPT ![y] = Taken(v[y])]
  OBVIOUS
<1> HIDE DEF w
<1>5. Shows(take(copy_construct(s, x, y), y), k, N \cup {x}, [w EXCEPT ![y] = Taken(w[y])])
  BY <1>2, <1>3, TakeShows
<1> QED
  BY <1>3, <1>4, <1>5 DEF move_construct_in

\* Assigned a copy, between two of the same alternative.
LEMMA CopyInstanceShows ==
    ASSUME NEW s, NEW k, NEW N, NEW v, Shows(s, k, N, v), NEW x \in N, NEW y \in N, v[x].index >= 0, v[y].index = v[x].index
    PROVE  Shows(copy_instance(s, x, y), k, N, [v EXCEPT ![x] = v[y]])
<1>1. v[y].index >= 0 /\ v[y] \in HeldValue /\ v[y].val = Instance(s, y).val /\ Instance(s, y).val \in Int
  BY OwnerHas
<1>2. copy_instance(s, x, y) = SetValue(s, x, v[y].val)
  BY <1>1 DEF copy_instance, SetValue
<1>3. v[y] = [index |-> v[x].index, val |-> v[y].val]
  BY <1>1 DEF HeldValue
<1> QED
  BY <1>1, <1>2, <1>3, SetValueShows

\* Assigned what is moved out of another of the same alternative.
LEMMA MoveInstanceShows ==
    ASSUME NEW s, NEW k, NEW N, NEW v, Shows(s, k, N, v), NEW x \in N, NEW y \in N, x # y, v[x].index >= 0, v[y].index = v[x].index
    PROVE  Shows(move_instance(s, x, y), k, N, [v EXCEPT ![x] = v[y], ![y] = Taken(v[y])])
<1> DEFINE w == [v EXCEPT ![x] = v[y]]
<1>1. x \in HolderSlots /\ y \in HolderSlots /\ v \in [HolderSlots -> HeldValue]
  BY DEF Shows
<1>2. Shows(copy_instance(s, x, y), k, N, w)
  BY CopyInstanceShows
<1>3. w[y] = v[y]
  BY <1>1
<1>4. [v EXCEPT ![x] = v[y], ![y] = Taken(v[y])] = [w EXCEPT ![y] = Taken(v[y])]
  OBVIOUS
<1> HIDE DEF w
<1>5. Shows(take(copy_instance(s, x, y), y), k, N, [w EXCEPT ![y] = Taken(w[y])])
  BY <1>2, <1>3, TakeShows
<1> QED
  BY <1>3, <1>4, <1>5 DEF move_instance

\* Two of the same alternative are swapped in place.
LEMMA SwapInstanceShows ==
    ASSUME NEW s, NEW k, NEW N, NEW v, Shows(s, k, N, v), NEW x \in N, NEW y \in N, v[x].index >= 0, v[y].index = v[x].index
    PROVE  Shows(swap_instance(s, x, y), k, N, [v EXCEPT ![x] = v[y], ![y] = v[x]])
<1> DEFINE w == [v EXCEPT ![x] = v[y]]
           t == copy_instance(s, x, y)
<1>1. x \in HolderSlots /\ y \in HolderSlots /\ v \in [HolderSlots -> HeldValue]
  BY DEF Shows
<1>2. /\ v[x] \in HeldValue /\ v[x].val = Instance(s, x).val /\ Instance(s, x).val \in Int
      /\ v[y] \in HeldValue /\ v[y].val = Instance(s, y).val /\ Instance(s, y).val \in Int
  BY OwnerHas
<1>3. Shows(t, k, N, w) /\ t.h = s.h
  <2>1. t = SetValue(s, x, Instance(s, y).val)
    BY DEF copy_instance, SetValue
  <2>2. Shows(t, k, N, w)
    BY CopyInstanceShows
  <2>3. SetValue(s, x, Instance(s, y).val).h = s.h
    <3> DEFINE val == Instance(s, y).val
    <3>1. val \in Int
      BY <1>2
    <3> HIDE DEF val, t, w
    <3>2. /\ Shows(SetValue(s, x, val), k, N, [v EXCEPT ![x] = [index |-> v[x].index, val |-> val]])
          /\ SetValue(s, x, val).h = s.h
      BY <3>1, SetValueShows
    <3> QED
      BY <3>2 DEF val
  <2> HIDE DEF t
  <2> QED
    BY <2>1, <2>2, <2>3
<1>4. swap_instance(s, x, y) = [t EXCEPT !.objects[s.h[y].cell].val = Instance(s, x).val]
  BY DEF swap_instance, copy_instance
<1>5. swap_instance(s, x, y) = SetValue(t, y, v[x].val)
  BY <1>2, <1>3, <1>4 DEF SetValue
<1>6. w[y].index = v[x].index /\ v[x] = [index |-> w[y].index, val |-> v[x].val]
  BY <1>1, <1>2 DEF HeldValue
<1>7. [v EXCEPT ![x] = v[y], ![y] = v[x]] = [w EXCEPT ![y] = v[x]]
  OBVIOUS
<1> HIDE DEF w, t
<1>8. Shows(SetValue(t, y, v[x].val), k, N, [w EXCEPT ![y] = [index |-> w[y].index, val |-> v[x].val]])
  BY <1>2, <1>3, <1>6, SetValueShows
<1> QED
  BY <1>5, <1>6, <1>7, <1>8

\* any_action::move: what was y's is x's, and what y believes is not looked at.
LEMMA HandlerMoveShows ==
    ASSUME NEW s, NEW k, NEW N, NEW v, Shows(s, k, N, v), NEW x \in HolderSlots, NEW y \in N,
           x \in N => v[x].index < 0, v[y].index >= 0
    PROVE  Shows(handler_move(s, x, y), k, (N \cup {x}) \ {y}, [v EXCEPT ![x] = v[y]])
<1> DEFINE w == [v EXCEPT ![x] = v[y]]
<1>1. x # y /\ y \in HolderSlots /\ v \in [HolderSlots -> HeldValue] /\ N \subseteq HolderSlots /\ Index(s, y) = v[y].index
  BY DEF Shows, HeldValue, HolderIndex, Absent, npos
<1>2. CASE v[y].index = 1
  BY <1>1, <1>2, BigMoveShows DEF handler_move
<1>3. CASE v[y].index # 1
  <2>1. Shows(copy_construct(s, x, y), k, N \cup {x}, w)
    BY CopyConstructShows
  <2>2. w[y].index >= 0 /\ y \in N \cup {x}
    BY <1>1
  <2> HIDE DEF w
  <2>3. Shows(destruct_in(copy_construct(s, x, y), y), k, (N \cup {x}) \ {y}, w)
    BY <2>1, <2>2, DestructShows
  <2>4. handler_move(s, x, y) = destruct_in(copy_construct(s, x, y), y)
    BY <1>1, <1>3 DEF handler_move, small_move
  <2> QED
    BY <2>3, <2>4 DEF w
<1> QED
  BY <1>2, <1>3

-----------------------------------------------------------------------------
(* The operations, from a state in which all holders are owners and there  *)
(* is no tmp.                                                              *)

Full(s, k, v) == Shows(s, k, HolderSlots, v)
Ready(s, k, v) == Full(s, k, v) /\ v["tmp"].index = Absent

SameValue(r, q) == r.index = q.index /\ (r.index >= 0 => r.val = q.val)

\* What an operation leaves is a state of the same sort, in which, if it did not
\* throw, the holders have what u says.
Leaves(t, k, u, throw) ==
    \E w : Ready(t, k, w) /\ (throw = 0 => \A z \in HolderNames : SameValue(w[z], u[z]))

Copied(v, x, y) == [v EXCEPT ![x] = v[y]]
MovedTo(v, x, y) == [v EXCEPT ![x] = v[y], ![y] = Taken(v[y])]
Swapped(v, x, y) == [v EXCEPT ![x] = v[y], ![y] = v[x]]
Given(v, x, alt, val) == [v EXCEPT ![x] = [index |-> alt, val |-> val]]
Cleared(v, x) == [v EXCEPT ![x] = Emptied]

\* The slots are the two holders and tmp.
LEMMA Slots3 ==
    /\ "tmp" \in HolderSlots /\ "tmp" \notin HolderNames /\ HolderNames \subseteq HolderSlots
    /\ \A x \in HolderSlots : HolderSlots \cup {x} = HolderSlots /\ (x # "tmp" => x \in HolderNames)
  BY DEF HolderSlots, HolderNames

\* What Full says of one holder.
LEMMA FullHas ==
    ASSUME NEW s, NEW k, NEW v, Full(s, k, v)
    PROVE  /\ v \in [HolderSlots -> HeldValue]
           /\ \A x \in HolderSlots :
                 /\ Index(s, x) = v[x].index /\ v[x].index \in {Absent, npos, 0, 1}
                 /\ v[x].index >= 0 => v[x].index \in {0, 1} /\ Instance(s, x).val = v[x].val /\ v[x].val \in Int /\ (k = "optional" => v[x].index = 0)
                 /\ ~(v[x].index >= 0) => v[x].index < 0
  BY OwnerHas DEF Full, Shows, HeldValue, HolderIndex

\* The operations that construct, for all the slots at once.
LEMMA FullSteps ==
    ASSUME NEW s, NEW k, NEW v, Full(s, k, v), NEW x \in HolderSlots
    PROVE  /\ v[x].index # Absent => Full(ClearHolder(s, x), k, Cleared(v, x))
           /\ Full(Dispose(s, x), k, [v EXCEPT ![x] = Gone])
           /\ v[x].index < 0 => Full(SetIndex(s, x, npos), k, Cleared(v, x))
           /\ \A alt \in {0, 1}, val \in Int : v[x].index < 0 /\ (k = "optional" => alt = 0) =>
                 Full(create(s, x, alt, val), k, Given(v, x, alt, val))
<1> USE DEF Full, Cleared, Given
<1>1. v[x].index # Absent => Full(ClearHolder(s, x), k, Cleared(v, x))
  BY ClearShows
<1>2. Full(Dispose(s, x), k, [v EXCEPT ![x] = Gone])
  BY DisposeShows
<1>3. v[x].index < 0 => Full(SetIndex(s, x, npos), k, Cleared(v, x))
  BY Slots3, NposShows
<1>4. ASSUME NEW alt \in {0, 1}, NEW val \in Int, v[x].index < 0, k = "optional" => alt = 0
      PROVE  Full(create(s, x, alt, val), k, Given(v, x, alt, val))
  BY <1>4, Slots3, CreateShows
<1> QED
  BY <1>1, <1>2, <1>3, <1>4

\* The operations on two of the slots.
LEMMA FullPairs ==
    ASSUME NEW s, NEW k, NEW v, Full(s, k, v), NEW x \in HolderSlots, NEW y \in HolderSlots, v[y].index >= 0
    PROVE  /\ v[x].index < 0 => Full(copy_construct(s, x, y), k, Copied(v, x, y)) /\ Full(move_construct_in(s, x, y), k, MovedTo(v, x, y))
           /\ v[x].index = v[y].index => Full(copy_instance(s, x, y), k, Copied(v, x, y)) /\ Full(swap_instance(s, x, y), k, Swapped(v, x, y))
           /\ v[x].index = v[y].index /\ x # y => Full(move_instance(s, x, y), k, MovedTo(v, x, y))
<1> USE DEF Full, Copied, MovedTo, Swapped
<1>1. v[x].index < 0 => Full(copy_construct(s, x, y), k, Copied(v, x, y))
  BY Slots3, CopyConstructShows
<1>2. v[x].index < 0 => Full(move_construct_in(s, x, y), k, MovedTo(v, x, y))
  BY Slots3, MoveConstructShows
<1>3. v[x].index = v[y].index => Full(copy_instance(s, x, y), k, Copied(v, x, y))
  BY CopyInstanceShows
<1>4. v[x].index = v[y].index => Full(swap_instance(s, x, y), k, Swapped(v, x, y))
  BY SwapInstanceShows
<1>5. v[x].index = v[y].index /\ x # y => Full(move_instance(s, x, y), k, MovedTo(v, x, y))
  BY MoveInstanceShows
<1> QED
  BY <1>1, <1>2, <1>3, <1>4, <1>5

\* What the changes of v are.
LEMMA Changes ==
    ASSUME NEW v \in [HolderSlots -> HeldValue], NEW x \in HolderSlots, NEW y \in HolderSlots
    PROVE  /\ DOMAIN v = HolderSlots
           /\ Copied(v, x, y) \in [HolderSlots -> HeldValue] /\ Copied(v, x, y)[x] = v[y]
           /\ \A z \in HolderSlots \ {x} : Copied(v, x, y)[z] = v[z]
           /\ MovedTo(v, x, y) \in [HolderSlots -> HeldValue] /\ (x # y => MovedTo(v, x, y)[x] = v[y])
           /\ MovedTo(v, x, y)[y].index = v[y].index /\ MovedTo(v, x, y)[y].val = Spent
           /\ \A z \in HolderSlots \ {x, y} : MovedTo(v, x, y)[z] = v[z]
           /\ Swapped(v, x, y) \in [HolderSlots -> HeldValue] /\ Swapped(v, x, y)[x] = v[y] /\ Swapped(v, x, y)[y] = v[x]
           /\ \A z \in HolderSlots \ {x, y} : Swapped(v, x, y)[z] = v[z]
           /\ Cleared(v, x) \in [HolderSlots -> HeldValue] /\ Cleared(v, x)[x].index = npos
           /\ \A z \in HolderSlots \ {x} : Cleared(v, x)[z] = v[z]
           /\ [v EXCEPT ![x] = Gone] \in [HolderSlots -> HeldValue] /\ [v EXCEPT ![x] = Gone][x].index = Absent
           /\ \A z \in HolderSlots \ {x} : [v EXCEPT ![x] = Gone][z] = v[z]
<1>1. Taken(v[y]) \in HeldValue /\ Taken(v[y]).index = v[y].index /\ Taken(v[y]).val = Spent
  BY DEF Taken, HeldValue, Spent
<1>2. Emptied \in HeldValue /\ Gone \in HeldValue /\ Emptied.index = npos /\ Gone.index = Absent
  BY DEF Emptied, Gone, HeldValue, HolderIndex, Spent
<1> HIDE DEF HeldValue, Emptied, Gone
<1>3. Copied(v, x, y) \in [HolderSlots -> HeldValue] /\ Copied(v, x, y)[x] = v[y] /\ \A z \in HolderSlots \ {x} : Copied(v, x, y)[z] = v[z]
  BY DEF Copied
<1>4. /\ MovedTo(v, x, y) \in [HolderSlots -> HeldValue] /\ (x # y => MovedTo(v, x, y)[x] = v[y]) /\ MovedTo(v, x, y)[y] = Taken(v[y])
      /\ \A z \in HolderSlots \ {x, y} : MovedTo(v, x, y)[z] = v[z]
  BY <1>1 DEF MovedTo
<1>5. /\ Swapped(v, x, y) \in [HolderSlots -> HeldValue] /\ Swapped(v, x, y)[x] = v[y] /\ Swapped(v, x, y)[y] = v[x]
      /\ \A z \in HolderSlots \ {x, y} : Swapped(v, x, y)[z] = v[z]
  BY DEF Swapped
<1>6. Cleared(v, x) \in [HolderSlots -> HeldValue] /\ Cleared(v, x)[x] = Emptied /\ \A z \in HolderSlots \ {x} : Cleared(v, x)[z] = v[z]
  BY <1>2 DEF Cleared
<1>7. /\ [v EXCEPT ![x] = Gone] \in [HolderSlots -> HeldValue] /\ [v EXCEPT ![x] = Gone][x] = Gone
      /\ \A z \in HolderSlots \ {x} : [v EXCEPT ![x] = Gone][z] = v[z]
  BY <1>2
<1> QED
  BY <1>1, <1>2, <1>3, <1>4, <1>5, <1>6, <1>7

\* The usual end: a step on two holders that tmp had no part in.
LEMMA LeavesFull ==
    ASSUME NEW t, NEW k, NEW w, Full(t, k, w), w["tmp"].index = Absent, NEW u, NEW throw,
           throw = 0 => \A z \in HolderNames : SameValue(w[z], u[z])
    PROVE  Leaves(t, k, u, throw)
  BY DEF Leaves, Ready

\* Without a change of the values the changes of v are none.
LEMMA ReadyLeaves ==
    ASSUME NEW s, NEW k, NEW v, Ready(s, k, v), NEW x \in HolderNames, NEW y \in HolderNames, NEW throw
    PROVE  /\ throw > 0 => \A u : Leaves(s, k, u, throw)
           /\ Leaves(s, k, v, throw)
           /\ v[x].index = npos /\ v[y].index = npos => Leaves(s, k, Copied(v, x, y), throw)
           /\ v[x].index = npos /\ v[y].index = npos => Leaves(s, k, MovedTo(v, x, y), throw)
           /\ v[x].index = npos /\ v[y].index = npos => Leaves(s, k, Swapped(v, x, y), throw)
<1>1. /\ Full(s, k, v) /\ v["tmp"].index = Absent /\ v \in [HolderSlots -> HeldValue] /\ x \in HolderSlots /\ y \in HolderSlots
      /\ HolderNames \subseteq HolderSlots
  BY FullHas, Slots3 DEF Ready
<1>2. throw > 0 => throw # 0
  OBVIOUS
<1>3. throw > 0 => \A u : Leaves(s, k, u, throw)
  BY <1>1, <1>2, LeavesFull
<1>4. Leaves(s, k, v, throw)
  BY <1>1, LeavesFull DEF SameValue
<1>5. ASSUME v[x].index = npos, v[y].index = npos, NEW u \in {Copied(v, x, y), MovedTo(v, x, y), Swapped(v, x, y)}
      PROVE  Leaves(s, k, u, throw)
  <2>1. u \in [HolderSlots -> HeldValue] /\ \A z \in HolderSlots \ {x, y} : u[z] = v[z]
    BY <1>1, <1>5, Changes
  <2>2. u[x].index = npos /\ u[y].index = npos
    <3>1. CASE u = Copied(v, x, y)
      <4>1. Copied(v, x, y)[x] = v[y] /\ (x # y => Copied(v, x, y)[y] = v[y])
        BY <1>1, Changes
      <4> QED
        BY <3>1, <4>1, <1>5
    <3>2. CASE u = MovedTo(v, x, y)
      <4>1. (x # y => MovedTo(v, x, y)[x] = v[y]) /\ MovedTo(v, x, y)[y].index = v[y].index
        BY <1>1, Changes
      <4> QED
        BY <3>2, <4>1, <1>5
    <3>3. CASE u = Swapped(v, x, y)
      BY <3>3, <1>1, <1>5, Changes
    <3> QED
      BY <3>1, <3>2, <3>3, <1>5
  <2>3. \A z \in HolderNames : SameValue(v[z], u[z])
    BY <1>1, <1>5, <2>1, <2>2 DEF SameValue, npos
  <2> QED
    BY <1>1, <2>3, LeavesFull
<1> QED
  BY <1>3, <1>4, <1>5

\* An end in which the holders have just what the change of v says.
LEMMA ChangedLeaves ==
    ASSUME NEW t, NEW k, NEW u, Full(t, k, u), u["tmp"].index = Absent, NEW throw
    PROVE  Leaves(t, k, u, throw)
  BY LeavesFull DEF SameValue

\* clear and the destructor.
LEMMA ClearLeaves ==
    ASSUME NEW s, NEW k, NEW v, Ready(s, k, v), NEW x \in HolderNames, v[x].index # Absent, NEW throw
    PROVE  /\ throw > 0 => \A u : Leaves(ClearHolder(s, x), k, u, throw)
           /\ \A u : (\A z \in HolderSlots \ {x} : u[z] = v[z]) /\ u[x].index = npos => Leaves(ClearHolder(s, x), k, u, throw)
<1> DEFINE t == ClearHolder(s, x)
           w == Cleared(v, x)
<1>1. Full(s, k, v) /\ v["tmp"].index = Absent /\ v \in [HolderSlots -> HeldValue] /\ x \in HolderSlots /\ x # "tmp" /\ "tmp" \in HolderSlots
  BY FullHas, Slots3 DEF Ready
<1>2. Full(t, k, w)
  BY <1>1, FullSteps
<1>3. w[x].index = npos /\ (\A z \in HolderSlots \ {x} : w[z] = v[z]) /\ w["tmp"].index = Absent
  <2>1. w[x].index = npos /\ \A z \in HolderSlots \ {x} : w[z] = v[z]
    BY <1>1, Changes
  <2> QED
    BY <1>1, <2>1
<1>4. Ready(t, k, w)
  BY <1>2, <1>3 DEF Ready
<1> HIDE DEF t, w
<1>5. throw > 0 => \A u : Leaves(t, k, u, throw)
  BY <1>4, ReadyLeaves
<1>6. ASSUME NEW u, \A z \in HolderSlots \ {x} : u[z] = v[z], u[x].index = npos PROVE Leaves(t, k, u, throw)
  <2>1. \A z \in HolderNames : SameValue(w[z], u[z])
    BY <1>3, <1>6, Slots3 DEF SameValue, npos
  <2> QED
    BY <2>1, <1>2, <1>3, LeavesFull
<1> QED
  BY <1>5, <1>6 DEF t

-----------------------------------------------------------------------------
(* variant.                                                                *)

\* The constructors leave a holder that was not there without an index, or
\* with the other's.
LEMMA VariantConstructs ==
    ASSUME NEW s, NEW k, NEW v, Ready(s, k, v), NEW x \in HolderNames, NEW y \in HolderNames,
           v[x].index = Absent, v[y].index # Absent, NEW throw \in {0, 1}
    PROVE  /\ Leaves(variant_copy(s, x, y, throw), k, Copied(v, x, y), throw)
           /\ Leaves(variant_move(s, x, y, throw), k, MovedTo(v, x, y), throw)
<1>1. /\ Full(s, k, v) /\ v["tmp"].index = Absent /\ v \in [HolderSlots -> HeldValue] /\ x \in HolderSlots /\ y \in HolderSlots
      /\ "tmp" \in HolderSlots /\ x # "tmp" /\ y # "tmp" /\ x # y
  BY FullHas, Slots3 DEF Ready
<1>2. v[x].index < 0 /\ Index(s, y) = v[y].index
  BY <1>1, FullHas DEF Absent
<1>3. CASE v[y].index = npos
  <2> DEFINE t == SetIndex(s, x, npos)
             w == Cleared(v, x)
  <2>1. variant_copy(s, x, y, throw) = t /\ variant_move(s, x, y, throw) = t
    BY <1>2, <1>3 DEF variant_copy, variant_move
  <2>2. Full(t, k, w)
    BY <1>1, <1>2, FullSteps
  <2>3. w[x].index = npos /\ \A z \in HolderSlots \ {x} : w[z] = v[z]
    BY <1>1, Changes
  <2> HIDE DEF t, w
  <2>4. /\ \A z \in HolderSlots \ {x} : Copied(v, x, y)[z] = v[z]
        /\ Copied(v, x, y)[x] = v[y] /\ MovedTo(v, x, y)[x] = v[y] /\ MovedTo(v, x, y)[y].index = v[y].index
        /\ \A z \in HolderSlots \ {x, y} : MovedTo(v, x, y)[z] = v[z]
    BY <1>1, Changes
  <2>5. /\ \A z \in HolderNames : SameValue(w[z], Copied(v, x, y)[z])
        /\ \A z \in HolderNames : SameValue(w[z], MovedTo(v, x, y)[z])
        /\ w["tmp"].index = Absent
    BY <1>1, <1>3, <2>3, <2>4, Slots3 DEF SameValue, npos
  <2> QED
    BY <2>1, <2>2, <2>5, LeavesFull
<1>4. CASE v[y].index # npos
  <2>1. v[y].index >= 0
    BY <1>1, <1>4, FullHas
  <2>2. Full(copy_construct(s, x, y), k, Copied(v, x, y)) /\ Full(move_construct_in(s, x, y), k, MovedTo(v, x, y))
    BY <1>1, <1>2, <2>1, FullPairs
  <2>3. Copied(v, x, y)["tmp"].index = Absent /\ MovedTo(v, x, y)["tmp"].index = Absent
    BY <1>1, Changes
  <2>4. Leaves(copy_construct(s, x, y), k, Copied(v, x, y), throw) /\ Leaves(move_construct_in(s, x, y), k, MovedTo(v, x, y), throw)
    BY <2>2, <2>3, ChangedLeaves
  <2>5. /\ variant_move(s, x, y, throw) = IF throw > 0 THEN s ELSE move_construct_in(s, x, y)
        /\ variant_copy(s, x, y, throw) = IF throw > 0 THEN s ELSE copy_construct(s, x, y)
    BY <1>2, <1>4 DEF variant_copy, variant_move
  <2>6. throw > 0 => Leaves(s, k, Copied(v, x, y), throw) /\ Leaves(s, k, MovedTo(v, x, y), throw)
    BY ReadyLeaves
  <2> QED
    BY <2>4, <2>5, <2>6
<1> QED
  BY <1>3, <1>4

\* Construction, assignment and swap with tmp, which all of them dispose of.
LEMMA TmpGone ==
    ASSUME NEW s, NEW k, NEW v, Full(s, k, v), NEW u, NEW throw,
           throw = 0 => \A z \in HolderNames : SameValue(v[z], u[z])
    PROVE  Leaves(Dispose(s, "tmp"), k, u, throw)
<1> DEFINE t == Dispose(s, "tmp")
           w == [v EXCEPT !["tmp"] = Gone]
<1>1. "tmp" \in HolderSlots /\ v \in [HolderSlots -> HeldValue] /\ Full(t, k, w)
  BY FullHas, FullSteps, Slots3
<1>2. w["tmp"].index = Absent /\ \A z \in HolderSlots \ {"tmp"} : w[z] = v[z]
  BY <1>1, Changes
<1> HIDE DEF t, w
<1>3. throw = 0 => \A z \in HolderNames : SameValue(w[z], u[z])
  <2>1. \A z \in HolderNames : w[z] = v[z]
    BY <1>2, Slots3
  <2> QED
    BY <2>1
<1>4. Leaves(t, k, u, throw)
  BY <1>1, <1>2, <1>3, LeavesFull
<1> QED
  BY <1>4 DEF t

\* operator = (const variant &): a copy of the other is made before what is
\* there is destructed.
LEMMA VariantCopyAssigns ==
    ASSUME NEW s, NEW k, NEW v, Ready(s, k, v), NEW x \in HolderNames, NEW y \in HolderNames,
           v[x].index # Absent, v[y].index # Absent, NEW throw \in 0 .. 2
    PROVE  Leaves(variant_copy_assign(s, x, y, throw), k, Copied(v, x, y), throw)
<1>1. /\ Full(s, k, v) /\ v["tmp"].index = Absent /\ v \in [HolderSlots -> HeldValue] /\ x \in HolderSlots /\ y \in HolderSlots
      /\ "tmp" \in HolderSlots /\ x # "tmp" /\ y # "tmp"
  BY FullHas, Slots3 DEF Ready
<1>2. Index(s, x) = v[x].index /\ Index(s, y) = v[y].index
  BY <1>1, FullHas
<1>3. Copied(v, x, y)[x] = v[y] /\ \A z \in HolderSlots \ {x} : Copied(v, x, y)[z] = v[z]
  BY <1>1, Changes
<1>4. Copied(v, x, y)["tmp"].index = Absent
  BY <1>1, <1>3
<1>5. CASE v[y].index = npos
  <2>1. variant_copy_assign(s, x, y, throw) = ClearHolder(s, x)
    BY <1>2, <1>5 DEF variant_copy_assign
  <2> QED
    BY <2>1, <1>3, <1>5, ClearLeaves
<1>6. CASE v[y].index # npos /\ v[x].index = v[y].index
  <2>1. variant_copy_assign(s, x, y, throw) = copy_instance(s, x, y) /\ v[y].index >= 0
    BY <1>1, <1>2, <1>6, FullHas DEF variant_copy_assign
  <2>2. Full(copy_instance(s, x, y), k, Copied(v, x, y))
    BY <2>1, <1>1, <1>6, FullPairs
  <2> QED
    BY <2>1, <2>2, <1>4, ChangedLeaves
<1>7. CASE v[y].index # npos /\ v[x].index # v[y].index
  <2>0. v[y].index >= 0 /\ x # y
    BY <1>1, <1>7, FullHas
  <2>1. CASE throw = 1
    BY <2>1, <1>2, <1>7, ReadyLeaves DEF variant_copy_assign
  <2>2. CASE throw # 1 /\ v[x].index = npos
    <3>1. variant_copy_assign(s, x, y, throw) = copy_construct(s, x, y) /\ v[x].index < 0
      BY <2>2, <1>2, <1>7 DEF variant_copy_assign, npos
    <3>2. Full(copy_construct(s, x, y), k, Copied(v, x, y))
      BY <3>1, <2>0, <1>1, FullPairs
    <3> QED
      BY <3>1, <3>2, <1>4, ChangedLeaves
  <2>3. CASE throw # 1 /\ v[x].index # npos
    <3> DEFINE s1 == copy_construct(s, "tmp", y)
               v1 == Copied(v, "tmp", y)
               s2 == ClearHolder(s1, x)
               v2 == Cleared(v1, x)
               s3 == move_construct_in(s2, x, "tmp")
               v3 == MovedTo(v2, x, "tmp")
    <3>1. variant_copy_assign(s, x, y, throw) = IF throw = 2 THEN Dispose(s2, "tmp") ELSE Dispose(s3, "tmp")
      BY <2>3, <1>2, <1>7 DEF variant_copy_assign
    <3>2. Full(s1, k, v1)
      BY <2>0, <1>1, FullPairs DEF Absent
    <3>3. v1 \in [HolderSlots -> HeldValue] /\ v1["tmp"] = v[y] /\ v1[x] = v[x] /\ v1[y] = v[y] /\ \A z \in HolderSlots \ {"tmp"} : v1[z] = v[z]
      BY <1>1, Changes
    <3> HIDE DEF s1, v1
    <3>4. Full(s2, k, v2)
      BY <3>2, <3>3, <1>1, FullSteps
    <3>5. v2 \in [HolderSlots -> HeldValue] /\ v2["tmp"] = v[y] /\ v2[x].index = npos /\ \A z \in HolderSlots \ {x, "tmp"} : v2[z] = v[z]
      BY <3>3, <1>1, Changes
    <3> HIDE DEF s2, v2
    <3>6. Full(s3, k, v3)
      BY <3>4, <3>5, <2>0, <1>1, FullPairs DEF npos
    <3>7. v3[x] = v[y] /\ \A z \in HolderSlots \ {x, "tmp"} : v3[z] = v[z]
      BY <3>5, <1>1, Changes
    <3> HIDE DEF s3, v3
    <3>8. \A z \in HolderNames : SameValue(v3[z], Copied(v, x, y)[z])
      BY <3>7, <1>1, <1>3, Slots3 DEF SameValue
    <3>9. Leaves(Dispose(s3, "tmp"), k, Copied(v, x, y), throw)
      BY <3>6, <3>8, TmpGone
    <3>10. throw = 2 => Leaves(Dispose(s2, "tmp"), k, Copied(v, x, y), throw)
      BY <3>4, TmpGone
    <3> QED
      BY <3>1, <3>9, <3>10
  <2> QED
    BY <2>1, <2>2, <2>3
<1> QED
  BY <1>5, <1>6, <1>7

\* operator = (variant &&): what is there is destructed before the other is
\* constructed in its place.
LEMMA VariantMoveAssigns ==
    ASSUME NEW s, NEW k, NEW v, Ready(s, k, v), NEW x \in HolderNames, NEW y \in HolderNames, x # y,
           v[x].index # Absent, v[y].index # Absent, NEW throw \in {0, 1}
    PROVE  Leaves(variant_move_assign(s, x, y, throw), k, MovedTo(v, x, y), throw)
<1>1. /\ Full(s, k, v) /\ v["tmp"].index = Absent /\ v \in [HolderSlots -> HeldValue] /\ x \in HolderSlots /\ y \in HolderSlots
      /\ "tmp" \in HolderSlots /\ x # "tmp" /\ y # "tmp"
  BY FullHas, Slots3 DEF Ready
<1>2. Index(s, x) = v[x].index /\ Index(s, y) = v[y].index
  BY <1>1, FullHas
<1>3. /\ MovedTo(v, x, y)[x] = v[y] /\ MovedTo(v, x, y)[y].index = v[y].index /\ MovedTo(v, x, y)[y].val = Spent
      /\ \A z \in HolderSlots \ {x, y} : MovedTo(v, x, y)[z] = v[z]
  BY <1>1, Changes
<1>4. MovedTo(v, x, y)["tmp"].index = Absent
  BY <1>1, <1>3
<1>5. CASE v[x].index = v[y].index /\ v[x].index = npos
  <2>1. variant_move_assign(s, x, y, throw) = s
    BY <1>2, <1>5 DEF variant_move_assign
  <2> QED
    BY <2>1, <1>5, ReadyLeaves
<1>6. CASE v[x].index = v[y].index /\ v[x].index # npos
  <2>1. variant_move_assign(s, x, y, throw) = move_instance(s, x, y) /\ v[y].index >= 0
    BY <1>1, <1>2, <1>6, FullHas DEF variant_move_assign
  <2>2. Full(move_instance(s, x, y), k, MovedTo(v, x, y))
    BY <2>1, <1>1, <1>6, FullPairs
  <2> QED
    BY <2>1, <2>2, <1>4, ChangedLeaves
<1> DEFINE s1 == ClearHolder(s, x)
           v1 == Cleared(v, x)
<1>7. CASE v[x].index # v[y].index /\ (v[y].index = npos \/ throw > 0)
  <2>1. variant_move_assign(s, x, y, throw) = s1
    BY <1>2, <1>7 DEF variant_move_assign
  <2>2. CASE throw > 0
    BY <2>1, <2>2, ClearLeaves
  <2>3. CASE v[y].index = npos
    <3>1. Full(s1, k, v1)
      BY <1>1, FullSteps
    <3>2. v1[x].index = npos /\ \A z \in HolderSlots \ {x} : v1[z] = v[z]
      BY <1>1, Changes
    <3> HIDE DEF s1, v1
    <3>3. \A z \in HolderNames : SameValue(v1[z], MovedTo(v, x, y)[z])
      BY <3>2, <2>3, <1>1, <1>3, Slots3 DEF SameValue, npos
    <3> QED
      BY <3>1, <3>2, <3>3, <2>1, <1>1, LeavesFull
  <2> QED
    BY <2>2, <2>3, <1>7
<1>8. CASE v[x].index # v[y].index /\ v[y].index # npos /\ ~(throw > 0)
  <2> DEFINE s2 == move_construct_in(s1, x, y)
             v2 == MovedTo(v1, x, y)
  <2>1. variant_move_assign(s, x, y, throw) = s2 /\ v[y].index >= 0
    BY <1>1, <1>2, <1>8, FullHas DEF variant_move_assign
  <2>2. Full(s1, k, v1)
    BY <1>1, FullSteps
  <2>3. v1 \in [HolderSlots -> HeldValue] /\ v1[x].index = npos /\ \A z \in HolderSlots \ {x} : v1[z] = v[z]
    BY <1>1, Changes
  <2> HIDE DEF s1, v1
  <2>4. Full(s2, k, v2)
    BY <2>1, <2>2, <2>3, <1>1, FullPairs DEF npos
  <2>5. v2[x] = v1[y] /\ v2[y].index = v1[y].index /\ v2[y].val = Spent /\ \A z \in HolderSlots \ {x, y} : v2[z] = v1[z]
    BY <2>3, <1>1, Changes
  <2> HIDE DEF s2, v2
  <2>6. v2["tmp"].index = Absent /\ \A z \in HolderNames : SameValue(v2[z], MovedTo(v, x, y)[z])
    BY <2>3, <2>5, <1>1, <1>3, Slots3 DEF SameValue
  <2> QED
    BY <2>1, <2>4, <2>6, LeavesFull
<1> QED
  BY <1>5, <1>6, <1>7, <1>8

\* emplace, of variant and of any, and the assignment of a value to a variant.
LEMMA Emplaces ==
    ASSUME NEW s, NEW k, NEW v, Ready(s, k, v), NEW x \in HolderNames, v[x].index # Absent,
           NEW alt \in {0, 1}, k = "optional" => alt = 0, NEW val \in Int, NEW throw \in {0, 1}
    PROVE  /\ Leaves(emplace(s, x, alt, val, throw), k, Given(v, x, alt, val), throw)
           /\ Leaves(assign(s, x, alt, val, throw), k, Given(v, x, alt, val), throw)
<1>1. /\ Full(s, k, v) /\ v["tmp"].index = Absent /\ v \in [HolderSlots -> HeldValue] /\ x \in HolderSlots
      /\ "tmp" \in HolderSlots /\ x # "tmp" /\ Index(s, x) = v[x].index
  BY FullHas, Slots3 DEF Ready
<1> DEFINE r == [index |-> alt, val |-> val]
           s1 == ClearHolder(s, x)
           v1 == Cleared(v, x)
<1>2. Full(s1, k, v1)
  BY <1>1, FullSteps
<1>3. v1 \in [HolderSlots -> HeldValue] /\ v1[x].index = npos /\ \A z \in HolderSlots \ {x} : v1[z] = v[z]
  BY <1>1, Changes
<1>4. emplace(s, x, alt, val, throw) = IF throw > 0 THEN s1 ELSE create(s1, x, alt, val)
  BY DEF emplace, create
<1> HIDE DEF s1, v1
<1>5. Full(create(s1, x, alt, val), k, Given(v1, x, alt, val))
  <2>1. v1[x].index < 0
    BY <1>3 DEF npos
  <2>2. Shows(s1, k, HolderSlots, v1) /\ HolderSlots \cup {x} = HolderSlots
    BY <1>1, <1>2, Slots3 DEF Full
  <2>3. Shows(create(s1, x, alt, val), k, HolderSlots \cup {x}, [v1 EXCEPT ![x] = [index |-> alt, val |-> val]])
    BY <1>1, <2>1, <2>2, CreateShows
  <2> QED
    BY <2>2, <2>3 DEF Full, Given
<1>6. r \in HeldValue
  BY DEF HeldValue, HolderIndex
<1>7. ASSUME NEW q \in [HolderSlots -> HeldValue]
      PROVE  Given(q, x, alt, val)[x] = r /\ \A z \in HolderSlots \ {x} : Given(q, x, alt, val)[z] = q[z]
  BY <1>1, <1>7 DEF Given
<1>8. Leaves(create(s1, x, alt, val), k, Given(v, x, alt, val), throw)
  <2>1. Given(v1, x, alt, val)["tmp"].index = Absent
    BY <1>1, <1>3, <1>7
  <2>2. \A z \in HolderNames : SameValue(Given(v1, x, alt, val)[z], Given(v, x, alt, val)[z])
    BY <1>1, <1>3, <1>7, Slots3 DEF SameValue
  <2> QED
    BY <2>1, <2>2, <1>5, LeavesFull
<1>9. throw > 0 => Leaves(s1, k, Given(v, x, alt, val), throw)
  BY ClearLeaves DEF s1
<1>10. Leaves(emplace(s, x, alt, val, throw), k, Given(v, x, alt, val), throw)
  BY <1>4, <1>8, <1>9
<1>11. Leaves(assign(s, x, alt, val, throw), k, Given(v, x, alt, val), throw)
  <2>1. CASE v[x].index # alt
    BY <2>1, <1>1, <1>10 DEF assign
  <2>2. CASE v[x].index = alt
    <3>1. assign(s, x, alt, val, throw) = SetValue(s, x, val)
      BY <2>2, <1>1 DEF assign, SetValue
    <3>2. v[x].index >= 0
      BY <2>2
    <3>3. Shows(SetValue(s, x, val), k, HolderSlots, [v EXCEPT ![x] = [index |-> v[x].index, val |-> val]])
      <4>1. Shows(s, k, HolderSlots, v)
        BY <1>1 DEF Full
      <4> QED
        BY <4>1, <3>2, <1>1, SetValueShows
    <3>4. Full(SetValue(s, x, val), k, Given(v, x, alt, val))
      BY <2>2, <3>3 DEF Full, Given
    <3>5. Given(v, x, alt, val)["tmp"].index = Absent
      BY <1>1, <1>7
    <3> QED
      BY <3>1, <3>4, <3>5, ChangedLeaves
  <2> QED
    BY <2>1, <2>2
<1> QED
  BY <1>10, <1>11

\* One holder hands its object over to one that has none (the half of swap,
\* and take_ownership_of).
LEMMA HandsOver ==
    ASSUME NEW s, NEW k, NEW v, Ready(s, k, v), NEW x \in HolderNames, NEW y \in HolderNames,
           v[x].index = npos, v[y].index >= 0, NEW throw
    PROVE  /\ Leaves(ClearHolder(move_construct_in(s, x, y), y), k, Swapped(v, x, y), throw)
           /\ Leaves(ClearHolder(move_construct_in(s, x, y), y), k, Swapped(v, y, x), throw)
<1>1. /\ Full(s, k, v) /\ v["tmp"].index = Absent /\ v \in [HolderSlots -> HeldValue] /\ x \in HolderSlots /\ y \in HolderSlots
      /\ "tmp" \in HolderSlots /\ x # "tmp" /\ y # "tmp" /\ x # y
  BY FullHas, Slots3 DEF Ready, npos
<1> DEFINE s1 == move_construct_in(s, x, y)
           v1 == MovedTo(v, x, y)
           s2 == ClearHolder(s1, y)
           v2 == Cleared(v1, y)
<1>2. Full(s1, k, v1)
  BY <1>1, FullPairs DEF npos
<1>3. v1 \in [HolderSlots -> HeldValue] /\ v1[x] = v[y] /\ v1[y].index = v[y].index /\ \A z \in HolderSlots \ {x, y} : v1[z] = v[z]
  BY <1>1, Changes
<1> HIDE DEF s1, v1
<1>4. Full(s2, k, v2)
  <2>1. v1[y].index # Absent
    BY <1>3 DEF Absent
  <2> QED
    BY <1>1, <1>2, <2>1, FullSteps
<1>5. v2[y].index = npos /\ \A z \in HolderSlots \ {y} : v2[z] = v1[z]
  BY <1>1, <1>3, Changes
<1> HIDE DEF s2, v2
<1>6. v2["tmp"].index = Absent
  BY <1>1, <1>3, <1>5
<1>7. /\ Swapped(v, x, y)[x] = v[y] /\ Swapped(v, x, y)[y] = v[x] /\ \A z \in HolderSlots \ {x, y} : Swapped(v, x, y)[z] = v[z]
      /\ Swapped(v, y, x)[x] = v[y] /\ Swapped(v, y, x)[y] = v[x] /\ \A z \in HolderSlots \ {x, y} : Swapped(v, y, x)[z] = v[z]
  BY <1>1, Changes
<1>8. /\ \A z \in HolderNames : SameValue(v2[z], Swapped(v, x, y)[z])
      /\ \A z \in HolderNames : SameValue(v2[z], Swapped(v, y, x)[z])
  BY <1>1, <1>3, <1>5, <1>7, Slots3 DEF SameValue, npos
<1>9. Leaves(s2, k, Swapped(v, x, y), throw) /\ Leaves(s2, k, Swapped(v, y, x), throw)
  BY <1>4, <1>6, <1>8, LeavesFull
<1> QED
  BY <1>9 DEF s1, s2

\* swap of two variants, through tmp where both have other alternatives.
LEMMA VariantSwaps ==
    ASSUME NEW s, NEW k, NEW v, Ready(s, k, v), NEW x \in HolderNames, NEW y \in HolderNames,
           v[x].index # Absent, v[y].index # Absent, NEW throw \in 0 .. 3
    PROVE  Leaves(variant_swap(s, x, y, throw), k, Swapped(v, x, y), throw)
<1>1. /\ Full(s, k, v) /\ v["tmp"].index = Absent /\ v \in [HolderSlots -> HeldValue] /\ x \in HolderSlots /\ y \in HolderSlots
      /\ "tmp" \in HolderSlots /\ x # "tmp" /\ y # "tmp" /\ Index(s, x) = v[x].index /\ Index(s, y) = v[y].index
      /\ v[x].index \in {npos, 0, 1} /\ v[y].index \in {npos, 0, 1}
  BY FullHas, Slots3 DEF Ready
<1>2. /\ Swapped(v, x, y) \in [HolderSlots -> HeldValue] /\ Swapped(v, x, y)[x] = v[y] /\ Swapped(v, x, y)[y] = v[x]
      /\ \A z \in HolderSlots \ {x, y} : Swapped(v, x, y)[z] = v[z]
  BY <1>1, Changes
<1>3. CASE v[x].index = v[y].index /\ v[x].index = npos
  <2>0. Index(s, x) = Index(s, y) /\ Index(s, x) = npos
    BY <1>1, <1>3
  <2>1. variant_swap(s, x, y, throw) = s
    BY <2>0 DEF variant_swap
  <2>2. Leaves(s, k, Swapped(v, x, y), throw)
    BY <1>3, ReadyLeaves
  <2> QED
    BY <2>1, <2>2
<1>4. CASE v[x].index = v[y].index /\ v[x].index # npos
  <2>1. variant_swap(s, x, y, throw) = swap_instance(s, x, y) /\ v[y].index >= 0
    BY <1>1, <1>4 DEF variant_swap
  <2>2. Full(swap_instance(s, x, y), k, Swapped(v, x, y))
    BY <2>1, <1>1, <1>4, FullPairs
  <2>3. Swapped(v, x, y)["tmp"].index = Absent
    BY <1>1, <1>2
  <2> QED
    BY <2>1, <2>2, <2>3, ChangedLeaves
<1>5. CASE v[x].index # v[y].index /\ v[x].index = npos
  <2>1. variant_swap(s, x, y, throw) = (IF throw > 0 THEN s ELSE ClearHolder(move_construct_in(s, x, y), y)) /\ v[y].index >= 0
    BY <1>1, <1>5 DEF variant_swap
  <2>2. Leaves(ClearHolder(move_construct_in(s, x, y), y), k, Swapped(v, x, y), throw)
    BY <2>1, <1>5, HandsOver
  <2> QED
    BY <2>1, <2>2, ReadyLeaves
<1>6. CASE v[x].index # v[y].index /\ v[y].index = npos
  <2>1. variant_swap(s, x, y, throw) = (IF throw > 0 THEN s ELSE ClearHolder(move_construct_in(s, y, x), x)) /\ v[x].index >= 0
    BY <1>1, <1>6 DEF variant_swap
  <2>2. Leaves(ClearHolder(move_construct_in(s, y, x), x), k, Swapped(v, x, y), throw)
    BY <2>1, <1>6, HandsOver
  <2> QED
    BY <2>1, <2>2, ReadyLeaves
<1>7. CASE v[x].index # v[y].index /\ v[x].index # npos /\ v[y].index # npos
  <2> DEFINE m1 == move_construct_in(s, "tmp", x)
             w1 == MovedTo(v, "tmp", x)
             s1 == ClearHolder(m1, x)
             v1 == Cleared(w1, x)
             m2 == move_construct_in(s1, x, y)
             w2 == MovedTo(v1, x, y)
             s2 == ClearHolder(m2, y)
             v2 == Cleared(w2, y)
             s3 == move_construct_in(s2, y, "tmp")
             v3 == MovedTo(v2, y, "tmp")
  <2>0. v[x].index >= 0 /\ v[y].index >= 0 /\ x # y
    BY <1>1, <1>7 DEF npos
  <2>1. variant_swap(s, x, y, throw) =
          CASE throw = 0 -> Dispose(s3, "tmp") [] throw = 1 -> s [] throw = 2 -> Dispose(s1, "tmp") [] throw = 3 -> Dispose(s2, "tmp")
    BY <1>1, <1>7 DEF variant_swap
  <2>2. Full(m1, k, w1)
    BY <1>1, <2>0, FullPairs DEF Absent
  <2>3. w1 \in [HolderSlots -> HeldValue] /\ w1["tmp"] = v[x] /\ w1[x].index = v[x].index /\ \A z \in HolderSlots \ {x, "tmp"} : w1[z] = v[z]
    BY <1>1, Changes
  <2> HIDE DEF m1, w1
  <2>4. Full(s1, k, v1)
    BY <1>1, <2>2, <2>3, FullSteps
  <2>5. v1 \in [HolderSlots -> HeldValue] /\ v1["tmp"] = v[x] /\ v1[x].index = npos /\ v1[y] = v[y] /\ \A z \in HolderSlots \ {x, "tmp"} : v1[z] = v[z]
    <3>1. v1 \in [HolderSlots -> HeldValue] /\ v1[x].index = npos /\ \A z \in HolderSlots \ {x} : v1[z] = w1[z]
      BY <1>1, <2>3, Changes
    <3> HIDE DEF v1
    <3> QED
      BY <1>1, <2>0, <2>3, <3>1
  <2> HIDE DEF s1, v1
  <2>6. Full(m2, k, w2)
    BY <1>1, <2>0, <2>4, <2>5, FullPairs DEF npos
  <2>7. /\ w2 \in [HolderSlots -> HeldValue] /\ w2["tmp"] = v[x] /\ w2[x] = v[y] /\ w2[y].index = v[y].index
        /\ \A z \in HolderSlots \ {x, y, "tmp"} : w2[z] = v[z]
    BY <1>1, <2>0, <2>5, Changes
  <2> HIDE DEF m2, w2
  <2>8. Full(s2, k, v2)
    BY <1>1, <2>0, <2>6, <2>7, FullSteps DEF Absent
  <2>9. /\ v2 \in [HolderSlots -> HeldValue] /\ v2["tmp"] = v[x] /\ v2[x] = v[y] /\ v2[y].index = npos
        /\ \A z \in HolderSlots \ {x, y, "tmp"} : v2[z] = v[z]
    BY <1>1, <2>0, <2>7, Changes
  <2> HIDE DEF s2, v2
  <2>10. Full(s3, k, v3)
    BY <1>1, <2>0, <2>8, <2>9, FullPairs DEF npos
  <2>11. v3[x] = v[y] /\ v3[y] = v[x] /\ \A z \in HolderSlots \ {x, y, "tmp"} : v3[z] = v[z]
    BY <1>1, <2>0, <2>9, Changes
  <2> HIDE DEF s3, v3
  <2>12. \A z \in HolderNames : SameValue(v3[z], Swapped(v, x, y)[z])
    BY <1>1, <1>2, <2>11, Slots3 DEF SameValue
  <2>13. Leaves(Dispose(s3, "tmp"), k, Swapped(v, x, y), throw)
    BY <2>10, <2>12, TmpGone
  <2>14. throw = 2 => Leaves(Dispose(s1, "tmp"), k, Swapped(v, x, y), throw)
    BY <2>4, TmpGone
  <2>15. throw = 3 => Leaves(Dispose(s2, "tmp"), k, Swapped(v, x, y), throw)
    BY <2>8, TmpGone
  <2>16. throw = 1 => Leaves(s, k, Swapped(v, x, y), throw)
    BY ReadyLeaves
  <2> QED
    BY <2>1, <2>13, <2>14, <2>15, <2>16
<1> QED
  BY <1>3, <1>4, <1>5, <1>6, <1>7

-----------------------------------------------------------------------------
(* optional.                                                               *)

\* The value of an optional that has one is assigned, or one is constructed.
LEMMA OptionalGives ==
    ASSUME NEW s, NEW k, NEW v, Ready(s, k, v), NEW x \in HolderNames, v[x].index # Absent,
           k = "optional", NEW val \in Int, NEW throw \in {0, 1}
    PROVE  /\ Leaves(optional_assign(s, x, val, throw), k, Given(v, x, 0, val), throw)
           /\ v[x].index = npos => Leaves(optional_emplace(s, x, val, throw), k, Given(v, x, 0, val), throw)
<1>1. /\ Full(s, k, v) /\ v["tmp"].index = Absent /\ v \in [HolderSlots -> HeldValue] /\ x \in HolderSlots
      /\ "tmp" \in HolderSlots /\ x # "tmp" /\ Index(s, x) = v[x].index /\ v[x].index \in {npos, 0}
  BY FullHas, Slots3 DEF Ready
<1>2. Given(v, x, 0, val)["tmp"].index = Absent
  BY <1>1 DEF Given
<1>3. throw > 0 => Leaves(s, k, Given(v, x, 0, val), throw)
  BY ReadyLeaves
<1>4. CASE v[x].index = npos
  <2>1. /\ optional_assign(s, x, val, throw) = IF throw > 0 THEN s ELSE create(s, x, 0, val)
        /\ optional_emplace(s, x, val, throw) = IF throw > 0 THEN s ELSE create(s, x, 0, val)
    BY <1>1, <1>4 DEF optional_assign, optional_emplace, optional_construct, create
  <2>2. Shows(s, k, HolderSlots, v) /\ HolderSlots \cup {x} = HolderSlots /\ v[x].index < 0
    BY <1>1, <1>4, Slots3 DEF Full, npos
  <2>3. Shows(create(s, x, 0, val), k, HolderSlots \cup {x}, [v EXCEPT ![x] = [index |-> 0, val |-> val]])
    BY <1>1, <2>2, CreateShows
  <2>4. Full(create(s, x, 0, val), k, Given(v, x, 0, val))
    BY <2>2, <2>3 DEF Full, Given
  <2>5. Leaves(create(s, x, 0, val), k, Given(v, x, 0, val), throw)
    BY <2>4, <1>2, ChangedLeaves
  <2> QED
    BY <2>1, <2>5, <1>3
<1>5. CASE v[x].index # npos
  <2>1. optional_assign(s, x, val, throw) = SetValue(s, x, val) /\ v[x].index = 0
    BY <1>1, <1>5 DEF optional_assign, SetValue
  <2>2. Shows(s, k, HolderSlots, v) /\ v[x].index >= 0
    BY <1>1, <2>1 DEF Full
  <2>3. Shows(SetValue(s, x, val), k, HolderSlots, [v EXCEPT ![x] = [index |-> v[x].index, val |-> val]])
    BY <2>2, <1>1, SetValueShows
  <2>4. Full(SetValue(s, x, val), k, Given(v, x, 0, val))
    BY <2>1, <2>3 DEF Full, Given
  <2> QED
    BY <2>1, <2>4, <1>2, <1>5, ChangedLeaves
<1> QED
  BY <1>4, <1>5


\* The copy of an optional constructs its base with the index first, and the
\* value then; that is the state that any other construction leaves.
LEMMA IndexFirst ==
   ASSUME NEW k, NEW s \in HolderStates(k), NEW x \in HolderSlots, NEW alt, NEW val
   PROVE construct_in(SetIndex(s, x, alt), x, alt, val) = create(s, x, alt, val)
<1> DEFINE n == Len(s.objects) + 1
           O == Append(s.objects, [alt |-> alt, val |-> val, live |-> TRUE])
           a == SetIndex(s, x, alt)
           b == construct_in(s, x, alt, val)
<1>0. s.h \in [HolderSlots -> HolderCell] /\ DOMAIN s.h = HolderSlots
  BY DEF HolderStates
<1>1. [[s.h EXCEPT ![x].index = alt] EXCEPT ![x].cell = n] = [[s.h EXCEPT ![x].cell = n] EXCEPT ![x].index = alt]
  <2> HIDE DEF n
  <2> DEFINE f == [[s.h EXCEPT ![x].index = alt] EXCEPT ![x].cell = n]
             g == [[s.h EXCEPT ![x].cell = n] EXCEPT ![x].index = alt]
  <2>1. DOMAIN f = HolderSlots /\ DOMAIN g = HolderSlots
    BY <1>0
  <2>2. s.h[x] \in HolderCell
    BY <1>0
  <2>3. f[x] = [[s.h[x] EXCEPT !.index = alt] EXCEPT !.cell = n] /\ g[x] = [[s.h[x] EXCEPT !.cell = n] EXCEPT !.index = alt]
    BY <1>0
  <2>4. f[x] = g[x]
    BY <2>2, <2>3 DEF HolderCell
  <2>5. \A z \in HolderSlots \ {x} : f[z] = g[z]
    BY <1>0
  <2> QED
    BY <2>1, <2>4, <2>5, <1>0
<1>2. a = [s EXCEPT !.h = [s.h EXCEPT ![x].index = alt]] /\ a.objects = s.objects /\ a.h = [s.h EXCEPT ![x].index = alt]
  BY DEF SetIndex, HolderStates
<1>3. b = [[s EXCEPT !.h = [s.h EXCEPT ![x].cell = n]] EXCEPT !.objects = O] /\ b.h = [s.h EXCEPT ![x].cell = n]
  BY DEF construct_in, HolderStates
<1>4. construct_in(a, x, alt, val) = [[a EXCEPT !.h = [a.h EXCEPT ![x].cell = n]] EXCEPT !.objects = O]
  BY <1>2 DEF construct_in, HolderStates
<1>5. create(s, x, alt, val) = [b EXCEPT !.h = [b.h EXCEPT ![x].index = alt]]
  BY <1>3 DEF create, SetIndex, HolderStates
<1> HIDE DEF n, O, a, b
<1>6. ASSUME NEW p, NEW q, NEW r, NEW o
      PROVE  [[[s EXCEPT !.h = p] EXCEPT !.h = q] EXCEPT !.objects = o] = [[[s EXCEPT !.h = r] EXCEPT !.objects = o] EXCEPT !.h = q]
  <2>1. DOMAIN s = {"kind", "h", "objects", "broken"}
    BY DEF HolderStates
  <2> DEFINE f == [[[s EXCEPT !.h = p] EXCEPT !.h = q] EXCEPT !.objects = o]
             g == [[[s EXCEPT !.h = r] EXCEPT !.objects = o] EXCEPT !.h = q]
  <2>2. DOMAIN f = DOMAIN s /\ DOMAIN g = DOMAIN s
    OBVIOUS
  <2>3. \A e \in DOMAIN s : f[e] = g[e]
    BY <2>1
  <2>4. f = [e \in DOMAIN s |-> f[e]] /\ g = [e \in DOMAIN s |-> g[e]]
    OBVIOUS
  <2> QED
    BY <2>2, <2>3, <2>4
<1> QED
  <2>1. construct_in(a, x, alt, val) = [[[s EXCEPT !.h = [s.h EXCEPT ![x].index = alt]] EXCEPT !.h = [a.h EXCEPT ![x].cell = n]] EXCEPT !.objects = O]
    BY <1>2, <1>4
  <2>2. create(s, x, alt, val) = [[[s EXCEPT !.h = [s.h EXCEPT ![x].cell = n]] EXCEPT !.objects = O] EXCEPT !.h = [b.h EXCEPT ![x].index = alt]]
    BY <1>3, <1>5
  <2>3. [a.h EXCEPT ![x].cell = n] = [b.h EXCEPT ![x].index = alt]
    BY <1>1, <1>2, <1>3
  <2> DEFINE p == [s.h EXCEPT ![x].index = alt]
             r == [s.h EXCEPT ![x].cell = n]
             q == [a.h EXCEPT ![x].cell = n]
  <2>4. [[[s EXCEPT !.h = p] EXCEPT !.h = q] EXCEPT !.objects = O] = [[[s EXCEPT !.h = r] EXCEPT !.objects = O] EXCEPT !.h = q]
    <3> HIDE DEF p, q, r, O
    <3> QED
      BY <1>6, Zenon
  <2> QED
    BY <2>1, <2>2, <2>3, <2>4, Zenon DEF a

\* The constructors of an optional from another.  A copy or a move that
\* throws is what the code leaves undefined.
LEMMA OptionalConstructs ==
    ASSUME NEW s, NEW k, NEW v, Ready(s, k, v), NEW x \in HolderNames, NEW y \in HolderNames,
           v[x].index = Absent, v[y].index # Absent, k = "optional"
    PROVE  /\ \A throw \in {0, 1} : throw = 0 \/ v[y].index = npos => Leaves(optional_copy(s, x, y, throw), k, Copied(v, x, y), throw)
           /\ \A throw \in {0, 1} : throw = 0 \/ v[y].index = npos => Leaves(optional_move(s, x, y, throw), k, MovedTo(v, x, y), throw)
<1>1. /\ Full(s, k, v) /\ v["tmp"].index = Absent /\ v \in [HolderSlots -> HeldValue] /\ x \in HolderSlots /\ y \in HolderSlots
      /\ "tmp" \in HolderSlots /\ x # "tmp" /\ y # "tmp" /\ x # y /\ s \in HolderStates(k)
  BY FullHas, Slots3 DEF Ready, Full, Shows
<1>2. v[x].index < 0 /\ Index(s, y) = v[y].index /\ v[y].index \in {npos, 0}
  BY <1>1, FullHas DEF Absent
<1>3. CASE v[y].index = npos
  <2> DEFINE t == SetIndex(s, x, npos)
             w == Cleared(v, x)
  <2>1. (\A throw : optional_copy(s, x, y, throw) = t) /\ (\A throw : optional_move(s, x, y, throw) = t)
    BY <1>2, <1>3 DEF optional_copy, optional_move
  <2>2. Full(t, k, w)
    BY <1>1, <1>2, FullSteps
  <2>3. w[x].index = npos /\ \A z \in HolderSlots \ {x} : w[z] = v[z]
    BY <1>1, Changes
  <2> HIDE DEF t, w
  <2>4. /\ \A z \in HolderSlots \ {x} : Copied(v, x, y)[z] = v[z]
        /\ Copied(v, x, y)[x] = v[y] /\ MovedTo(v, x, y)[x] = v[y] /\ MovedTo(v, x, y)[y].index = v[y].index
        /\ \A z \in HolderSlots \ {x, y} : MovedTo(v, x, y)[z] = v[z]
    BY <1>1, Changes
  <2>5. /\ \A z \in HolderNames : SameValue(w[z], Copied(v, x, y)[z])
        /\ \A z \in HolderNames : SameValue(w[z], MovedTo(v, x, y)[z])
        /\ w["tmp"].index = Absent
    BY <1>1, <1>3, <2>3, <2>4, Slots3 DEF SameValue, npos
  <2> QED
    BY <2>1, <2>2, <2>5, LeavesFull
<1>4. CASE v[y].index # npos
  <2>1. v[y].index = 0 /\ v[y].index >= 0
    BY <1>2, <1>4
  <2>2. Full(copy_construct(s, x, y), k, Copied(v, x, y)) /\ Full(move_construct_in(s, x, y), k, MovedTo(v, x, y))
    BY <1>1, <1>2, <2>1, FullPairs
  <2>3. Copied(v, x, y)["tmp"].index = Absent /\ MovedTo(v, x, y)["tmp"].index = Absent
    BY <1>1, Changes
  <2>4. Leaves(copy_construct(s, x, y), k, Copied(v, x, y), 0) /\ Leaves(move_construct_in(s, x, y), k, MovedTo(v, x, y), 0)
    BY <2>2, <2>3, ChangedLeaves
  <2>5. optional_copy(s, x, y, 0) = construct_in(SetIndex(s, x, 0), x, 0, Instance(s, y).val)
    BY <1>2, <1>4, <2>1 DEF optional_copy
  <2>6. construct_in(SetIndex(s, x, 0), x, 0, Instance(s, y).val) = create(s, x, 0, Instance(s, y).val)
    BY <1>1, IndexFirst
  <2>7. copy_construct(s, x, y) = create(s, x, 0, Instance(s, y).val)
    BY <1>2, <2>1 DEF copy_construct, create
  <2>8. optional_copy(s, x, y, 0) = copy_construct(s, x, y)
    BY <2>5, <2>6, <2>7
  <2>9. optional_move(s, x, y, 0) = move_construct_in(s, x, y)
    BY <1>2, <1>4, <2>8 DEF optional_move, move_construct_in
  <2> QED
    BY <2>4, <2>8, <2>9, <1>4
<1> QED
  BY <1>3, <1>4

\* The assignments of an optional to another.
LEMMA OptionalAssigns ==
    ASSUME NEW s, NEW k, NEW v, Ready(s, k, v), NEW x \in HolderNames, NEW y \in HolderNames,
           v[x].index # Absent, v[y].index # Absent, k = "optional", NEW throw \in 0 .. 2
    PROVE  /\ Leaves(optional_copy_assign(s, x, y, throw), k, Copied(v, x, y), throw)
           /\ x # y => Leaves(optional_move_assign(s, x, y, throw), k, MovedTo(v, x, y), throw)
<1>1. /\ Full(s, k, v) /\ v["tmp"].index = Absent /\ v \in [HolderSlots -> HeldValue] /\ x \in HolderSlots /\ y \in HolderSlots
      /\ "tmp" \in HolderSlots /\ x # "tmp" /\ y # "tmp" /\ Index(s, x) = v[x].index /\ Index(s, y) = v[y].index
      /\ v[x].index \in {npos, 0} /\ v[y].index \in {npos, 0}
  BY FullHas, Slots3 DEF Ready
<1>2. /\ Copied(v, x, y)[x] = v[y] /\ \A z \in HolderSlots \ {x} : Copied(v, x, y)[z] = v[z]
      /\ x # y => MovedTo(v, x, y)[x] = v[y]
      /\ MovedTo(v, x, y)[y].index = v[y].index /\ \A z \in HolderSlots \ {x, y} : MovedTo(v, x, y)[z] = v[z]
  BY <1>1, Changes
<1>3. Copied(v, x, y)["tmp"].index = Absent /\ MovedTo(v, x, y)["tmp"].index = Absent
  BY <1>1, <1>2
<1>4. throw > 0 => Leaves(s, k, Copied(v, x, y), throw) /\ Leaves(s, k, MovedTo(v, x, y), throw)
  BY ReadyLeaves
<1>5. CASE v[x].index = npos /\ v[y].index = npos
  <2>1. optional_copy_assign(s, x, y, throw) = s /\ optional_move_assign(s, x, y, throw) = s
    BY <1>1, <1>5 DEF optional_copy_assign, optional_move_assign
  <2>2. Leaves(s, k, Copied(v, x, y), throw) /\ Leaves(s, k, MovedTo(v, x, y), throw)
    BY <1>5, ReadyLeaves
  <2> QED
    BY <2>1, <2>2
<1>6. CASE v[x].index # npos /\ v[y].index = npos
  <2>1. optional_copy_assign(s, x, y, throw) = ClearHolder(s, x) /\ optional_move_assign(s, x, y, throw) = ClearHolder(s, x)
    BY <1>1, <1>6 DEF optional_copy_assign, optional_move_assign
  <2>2. Leaves(ClearHolder(s, x), k, Copied(v, x, y), throw)
    BY <1>2, <1>6, ClearLeaves
  <2>3. Leaves(ClearHolder(s, x), k, MovedTo(v, x, y), throw)
    <3> DEFINE t == ClearHolder(s, x)
               w == Cleared(v, x)
    <3>1. Full(t, k, w)
      BY <1>1, FullSteps
    <3>2. w[x].index = npos /\ \A z \in HolderSlots \ {x} : w[z] = v[z]
      BY <1>1, Changes
    <3> HIDE DEF t, w
    <3>3. x # y
      BY <1>6
    <3>4. \A z \in HolderNames : SameValue(w[z], MovedTo(v, x, y)[z])
      BY <3>2, <3>3, <1>1, <1>2, <1>6, Slots3 DEF SameValue, npos
    <3>5. w["tmp"].index = Absent
      BY <3>2, <1>1
    <3>6. Leaves(t, k, MovedTo(v, x, y), throw)
      BY <3>1, <3>4, <3>5, LeavesFull
    <3> QED
      BY <3>6 DEF t
  <2> QED
    BY <2>1, <2>2, <2>3
<1>7. CASE v[x].index # npos /\ v[y].index # npos
  <2>1. optional_copy_assign(s, x, y, throw) = copy_instance(s, x, y) /\ optional_move_assign(s, x, y, throw) = move_instance(s, x, y)
    BY <1>1, <1>7 DEF optional_copy_assign, optional_move_assign
  <2>2. v[x].index = v[y].index /\ v[y].index >= 0
    BY <1>1, <1>7
  <2>3. Full(copy_instance(s, x, y), k, Copied(v, x, y)) /\ (x # y => Full(move_instance(s, x, y), k, MovedTo(v, x, y)))
    BY <2>2, <1>1, FullPairs
  <2>4. Leaves(copy_instance(s, x, y), k, Copied(v, x, y), throw)
    BY <2>3, <1>3, ChangedLeaves
  <2>5. x # y => Leaves(move_instance(s, x, y), k, MovedTo(v, x, y), throw)
    BY <2>3, <1>3, ChangedLeaves
  <2> QED
    BY <2>1, <2>4, <2>5
<1>8. CASE v[x].index = npos /\ v[y].index # npos
  <2>1. /\ optional_copy_assign(s, x, y, throw) = IF throw > 0 THEN s ELSE copy_construct(s, x, y)
        /\ optional_move_assign(s, x, y, throw) = IF throw > 0 THEN s ELSE move_construct_in(s, x, y)
    BY <1>1, <1>8 DEF optional_copy_assign, optional_move_assign
  <2>2. v[x].index < 0 /\ v[y].index >= 0
    BY <1>1, <1>8 DEF npos
  <2>3. Full(copy_construct(s, x, y), k, Copied(v, x, y)) /\ Full(move_construct_in(s, x, y), k, MovedTo(v, x, y))
    BY <2>2, <1>1, FullPairs
  <2>4. Leaves(copy_construct(s, x, y), k, Copied(v, x, y), throw)
    BY <2>3, <1>3, ChangedLeaves
  <2>5. Leaves(move_construct_in(s, x, y), k, MovedTo(v, x, y), throw)
    BY <2>3, <1>3, ChangedLeaves
  <2> QED
    BY <2>1, <2>4, <2>5, <1>4
<1> QED
  BY <1>5, <1>6, <1>7, <1>8

\* swap of two optionals.
LEMMA OptionalSwaps ==
    ASSUME NEW s, NEW k, NEW v, Ready(s, k, v), NEW x \in HolderNames, NEW y \in HolderNames,
           v[x].index # Absent, v[y].index # Absent, k = "optional", NEW throw \in 0 .. 3
    PROVE  Leaves(optional_swap(s, x, y, throw), k, Swapped(v, x, y), throw)
<1>1. /\ Full(s, k, v) /\ v["tmp"].index = Absent /\ v \in [HolderSlots -> HeldValue] /\ x \in HolderSlots /\ y \in HolderSlots
      /\ "tmp" \in HolderSlots /\ x # "tmp" /\ y # "tmp" /\ Index(s, x) = v[x].index /\ Index(s, y) = v[y].index
      /\ v[x].index \in {npos, 0} /\ v[y].index \in {npos, 0}
  BY FullHas, Slots3 DEF Ready
<1>2. throw > 0 => Leaves(s, k, Swapped(v, x, y), throw)
  BY ReadyLeaves
<1>3. CASE v[x].index = npos /\ v[y].index = npos
  <2>1. optional_swap(s, x, y, throw) = s
    BY <1>1, <1>3 DEF optional_swap
  <2>2. Leaves(s, k, Swapped(v, x, y), throw)
    BY <1>3, ReadyLeaves
  <2> QED
    BY <2>1, <2>2
<1>4. CASE v[x].index = npos /\ v[y].index # npos
  <2>1. optional_swap(s, x, y, throw) = IF throw > 0 THEN s ELSE ClearHolder(move_construct_in(s, x, y), y)
    BY <1>1, <1>4 DEF optional_swap, take_ownership_of
  <2>2. v[y].index >= 0
    BY <1>1, <1>4
  <2>3. Leaves(ClearHolder(move_construct_in(s, x, y), y), k, Swapped(v, x, y), throw)
    BY <2>2, <1>4, HandsOver
  <2> QED
    BY <2>1, <2>3, <1>2
<1>5. CASE v[x].index # npos /\ v[y].index = npos
  <2>1. optional_swap(s, x, y, throw) = IF throw > 0 THEN s ELSE ClearHolder(move_construct_in(s, y, x), x)
    BY <1>1, <1>5 DEF optional_swap, take_ownership_of
  <2>2. v[x].index >= 0
    BY <1>1, <1>5
  <2>3. Leaves(ClearHolder(move_construct_in(s, y, x), x), k, Swapped(v, x, y), throw)
    BY <2>2, <1>5, HandsOver
  <2> QED
    BY <2>1, <2>3, <1>2
<1>6. CASE v[x].index # npos /\ v[y].index # npos
  <2>1. optional_swap(s, x, y, throw) = swap_instance(s, x, y) /\ v[x].index = v[y].index /\ v[y].index >= 0
    BY <1>1, <1>6 DEF optional_swap
  <2>2. Full(swap_instance(s, x, y), k, Swapped(v, x, y))
    BY <2>1, <1>1, FullPairs
  <2>3. Swapped(v, x, y)["tmp"].index = Absent
    BY <1>1, Changes
  <2> QED
    BY <2>1, <2>2, <2>3, ChangedLeaves
<1> QED
  BY <1>3, <1>4, <1>5, <1>6

-----------------------------------------------------------------------------
(* any.                                                                    *)

\* What y had is x's, and y has nothing.
Handed(v, x, y) == Cleared(Copied(v, x, y), y)

\* What the change of v by such a move is.
LEMMA HandedIs ==
    ASSUME NEW v \in [HolderSlots -> HeldValue], NEW x \in HolderSlots, NEW y \in HolderSlots
    PROVE  /\ Handed(v, x, y) \in [HolderSlots -> HeldValue] /\ Handed(v, x, y)[y].index = npos
           /\ x # y => Handed(v, x, y)[x] = v[y]
           /\ \A z \in HolderSlots \ {x, y} : Handed(v, x, y)[z] = v[z]
<1> DEFINE u == Copied(v, x, y)
<1>1. u \in [HolderSlots -> HeldValue] /\ u[x] = v[y] /\ \A z \in HolderSlots \ {x} : u[z] = v[z]
  BY Changes
<1> HIDE DEF u
<1>2. Cleared(u, y) \in [HolderSlots -> HeldValue] /\ Cleared(u, y)[y].index = npos /\ \A z \in HolderSlots \ {y} : Cleared(u, y)[z] = u[z]
  BY <1>1, Changes
<1> QED
  BY <1>1, <1>2 DEF Handed, u

\* The move of an any into one that has nothing.
LEMMA AnyMoves ==
    ASSUME NEW s, NEW k, NEW v, Full(s, k, v), NEW x \in HolderSlots, NEW y \in HolderSlots, v[x].index = npos, v[y].index # Absent
    PROVE  Full(any_move(s, x, y), k, Handed(v, x, y))
<1>1. v \in [HolderSlots -> HeldValue] /\ Index(s, y) = v[y].index /\ HolderSlots \cup {x} = HolderSlots
  BY FullHas, Slots3
<1>2. CASE v[y].index = npos
  <2>1. any_move(s, x, y) = s
    BY <1>1, <1>2 DEF any_move
  <2> DEFINE w == Handed(v, x, y)
  <2>2. w \in [HolderSlots -> HeldValue] /\ \A z \in HolderSlots : w[z].index = v[z].index /\ (v[z].index >= 0 => w[z].val = v[z].val)
    <3>1. w \in [HolderSlots -> HeldValue] /\ w[y].index = npos /\ (x # y => w[x] = v[y]) /\ \A z \in HolderSlots \ {x, y} : w[z] = v[z]
      BY <1>1, HandedIs
    <3>2. ASSUME NEW z \in HolderSlots PROVE w[z].index = v[z].index /\ (v[z].index >= 0 => w[z].val = v[z].val)
      <4>1. CASE z \notin {x, y}
        BY <4>1, <3>1
      <4>2. CASE z \in {x, y}
        <5> HIDE DEF w
        <5>1. w[z].index = npos /\ v[z].index = npos
          BY <4>2, <3>1, <1>2
        <5> QED
          BY <5>1 DEF npos
      <4> QED
        BY <4>1, <4>2
    <3> QED
      BY <3>1, <3>2
  <2>3. Shows(s, k, HolderSlots, v)
    BY DEF Full
  <2> HIDE DEF w
  <2>4. Shows(s, k, HolderSlots, w)
    BY <2>2, <2>3, SameShows
  <2> QED
    BY <2>1, <2>4 DEF Full, w
<1>3. CASE v[y].index # npos
  <2> DEFINE t == handler_move(s, x, y)
             N == HolderSlots \ {y}
             u == Copied(v, x, y)
  <2>1. any_move(s, x, y) = SetIndex(t, y, npos) /\ v[y].index >= 0
    BY <1>1, <1>3, FullHas DEF any_move
  <2>2. Shows(t, k, N, u)
    <3>1. Shows(s, k, HolderSlots, v) /\ v[x].index < 0 /\ (HolderSlots \cup {x}) \ {y} = N
      BY <1>1 DEF Full, npos
    <3> HIDE DEF N
    <3>2. Shows(handler_move(s, x, y), k, (HolderSlots \cup {x}) \ {y}, [v EXCEPT ![x] = v[y]])
      BY <2>1, <3>1, HandlerMoveShows
    <3> QED
      BY <3>1, <3>2 DEF Copied
  <2> HIDE DEF t, u
  <2>3. Shows(SetIndex(t, y, npos), k, N \cup {y}, [u EXCEPT ![y] = Emptied])
    BY <2>2, NposShows
  <2>4. N \cup {y} = HolderSlots
    OBVIOUS
  <2> QED
    BY <2>1, <2>3, <2>4 DEF Full, Handed, Cleared, u
<1> QED
  BY <1>2, <1>3

\* operator = (any &&): what is there is destructed first.
LEMMA AnyMoveAssigns ==
    ASSUME NEW s, NEW k, NEW v, Full(s, k, v), NEW x \in HolderSlots, NEW y \in HolderSlots, x # y, v[x].index # Absent, v[y].index # Absent
    PROVE  /\ Full(any_move_assign(s, x, y), k, Handed(Cleared(v, x), x, y))
           /\ Handed(Cleared(v, x), x, y)[x] = v[y] /\ Handed(Cleared(v, x), x, y)[y].index = npos
           /\ \A z \in HolderSlots \ {x, y} : Handed(Cleared(v, x), x, y)[z] = v[z]
<1> DEFINE t == ClearHolder(s, x)
           w == Cleared(v, x)
<1>1. v \in [HolderSlots -> HeldValue] /\ Full(t, k, w)
  BY FullHas, FullSteps
<1>2. w \in [HolderSlots -> HeldValue] /\ w[x].index = npos /\ \A z \in HolderSlots \ {x} : w[z] = v[z]
  BY <1>1, Changes
<1>3. any_move_assign(s, x, y) = any_move(t, x, y)
  BY DEF any_move_assign
<1> HIDE DEF t, w
<1>4. Full(any_move(t, x, y), k, Handed(w, x, y))
  BY <1>1, <1>2, AnyMoves
<1>5. Handed(w, x, y)[x] = w[y] /\ Handed(w, x, y)[y].index = npos /\ \A z \in HolderSlots \ {x, y} : Handed(w, x, y)[z] = w[z]
  BY <1>2, HandedIs
<1> QED
  BY <1>2, <1>3, <1>4, <1>5 DEF w

\* The constructor and the assignment from another any.
LEMMA AnyTakes ==
    ASSUME NEW s, NEW k, NEW v, Ready(s, k, v), NEW x \in HolderNames, NEW y \in HolderNames, v[y].index # Absent
    PROVE  /\ v[x].index = Absent => Leaves(any_move(SetIndex(s, x, npos), x, y), k, Handed(v, x, y), 0)
           /\ x # y /\ v[x].index # Absent => Leaves(any_move_assign(s, x, y), k, Handed(v, x, y), 0)
<1>1. /\ Full(s, k, v) /\ v["tmp"].index = Absent /\ v \in [HolderSlots -> HeldValue] /\ x \in HolderSlots /\ y \in HolderSlots
      /\ "tmp" \in HolderSlots /\ x # "tmp" /\ y # "tmp"
  BY FullHas, Slots3 DEF Ready
<1>2. CASE v[x].index = Absent
  <2> DEFINE t == SetIndex(s, x, npos)
             w == Cleared(v, x)
  <2>1. Full(t, k, w)
    <3>1. v[x].index < 0
      BY <1>2 DEF Absent
    <3> QED
      BY <1>1, <3>1, FullSteps
  <2>2. w \in [HolderSlots -> HeldValue] /\ w[x].index = npos /\ \A z \in HolderSlots \ {x} : w[z] = v[z]
    BY <1>1, Changes
  <2>3. x # y
    BY <1>2
  <2> HIDE DEF t, w
  <2>4. Full(any_move(t, x, y), k, Handed(w, x, y))
    BY <1>1, <2>1, <2>2, <2>3, AnyMoves
  <2>5. /\ Handed(w, x, y)[x] = v[y] /\ Handed(w, x, y)[y].index = npos /\ \A z \in HolderSlots \ {x, y} : Handed(w, x, y)[z] = v[z]
        /\ Handed(v, x, y)[x] = v[y] /\ Handed(v, x, y)[y].index = npos /\ \A z \in HolderSlots \ {x, y} : Handed(v, x, y)[z] = v[z]
    BY <1>1, <2>2, <2>3, HandedIs
  <2>6. /\ Handed(w, x, y)["tmp"].index = Absent
        /\ \A z \in HolderNames : SameValue(Handed(w, x, y)[z], Handed(v, x, y)[z])
    BY <1>1, <2>5, Slots3 DEF SameValue, npos
  <2>7. Leaves(any_move(t, x, y), k, Handed(v, x, y), 0)
    BY <2>4, <2>6, LeavesFull
  <2> QED
    BY <1>2, <2>7 DEF t
<1>3. CASE v[x].index # Absent /\ x # y
  <2> DEFINE t == any_move_assign(s, x, y)
             w == Handed(Cleared(v, x), x, y)
  <2>1. Full(t, k, w)
    BY <1>1, <1>3, AnyMoveAssigns
  <2>2. w[x] = v[y] /\ w[y].index = npos /\ \A z \in HolderSlots \ {x, y} : w[z] = v[z]
    BY <1>1, <1>3, AnyMoveAssigns
  <2> HIDE DEF t, w
  <2>3. Handed(v, x, y)[x] = v[y] /\ Handed(v, x, y)[y].index = npos /\ \A z \in HolderSlots \ {x, y} : Handed(v, x, y)[z] = v[z]
    BY <1>1, <1>3, HandedIs
  <2>4. w["tmp"].index = Absent /\ \A z \in HolderNames : SameValue(w[z], Handed(v, x, y)[z])
    BY <1>1, <2>2, <2>3, Slots3 DEF SameValue, npos
  <2>5. Leaves(t, k, Handed(v, x, y), 0)
    BY <2>1, <2>4, LeavesFull
  <2> QED
    BY <1>3, <2>5 DEF t
<1> QED
  BY <1>2, <1>3

\* The assignment of a value: a new any, that is moved in.
LEMMA AnyAssigns ==
    ASSUME NEW s, NEW k, NEW v, Ready(s, k, v), NEW x \in HolderNames, v[x].index # Absent,
           NEW alt \in {0, 1}, k = "optional" => alt = 0, NEW val \in Int, NEW throw \in {0, 1}
    PROVE  Leaves(any_assign(s, x, alt, val, throw), k, Given(v, x, alt, val), throw)
<1>1. /\ Full(s, k, v) /\ v["tmp"].index = Absent /\ v \in [HolderSlots -> HeldValue] /\ x \in HolderSlots
      /\ "tmp" \in HolderSlots /\ x # "tmp"
  BY FullHas, Slots3 DEF Ready
<1> DEFINE r == [index |-> alt, val |-> val]
           s1 == create(s, "tmp", alt, val)
           v1 == Given(v, "tmp", alt, val)
           s2 == any_move_assign(s1, x, "tmp")
           v2 == Handed(Cleared(v1, x), x, "tmp")
<1>2. any_assign(s, x, alt, val, throw) = IF throw > 0 THEN s ELSE Dispose(s2, "tmp")
  BY DEF any_assign
<1>3. r \in HeldValue
  BY DEF HeldValue, HolderIndex
<1>4. v1["tmp"] = r /\ v1[x] = v[x] /\ v1 \in [HolderSlots -> HeldValue] /\ \A z \in HolderSlots \ {"tmp"} : v1[z] = v[z]
  BY <1>1, <1>3 DEF Given
<1>5. Full(s1, k, v1)
  <2>1. Shows(s, k, HolderSlots, v) /\ HolderSlots \cup {"tmp"} = HolderSlots /\ v["tmp"].index < 0
    BY <1>1, Slots3 DEF Full, Absent
  <2>2. Shows(create(s, "tmp", alt, val), k, HolderSlots \cup {"tmp"}, [v EXCEPT !["tmp"] = [index |-> alt, val |-> val]])
    BY <1>1, <2>1, CreateShows
  <2> QED
    BY <2>1, <2>2 DEF Full, Given
<1>6. v1["tmp"].index # Absent /\ v1[x].index # Absent
  BY <1>4 DEF Absent
<1> HIDE DEF s1, v1
<1>7. Full(s2, k, v2) /\ v2[x] = v1["tmp"] /\ \A z \in HolderSlots \ {x, "tmp"} : v2[z] = v1[z]
  BY <1>1, <1>5, <1>6, AnyMoveAssigns
<1> HIDE DEF s2, v2
<1>8. Given(v, x, alt, val)[x] = r /\ \A z \in HolderSlots \ {x} : Given(v, x, alt, val)[z] = v[z]
  BY <1>1, <1>3 DEF Given
<1>9. \A z \in HolderNames : SameValue(v2[z], Given(v, x, alt, val)[z])
  BY <1>1, <1>4, <1>7, <1>8, Slots3 DEF SameValue
<1>10. Leaves(Dispose(s2, "tmp"), k, Given(v, x, alt, val), throw)
  BY <1>7, <1>9, TmpGone
<1>11. throw > 0 => Leaves(s, k, Given(v, x, alt, val), throw)
  BY ReadyLeaves
<1> QED
  BY <1>2, <1>10, <1>11

\* swap of two anys, through tmp where both have something.
LEMMA AnySwaps ==
    ASSUME NEW s, NEW k, NEW v, Ready(s, k, v), NEW x \in HolderNames, NEW y \in HolderNames, v[x].index # Absent, v[y].index # Absent
    PROVE  Leaves(any_swap(s, x, y), k, Swapped(v, x, y), 0)
<1>1. /\ Full(s, k, v) /\ v["tmp"].index = Absent /\ v \in [HolderSlots -> HeldValue] /\ x \in HolderSlots /\ y \in HolderSlots
      /\ "tmp" \in HolderSlots /\ x # "tmp" /\ y # "tmp" /\ Index(s, x) = v[x].index /\ Index(s, y) = v[y].index
      /\ v[x].index \in {npos, 0, 1} /\ v[y].index \in {npos, 0, 1}
  BY FullHas, Slots3 DEF Ready
<1>2. /\ Swapped(v, x, y) \in [HolderSlots -> HeldValue] /\ Swapped(v, x, y)[x] = v[y] /\ Swapped(v, x, y)[y] = v[x]
      /\ \A z \in HolderSlots \ {x, y} : Swapped(v, x, y)[z] = v[z]
  BY <1>1, Changes
<1>3. CASE v[x].index # npos /\ v[y].index = npos
  <2>1. any_swap(s, x, y) = any_move(s, y, x)
    BY <1>1, <1>3 DEF any_swap
  <2>2. Full(any_move(s, y, x), k, Handed(v, y, x))
    BY <1>1, <1>3, AnyMoves
  <2>3. x # y /\ Handed(v, y, x)[y] = v[x] /\ Handed(v, y, x)[x].index = npos /\ \A z \in HolderSlots \ {x, y} : Handed(v, y, x)[z] = v[z]
    BY <1>1, <1>3, HandedIs
  <2>4. Handed(v, y, x)["tmp"].index = Absent /\ \A z \in HolderNames : SameValue(Handed(v, y, x)[z], Swapped(v, x, y)[z])
    BY <1>1, <1>2, <1>3, <2>3, Slots3 DEF SameValue, npos
  <2>5. Leaves(any_move(s, y, x), k, Swapped(v, x, y), 0)
    BY <2>2, <2>4, LeavesFull
  <2> QED
    BY <2>1, <2>5
<1>4. CASE v[x].index = npos
  <2>1. any_swap(s, x, y) = any_move(s, x, y)
    BY <1>1, <1>4 DEF any_swap
  <2>2. Full(any_move(s, x, y), k, Handed(v, x, y))
    BY <1>1, <1>4, AnyMoves
  <2>3. (x # y => Handed(v, x, y)[x] = v[y]) /\ Handed(v, x, y)[y].index = npos /\ \A z \in HolderSlots \ {x, y} : Handed(v, x, y)[z] = v[z]
    BY <1>1, HandedIs
  <2>4. Handed(v, x, y)["tmp"].index = Absent /\ \A z \in HolderNames : SameValue(Handed(v, x, y)[z], Swapped(v, x, y)[z])
    BY <1>1, <1>2, <1>4, <2>3, Slots3 DEF SameValue, npos
  <2>5. Leaves(any_move(s, x, y), k, Swapped(v, x, y), 0)
    BY <2>2, <2>4, LeavesFull
  <2> QED
    BY <2>1, <2>5
<1>5. CASE v[x].index # npos /\ v[y].index # npos /\ x = y
  <2>1. any_swap(s, x, y) = s
    BY <1>1, <1>5 DEF any_swap
  <2>2. Swapped(v, x, y)["tmp"].index = Absent /\ \A z \in HolderNames : SameValue(v[z], Swapped(v, x, y)[z])
    BY <1>1, <1>2, <1>5, Slots3 DEF SameValue
  <2>3. Leaves(s, k, Swapped(v, x, y), 0)
    BY <1>1, <2>2, LeavesFull
  <2> QED
    BY <2>1, <2>3
<1>6. CASE v[x].index # npos /\ v[y].index # npos /\ x # y
  <2> DEFINE s1 == handler_move(s, "tmp", x)
             v1 == [v EXCEPT !["tmp"] = v[x]]
             N1 == HolderSlots \ {x}
             s2 == handler_move(s1, x, y)
             v2 == [v1 EXCEPT ![x] = v1[y]]
             N2 == HolderSlots \ {y}
             s3 == handler_move(s2, y, "tmp")
             v3 == [v2 EXCEPT ![y] = v2["tmp"]]
             N3 == HolderSlots \ {"tmp"}
             s4 == SetIndex(s3, "tmp", npos)
             v4 == [v3 EXCEPT !["tmp"] = Emptied]
  <2>0. v[x].index >= 0 /\ v[y].index >= 0
    BY <1>1, <1>6 DEF npos
  <2>1. any_swap(s, x, y) = Dispose(s4, "tmp")
    BY <1>1, <1>6 DEF any_swap
  <2>2. Shows(s1, k, N1, v1)
    <3>1. Shows(s, k, HolderSlots, v) /\ v["tmp"].index < 0
      BY <1>1 DEF Full, Absent
    <3>2. Shows(handler_move(s, "tmp", x), k, (HolderSlots \cup {"tmp"}) \ {x}, [v EXCEPT !["tmp"] = v[x]])
      BY <1>1, <2>0, <3>1, HandlerMoveShows
    <3>3. (HolderSlots \cup {"tmp"}) \ {x} = HolderSlots \ {x}
      BY <1>1
    <3> QED
      BY <3>2, <3>3
  <2>3. v1 \in [HolderSlots -> HeldValue] /\ v1["tmp"] = v[x] /\ v1[y] = v[y] /\ \A z \in HolderSlots \ {x, y, "tmp"} : v1[z] = v[z]
    BY <1>1, <1>6
  <2> HIDE DEF s1, v1
  <2>4. Shows(s2, k, N2, v2)
    <3>1. y \in N1 /\ v1[y].index >= 0 /\ x \notin N1 /\ (N1 \cup {x}) \ {y} = N2
      BY <1>1, <1>6, <2>0, <2>3
    <3> HIDE DEF N1, N2
    <3>2. Shows(handler_move(s1, x, y), k, (N1 \cup {x}) \ {y}, [v1 EXCEPT ![x] = v1[y]])
      BY <1>1, <2>2, <3>1, HandlerMoveShows
    <3> QED
      BY <3>1, <3>2
  <2>5. v2 \in [HolderSlots -> HeldValue] /\ v2["tmp"] = v[x] /\ v2[x] = v[y] /\ \A z \in HolderSlots \ {x, y, "tmp"} : v2[z] = v[z]
    BY <1>1, <1>6, <2>3
  <2> HIDE DEF s2, v2
  <2>6. Shows(s3, k, N3, v3)
    <3>1. "tmp" \in N2 /\ v2["tmp"].index >= 0 /\ y \notin N2 /\ (N2 \cup {y}) \ {"tmp"} = N3
      BY <1>1, <2>0, <2>5
    <3> HIDE DEF N2, N3
    <3>2. Shows(handler_move(s2, y, "tmp"), k, (N2 \cup {y}) \ {"tmp"}, [v2 EXCEPT ![y] = v2["tmp"]])
      BY <1>1, <2>4, <3>1, HandlerMoveShows
    <3> QED
      BY <3>1, <3>2
  <2>7. v3 \in [HolderSlots -> HeldValue] /\ v3[y] = v[x] /\ v3[x] = v[y] /\ \A z \in HolderSlots \ {x, y, "tmp"} : v3[z] = v[z]
    BY <1>1, <1>6, <2>5
  <2> HIDE DEF s3, v3
  <2>8. Full(s4, k, v4)
    <3>1. "tmp" \notin N3 /\ N3 \cup {"tmp"} = HolderSlots
      BY <1>1
    <3> HIDE DEF N3
    <3>2. Shows(SetIndex(s3, "tmp", npos), k, N3 \cup {"tmp"}, [v3 EXCEPT !["tmp"] = Emptied])
      BY <1>1, <2>6, <3>1, NposShows
    <3> QED
      BY <3>1, <3>2 DEF Full
  <2>9. v4[y] = v[x] /\ v4[x] = v[y] /\ \A z \in HolderSlots \ {x, y, "tmp"} : v4[z] = v[z]
    BY <1>1, <1>6, <2>7
  <2> HIDE DEF s4, v4
  <2>10. \A z \in HolderNames : SameValue(v4[z], Swapped(v, x, y)[z])
    BY <1>1, <1>2, <2>9, Slots3 DEF SameValue
  <2>11. Leaves(Dispose(s4, "tmp"), k, Swapped(v, x, y), 0)
    BY <2>8, <2>10, TmpGone
  <2> QED
    BY <2>1, <2>11
<1> QED
  BY <1>1, <1>3, <1>4, <1>5, <1>6

-----------------------------------------------------------------------------
(* The comparisons.                                                        *)

IsHeld(a) == a = NoInstance \/ \E i, j \in Int : a = <<i, j>>

\* What is compared: nothing, or an alternative and its value.
LEMMA HeldParts ==
    ASSUME NEW a, IsHeld(a), a # NoInstance
    PROVE  a[1] \in Int /\ a[2] \in Int
  BY DEF IsHeld

\* One of three booleans is true.
LEMMA OneOfThree ==
    ASSUME NEW p \in BOOLEAN, NEW q \in BOOLEAN, NEW r \in BOOLEAN,
           p \/ q \/ r, ~(p /\ q), ~(p /\ r), ~(q /\ r)
    PROVE  Cardinality({n \in {1, 2, 3} : <<p, q, r>>[n]}) = 1
<1> DEFINE S == {n \in {1, 2, 3} : <<p, q, r>>[n]}
<1>1. (1 \in S) = p /\ (2 \in S) = q /\ (3 \in S) = r /\ S \subseteq {1, 2, 3}
  OBVIOUS
<1> HIDE DEF S
<1>2. \E n : S = {n}
  <2>1. CASE p
    <3>1. S = {1}
      BY <2>1, <1>1
    <3> QED
      BY <3>1
  <2>2. CASE q
    <3>1. S = {2}
      BY <2>2, <1>1
    <3> QED
      BY <3>1
  <2>3. CASE r
    <3>1. S = {3}
      BY <2>3, <1>1
    <3> QED
      BY <3>1
  <2> QED
    BY <2>1, <2>2, <2>3
<1> QED
  BY <1>2, FS_Singleton DEF S

\* Pairs of integers are ordered by the first and then by the second.
LEMMA PairsOrdered ==
    ASSUME NEW i \in Int, NEW j \in Int, NEW m \in Int, NEW n \in Int
    PROVE  /\ i < m \/ (i = m /\ j < n) \/ (i = m /\ j = n) \/ i > m \/ (i = m /\ j > n)
           /\ ~((i < m \/ (i = m /\ j < n)) /\ (i = m /\ j = n))
           /\ ~((i < m \/ (i = m /\ j < n)) /\ (i > m \/ (i = m /\ j > n)))
           /\ ~((i = m /\ j = n) /\ (i > m \/ (i = m /\ j > n)))
           /\ (i < m \/ (i = m /\ j <= n)) <=> (i < m \/ (i = m /\ j < n) \/ (i = m /\ j = n))
           /\ (i > m \/ (i = m /\ j >= n)) <=> (i > m \/ (i = m /\ j > n) \/ (i = m /\ j = n))
  OBVIOUS

\* The six operators of variants and optionals are those of an order.
LEMMA AllOrdered ==
    ASSUME NEW a, IsHeld(a), NEW b, IsHeld(b)
    PROVE  Ordered(a, b)
<1> DEFINE lt == less_than(a, b)
           eq == equality(a, b)
           gt == greater_than(a, b)
<1>1. CASE Both(a, b)
  <2>1. a[1] \in Int /\ a[2] \in Int /\ b[1] \in Int /\ b[2] \in Int
    BY <1>1, HeldParts DEF Both
  <2>2. /\ lt = (a[1] < b[1] \/ (a[1] = b[1] /\ a[2] < b[2])) /\ eq = (a[1] = b[1] /\ a[2] = b[2])
        /\ gt = (a[1] > b[1] \/ (a[1] = b[1] /\ a[2] > b[2]))
        /\ inequality(a, b) = (a[1] # b[1] \/ a[2] # b[2])
        /\ less_equal(a, b) = (a[1] < b[1] \/ (a[1] = b[1] /\ a[2] <= b[2]))
        /\ greater_equal(a, b) = (a[1] > b[1] \/ (a[1] = b[1] /\ a[2] >= b[2]))
    BY <1>1 DEF less_than, equality, greater_than, inequality, less_equal, greater_equal
  <2> HIDE DEF lt, eq, gt
  <2>3. lt \in BOOLEAN /\ eq \in BOOLEAN /\ gt \in BOOLEAN
    BY <2>2
  <2> DEFINE i == a[1]
             j == a[2]
             m == b[1]
             n == b[2]
  <2> HIDE DEF i, j, m, n
  <2>4. i \in Int /\ j \in Int /\ m \in Int /\ n \in Int
    BY <2>1 DEF i, j, m, n
  <2>5. /\ lt <=> (i < m \/ (i = m /\ j < n))
        /\ eq <=> (i = m /\ j = n)
        /\ gt <=> (i > m \/ (i = m /\ j > n))
    BY <2>2, Zenon DEF i, j, m, n
  <2>6. (lt \/ eq \/ gt) /\ ~(lt /\ eq) /\ ~(lt /\ gt) /\ ~(eq /\ gt)
    BY <2>4, <2>5, PairsOrdered, Zenon
  <2>7. Cardinality({r \in {1, 2, 3} : <<lt, eq, gt>>[r]}) = 1
    BY <2>3, <2>6, OneOfThree
  <2>8. inequality(a, b) = ~eq
    BY <2>2, Zenon
  <2>9. less_equal(a, b) = (lt \/ eq)
    <3>1. less_equal(a, b) = (i < m \/ (i = m /\ j <= n))
      BY <2>2, Zenon DEF i, j, m, n
    <3>2. (i < m \/ (i = m /\ j <= n)) <=> (lt \/ eq)
      BY <2>4, <2>5, PairsOrdered, Zenon
    <3>3. (i < m \/ (i = m /\ j <= n)) \in BOOLEAN /\ (lt \/ eq) \in BOOLEAN
      OBVIOUS
    <3> DEFINE p == i < m \/ (i = m /\ j <= n)
               q == lt \/ eq
    <3>4. p = q
      <4>1. p <=> q
        BY <3>2
      <4>2. p \in BOOLEAN /\ q \in BOOLEAN
        BY <3>3
      <4> HIDE DEF p, q
      <4> QED
        BY <4>1, <4>2
    <3> QED
      BY <3>1, <3>4, Zenon
  <2>10. greater_equal(a, b) = (gt \/ eq)
    <3>1. greater_equal(a, b) = (i > m \/ (i = m /\ j >= n))
      BY <2>2, Zenon DEF i, j, m, n
    <3>2. (i > m \/ (i = m /\ j >= n)) <=> (gt \/ eq)
      BY <2>4, <2>5, PairsOrdered, Zenon
    <3>3. (i > m \/ (i = m /\ j >= n)) \in BOOLEAN /\ (gt \/ eq) \in BOOLEAN
      OBVIOUS
    <3> DEFINE p == i > m \/ (i = m /\ j >= n)
               q == gt \/ eq
    <3>4. p = q
      <4>1. p <=> q
        BY <3>2
      <4>2. p \in BOOLEAN /\ q \in BOOLEAN
        BY <3>3
      <4> HIDE DEF p, q
      <4> QED
        BY <4>1, <4>2
    <3> QED
      BY <3>1, <3>4, Zenon
  <2> QED
    BY <2>7, <2>8, <2>9, <2>10 DEF Ordered, lt, eq, gt
<1>2. CASE ~Both(a, b)
  <2>1. /\ lt = (a = NoInstance /\ b # NoInstance) /\ eq = (a = NoInstance /\ b = NoInstance)
        /\ gt = (a # NoInstance /\ b = NoInstance)
        /\ inequality(a, b) = (a # NoInstance \/ b # NoInstance)
        /\ less_equal(a, b) = (a = NoInstance)
        /\ greater_equal(a, b) = (b = NoInstance)
    BY <1>2 DEF less_than, equality, greater_than, inequality, less_equal, greater_equal
  <2> HIDE DEF lt, eq, gt
  <2>2. lt \in BOOLEAN /\ eq \in BOOLEAN /\ gt \in BOOLEAN
    BY <2>1
  <2>3. (lt \/ eq \/ gt) /\ ~(lt /\ eq) /\ ~(lt /\ gt) /\ ~(eq /\ gt)
    BY <1>2, <2>1 DEF Both
  <2>4. Cardinality({n \in {1, 2, 3} : <<lt, eq, gt>>[n]}) = 1
    BY <2>2, <2>3, OneOfThree
  <2>5. inequality(a, b) = ~eq /\ less_equal(a, b) = (lt \/ eq) /\ greater_equal(a, b) = (gt \/ eq)
    BY <1>2, <2>1 DEF Both
  <2> QED
    BY <2>4, <2>5 DEF Ordered, lt, eq, gt
<1> QED
  BY <1>1, <1>2

\* nullopt and a value compare like the optionals that have as much.
LEMMA AllComparable ==
    ASSUME NEW a, IsHeld(a), NEW v \in Int
    PROVE  Comparable(a, v)
<1> USE DEF equality, inequality, less_than, less_equal, greater_than, greater_equal, Both
<1>0. <<0, v>> # NoInstance /\ <<0, v>>[1] = 0 /\ <<0, v>>[2] = v
  BY DEF NoInstance
<1>1. with_null(a) = compare(a, NoInstance)
  BY DEF with_null, compare
<1>2. of_null(a) = compare(NoInstance, a)
  BY DEF of_null, compare
<1>3. with_value(a, v) = compare(a, <<0, v>>)
  <2>1. CASE a # NoInstance
    BY <2>1 DEF with_value
  <2>2. CASE a = NoInstance
    BY <2>2, <1>0 DEF with_value, compare
  <2> QED
    BY <2>1, <2>2
<1> DEFINE b == of_value(v, a)
           c == compare(<<0, v>>, a)
<1>4. b.eq = c.eq /\ b.lt = c.lt /\ b.le = c.le /\ b.gt = c.gt
  <2>1. CASE a # NoInstance
    <3>1. b = [eq |-> c.eq, ne |-> c.eq, lt |-> c.lt, le |-> c.le, gt |-> c.gt]
      BY <2>1 DEF of_value
    <3> HIDE DEF b, c
    <3> QED
      BY <3>1
  <2>2. CASE a = NoInstance
    BY <2>2, <1>0 DEF of_value, compare
  <2> QED
    BY <2>1, <2>2
<1> QED
  BY <1>1, <1>2, <1>3, <1>4 DEF Comparable

-----------------------------------------------------------------------------
(* The invariant, and the calls.                                           *)

\* What is seen of a holder from outside.
Seen(r) == IF r.index = Absent THEN <<Absent>> ELSE IF r.index = npos THEN NoInstance ELSE <<r.index, r.val>>
SeenAll(v) == [x \in HolderNames |-> Seen(v[x])]

\* As long as no call was made whose outcome the code does not define, there
\* is what every holder has, and that is what it should have.
HoldersInv == abused = "none" => \E v : Ready(holder, holder.kind, v) /\ want = SeenAll(v)

\* What was seen decides what is believed to be there.
LEMMA SeenIs ==
    ASSUME NEW s, NEW k, NEW v, Full(s, k, v), NEW x \in HolderSlots
    PROVE  Held(s, x) = Seen(v[x]) /\ Here(s, x) = (v[x].index # Absent) /\ IsHeld(Seen(v[x])) = (v[x].index # Absent)
<1>1. /\ Index(s, x) = v[x].index /\ v[x].index \in {Absent, npos, 0, 1}
      /\ v[x].index >= 0 => v[x].index \in {0, 1} /\ Instance(s, x).val = v[x].val /\ v[x].val \in Int
  BY FullHas
<1>2. Held(s, x) = Seen(v[x])
  BY <1>1 DEF Held, Seen, Absent, npos
<1>3. Here(s, x) = (v[x].index # Absent)
  BY <1>1 DEF Here, Index
<1>4. IsHeld(Seen(v[x])) = (v[x].index # Absent)
  <2>1. CASE v[x].index = Absent
    BY <2>1 DEF Seen, IsHeld, NoInstance
  <2>2. CASE v[x].index = npos
    BY <2>2 DEF Seen, IsHeld, Absent, npos
  <2>3. CASE v[x].index \in {0, 1}
    BY <2>3, <1>1 DEF Seen, IsHeld, Absent, npos
  <2> QED
    BY <2>1, <2>2, <2>3, <1>1
<1> QED
  BY <1>2, <1>3, <1>4

\* Where the holders change, what is seen of them changes with it.
LEMMA SeenChange ==
    ASSUME NEW v, want = SeenAll(v), NEW x \in HolderNames, NEW p, NEW u, p = Seen(u[x]), \A z \in HolderNames \ {x} : u[z] = v[z]
    PROVE  [want EXCEPT ![x] = p] = SeenAll(u)
  BY DEF SeenAll

\* The same for two holders at once.
LEMMA SeenChanges ==
    ASSUME NEW v, want = SeenAll(v), NEW x \in HolderNames, NEW y \in HolderNames, NEW p, NEW q, NEW u,
           x # y => p = Seen(u[x]), q = Seen(u[y]), \A z \in HolderNames \ {x, y} : u[z] = v[z]
    PROVE  [want EXCEPT ![x] = p, ![y] = q] = SeenAll(u)
  BY DEF SeenAll

\* What a call wants of the holders is what the change of v says.
LEMMA WantsAre ==
    ASSUME NEW v \in [HolderSlots -> HeldValue], want = SeenAll(v), NEW x \in HolderNames, NEW y \in HolderNames
    PROVE  /\ [want EXCEPT ![x] = want[y]] = SeenAll(Copied(v, x, y))
           /\ [want EXCEPT ![x] = want[y], ![y] = want[x]] = SeenAll(Swapped(v, x, y))
           /\ [want EXCEPT ![x] = NoInstance] = SeenAll(Cleared(v, x))
           /\ \A alt \in {0, 1}, val \in Int : [want EXCEPT ![x] = <<alt, val>>] = SeenAll(Given(v, x, alt, val))
<1>1. x \in HolderSlots /\ y \in HolderSlots /\ HolderNames \subseteq HolderSlots
  BY Slots3
<1>2. want[x] = Seen(v[x]) /\ want[y] = Seen(v[y])
  BY DEF SeenAll
<1>3. [want EXCEPT ![x] = want[y]] = SeenAll(Copied(v, x, y))
  <2> DEFINE u == Copied(v, x, y)
             p == want[y]
  <2>1. u[x] = v[y] /\ \A z \in HolderSlots \ {x} : u[z] = v[z]
    BY <1>1, Changes
  <2>2. p = Seen(u[x])
    BY <1>2, <2>1
  <2> HIDE DEF u, p
  <2> QED
    BY <2>1, <2>2, <1>1, SeenChange DEF u, p
<1>4. [want EXCEPT ![x] = want[y], ![y] = want[x]] = SeenAll(Swapped(v, x, y))
  <2> DEFINE u == Swapped(v, x, y)
             p == want[y]
             q == want[x]
  <2>1. u[x] = v[y] /\ u[y] = v[x] /\ \A z \in HolderSlots \ {x, y} : u[z] = v[z]
    BY <1>1, Changes
  <2>2. p = Seen(u[x]) /\ q = Seen(u[y])
    BY <1>2, <2>1
  <2> HIDE DEF u, p, q
  <2>3. \A z \in HolderNames \ {x, y} : u[z] = v[z]
    BY <2>1, <1>1
  <2>4. [want EXCEPT ![x] = p, ![y] = q] = SeenAll(u)
    BY <2>2, <2>3, SeenChanges
  <2> QED
    BY <2>4 DEF u, p, q
<1>5. [want EXCEPT ![x] = NoInstance] = SeenAll(Cleared(v, x))
  <2> DEFINE u == Cleared(v, x)
  <2>1. u[x].index = npos /\ \A z \in HolderSlots \ {x} : u[z] = v[z]
    BY <1>1, Changes
  <2> HIDE DEF u
  <2>2. NoInstance = Seen(u[x])
    BY <2>1 DEF Seen, Absent, npos
  <2>3. [want EXCEPT ![x] = NoInstance] = SeenAll(u)
    BY <2>1, <2>2, <1>1, SeenChange
  <2> QED
    BY <2>3 DEF u
<1>6. ASSUME NEW alt \in {0, 1}, NEW val \in Int PROVE [want EXCEPT ![x] = <<alt, val>>] = SeenAll(Given(v, x, alt, val))
  <2> DEFINE r == [index |-> alt, val |-> val]
             u == Given(v, x, alt, val)
             p == <<alt, val>>
  <2>1. r \in HeldValue
    BY DEF HeldValue, HolderIndex
  <2>2. u[x] = r /\ \A z \in HolderSlots \ {x} : u[z] = v[z]
    BY <2>1, <1>1 DEF Given
  <2>3. p = Seen(r)
    BY DEF Seen, Absent, npos
  <2> HIDE DEF r, u, p
  <2>4. [want EXCEPT ![x] = p] = SeenAll(u)
    BY <2>2, <2>3, <1>1, SeenChange
  <2> QED
    BY <2>4 DEF u, p
<1> QED
  BY <1>3, <1>4, <1>5, <1>6

\* What a move wants: the other is left without its value, or without anything.
LEMMA WantsMoved ==
    ASSUME NEW v \in [HolderSlots -> HeldValue], want = SeenAll(v), NEW x \in HolderNames, NEW y \in HolderNames,
           x # y, v[y].index # Absent
    PROVE  /\ [want EXCEPT ![x] = want[y], ![y] = Spend(want[y])] = SeenAll(MovedTo(v, x, y))
           /\ [want EXCEPT ![x] = want[y], ![y] = NoInstance] = SeenAll(Handed(v, x, y))
<1>1. x \in HolderSlots /\ y \in HolderSlots /\ HolderNames \subseteq HolderSlots
  BY Slots3
<1> DEFINE p == want[y]
<1>2. p = Seen(v[y])
  BY DEF SeenAll
<1>3. \A r : r.index = npos => Seen(r) = NoInstance
  BY DEF Seen, Absent, npos
<1>4. [want EXCEPT ![x] = want[y], ![y] = Spend(want[y])] = SeenAll(MovedTo(v, x, y))
  <2> DEFINE u == MovedTo(v, x, y)
             q == Spend(p)
  <2>1. u[x] = v[y] /\ u[y].index = v[y].index /\ u[y].val = Spent /\ \A z \in HolderSlots \ {x, y} : u[z] = v[z]
    BY <1>1, Changes
  <2> HIDE DEF u, p
  <2>2. q = Seen(u[y])
    <3>1. CASE v[y].index = npos
      BY <3>1, <2>1, <1>2, <1>3 DEF Spend, NoInstance
    <3>2. CASE v[y].index # npos
      <4>1. p = <<v[y].index, v[y].val>> /\ Seen(u[y]) = <<v[y].index, Spent>>
        BY <3>2, <2>1, <1>2 DEF Seen
      <4> QED
        BY <4>1 DEF Spend
    <3> QED
      BY <3>1, <3>2
  <2> HIDE DEF q
  <2>3. [want EXCEPT ![x] = p, ![y] = q] = SeenAll(u)
    BY <2>1, <2>2, <1>1, <1>2, SeenChanges
  <2> QED
    BY <2>3 DEF u, p, q
<1>5. [want EXCEPT ![x] = want[y], ![y] = NoInstance] = SeenAll(Handed(v, x, y))
  <2> DEFINE u == Handed(v, x, y)
             q == NoInstance
  <2>1. u[x] = v[y] /\ u[y].index = npos /\ \A z \in HolderSlots \ {x, y} : u[z] = v[z]
    BY <1>1, HandedIs
  <2>2. q = Seen(u[y])
    BY <2>1, <1>3
  <2> HIDE DEF u, p, q
  <2>3. [want EXCEPT ![x] = p, ![y] = q] = SeenAll(u)
    BY <2>1, <2>2, <1>1, <1>2, SeenChanges
  <2> QED
    BY <2>3 DEF u, p, q
<1> QED
  BY <1>4, <1>5

\* What the destructor wants.
LEMMA WantsGone ==
    ASSUME NEW v \in [HolderSlots -> HeldValue], want = SeenAll(v), NEW x \in HolderNames
    PROVE  [want EXCEPT ![x] = <<Absent>>] = SeenAll([v EXCEPT ![x] = Gone])
<1> DEFINE u == [v EXCEPT ![x] = Gone]
           p == <<Absent>>
<1>1. x \in HolderSlots /\ HolderNames \subseteq HolderSlots
  BY Slots3
<1>2. u[x].index = Absent /\ \A z \in HolderSlots \ {x} : u[z] = v[z]
  BY <1>1, Changes
<1>3. p = Seen(u[x])
  BY <1>2 DEF Seen
<1> HIDE DEF u, p
<1>4. [want EXCEPT ![x] = p] = SeenAll(u)
  BY <1>1, <1>2, <1>3, SeenChange
<1> QED
  BY <1>4 DEF u, p

\* A call keeps the invariant when it leaves what it wants.
LEMMA DoesKeeps ==
    ASSUME HoldersInv, NEW t, NEW w, NEW throw \in 0 .. 3, NEW why, Does(t, w, throw, why),
           NEW u, why = "none" => Leaves(t, holder.kind, u, throw), throw = 0 => w = SeenAll(u)
    PROVE  HoldersInv'
<1>1. /\ holder' = t /\ abused' = why
      /\ want' = [x \in HolderNames |-> IF throw > 0 THEN Held(t, x) ELSE w[x]]
  BY DEF Does
<1>2. CASE why = "none"
  <2>1. PICK v : Ready(t, holder.kind, v) /\ (throw = 0 => \A z \in HolderNames : SameValue(v[z], u[z]))
    BY <1>2 DEF Leaves
  <2>2. Full(t, holder.kind, v)
    BY <2>1 DEF Ready
  <2>3. t.kind = holder.kind
    BY <2>2 DEF Full, Shows, HolderStates
  <2>4. want' = SeenAll(v)
    <3>1. CASE throw = 0
      <4>1. \A z \in HolderNames : Seen(u[z]) = Seen(v[z])
        <5> SUFFICES ASSUME NEW z \in HolderNames PROVE Seen(u[z]) = Seen(v[z])
          OBVIOUS
        <5>1. SameValue(v[z], u[z]) /\ v[z].index \in {Absent, npos, 0, 1}
          BY <2>1, <2>2, <3>1, FullHas, Slots3
        <5> QED
          BY <5>1 DEF SameValue, Seen, Absent, npos
      <4>2. \A z \in HolderNames : w[z] = Seen(u[z])
        BY <3>1 DEF SeenAll
      <4> QED
        BY <4>1, <4>2, <3>1, <1>1 DEF SeenAll
    <3>2. CASE throw > 0
      <4>1. \A z \in HolderNames : Held(t, z) = Seen(v[z])
        BY <2>2, SeenIs, Slots3
      <4> QED
        BY <4>1, <3>2, <1>1 DEF SeenAll
    <3> QED
      BY <3>1, <3>2
  <2>5. Ready(holder', holder'.kind, v) /\ want' = SeenAll(v)
    BY <2>1, <2>3, <2>4, <1>1
  <2> QED
    BY <2>5 DEF HoldersInv
<1>3. CASE why # "none"
  BY <1>1, <1>3 DEF HoldersInv
<1> QED
  BY <1>2, <1>3

\* Before the first call there is no holder and no object.
LEMMA HoldersStart == HoldersInit => HoldersInv
<1> SUFFICES ASSUME HoldersInit PROVE HoldersInv
  OBVIOUS
<1>1. PICK k \in HolderKinds : holder = [kind |-> k, h |-> [x \in HolderSlots |-> NoHolder], objects |-> <<>>, broken |-> FALSE]
  BY DEF HoldersInit, HolderSlots
<1> DEFINE v == [x \in HolderSlots |-> Gone]
<1>2. NoHolder \in HolderCell /\ NoHolder.index = Absent /\ Gone \in HeldValue /\ Gone.index = Absent
  BY DEF NoHolder, HolderCell, HolderIndex, Bare, Gone, HeldValue, Spent
<1>3. holder \in HolderStates(k) /\ ~holder.broken /\ holder.objects = <<>> /\ holder.kind = k
  BY <1>1, <1>2 DEF HolderStates
<1>4. \A x \in HolderSlots : Index(holder, x) = Absent /\ v[x].index = Absent
  BY <1>1, <1>2 DEF Index
<1>5. Owners(holder, HolderSlots) = {}
  BY <1>4 DEF Owners, Absent
<1>6. OwnedOnce(holder, HolderSlots)
  BY <1>3, <1>5 DEF OwnedOnce
<1>7. v \in [HolderSlots -> HeldValue]
  BY <1>2
<1>8. Ready(holder, k, v)
  <2>1. Full(holder, k, v)
    BY <1>3, <1>4, <1>6, <1>7 DEF Full, Shows, Absent
  <2> QED
    BY <2>1, <1>4, Slots3 DEF Ready
<1>9. want = SeenAll(v)
  BY <1>4, Slots3 DEF HoldersInit, SeenAll, Seen
<1> QED
  BY <1>3, <1>8, <1>9 DEF HoldersInv

\* What a call begins with.
LEMMA CallBegins ==
    ASSUME HoldersInv, abused = "none"
    PROVE  \E v : /\ Ready(holder, holder.kind, v) /\ Full(holder, holder.kind, v) /\ v["tmp"].index = Absent
                  /\ v \in [HolderSlots -> HeldValue] /\ want = SeenAll(v)
                  /\ \A x \in HolderNames : x \in HolderSlots /\ x # "tmp" /\ Here(holder, x) = (v[x].index # Absent) /\ Index(holder, x) = v[x].index
<1>1. PICK v : Ready(holder, holder.kind, v) /\ want = SeenAll(v)
  BY DEF HoldersInv
<1>2. Full(holder, holder.kind, v) /\ v["tmp"].index = Absent
  BY <1>1 DEF Ready
<1>3. v \in [HolderSlots -> HeldValue]
  BY <1>2, FullHas
<1>4. \A x \in HolderNames : x \in HolderSlots /\ x # "tmp" /\ Here(holder, x) = (v[x].index # Absent) /\ Index(holder, x) = v[x].index
  BY <1>2, FullHas, SeenIs, Slots3
<1> QED
  BY <1>1, <1>2, <1>3, <1>4

\* Default: nothing, or the first alternative of a variant.
LEMMA HolderDefaultKeeps ==
    ASSUME HoldersInv, NEW x \in HolderNames, Default(x)
    PROVE  HoldersInv'
<1> DEFINE k == holder.kind
           t == SetIndex(holder, x, npos)
<1>1. abused = "none" /\ ~Here(holder, x)
  BY DEF Default, Does
<1>2. PICK v : /\ Ready(holder, k, v) /\ Full(holder, k, v) /\ v["tmp"].index = Absent
               /\ v \in [HolderSlots -> HeldValue] /\ want = SeenAll(v) /\ v[x].index = Absent /\ x \in HolderSlots /\ x # "tmp"
  BY <1>1, CallBegins
<1>3. Full(t, k, Cleared(v, x))
  <2>1. v[x].index < 0
    BY <1>2 DEF Absent
  <2> QED
    BY <1>2, <2>1, FullSteps
<1>4. Cleared(v, x)["tmp"].index = Absent /\ Cleared(v, x)[x].index = npos
  BY <1>2, Changes, Slots3
<1>5. Ready(t, k, Cleared(v, x))
  BY <1>3, <1>4 DEF Ready
<1>6. Wants(x, NoInstance) = SeenAll(Cleared(v, x)) /\ Wants(x, <<0, 1>>) = SeenAll(Given(v, x, 0, 1))
  BY <1>2, WantsAre DEF Wants
<1>7. CASE k = "variant"
  <2>1. Does(emplace(t, x, 0, 1, 0), Wants(x, <<0, 1>>), 0, "none")
    BY <1>7 DEF Default, IsKind
  <2>2. Given(Cleared(v, x), x, 0, 1) = Given(v, x, 0, 1)
    BY DEF Given, Cleared
  <2> HIDE DEF t
  <2>3. Cleared(v, x)[x].index # Absent /\ 1 \in Int
    BY <1>4 DEF Absent, npos
  <2>4. Leaves(emplace(t, x, 0, 1, 0), k, Given(Cleared(v, x), x, 0, 1), 0)
    BY <1>5, <1>7, <2>3, Emplaces
  <2> QED
    BY <2>1, <2>2, <2>4, <1>6, DoesKeeps
<1>8. CASE k # "variant"
  <2>1. Does(t, Wants(x, NoInstance), 0, "none")
    BY <1>8 DEF Default, IsKind
  <2> HIDE DEF t
  <2>2. Leaves(t, k, Cleared(v, x), 0)
    BY <1>3, <1>4, ChangedLeaves
  <2> QED
    BY <2>1, <2>2, <1>6, DoesKeeps
<1> QED
  BY <1>7, <1>8

\* Destroy and Reset: what was there is destructed.
LEMMA HolderDestroyKeeps ==
    ASSUME HoldersInv, NEW x \in HolderNames, Destroy(x) \/ Reset(x)
    PROVE  HoldersInv'
<1> DEFINE k == holder.kind
<1>1. abused = "none" /\ Here(holder, x)
  BY DEF Destroy, Reset, Does
<1>2. PICK v : /\ Ready(holder, k, v) /\ Full(holder, k, v) /\ v["tmp"].index = Absent
               /\ v \in [HolderSlots -> HeldValue] /\ want = SeenAll(v) /\ v[x].index # Absent /\ x \in HolderSlots /\ x # "tmp"
  BY <1>1, CallBegins
<1>3. Wants(x, NoInstance) = SeenAll(Cleared(v, x)) /\ Wants(x, <<Absent>>) = SeenAll([v EXCEPT ![x] = Gone])
  <2>1. Wants(x, NoInstance) = SeenAll(Cleared(v, x))
    BY <1>2, WantsAre DEF Wants
  <2>2. Wants(x, <<Absent>>) = SeenAll([v EXCEPT ![x] = Gone])
    BY <1>2, WantsGone DEF Wants
  <2> QED
    BY <2>1, <2>2
<1>4. CASE Destroy(x)
  <2>1. Does(Dispose(holder, x), Wants(x, <<Absent>>), 0, "none")
    BY <1>4 DEF Destroy
  <2>2. Full(Dispose(holder, x), k, [v EXCEPT ![x] = Gone])
    BY <1>2, FullSteps
  <2>3. [v EXCEPT ![x] = Gone]["tmp"].index = Absent
    BY <1>2, Changes, Slots3
  <2>4. Leaves(Dispose(holder, x), k, [v EXCEPT ![x] = Gone], 0)
    BY <2>2, <2>3, ChangedLeaves
  <2> QED
    BY <2>1, <2>4, <1>3, DoesKeeps
<1>5. CASE Reset(x)
  <2>1. Does(ClearHolder(holder, x), Wants(x, NoInstance), 0, "none")
    BY <1>5 DEF Reset
  <2>2. Cleared(v, x)[x].index = npos /\ \A z \in HolderSlots \ {x} : Cleared(v, x)[z] = v[z]
    BY <1>2, Changes
  <2>3. Leaves(ClearHolder(holder, x), k, Cleared(v, x), 0)
    BY <1>2, <2>2, ClearLeaves
  <2> QED
    BY <2>1, <2>3, <1>3, DoesKeeps
<1> QED
  BY <1>4, <1>5

\* The constructors from another holder.
LEMMA HolderCopyConstructKeeps ==
    ASSUME HoldersInv, NEW x \in HolderNames, NEW y \in HolderNames, CopyConstruct(x, y)
    PROVE  HoldersInv'
<1> DEFINE k == holder.kind
<1>1. abused = "none" /\ ~Here(holder, x) /\ Here(holder, y)
  BY DEF CopyConstruct, Does
<1>2. PICK v : /\ Ready(holder, k, v) /\ v \in [HolderSlots -> HeldValue] /\ want = SeenAll(v)
               /\ v[x].index = Absent /\ v[y].index # Absent /\ Index(holder, y) = v[y].index
  BY <1>1, CallBegins
<1>3. Wants(x, want[y]) = SeenAll(Copied(v, x, y))
  BY <1>2, WantsAre DEF Wants
<1>4. PICK throw \in {0, 1} :
        \/ IsKind("variant") /\ Does(variant_copy(holder, x, y, throw), Wants(x, want[y]), throw, "none")
        \/ /\ IsKind("optional")
           /\ Does(optional_copy(holder, x, y, throw), Wants(x, want[y]), throw,
                   IF throw > 0 /\ Index(holder, y) # npos THEN "throws" ELSE "none")
  BY DEF CopyConstruct
<1>5. CASE Does(variant_copy(holder, x, y, throw), Wants(x, want[y]), throw, "none")
  <2>1. Leaves(variant_copy(holder, x, y, throw), k, Copied(v, x, y), throw)
    BY <1>2, VariantConstructs
  <2> QED
    BY <2>1, <1>3, <1>5, DoesKeeps
<1>6. CASE /\ IsKind("optional")
           /\ Does(optional_copy(holder, x, y, throw), Wants(x, want[y]), throw,
                   IF throw > 0 /\ Index(holder, y) # npos THEN "throws" ELSE "none")
  <2> DEFINE why == IF throw > 0 /\ Index(holder, y) # npos THEN "throws" ELSE "none"
  <2>1. why = "none" => throw = 0 \/ v[y].index = npos
    BY <1>2
  <2>2. why = "none" => Leaves(optional_copy(holder, x, y, throw), k, Copied(v, x, y), throw)
    BY <2>1, <1>2, <1>6, OptionalConstructs DEF IsKind
  <2>3. Does(optional_copy(holder, x, y, throw), Wants(x, want[y]), throw, why)
    BY <1>6
  <2> HIDE DEF why
  <2> QED
    BY <2>2, <2>3, <1>3, DoesKeeps
<1> QED
  BY <1>4, <1>5, <1>6

\* The constructors that move from another holder.
LEMMA HolderMoveConstructKeeps ==
    ASSUME HoldersInv, NEW x \in HolderNames, NEW y \in HolderNames, MoveConstruct(x, y)
    PROVE  HoldersInv'
<1> DEFINE k == holder.kind
           w == [Wants(x, want[y]) EXCEPT ![y] = Spend(want[y])]
           gone == [Wants(x, want[y]) EXCEPT ![y] = NoInstance]
<1>1. abused = "none" /\ ~Here(holder, x) /\ Here(holder, y)
  BY DEF MoveConstruct, Does
<1>2. PICK v : /\ Ready(holder, k, v) /\ v \in [HolderSlots -> HeldValue] /\ want = SeenAll(v)
               /\ v[x].index = Absent /\ v[y].index # Absent /\ Index(holder, y) = v[y].index
  BY <1>1, CallBegins
<1>3. w = SeenAll(MovedTo(v, x, y)) /\ gone = SeenAll(Handed(v, x, y))
  <2>1. x # y
    BY <1>2
  <2> QED
    BY <1>2, <2>1, WantsMoved DEF Wants
<1>4. PICK throw \in {0, 1} :
        \/ IsKind("variant") /\ Does(variant_move(holder, x, y, throw), w, throw, "none")
        \/ /\ IsKind("optional")
           /\ Does(optional_move(holder, x, y, throw), w, throw,
                   IF throw > 0 /\ Index(holder, y) # npos THEN "throws" ELSE "none")
        \/ IsKind("any") /\ Does(any_move(SetIndex(holder, x, npos), x, y), gone, 0, "none")
  BY DEF MoveConstruct
<1> HIDE DEF w, gone
<1>5. CASE IsKind("variant") /\ Does(variant_move(holder, x, y, throw), w, throw, "none")
  <2>1. Leaves(variant_move(holder, x, y, throw), k, MovedTo(v, x, y), throw)
    BY <1>2, VariantConstructs
  <2> QED
    BY <2>1, <1>3, <1>5, DoesKeeps
<1>6. CASE /\ IsKind("optional")
           /\ Does(optional_move(holder, x, y, throw), w, throw,
                   IF throw > 0 /\ Index(holder, y) # npos THEN "throws" ELSE "none")
  <2> DEFINE why == IF throw > 0 /\ Index(holder, y) # npos THEN "throws" ELSE "none"
  <2>1. why = "none" => throw = 0 \/ v[y].index = npos
    BY <1>2
  <2>2. why = "none" => Leaves(optional_move(holder, x, y, throw), k, MovedTo(v, x, y), throw)
    BY <2>1, <1>2, <1>6, OptionalConstructs DEF IsKind
  <2>3. Does(optional_move(holder, x, y, throw), w, throw, why)
    BY <1>6
  <2> HIDE DEF why
  <2> QED
    BY <2>2, <2>3, <1>3, DoesKeeps
<1>7. CASE IsKind("any") /\ Does(any_move(SetIndex(holder, x, npos), x, y), gone, 0, "none")
  <2>1. Leaves(any_move(SetIndex(holder, x, npos), x, y), k, Handed(v, x, y), 0)
    BY <1>2, AnyTakes
  <2> QED
    BY <2>1, <1>3, <1>7, DoesKeeps
<1> QED
  BY <1>4, <1>5, <1>6, <1>7

\* The assignments of one holder to another.
LEMMA HolderCopyAssignKeeps ==
    ASSUME HoldersInv, NEW x \in HolderNames, NEW y \in HolderNames, CopyAssignHolder(x, y)
    PROVE  HoldersInv'
<1> DEFINE k == holder.kind
<1>1. abused = "none" /\ Here(holder, x) /\ Here(holder, y)
  BY DEF CopyAssignHolder, Does
<1>2. PICK v : /\ Ready(holder, k, v) /\ v \in [HolderSlots -> HeldValue] /\ want = SeenAll(v)
               /\ v[x].index # Absent /\ v[y].index # Absent
  BY <1>1, CallBegins
<1>3. Wants(x, want[y]) = SeenAll(Copied(v, x, y))
  BY <1>2, WantsAre DEF Wants
<1>4. PICK throw \in 0 .. 2 :
        \/ IsKind("variant") /\ Does(variant_copy_assign(holder, x, y, throw), Wants(x, want[y]), throw, "none")
        \/ IsKind("optional") /\ Does(optional_copy_assign(holder, x, y, throw), Wants(x, want[y]), throw, "none")
  BY DEF CopyAssignHolder
<1>5. CASE IsKind("variant") /\ Does(variant_copy_assign(holder, x, y, throw), Wants(x, want[y]), throw, "none")
  <2>1. Leaves(variant_copy_assign(holder, x, y, throw), k, Copied(v, x, y), throw)
    BY <1>2, VariantCopyAssigns
  <2> QED
    BY <2>1, <1>3, <1>5, DoesKeeps
<1>6. CASE IsKind("optional") /\ Does(optional_copy_assign(holder, x, y, throw), Wants(x, want[y]), throw, "none")
  <2>1. Leaves(optional_copy_assign(holder, x, y, throw), k, Copied(v, x, y), throw)
    BY <1>2, <1>6, OptionalAssigns DEF IsKind
  <2> QED
    BY <2>1, <1>3, <1>6, DoesKeeps
<1> QED
  BY <1>4, <1>5, <1>6

\* The assignments that move from another holder.
LEMMA HolderMoveAssignKeeps ==
    ASSUME HoldersInv, NEW x \in HolderNames, NEW y \in HolderNames, MoveAssignHolder(x, y)
    PROVE  HoldersInv'
<1> DEFINE k == holder.kind
           w == [Wants(x, want[y]) EXCEPT ![y] = Spend(want[y])]
           gone == [Wants(x, want[y]) EXCEPT ![y] = NoInstance]
<1>1. abused = "none" /\ Here(holder, x) /\ Here(holder, y) /\ x # y
  BY DEF MoveAssignHolder, Does
<1>2. PICK v : /\ Ready(holder, k, v) /\ v \in [HolderSlots -> HeldValue] /\ want = SeenAll(v)
               /\ v[x].index # Absent /\ v[y].index # Absent
  BY <1>1, CallBegins
<1>3. w = SeenAll(MovedTo(v, x, y)) /\ gone = SeenAll(Handed(v, x, y))
  BY <1>1, <1>2, WantsMoved DEF Wants
<1>4. PICK throw \in {0, 1} :
        \/ IsKind("variant") /\ Does(variant_move_assign(holder, x, y, throw), w, throw, "none")
        \/ IsKind("optional") /\ Does(optional_move_assign(holder, x, y, throw), w, throw, "none")
        \/ IsKind("any") /\ Does(any_move_assign(holder, x, y), gone, 0, "none")
  BY DEF MoveAssignHolder
<1> HIDE DEF w, gone
<1>5. CASE IsKind("variant") /\ Does(variant_move_assign(holder, x, y, throw), w, throw, "none")
  <2>1. Leaves(variant_move_assign(holder, x, y, throw), k, MovedTo(v, x, y), throw)
    BY <1>1, <1>2, VariantMoveAssigns
  <2> QED
    BY <2>1, <1>3, <1>5, DoesKeeps
<1>6. CASE IsKind("optional") /\ Does(optional_move_assign(holder, x, y, throw), w, throw, "none")
  <2>1. Leaves(optional_move_assign(holder, x, y, throw), k, MovedTo(v, x, y), throw)
    BY <1>1, <1>2, <1>6, OptionalAssigns DEF IsKind
  <2> QED
    BY <2>1, <1>3, <1>6, DoesKeeps
<1>7. CASE IsKind("any") /\ Does(any_move_assign(holder, x, y), gone, 0, "none")
  <2>1. Leaves(any_move_assign(holder, x, y), k, Handed(v, x, y), 0)
    BY <1>1, <1>2, AnyTakes
  <2> QED
    BY <2>1, <1>3, <1>7, DoesKeeps
<1> QED
  BY <1>4, <1>5, <1>6, <1>7

\* The assignment of a value, and emplace.
LEMMA HolderAssignKeeps ==
    ASSUME HoldersInv, NEW x \in HolderNames, NEW alt \in Alternatives(holder.kind), NEW val \in 1 .. 2, Assign(x, alt, val)
    PROVE  HoldersInv'
<1> DEFINE k == holder.kind
           w == Wants(x, <<alt, val>>)
<1>1. abused = "none" /\ Here(holder, x)
  BY DEF Assign, Does
<1>2. PICK v : Ready(holder, k, v) /\ v \in [HolderSlots -> HeldValue] /\ want = SeenAll(v) /\ v[x].index # Absent
  BY <1>1, CallBegins
<1>3. alt \in {0, 1} /\ (k = "optional" => alt = 0) /\ val \in Int
  BY DEF Alternatives
<1>4. w = SeenAll(Given(v, x, alt, val))
  BY <1>2, <1>3, WantsAre DEF Wants
<1>5. PICK throw \in {0, 1} :
        \/ IsKind("variant") /\ Does(assign(holder, x, alt, val, throw), w, throw, "none")
        \/ IsKind("optional") /\ Does(optional_assign(holder, x, val, throw), w, throw, "none")
        \/ IsKind("any") /\ Does(any_assign(holder, x, alt, val, throw), w, throw, "none")
  BY DEF Assign
<1> HIDE DEF w
<1>6. CASE IsKind("variant") /\ Does(assign(holder, x, alt, val, throw), w, throw, "none")
  <2>1. Leaves(assign(holder, x, alt, val, throw), k, Given(v, x, alt, val), throw)
    BY <1>2, <1>3, Emplaces
  <2> QED
    BY <2>1, <1>4, <1>6, DoesKeeps
<1>7. CASE IsKind("optional") /\ Does(optional_assign(holder, x, val, throw), w, throw, "none")
  <2>1. Leaves(optional_assign(holder, x, val, throw), k, Given(v, x, 0, val), throw) /\ alt = 0
    BY <1>2, <1>3, <1>7, OptionalGives DEF IsKind
  <2> QED
    BY <2>1, <1>4, <1>7, DoesKeeps
<1>8. CASE IsKind("any") /\ Does(any_assign(holder, x, alt, val, throw), w, throw, "none")
  <2>1. Leaves(any_assign(holder, x, alt, val, throw), k, Given(v, x, alt, val), throw)
    BY <1>2, <1>3, AnyAssigns
  <2> QED
    BY <2>1, <1>4, <1>8, DoesKeeps
<1> QED
  BY <1>5, <1>6, <1>7, <1>8

\* emplace, of which one in an optional with a value is left out.
LEMMA HolderEmplaceKeeps ==
    ASSUME HoldersInv, NEW x \in HolderNames, NEW alt \in Alternatives(holder.kind), NEW val \in 1 .. 2, Emplace(x, alt, val)
    PROVE  HoldersInv'
<1> DEFINE k == holder.kind
           w == Wants(x, <<alt, val>>)
           why == IF Index(holder, x) # npos THEN "emplace" ELSE "none"
<1>1. abused = "none" /\ Here(holder, x)
  BY DEF Emplace, Does
<1>2. PICK v : /\ Ready(holder, k, v) /\ v \in [HolderSlots -> HeldValue] /\ want = SeenAll(v)
               /\ v[x].index # Absent /\ Index(holder, x) = v[x].index
  BY <1>1, CallBegins
<1>3. alt \in {0, 1} /\ (k = "optional" => alt = 0) /\ val \in Int
  BY DEF Alternatives
<1>4. w = SeenAll(Given(v, x, alt, val))
  BY <1>2, <1>3, WantsAre DEF Wants
<1>5. PICK throw \in {0, 1} :
        \/ k # "optional" /\ Does(emplace(holder, x, alt, val, throw), w, throw, "none")
        \/ IsKind("optional") /\ Does(optional_emplace(holder, x, val, throw), w, throw, why)
  BY DEF Emplace
<1>6. why = "none" => v[x].index = npos
  BY <1>2
<1> HIDE DEF w, why
<1>7. CASE k # "optional" /\ Does(emplace(holder, x, alt, val, throw), w, throw, "none")
  <2>1. Leaves(emplace(holder, x, alt, val, throw), k, Given(v, x, alt, val), throw)
    BY <1>2, <1>3, Emplaces
  <2> QED
    BY <2>1, <1>4, <1>7, DoesKeeps
<1>8. CASE IsKind("optional") /\ Does(optional_emplace(holder, x, val, throw), w, throw, why)
  <2>1. why = "none" => Leaves(optional_emplace(holder, x, val, throw), k, Given(v, x, alt, val), throw)
    BY <1>2, <1>3, <1>6, <1>8, OptionalGives DEF IsKind
  <2> QED
    BY <2>1, <1>4, <1>8, DoesKeeps
<1> QED
  BY <1>5, <1>7, <1>8

\* swap.
LEMMA HolderSwapKeeps ==
    ASSUME HoldersInv, NEW x \in HolderNames, NEW y \in HolderNames, Swap(x, y)
    PROVE  HoldersInv'
<1> DEFINE k == holder.kind
           w == [want EXCEPT ![x] = want[y], ![y] = want[x]]
<1>1. abused = "none" /\ Here(holder, x) /\ Here(holder, y)
  BY DEF Swap, Does
<1>2. PICK v : /\ Ready(holder, k, v) /\ v \in [HolderSlots -> HeldValue] /\ want = SeenAll(v)
               /\ v[x].index # Absent /\ v[y].index # Absent
  BY <1>1, CallBegins
<1>3. w = SeenAll(Swapped(v, x, y))
  BY <1>2, WantsAre
<1>4. PICK throw \in 0 .. 3 :
        \/ IsKind("variant") /\ Does(variant_swap(holder, x, y, throw), w, throw, "none")
        \/ IsKind("optional") /\ Does(optional_swap(holder, x, y, throw), w, throw, "none")
        \/ IsKind("any") /\ Does(any_swap(holder, x, y), w, 0, "none")
  BY DEF Swap, Throws
<1> HIDE DEF w
<1>5. CASE IsKind("variant") /\ Does(variant_swap(holder, x, y, throw), w, throw, "none")
  <2>1. Leaves(variant_swap(holder, x, y, throw), k, Swapped(v, x, y), throw)
    BY <1>2, VariantSwaps
  <2> QED
    BY <2>1, <1>3, <1>5, DoesKeeps
<1>6. CASE IsKind("optional") /\ Does(optional_swap(holder, x, y, throw), w, throw, "none")
  <2>1. Leaves(optional_swap(holder, x, y, throw), k, Swapped(v, x, y), throw)
    BY <1>2, <1>6, OptionalSwaps DEF IsKind
  <2> QED
    BY <2>1, <1>3, <1>6, DoesKeeps
<1>7. CASE IsKind("any") /\ Does(any_swap(holder, x, y), w, 0, "none")
  <2>1. Leaves(any_swap(holder, x, y), k, Swapped(v, x, y), 0)
    BY <1>2, AnySwaps
  <2> QED
    BY <2>1, <1>3, <1>7, DoesKeeps
<1> QED
  BY <1>4, <1>5, <1>6, <1>7

\* Every call keeps the invariant.
LEMMA HoldersStep == HoldersInv /\ [HoldersNext]_holderVars => HoldersInv'
<1> SUFFICES ASSUME HoldersInv, [HoldersNext]_holderVars PROVE HoldersInv'
  OBVIOUS
<1>1. CASE UNCHANGED holderVars
  BY <1>1 DEF HoldersInv, holderVars
<1>2. CASE HoldersNext
  <2>1. PICK x \in HolderNames :
          \/ Default(x) \/ Destroy(x) \/ Reset(x)
          \/ \E y \in HolderNames : CopyConstruct(x, y) \/ MoveConstruct(x, y) \/ CopyAssignHolder(x, y) \/ MoveAssignHolder(x, y) \/ Swap(x, y)
          \/ \E alt \in Alternatives(holder.kind), val \in 1 .. 2 : Assign(x, alt, val) \/ Emplace(x, alt, val)
    BY <1>2 DEF HoldersNext
  <2>2. CASE Default(x)
    BY <2>2, HolderDefaultKeeps
  <2>3. CASE Destroy(x) \/ Reset(x)
    BY <2>3, HolderDestroyKeeps
  <2>4. ASSUME NEW y \in HolderNames, CopyConstruct(x, y) \/ MoveConstruct(x, y) \/ CopyAssignHolder(x, y) \/ MoveAssignHolder(x, y) \/ Swap(x, y)
        PROVE  HoldersInv'
    BY <2>4, HolderCopyConstructKeeps, HolderMoveConstructKeeps, HolderCopyAssignKeeps, HolderMoveAssignKeeps, HolderSwapKeeps
  <2>5. ASSUME NEW alt \in Alternatives(holder.kind), NEW val \in 1 .. 2, Assign(x, alt, val) \/ Emplace(x, alt, val)
        PROVE  HoldersInv'
    BY <2>5, HolderAssignKeeps, HolderEmplaceKeeps
  <2> QED
    BY <2>1, <2>2, <2>3, <2>4, <2>5
<1> QED
  BY <1>1, <1>2

\* What the property says of the objects and of each value follows.
LEMMA HoldersShown == HoldersInv => HoldersOwn
<1> SUFFICES ASSUME HoldersInv, abused = "none"
             PROVE  /\ ~holder.broken /\ BeliefTrue /\ NoneLost
                    /\ \A x \in HolderNames : Held(holder, x) = want[x]
                    /\ \A x \in HolderNames : Here(holder, x) => Gets(x)
                    /\ \A x \in HolderNames, v \in 1 .. 2 : (Here(holder, x) /\ IsKind("optional")) => Comparable(Held(holder, x), v)
                    /\ \A x, y \in HolderNames :
                         (Here(holder, x) /\ Here(holder, y) /\ ~IsKind("any")) => Ordered(Held(holder, x), Held(holder, y))
  BY DEF HoldersOwn
<1> DEFINE k == holder.kind
<1>1. PICK v : /\ Full(holder, k, v) /\ v["tmp"].index = Absent /\ want = SeenAll(v)
               /\ \A x \in HolderNames : x \in HolderSlots /\ Here(holder, x) = (v[x].index # Absent) /\ Index(holder, x) = v[x].index
  BY CallBegins
<1>2. holder \in HolderStates(k) /\ ~holder.broken /\ OwnedOnce(holder, HolderSlots)
  BY <1>1 DEF Full, Shows
<1>3. Owners(holder, HolderSlots) = {x \in HolderNames : Index(holder, x) >= 0}
  <2>1. ~(Index(holder, "tmp") >= 0)
    <3>1. Index(holder, "tmp") = Absent
      BY <1>1, FullHas, Slots3
    <3> QED
      BY <3>1 DEF Absent
  <2> QED
    BY <2>1, Slots3 DEF Owners
<1>4. BeliefTrue
  <2> SUFFICES ASSUME NEW x \in HolderNames, Index(holder, x) >= 0 PROVE IsLive(holder, x) /\ Instance(holder, x).alt = Index(holder, x)
    BY DEF BeliefTrue
  <2>1. OwnsOne(holder, x)
    BY <1>2, <1>3 DEF OwnedOnce
  <2>2. 0 \notin DOMAIN holder.objects
    BY <1>2 DEF HolderStates
  <2> QED
    BY <2>1, <2>2 DEF OwnsOne, IsLive, Bare
<1>5. NoneLost
  <2> SUFFICES ASSUME NEW n \in DOMAIN holder.objects, holder.objects[n].live
               PROVE  Cardinality({x \in HolderNames : Index(holder, x) >= 0 /\ holder.h[x].cell = n}) = 1
    BY DEF NoneLost
  <2>1. PICK x \in Owners(holder, HolderSlots) : holder.h[x].cell = n
    BY <1>2 DEF OwnedOnce
  <2>2. {y \in HolderNames : Index(holder, y) >= 0 /\ holder.h[y].cell = n} = {x}
    BY <1>2, <1>3, <2>1 DEF OwnedOnce
  <2> QED
    BY <2>2, FS_Singleton
<1>6. \A x \in HolderNames : Held(holder, x) = want[x] /\ want[x] = Seen(v[x])
  BY <1>1, SeenIs DEF SeenAll
<1>7. ASSUME NEW x \in HolderNames, Here(holder, x) PROVE IsHeld(Held(holder, x))
  BY <1>1, <1>7, SeenIs
<1>8. ASSUME NEW x \in HolderNames, Here(holder, x) PROVE Gets(x)
  <2>1. CASE v[x].index = npos
    <3>1. want[x] = NoInstance /\ Index(holder, x) = npos
      <4>1. want[x] = Seen(v[x]) /\ Index(holder, x) = v[x].index
        BY <1>1, <1>6
      <4>2. Seen(v[x]) = NoInstance
        BY <2>1 DEF Seen, Absent, npos
      <4> QED
        BY <4>1, <4>2, <2>1
    <3>2. Len(want[x]) = 0
      BY <3>1 DEF NoInstance
    <3>3. \A alt \in {0, 1} : any_get(holder, x, alt) = NoInstance
      BY <3>1 DEF any_get, npos
    <3>4. variant_get(holder, x) = NoInstance
      BY <3>1 DEF variant_get
    <3> QED
      BY <3>1, <3>2, <3>3, <3>4 DEF Gets
  <2>2. CASE v[x].index # npos
    <3>1. v[x].index \in {0, 1} /\ Instance(holder, x).val = v[x].val
      <4>1. v[x].index # Absent /\ x \in HolderSlots /\ Full(holder, k, v)
        BY <1>1, <1>8
      <4> QED
        BY <4>1, <2>2, FullHas
    <3>2. want[x] = <<v[x].index, v[x].val>> /\ Index(holder, x) = v[x].index
      BY <2>2, <1>1, <1>6, <1>8 DEF Seen
    <3>3. Len(want[x]) = 2 /\ want[x][1] = v[x].index /\ want[x][2] = v[x].val /\ want[x] # NoInstance
      BY <3>2 DEF NoInstance
    <3>4. \A alt \in {0, 1} : any_get(holder, x, alt) = IF want[x][1] = alt THEN <<want[x][2]>> ELSE NoInstance
      BY <3>1, <3>2, <3>3 DEF any_get
    <3>5. variant_get(holder, x) = <<want[x][2]>>
      BY <3>1, <3>2, <3>3, <2>2 DEF variant_get
    <3> QED
      BY <3>3, <3>4, <3>5 DEF Gets
  <2> QED
    BY <2>1, <2>2
<1>9. ASSUME NEW x \in HolderNames, NEW val \in 1 .. 2, Here(holder, x) PROVE Comparable(Held(holder, x), val)
  BY <1>7, <1>9, AllComparable
<1>10. ASSUME NEW x \in HolderNames, NEW y \in HolderNames, Here(holder, x), Here(holder, y) PROVE Ordered(Held(holder, x), Held(holder, y))
  BY <1>7, <1>10, AllOrdered
<1> QED
  BY <1>2, <1>4, <1>5, <1>6, <1>8, <1>9, <1>10

\* Whatever is copied, moved, swapped, assigned or emplaced in a variant, an
\* optional or an any, through any constructor that throws: the holder has the
\* value that it was given, each object is destructed once, and none is lost.
\* Left out is what follows a copy or a move construction of an optional that
\* throws, and an emplace in an optional that has a value.
THEOREM HoldersCorrect == HoldersSpec => []HoldersOwn
<1>1. HoldersInit => HoldersInv
  BY HoldersStart
<1>2. HoldersInv /\ [HoldersNext]_holderVars => HoldersInv'
  BY HoldersStep
<1>3. HoldersInv => HoldersOwn
  BY HoldersShown
<1> QED
  BY <1>1, <1>2, <1>3, PTL DEF HoldersSpec
=============================================================================
