--------------------------- MODULE Values_proofs ----------------------------
(***************************************************************************)
(* Proofs about parts that keep values for others: the token tables, for   *)
(* any tokens, factories and ranges, and the shared, weak and unique       *)
(* pointers, for any of them and any number of calls.                      *)
(***************************************************************************)
EXTENDS Tables, Pointers, FiniteSetTheorems, SequenceTheorems, TLAPS

-----------------------------------------------------------------------------
(* Tables: the parts of the inductive invariant, as long as no range was   *)
(* refused.                                                                *)

Entry == [from : Int, count : Nat, name : Factories \cup {"__hash_table__"}]
FactoryState == [alive : BOOLEAN, from : Int, count : Nat, name : Factories \cup {"none"}]

TablesTyped == ranges \in Seq(Entry) /\ factories \in [Factories -> FactoryState]

SameRange(x, y) == x.from = y.from /\ x.count = y.count

RangesDistinct == \A i, j \in DOMAIN ranges : SameRange(ranges[i], ranges[j]) => i = j

Holding == {f \in Factories : factories[f].alive /\ factories[f].count # 0}

\* A factory that holds a range is registered, under its name.
HoldersRegistered ==
    \A f \in Holding :
        \E i \in DOMAIN ranges : SameRange(ranges[i], factories[f]) /\ ranges[i].name = factories[f].name /\ ranges[i].name \in Factories

\* No two factories hold the same range.
HoldersApart == \A f, g \in Holding : SameRange(factories[f], factories[g]) => f = g

IsHashed == hashes # [x \in {} |-> ""]

RangesCounted == Len(ranges) = (IF IsHashed THEN 1 ELSE 0) + Cardinality(Holding)

TablesSound == TablesTyped /\ RangesDistinct /\ HoldersRegistered /\ HoldersApart /\ RangesCounted

TablesInv == refused \in BOOLEAN /\ (~refused => TablesSound)

\* find_by_range and find_by_value find what there is only one of.
LEMMA FirstOfOne == \A i : FirstOf({i}) = i
  BY DEF FirstOf

\* find_by_range finds the range of an entry, as no two entries share one.
LEMMA FoundRange ==
    ASSUME TablesTyped, RangesDistinct, NEW from, NEW count
    PROVE  \/ /\ find_by_range(from, count) = NoIndex
              /\ \A i \in DOMAIN ranges : ~(ranges[i].from = from /\ ranges[i].count = count)
           \/ /\ find_by_range(from, count) \in DOMAIN ranges
              /\ ranges[find_by_range(from, count)].from = from
              /\ ranges[find_by_range(from, count)].count = count
<1> DEFINE S == {i \in DOMAIN ranges : ranges[i].from = from /\ ranges[i].count = count}
<1>1. find_by_range(from, count) = FirstOf(S)
  BY DEF find_by_range
<1>2. CASE S = {}
  BY <1>1, <1>2 DEF FirstOf
<1>3. CASE S # {}
  <2>1. PICK i \in DOMAIN ranges : S = {i}
    BY <1>3 DEF RangesDistinct, SameRange
  <2>2. FirstOf(S) = i /\ ranges[i].from = from /\ ranges[i].count = count
    BY <2>1, FirstOfOne
  <2> QED
    BY <1>1, <2>2
<1> QED
  BY <1>2, <1>3

\* register_callback adds a range that is not there.
LEMMA RegisterAdds ==
    ASSUME TablesTyped, RangesDistinct, NEW from \in Int, NEW count \in Nat, NEW name \in Factories \cup {"__hash_table__"},
           CanRegister(from, count), ranges' = register_callback(from, count, name)
    PROVE  /\ ranges' \in Seq(Entry) /\ Len(ranges') = Len(ranges) + 1
           /\ \A i \in DOMAIN ranges : i \in DOMAIN ranges' /\ ranges'[i] = ranges[i]
           /\ Len(ranges) + 1 \in DOMAIN ranges'
           /\ ranges'[Len(ranges) + 1] = [from |-> from, count |-> count, name |-> name]
           /\ \A i \in DOMAIN ranges : ~(ranges[i].from = from /\ ranges[i].count = count)
           /\ RangesDistinct'
<1> DEFINE x == [from |-> from, count |-> count, name |-> name]
<1>1. ranges' = Append(ranges, x) /\ x \in Entry /\ x.from = from /\ x.count = count
  BY DEF register_callback, Entry
<1>2. \A i \in DOMAIN ranges : ~(ranges[i].from = from /\ ranges[i].count = count)
  BY FoundRange DEF CanRegister, NoIndex, TablesTyped
<1> HIDE DEF x
<1>3. ranges \in Seq(Entry)
  BY DEF TablesTyped
<1>4. /\ ranges' \in Seq(Entry) /\ Len(ranges') = Len(ranges) + 1
      /\ DOMAIN ranges' = 1 .. Len(ranges) + 1 /\ DOMAIN ranges = 1 .. Len(ranges)
      /\ ranges'[Len(ranges) + 1] = x
      /\ \A i \in DOMAIN ranges : ranges'[i] = ranges[i]
  BY <1>1, <1>3
<1>5. RangesDistinct'
  BY <1>1, <1>2, <1>4 DEF RangesDistinct, SameRange
<1> QED
  BY <1>2, <1>3, <1>4, <1>5 DEF x

\* unregister_callback takes one range out and keeps the others.
LEMMA UnregisterDrops ==
    ASSUME TablesTyped, RangesDistinct, NEW k \in DOMAIN ranges,
           ranges' = unregister_callback(ranges[k].from, ranges[k].count)
    PROVE  /\ ranges' \in Seq(Entry) /\ Len(ranges') = Len(ranges) - 1
           /\ \A j \in DOMAIN ranges : j # k => \E i \in DOMAIN ranges' : ranges'[i] = ranges[j]
           /\ RangesDistinct'
<1> DEFINE n == Len(ranges)
           moved == [ranges EXCEPT ![k] = ranges[n]]
<1>1. ranges \in Seq(Entry) /\ n \in Nat /\ DOMAIN ranges = 1 .. n /\ k \in 1 .. n
  BY DEF TablesTyped
<1>2. find_by_range(ranges[k].from, ranges[k].count) = k
  BY FoundRange DEF RangesDistinct, SameRange
<1>3. ranges' = SubSeq(moved, 1, n - 1)
  BY <1>1, <1>2 DEF unregister_callback, NoIndex
<1>4. moved \in Seq(Entry) /\ Len(moved) = n /\ \A j \in 1 .. n : moved[j] = IF j = k THEN ranges[n] ELSE ranges[j]
  BY <1>1
<1> HIDE DEF moved, n
<1>5. /\ ranges' \in Seq(Entry) /\ Len(ranges') = n - 1 /\ DOMAIN ranges' = 1 .. n - 1
      /\ \A j \in 1 .. n - 1 : ranges'[j] = IF j = k THEN ranges[n] ELSE ranges[j]
  BY <1>1, <1>3, <1>4
<1>6. ASSUME NEW j \in DOMAIN ranges, j # k PROVE \E i \in DOMAIN ranges' : ranges'[i] = ranges[j]
  <2>1. CASE j = n
    <3>1. k \in DOMAIN ranges' /\ ranges'[k] = ranges[j]
      BY <2>1, <1>1, <1>5, <1>6
    <3> QED
      BY <3>1
  <2>2. CASE j # n
    <3>1. j \in DOMAIN ranges' /\ ranges'[j] = ranges[j]
      BY <2>2, <1>1, <1>5, <1>6
    <3> QED
      BY <3>1
  <2> QED
    BY <2>1, <2>2
<1>7. RangesDistinct'
  <2> SUFFICES ASSUME NEW i \in 1 .. n - 1, NEW j \in 1 .. n - 1, SameRange(ranges'[i], ranges'[j]) PROVE i = j
    BY <1>5 DEF RangesDistinct
  <2> DEFINE at(l) == IF l = k THEN n ELSE l
  <2>1. at(i) \in DOMAIN ranges /\ at(j) \in DOMAIN ranges /\ ranges'[i] = ranges[at(i)] /\ ranges'[j] = ranges[at(j)]
    BY <1>1, <1>5
  <2>2. at(i) = at(j)
    BY <2>1 DEF RangesDistinct
  <2> QED
    BY <2>2, <1>1
<1> QED
  BY <1>5, <1>6, <1>7 DEF n

\* What goes with a factory is its own range.
LEMMA DroppedDrops ==
    ASSUME TablesSound, NEW f \in Factories, factories[f].alive, ranges' = Dropped(f)
    PROVE  /\ ranges' \in Seq(Entry) /\ RangesDistinct'
           /\ Len(ranges') = Len(ranges) - (IF f \in Holding THEN 1 ELSE 0)
           /\ \A g \in Holding \ {f} : \E i \in DOMAIN ranges' :
                 SameRange(ranges'[i], factories[g]) /\ ranges'[i].name = factories[g].name /\ ranges'[i].name \in Factories
<1> USE DEF TablesSound
<1>1. CASE factories[f].count = 0
  <2>1. ranges' = ranges /\ f \notin Holding
    BY <1>1 DEF Dropped, Holding
  <2>2. ranges \in Seq(Entry)
    BY DEF TablesTyped
  <2> QED
    BY <2>1, <2>2 DEF HoldersRegistered, RangesDistinct
<1>2. CASE factories[f].count # 0
  <2>1. f \in Holding
    BY <1>2 DEF Holding
  <2>2. PICK k \in DOMAIN ranges : SameRange(ranges[k], factories[f])
    BY <2>1 DEF HoldersRegistered
  <2>3. ranges' = unregister_callback(ranges[k].from, ranges[k].count)
    BY <1>2, <2>2 DEF Dropped, SameRange
  <2>4. /\ ranges' \in Seq(Entry) /\ Len(ranges') = Len(ranges) - 1 /\ RangesDistinct'
        /\ \A j \in DOMAIN ranges : j # k => \E i \in DOMAIN ranges' : ranges'[i] = ranges[j]
    BY <2>3, UnregisterDrops
  <2>5. ASSUME NEW g \in Holding \ {f}
        PROVE  \E i \in DOMAIN ranges' : SameRange(ranges'[i], factories[g]) /\ ranges'[i].name = factories[g].name
                                         /\ ranges'[i].name \in Factories
    <3>1. PICK j \in DOMAIN ranges : SameRange(ranges[j], factories[g]) /\ ranges[j].name = factories[g].name /\ ranges[j].name \in Factories
      BY DEF HoldersRegistered
    <3>2. j # k
      BY <2>1, <2>2, <3>1 DEF HoldersApart, SameRange
    <3> QED
      BY <2>4, <3>1, <3>2
  <2> QED
    BY <2>1, <2>4, <2>5
<1> QED
  BY <1>1, <1>2

\* The factories that hold a range can be counted, whoever they are.
LEMMA HoldingFinite == IsFiniteSet(Holding) /\ Cardinality(Holding) \in Nat
<1>1. IsFiniteSet(Factories) /\ Holding \in SUBSET Factories
  BY TablesAssumption DEF TablesAssumption, Holding
<1>2. IsFiniteSet(Holding)
  BY <1>1, FS_Subset
<1> QED
  BY <1>2, FS_CardinalityType

\* The hash table registers when its first string comes.
LEMMA AddStringKeeps ==
    ASSUME TablesSound, NEW h \in DOMAIN HashStrings, add_string(h), ~refused' PROVE TablesSound'
<1> USE DEF TablesSound
<1>u. factories' = factories /\ Holding' = Holding
  BY DEF add_string, Holding
<1>1. CASE ~IsHashed
  <2>1. /\ ranges' = register_callback(HashRange.from, HashRange.count, "__hash_table__") /\ CanRegister(HashRange.from, HashRange.count)
        /\ hashes' = [x \in {0, h} |-> IF x = 0 THEN "()" ELSE HashStrings[x]]
    BY <1>1 DEF add_string, IsHashed
  <2>2. HashRange.from \in Int /\ HashRange.count \in Nat
    BY TablesAssumption DEF TablesAssumption
  <2>3. /\ ranges' \in Seq(Entry) /\ Len(ranges') = Len(ranges) + 1 /\ RangesDistinct'
        /\ \A i \in DOMAIN ranges : i \in DOMAIN ranges' /\ ranges'[i] = ranges[i]
    BY <2>1, <2>2, RegisterAdds
  <2>4. IsHashed'
    <3>1. DOMAIN hashes' # {} /\ DOMAIN [x \in {} |-> ""] = {}
      BY <2>1
    <3> QED
      BY <3>1 DEF IsHashed
  <2>5. HoldersRegistered'
    BY <1>u, <2>3 DEF HoldersRegistered
  <2>6. RangesCounted'
    BY <1>1, <1>u, <2>3, <2>4, HoldingFinite DEF RangesCounted
  <2> QED
    BY <1>u, <2>3, <2>5, <2>6 DEF TablesTyped, HoldersApart
<1>2. CASE IsHashed
  <2>1. ranges' = ranges
    BY <1>2 DEF add_string, IsHashed
  <2>2. IsHashed'
    <3>1. h \in DOMAIN hashes => hashes' = hashes
      BY <1>2 DEF add_string, IsHashed
    <3>2. h \notin DOMAIN hashes => h \in DOMAIN hashes'
      BY <1>2 DEF add_string, IsHashed
    <3>3. DOMAIN [x \in {} |-> ""] = {}
      OBVIOUS
    <3> QED
      BY <1>2, <3>1, <3>2, <3>3 DEF IsHashed
  <2> QED
    BY <1>2, <1>u, <2>1, <2>2 DEF TablesTyped, RangesDistinct, HoldersRegistered, HoldersApart, RangesCounted
<1> QED
  BY <1>1, <1>2

\* A factory comes with its range, or with none.
LEMMA FactoryKeeps ==
    ASSUME TablesSound, NEW f \in Factories, NEW r \in FactoryRanges, EntityFactory(f, r), ~refused' PROVE TablesSound'
<1> USE DEF TablesSound
<1> DEFINE x == [alive |-> TRUE, from |-> r.from, count |-> r.count, name |-> f]
<1>1. r.from \in Int /\ r.count \in Nat
  BY TablesAssumption DEF TablesAssumption
<1>2. factories' = [factories EXCEPT ![f] = x] /\ ~factories[f].alive /\ hashes' = hashes
  BY DEF EntityFactory
<1>3. x \in FactoryState /\ x.alive /\ x.count = r.count /\ x.from = r.from /\ x.name = f
  BY <1>1 DEF FactoryState
<1> HIDE DEF x
<1>4. factories' \in [Factories -> FactoryState] /\ factories'[f] = x /\ \A g \in Factories \ {f} : factories'[g] = factories[g]
  BY <1>2, <1>3 DEF TablesTyped
<1>5. f \notin Holding /\ IsHashed' = IsHashed
  BY <1>2 DEF Holding, IsHashed
<1>6. CASE r.count = 0
  <2>1. ranges' = ranges /\ Holding' = Holding
    BY <1>2, <1>3, <1>4, <1>5, <1>6 DEF EntityFactory, Holding
  <2>2. \A g \in Holding : factories'[g] = factories[g]
    BY <1>4, <1>5 DEF Holding
  <2> QED
    BY <1>4, <1>5, <2>1, <2>2 DEF TablesTyped, RangesDistinct, HoldersRegistered, HoldersApart, RangesCounted
<1>7. CASE r.count # 0
  <2>1. ranges' = register_callback(r.from, r.count, f) /\ CanRegister(r.from, r.count)
    BY <1>7 DEF EntityFactory
  <2>2. Holding' = Holding \cup {f}
    BY <1>3, <1>4, <1>5, <1>7 DEF Holding
  <2> DEFINE new == [from |-> r.from, count |-> r.count, name |-> f]
  <2>3. /\ ranges' \in Seq(Entry) /\ Len(ranges') = Len(ranges) + 1 /\ RangesDistinct'
        /\ \A i \in DOMAIN ranges : i \in DOMAIN ranges' /\ ranges'[i] = ranges[i]
        /\ Len(ranges) + 1 \in DOMAIN ranges' /\ ranges'[Len(ranges) + 1] = new
        /\ \A i \in DOMAIN ranges : ~(ranges[i].from = r.from /\ ranges[i].count = r.count)
    BY <1>1, <2>1, RegisterAdds
  <2>4. new.from = r.from /\ new.count = r.count /\ new.name = f
    OBVIOUS
  <2> HIDE DEF new
  <2>5. \A g \in Holding : g # f /\ factories'[g] = factories[g]
    BY <1>4, <1>5 DEF Holding
  <2>6. HoldersRegistered'
    <3> SUFFICES ASSUME NEW g \in Holding'
                 PROVE  \E i \in DOMAIN ranges' : SameRange(ranges'[i], factories'[g]) /\ ranges'[i].name = factories'[g].name
                                                  /\ ranges'[i].name \in Factories
      BY DEF HoldersRegistered
    <3>1. CASE g = f
      BY <1>3, <1>4, <2>3, <2>4, <3>1 DEF SameRange
    <3>2. CASE g \in Holding
      BY <2>3, <2>5, <3>2 DEF HoldersRegistered
    <3> QED
      BY <2>2, <3>1, <3>2
  <2>7. \A g \in Holding : ~SameRange(factories[g], x)
    BY <1>3, <2>3 DEF HoldersRegistered, SameRange
  <2>8. HoldersApart'
    BY <1>4, <2>2, <2>5, <2>7 DEF HoldersApart, SameRange
  <2>9. RangesCounted'
    <3>1. Cardinality(Holding') = Cardinality(Holding) + 1
      BY <1>5, <2>2, HoldingFinite, FS_AddElement
    <3> QED
      BY <1>5, <2>3, <3>1, HoldingFinite DEF RangesCounted
  <2> QED
    BY <1>4, <2>3, <2>6, <2>8, <2>9 DEF TablesTyped
<1> QED
  BY <1>6, <1>7

\* A factory goes, with its range.
LEMMA DestroyKeeps ==
    ASSUME TablesSound, NEW f \in Factories, destroy_factory(f) PROVE TablesSound'
<1> USE DEF TablesSound
<1>1. factories[f].alive /\ ranges' = Dropped(f) /\ factories' = [factories EXCEPT ![f] = NoFactory] /\ hashes' = hashes
  BY DEF destroy_factory
<1>2. /\ ranges' \in Seq(Entry) /\ RangesDistinct'
      /\ Len(ranges') = Len(ranges) - (IF f \in Holding THEN 1 ELSE 0)
      /\ \A g \in Holding \ {f} : \E i \in DOMAIN ranges' :
            SameRange(ranges'[i], factories[g]) /\ ranges'[i].name = factories[g].name /\ ranges'[i].name \in Factories
  BY <1>1, DroppedDrops
<1>3. NoFactory \in FactoryState /\ ~NoFactory.alive
  BY DEF NoFactory, FactoryState
<1>4. factories' \in [Factories -> FactoryState] /\ factories'[f] = NoFactory /\ \A g \in Factories \ {f} : factories'[g] = factories[g]
  BY <1>1, <1>3 DEF TablesTyped
<1>5. Holding' = Holding \ {f} /\ IsHashed' = IsHashed
  BY <1>1, <1>3, <1>4 DEF Holding, IsHashed
<1>6. \A g \in Holding \ {f} : factories'[g] = factories[g]
  BY <1>4 DEF Holding
<1>7. HoldersRegistered' /\ HoldersApart'
  BY <1>2, <1>5, <1>6 DEF HoldersRegistered, HoldersApart
<1>8. RangesCounted'
  <2>1. Cardinality(Holding') = IF f \in Holding THEN Cardinality(Holding) - 1 ELSE Cardinality(Holding)
    BY <1>5, HoldingFinite, FS_RemoveElement
  <2> QED
    BY <1>2, <1>5, <2>1, HoldingFinite DEF RangesCounted
<1> QED
  BY <1>2, <1>4, <1>7, <1>8 DEF TablesTyped

\* What g held is f's; what f held is gone.
LEMMA MovedKeeps ==
    ASSUME TablesSound, NEW f \in Factories, NEW g \in Factories, f # g, factories[g].alive, FactoryMovedFrom(f, g),
           ranges' \in Seq(Entry), RangesDistinct', Len(ranges') = Len(ranges) - (IF f \in Holding THEN 1 ELSE 0),
           \A k \in Holding \ {f} : \E i \in DOMAIN ranges' :
              SameRange(ranges'[i], factories[k]) /\ ranges'[i].name = factories[k].name /\ ranges'[i].name \in Factories
    PROVE  TablesSound'
<1> USE DEF TablesSound
<1> DEFINE x == [factories[g] EXCEPT !.alive = TRUE]
           y == [factories[g] EXCEPT !.count = 0]
<1>1. factories' = [factories EXCEPT ![f] = x, ![g].count = 0] /\ hashes' = hashes
  BY DEF FactoryMovedFrom
<1>2. factories[g] \in FactoryState
  BY DEF TablesTyped
<1>3. x = factories[g] /\ y \in FactoryState /\ y.count = 0
  BY <1>2 DEF FactoryState
<1> HIDE DEF x
<1>4. /\ factories' \in [Factories -> FactoryState] /\ factories'[f] = factories[g] /\ factories'[g] = y
      /\ \A k \in Factories \ {f, g} : factories'[k] = factories[k]
  BY <1>1, <1>2, <1>3 DEF TablesTyped
<1> HIDE DEF y
<1>5. /\ g \notin Holding' /\ (f \in Holding' <=> g \in Holding) /\ IsHashed' = IsHashed
      /\ \A k \in Factories \ {f, g} : k \in Holding' <=> k \in Holding
  BY <1>1, <1>3, <1>4 DEF Holding, IsHashed
<1>6. Holding \subseteq Factories /\ Holding' \subseteq Factories
  BY DEF Holding
<1> DEFINE was(k) == IF k = f THEN g ELSE k
<1>7. ASSUME NEW k \in Holding' PROVE was(k) \in Holding \ {f} /\ factories'[k] = factories[was(k)]
  BY <1>4, <1>5, <1>6
<1>8. HoldersRegistered'
  BY <1>7 DEF HoldersRegistered
<1>9. HoldersApart'
  <2> SUFFICES ASSUME NEW k \in Holding', NEW m \in Holding', SameRange(factories'[k], factories'[m]) PROVE k = m
    BY DEF HoldersApart
  <2>1. was(k) = was(m)
    BY <1>7 DEF HoldersApart
  <2> QED
    BY <2>1, <1>5
<1>10. RangesCounted'
  <2> DEFINE others == Holding \ {f}
  <2>1. IsFiniteSet(others) /\ Cardinality(others) = IF f \in Holding THEN Cardinality(Holding) - 1 ELSE Cardinality(Holding)
    BY HoldingFinite, FS_RemoveElement
  <2>2. Cardinality(Holding') = Cardinality(others)
    <3>1. CASE g \notin Holding
      <4>1. Holding' = others
        BY <3>1, <1>5, <1>6
      <4> QED
        BY <4>1
    <3>2. CASE g \in Holding
      <4>1. Holding' = (others \ {g}) \cup {f} /\ g \in others /\ f \notin others \ {g}
        BY <3>2, <1>5, <1>6
      <4> HIDE DEF others
      <4>2. IsFiniteSet(others \ {g}) /\ Cardinality(others \ {g}) = Cardinality(others) - 1
        BY <2>1, <4>1, FS_RemoveElement
      <4> DEFINE rest == others \ {g}
      <4>3. IsFiniteSet(rest) /\ f \notin rest /\ Holding' = rest \cup {f}
        BY <4>1, <4>2
      <4> HIDE DEF rest
      <4>4. Cardinality(rest \cup {f}) = Cardinality(rest) + 1
        BY <4>3, FS_AddElement
      <4>5. Cardinality(others) \in Nat
        BY <2>1, FS_CardinalityType
      <4> QED
        BY <4>2, <4>3, <4>4, <4>5 DEF rest
    <3> QED
      BY <3>1, <3>2
  <2> QED
    BY <1>5, <2>1, <2>2, HoldingFinite DEF RangesCounted
<1> QED
  BY <1>4, <1>8, <1>9, <1>10 DEF TablesTyped

\* There is no entry and no factory holds a range.
LEMMA TablesInvInit == TablesInit => TablesInv
<1> SUFFICES ASSUME TablesInit PROVE TablesInv
  OBVIOUS
<1>1. ranges = <<>> /\ ~IsHashed /\ refused = FALSE
  BY DEF TablesInit, IsHashed
<1>2. NoFactory \in FactoryState /\ ~NoFactory.alive
  BY DEF NoFactory, FactoryState
<1>3. factories \in [Factories -> FactoryState] /\ Holding = {}
  BY <1>2 DEF TablesInit, Holding
<1>4. Cardinality(Holding) = 0 /\ Len(ranges) = 0 /\ ranges \in Seq(Entry) /\ DOMAIN ranges = {}
  BY <1>1, <1>3, FS_EmptySet
<1> QED
  <2>1. RangesCounted
    BY <1>1, <1>4 DEF RangesCounted
  <2>2. TablesTyped /\ RangesDistinct
    BY <1>3, <1>4 DEF TablesTyped, RangesDistinct
  <2>3. HoldersRegistered /\ HoldersApart
    BY <1>3 DEF HoldersRegistered, HoldersApart
  <2> QED
    BY <1>1, <2>1, <2>2, <2>3 DEF TablesInv, TablesSound

\* Every call on the tables and the factories keeps one entry per range held.
LEMMA TablesInvStep == TablesInv /\ [TablesNext]_tableVars => TablesInv'
<1> SUFFICES ASSUME TablesInv, [TablesNext]_tableVars PROVE TablesInv'
  OBVIOUS
<1>r. refused' \in BOOLEAN /\ (refused => refused')
  BY DEF TablesInv, TablesNext, tableVars, add_string, EntityFactory, destroy_factory, factory_move_construct, factory_move_assign,
         FactoryMovedFrom
<1> SUFFICES ASSUME ~refused' PROVE TablesSound'
  BY <1>r DEF TablesInv
<1>s. TablesSound
  BY <1>r DEF TablesInv
<1>1. ASSUME NEW h \in DOMAIN HashStrings, add_string(h) PROVE TablesSound'
  BY <1>s, <1>1, AddStringKeeps
<1>2. ASSUME NEW f \in Factories, NEW r \in FactoryRanges, EntityFactory(f, r) PROVE TablesSound'
  BY <1>s, <1>2, FactoryKeeps
<1>3. ASSUME NEW f \in Factories, destroy_factory(f) PROVE TablesSound'
  BY <1>s, <1>3, DestroyKeeps
<1>4. ASSUME NEW f \in Factories, NEW g \in Factories, factory_move_construct(f, g) PROVE TablesSound'
  <2>1. f # g /\ ~factories[f].alive /\ factories[g].alive /\ FactoryMovedFrom(f, g) /\ ranges' = ranges
    BY <1>4 DEF factory_move_construct
  <2>2. f \notin Holding /\ ranges \in Seq(Entry) /\ RangesDistinct'
    BY <2>1, <1>s DEF Holding, TablesSound, TablesTyped, RangesDistinct
  <2>3. Len(ranges') = Len(ranges) - (IF f \in Holding THEN 1 ELSE 0)
    BY <2>1, <2>2
  <2>4. \A k \in Holding \ {f} : \E i \in DOMAIN ranges' :
           SameRange(ranges'[i], factories[k]) /\ ranges'[i].name = factories[k].name /\ ranges'[i].name \in Factories
    BY <2>1, <1>s DEF TablesSound, HoldersRegistered
  <2> QED
    BY <1>s, <2>1, <2>2, <2>3, <2>4, MovedKeeps
<1>5. ASSUME NEW f \in Factories, NEW g \in Factories, factory_move_assign(f, g) PROVE TablesSound'
  <2>1. f # g /\ factories[f].alive /\ factories[g].alive /\ FactoryMovedFrom(f, g) /\ ranges' = Dropped(f)
    BY <1>5 DEF factory_move_assign
  <2> QED
    BY <1>s, <2>1, DroppedDrops, MovedKeeps
<1>6. CASE UNCHANGED tableVars
  BY <1>6, <1>s DEF tableVars, TablesSound, TablesTyped, RangesDistinct, HoldersRegistered, HoldersApart, RangesCounted, Holding, IsHashed
<1> QED
  BY <1>1, <1>2, <1>3, <1>4, <1>5, <1>6 DEF TablesNext

\* As long as no range was refused, every factory that holds a range is in the
\* token table once and under its name, nothing is left of those that are
\* gone, and a token of that range alone is printed with that name
\* (TokenTable.cpp, HashTable.cpp, EntityFactory.hpp).
THEOREM TablesCorrect == TablesSpec => []TokensNamed
<1>1. TablesInv => TokensNamed
  <2> SUFFICES ASSUME TablesSound PROVE TokensNamed
    BY DEF TablesInv, TokensNamed
  <2> USE DEF TablesSound
  <2>1. FactoriesRegistered
    BY DEF FactoriesRegistered, HoldersRegistered, Holding, SameRange
  <2>2. \A i, j \in DOMAIN ranges : i # j => <<ranges[i].from, ranges[i].count>> # <<ranges[j].from, ranges[j].count>>
    BY DEF RangesDistinct, SameRange
  <2>3. Len(ranges) = (IF hashes = [x \in {} |-> ""] THEN 0 ELSE 1)
           + Cardinality({f \in Factories : factories[f].alive /\ factories[f].count # 0})
    BY DEF RangesCounted, IsHashed, Holding
  <2>4. ASSUME NEW f \in Factories, NEW v \in Tokens, factories[f].alive, InRange(v, factories[f]),
               ~\E i, j \in DOMAIN ranges : i # j /\ InRange(v, ranges[i]) /\ InRange(v, ranges[j])
        PROVE  copy_string(v) = factories[f].name
    <3>1. factories[f].count # 0
      <4>1. factories[f].from \in Int /\ v \in Int /\ Cardinality(Tokens) \in Nat /\ Cardinality(Tokens) # 0
        BY TablesAssumption, FS_CardinalityType, FS_EmptySet DEF TablesAssumption, TablesTyped, FactoryState
      <4>2. Wrapped(v - factories[f].from) >= 0
        BY <4>1 DEF Wrapped
      <4>3. Wrapped(v - factories[f].from) < factories[f].count /\ Wrapped(v - factories[f].from) \in Int
        BY <4>1, <2>4 DEF InRange, Wrapped
      <4> QED
        BY <4>2, <4>3
    <3>2. PICK i \in DOMAIN ranges : SameRange(ranges[i], factories[f]) /\ ranges[i].name = factories[f].name /\ ranges[i].name \in Factories
      BY <2>4, <3>1 DEF HoldersRegistered, Holding
    <3>3. InRange(v, ranges[i])
      BY <2>4, <3>2 DEF InRange, SameRange
    <3>4. {j \in DOMAIN ranges : InRange(v, ranges[j])} = {i}
      BY <2>4, <3>3
    <3>5. find_by_value(v) = i
      BY <3>4, FirstOfOne DEF find_by_value
    <3>6. i # NoIndex /\ ranges[i].name # "__hash_table__"
      BY <3>2, TablesAssumption DEF NoIndex, TablesTyped, TablesAssumption
    <3> QED
      BY <3>2, <3>5, <3>6 DEF copy_string
  <2> QED
    BY <2>1, <2>2, <2>3, <2>4 DEF TokensNamed
<1> QED
  BY <1>1, TablesInvInit, TablesInvStep, PTL DEF TablesSpec

-----------------------------------------------------------------------------
(* Pointers.  What is left of a call says which counts its pointer has: of *)
(* the block it refers to (the old one) and of the one it will refer to.   *)

What(t) == IF t = <<>> THEN "idle" ELSE Head(t).what
Goal(t) == t[Len(t)].b

SharedOld(t) ==
    \/ What(t) \in {"idle", "shared-"}
    \/ What(t) = "weak+" /\ Len(t) \in {1, 4}
    \/ What(t) = "shared+" /\ Len(t) = 5
SharedNew(t) ==
    \/ What(t) \in {"shared-", "destruct", "weak-", "free", "set"}
    \/ What(t) = "weak+" /\ Len(t) \in {2, 4}
WeakOld(t) ==
    \/ What(t) \in {"idle", "shared-", "destruct", "weak-"}
    \/ What(t) = "weak+" /\ Len(t) \in {3, 4}
    \/ What(t) = "shared+" /\ Len(t) = 5
WeakNew(t) == What(t) \in {"shared-", "destruct", "weak-", "free", "set"}
UniqueOld(t) == What(t) \in {"idle", "destruct", "free"}
UniqueNew(t) == What(t) \in {"destruct", "free", "set"}

Slot == {"old", "new"}
Slots(hasOld, hasNew) == {s \in Slot : (s = "old" /\ hasOld) \/ (s = "new" /\ hasNew)}

\* What a pointer p with the steps t left, that refers to d, has of block x.
Standing(p, t, d, x) ==
    [shared |-> Slots(p \in SharedPtrs /\ SharedOld(t) /\ d = x, p \in SharedPtrs /\ SharedNew(t) /\ Goal(t) = x),
     weak   |-> Slots(p \in Counted /\ WeakOld(t) /\ d = x, p \in Counted /\ WeakNew(t) /\ Goal(t) = x),
     unique |-> Slots(p \in UniquePtrs /\ UniqueOld(t) /\ d = x, p \in UniquePtrs /\ UniqueNew(t) /\ Goal(t) = x),
     work   |-> IF d = x /\ (What(t) = "free" \/ (What(t) = "destruct" /\ p \in SharedPtrs)) THEN What(t) ELSE "none"]

\* All that the pointers have of block x.
Account(dt, td, x) == [p \in AllPtrs |-> Standing(p, td[p], dt[p], x)]

Units(F) == {u \in AllPtrs \X Slot : u[2] \in F[u[1]]}
SharedUnits(f) == Units([p \in AllPtrs |-> f[p].shared])
WeakUnits(f) == Units([p \in AllPtrs |-> f[p].weak])

\* At most one pointer is about to do the work, and then no unit is left.
Worked(f, w, units) ==
    /\ \A p, q \in AllPtrs : f[p].work = w /\ f[q].work = w => p = q
    /\ \A p \in AllPtrs : f[p].work = w => units = {}
Working(f, w) == \E p \in AllPtrs : f[p].work = w

\* A block of shared_ptrs and weak_ptrs.
CountedBlock(f, r) ==
    /\ \A p \in AllPtrs : f[p].unique = {}
    /\ r.shared = Cardinality(SharedUnits(f)) /\ r.weak = Cardinality(WeakUnits(f))
    /\ Worked(f, "destruct", SharedUnits(f)) /\ r.lives = (SharedUnits(f) # {} \/ Working(f, "destruct"))
    /\ Worked(f, "free", WeakUnits(f)) /\ r.allocated = (WeakUnits(f) # {} \/ Working(f, "free"))

\* A block of a unique_ptr.
UniqueBlock(f, r) ==
    /\ \A p \in AllPtrs : f[p].shared = {} /\ f[p].weak = {} /\ (p \in Counted => f[p].work = "none")
    /\ \A p, q \in AllPtrs : \A s \in f[p].unique, z \in f[q].unique : p = q /\ s = z
    /\ r.allocated = (\E p \in AllPtrs : f[p].unique # {})
    /\ r.lives = (\E p \in AllPtrs : f[p].unique # {} /\ ("old" \in f[p].unique => f[p].work # "free"))

\* The steps that can be left: b is what the pointer refers to, c what it will
\* refer to.  A copy is constructed ...
CopyBoth(b) == <<Do("shared+", b), Do("weak+", b)>>
CopyWeak(b) == <<Do("weak+", b)>>
\* ... or assigned: c is counted, and b is let go.
TakeBoth(b, c) == <<Do("shared+", c), Do("weak+", c), Do("shared-", b), Do("weak-", b), Do("set", c)>>
TakeWeak(b, c) == <<Do("weak+", c), Do("shared-", b), Do("weak-", b), Do("set", c)>>
TakeOther(b, c) == <<Do("weak+", c), Do("weak-", b), Do("set", c)>>
GiveBoth(b, c) == <<Do("shared-", b), Do("weak-", b), Do("set", c)>>
GiveValue(b, c) == <<Do("destruct", b), Do("weak-", b), Do("set", c)>>
GiveWeak(b, c) == <<Do("weak-", b), Do("set", c)>>
GiveBlock(b, c) == <<Do("free", b), Do("set", c)>>
GiveUnique(b, c) == <<Do("destruct", b), Do("free", b), Do("set", c)>>
SetTo(c) == <<Do("set", c)>>
\* There is nothing to let go.
FillBoth(c) == <<Do("shared+", c), Do("weak+", c), Do("set", c)>>
FillWeak(c) == <<Do("weak+", c), Do("set", c)>>
\* weak_ptr::lock.
LockLoad(c) == <<Do("load", c), Do("weak+", c), Do("set", c)>>
LockCas(c, k) == <<[Do("cas", c) EXCEPT !.n = k], Do("weak+", c), Do("set", c)>>

SharedShape(t, b, c) ==
    \/ b # NoBlock /\ t \in {CopyBoth(b), CopyWeak(b), GiveBoth(b, c), GiveValue(b, c)}
    \/ b # NoBlock /\ c # NoBlock /\ t \in {TakeBoth(b, c), TakeWeak(b, c)}
    \/ b = NoBlock /\ c # NoBlock /\ t \in {FillBoth(c), LockLoad(c)} \cup {LockCas(c, k) : k \in Int}

WeakShape(t, b, c) == b # NoBlock /\ (t = CopyWeak(b) \/ (c # NoBlock /\ t = TakeOther(b, c)))

CountedShape(t, b, c) ==
    \/ b = NoBlock /\ c # NoBlock /\ t = FillWeak(c)
    \/ b # NoBlock /\ t = GiveWeak(b, c)

AnyShape(t, b, c) == t \in {<<>>, SetTo(c)} \/ (b # NoBlock /\ t = GiveBlock(b, c))

Shape(p, t, b, c) ==
    \/ AnyShape(t, b, c)
    \/ p \in SharedPtrs /\ SharedShape(t, b, c)
    \/ p \in WeakPtrs /\ WeakShape(t, b, c)
    \/ p \in Counted /\ CountedShape(t, b, c)
    \/ p \in UniquePtrs /\ b # NoBlock /\ t = GiveUnique(b, c)

\* A call that counts a block reads a pointer that has it, and rests or is its own.
Increases == {"shared+", "weak+", "load", "cas"}
Long(t) == Len(t) > 2
Read(p, dt, td, rd) ==
    What(td[p]) \in Increases =>
       /\ rd[p] \in Counted /\ dt[rd[p]] = Head(td[p]).b
       /\ What(td[p]) = "shared+" => rd[p] \in SharedPtrs
       /\ IF rd[p] = p THEN Long(td[p]) ELSE td[rd[p]] = <<>>

\* What the steps do to a block.
SharedBy(r, n) == [r EXCEPT !.shared = @ + n]
CountedBy(r, n) == [r EXCEPT !.weak = @ + n]
Destructed(r) == [r EXCEPT !.lives = FALSE]
Freed(r) == [r EXCEPT !.allocated = FALSE]

BlockRecord == [shared : Int, weak : Int, lives : BOOLEAN, allocated : BOOLEAN]

PointersTyped ==
    /\ data \in [AllPtrs -> Nat] /\ reading \in [AllPtrs -> AllPtrs \cup {NoPtr}]
    /\ todo = [p \in AllPtrs |-> todo[p]] /\ block \in Seq(BlockRecord)
    /\ \A p \in AllPtrs : data[p] \in 0 .. Len(block)

Shaped == \A p \in AllPtrs : \E c \in 0 .. Len(block) : Shape(p, todo[p], data[p], c)
AllRead == \A p \in AllPtrs : Read(p, data, todo, reading)
BlockKept(f, r) == CountedBlock(f, r) \/ UniqueBlock(f, r)
BlocksKept == \A x \in DOMAIN block : BlockKept(Account(data, todo, x), block[x])

PointersInv ==
    ~uniqueReset => PointersTyped /\ ~touched /\ Shaped /\ AllRead /\ BlocksKept

\* What the pointers have of block x, when what is left of the call on p is u.
Stepped(p, u, x) == Account(data, [todo EXCEPT ![p] = u], x)

\* Concatenation of lists given by their elements.
LEMMA Listed ==
  ASSUME NEW S, NEW s \in Seq(S), NEW u \in Seq(S), NEW t \in Seq(S), Len(t) = Len(s) + Len(u),
         \A i \in 1 .. Len(t) : t[i] = IF i <= Len(s) THEN s[i] ELSE u[i - Len(s)]
  PROVE  s \o u = t
<1>1. /\ s \o u \in Seq(S) /\ Len(s \o u) = Len(s) + Len(u)
      /\ \A i \in 1 .. Len(s) + Len(u) : (s \o u)[i] = IF i <= Len(s) THEN s[i] ELSE u[i - Len(s)]
  BY ConcatProperties
<1>2. Len(s \o u) = Len(t) /\ \A i \in 1 .. Len(t) : (s \o u)[i] = t[i]
  BY <1>1
<1> QED
  BY <1>1, <1>2, SeqEqual, Zenon

\* The steps that count both and let go of both ...
LEMMA TwoAndTwo ==
  ASSUME NEW a, NEW b, NEW c, NEW d
  PROVE  <<a, b>> \o <<c, d>> = <<a, b, c, d>>
<1> DEFINE S == {a, b, c, d}
           s == <<a, b>>
           u == <<c, d>>
           t == <<a, b, c, d>>
<1>1. s \in Seq(S) /\ u \in Seq(S) /\ t \in Seq(S)
  OBVIOUS
<1>2. Len(t) = Len(s) + Len(u)
  OBVIOUS
<1>3. \A i \in 1 .. Len(t) : t[i] = IF i <= Len(s) THEN s[i] ELSE u[i - Len(s)]
  OBVIOUS
<1> HIDE DEF s, u, t, S
<1>4. s \o u = t
  BY <1>1, <1>2, <1>3, Listed
<1> QED
  BY <1>4 DEF s, u, t

\* ... and then assign.
LEMMA FourAndOne ==
  ASSUME NEW a, NEW b, NEW c, NEW d, NEW e
  PROVE  <<a, b, c, d>> \o <<e>> = <<a, b, c, d, e>>
<1> DEFINE S == {a, b, c, d, e}
           s == <<a, b, c, d>>
           u == <<e>>
           t == <<a, b, c, d, e>>
<1>1. s \in Seq(S) /\ u \in Seq(S) /\ t \in Seq(S)
  OBVIOUS
<1>2. Len(t) = Len(s) + Len(u)
  OBVIOUS
<1>3. \A i \in 1 .. Len(t) : t[i] = IF i <= Len(s) THEN s[i] ELSE u[i - Len(s)]
  OBVIOUS
<1> HIDE DEF s, u, t, S
<1>4. s \o u = t
  BY <1>1, <1>2, <1>3, Listed
<1> QED
  BY <1>4 DEF s, u, t

\* The other lists that calls put together.
LEMMA Lists ==
  ASSUME NEW a, NEW b, NEW c
  PROVE  /\ <<a>> \o <<b>> = <<a, b>> /\ <<a>> \o <<b, c>> = <<a, b, c>> /\ <<a, b>> \o <<c>> = <<a, b, c>>
         /\ <<>> \o <<a>> = <<a>> /\ <<>> \o <<a, b>> = <<a, b>>
         /\ <<a>> \o <<>> = <<a>> /\ <<a, b>> \o <<>> = <<a, b>> /\ <<>> \o <<>> = <<>>
<1> DEFINE S == {a, b, c}
<1>1. /\ <<a>> \in Seq(S) /\ <<b>> \in Seq(S) /\ <<c>> \in Seq(S) /\ <<a, b>> \in Seq(S) /\ <<b, c>> \in Seq(S)
  OBVIOUS
<1>2. <<a, b, c>> \in Seq(S)
  OBVIOUS
<1> HIDE DEF S
<1>4. <<a>> \o <<b>> = <<a, b>>
  <2> DEFINE s == <<a>>
             u == <<b>>
             t == <<a, b>>
  <2>1. s \in Seq(S) /\ u \in Seq(S) /\ t \in Seq(S)
    BY <1>1, <1>2
  <2>2. Len(t) = Len(s) + Len(u)
    OBVIOUS
  <2>3. \A i \in 1 .. Len(t) : t[i] = IF i <= Len(s) THEN s[i] ELSE u[i - Len(s)]
    OBVIOUS
  <2> HIDE DEF s, u, t
  <2>4. s \o u = t
    BY <2>1, <2>2, <2>3, Listed
  <2> QED
    BY <2>4 DEF s, u, t
<1>5. <<a>> \o <<b, c>> = <<a, b, c>>
  <2> DEFINE s == <<a>>
             u == <<b, c>>
             t == <<a, b, c>>
  <2>1. s \in Seq(S) /\ u \in Seq(S) /\ t \in Seq(S)
    BY <1>1, <1>2
  <2>2. Len(t) = Len(s) + Len(u)
    OBVIOUS
  <2>3. \A i \in 1 .. Len(t) : t[i] = IF i <= Len(s) THEN s[i] ELSE u[i - Len(s)]
    OBVIOUS
  <2> HIDE DEF s, u, t
  <2>4. s \o u = t
    BY <2>1, <2>2, <2>3, Listed
  <2> QED
    BY <2>4 DEF s, u, t
<1>6. <<a, b>> \o <<c>> = <<a, b, c>>
  <2> DEFINE s == <<a, b>>
             u == <<c>>
             t == <<a, b, c>>
  <2>1. s \in Seq(S) /\ u \in Seq(S) /\ t \in Seq(S)
    BY <1>1, <1>2
  <2>2. Len(t) = Len(s) + Len(u)
    OBVIOUS
  <2>3. \A i \in 1 .. Len(t) : t[i] = IF i <= Len(s) THEN s[i] ELSE u[i - Len(s)]
    OBVIOUS
  <2> HIDE DEF s, u, t
  <2>4. s \o u = t
    BY <2>1, <2>2, <2>3, Listed
  <2> QED
    BY <2>4 DEF s, u, t
<1>9. /\ <<>> \o <<a>> = <<a>> /\ <<>> \o <<a, b>> = <<a, b>>
      /\ <<a>> \o <<>> = <<a>> /\ <<a, b>> \o <<>> = <<a, b>> /\ <<>> \o <<>> = <<>>
  OBVIOUS
<1> QED
  BY <1>4, <1>5, <1>6, <1>9

\* The length of a list of steps, the block it ends with, and its first step.
Begins(t, what, n, b, c, rest) ==
    /\ t # <<>> /\ What(t) = what /\ Head(t).what = what /\ Len(t) = n
    /\ Head(t).b = b /\ Goal(t) = c /\ Tail(t) = rest

\* What is done first of each list of steps, and what is left then.
Firsts(b, c) ==
    /\ Begins(CopyBoth(b), "shared+", 2, b, b, CopyWeak(b))
    /\ Begins(CopyWeak(b), "weak+", 1, b, b, <<>>)
    /\ Begins(TakeBoth(b, c), "shared+", 5, c, c, TakeWeak(b, c))
    /\ Begins(TakeWeak(b, c), "weak+", 4, c, c, GiveBoth(b, c))
    /\ Begins(TakeOther(b, c), "weak+", 3, c, c, GiveWeak(b, c))
    /\ Begins(GiveBoth(b, c), "shared-", 3, b, c, GiveWeak(b, c))
    /\ Begins(GiveValue(b, c), "destruct", 3, b, c, GiveWeak(b, c))
    /\ Begins(GiveWeak(b, c), "weak-", 2, b, c, SetTo(c))
    /\ Begins(GiveBlock(b, c), "free", 2, b, c, SetTo(c))
    /\ Begins(GiveUnique(b, c), "destruct", 3, b, c, GiveBlock(b, c))
    /\ Begins(SetTo(c), "set", 1, c, c, <<>>)
    /\ Begins(FillBoth(c), "shared+", 3, c, c, FillWeak(c))
    /\ Begins(FillWeak(c), "weak+", 2, c, c, SetTo(c))
    /\ Begins(LockLoad(c), "load", 3, c, c, FillWeak(c))
    /\ \A k : Begins(LockCas(c, k), "cas", 3, c, c, FillWeak(c)) /\ Head(LockCas(c, k)).n = k
    /\ What(<<>>) = "idle"

\* The lists are as they are written.
LEMMA FirstSteps ==
  ASSUME NEW b, NEW c
  PROVE  Firsts(b, c)
<1>1. Begins(CopyBoth(b), "shared+", 2, b, b, CopyWeak(b))
  <2>1. Tail(CopyBoth(b)) = CopyWeak(b)
    BY DEF CopyBoth, CopyWeak
  <2> QED
    BY <2>1 DEF Begins, What, Goal, Do, CopyBoth
<1>2. Begins(CopyWeak(b), "weak+", 1, b, b, <<>>)
  <2>1. Tail(CopyWeak(b)) = <<>>
    BY DEF CopyWeak
  <2> QED
    BY <2>1 DEF Begins, What, Goal, Do, CopyWeak
<1>3. Begins(TakeBoth(b, c), "shared+", 5, c, c, TakeWeak(b, c))
  <2>1. Tail(TakeBoth(b, c)) = TakeWeak(b, c)
    BY DEF TakeBoth, TakeWeak
  <2> QED
    BY <2>1 DEF Begins, What, Goal, Do, TakeBoth
<1>4. Begins(TakeWeak(b, c), "weak+", 4, c, c, GiveBoth(b, c))
  <2>1. Tail(TakeWeak(b, c)) = GiveBoth(b, c)
    BY DEF TakeWeak, GiveBoth
  <2> QED
    BY <2>1 DEF Begins, What, Goal, Do, TakeWeak
<1>5. Begins(TakeOther(b, c), "weak+", 3, c, c, GiveWeak(b, c))
  <2>1. Tail(TakeOther(b, c)) = GiveWeak(b, c)
    BY DEF TakeOther, GiveWeak
  <2> QED
    BY <2>1 DEF Begins, What, Goal, Do, TakeOther
<1>6. Begins(GiveBoth(b, c), "shared-", 3, b, c, GiveWeak(b, c))
  <2>1. Tail(GiveBoth(b, c)) = GiveWeak(b, c)
    BY DEF GiveBoth, GiveWeak
  <2> QED
    BY <2>1 DEF Begins, What, Goal, Do, GiveBoth
<1>7. Begins(GiveValue(b, c), "destruct", 3, b, c, GiveWeak(b, c))
  <2>1. Tail(GiveValue(b, c)) = GiveWeak(b, c)
    BY DEF GiveValue, GiveWeak
  <2> QED
    BY <2>1 DEF Begins, What, Goal, Do, GiveValue
<1>8. Begins(GiveWeak(b, c), "weak-", 2, b, c, SetTo(c))
  <2>1. Tail(GiveWeak(b, c)) = SetTo(c)
    BY DEF GiveWeak, SetTo
  <2> QED
    BY <2>1 DEF Begins, What, Goal, Do, GiveWeak
<1>9. Begins(GiveBlock(b, c), "free", 2, b, c, SetTo(c))
  <2>1. Tail(GiveBlock(b, c)) = SetTo(c)
    BY DEF GiveBlock, SetTo
  <2> QED
    BY <2>1 DEF Begins, What, Goal, Do, GiveBlock
<1>10. Begins(GiveUnique(b, c), "destruct", 3, b, c, GiveBlock(b, c))
  <2>1. Tail(GiveUnique(b, c)) = GiveBlock(b, c)
    BY DEF GiveUnique, GiveBlock
  <2> QED
    BY <2>1 DEF Begins, What, Goal, Do, GiveUnique
<1>11. Begins(SetTo(c), "set", 1, c, c, <<>>)
  <2>1. Tail(SetTo(c)) = <<>>
    BY DEF SetTo
  <2> QED
    BY <2>1 DEF Begins, What, Goal, Do, SetTo
<1>12. Begins(FillBoth(c), "shared+", 3, c, c, FillWeak(c))
  <2>1. Tail(FillBoth(c)) = FillWeak(c)
    BY DEF FillBoth, FillWeak
  <2> QED
    BY <2>1 DEF Begins, What, Goal, Do, FillBoth
<1>13. Begins(FillWeak(c), "weak+", 2, c, c, SetTo(c))
  <2>1. Tail(FillWeak(c)) = SetTo(c)
    BY DEF FillWeak, SetTo
  <2> QED
    BY <2>1 DEF Begins, What, Goal, Do, FillWeak
<1>14. Begins(LockLoad(c), "load", 3, c, c, FillWeak(c))
  <2>1. Tail(LockLoad(c)) = FillWeak(c)
    BY DEF LockLoad, FillWeak
  <2> QED
    BY <2>1 DEF Begins, What, Goal, Do, LockLoad
<1>15. ASSUME NEW k PROVE Begins(LockCas(c, k), "cas", 3, c, c, FillWeak(c)) /\ Head(LockCas(c, k)).n = k
  <2>1. Tail(LockCas(c, k)) = FillWeak(c)
    BY DEF LockCas, FillWeak
  <2> QED
    BY <2>1 DEF Begins, What, Goal, Do, LockCas
<1>16. What(<<>>) = "idle"
  BY DEF What
<1> QED
  BY <1>1, <1>2, <1>3, <1>4, <1>5, <1>6, <1>7, <1>8, <1>9, <1>10, <1>11, <1>12, <1>13, <1>14, <1>15, <1>16 DEF Firsts

\* The units of a block can be counted.
LEMMA UnitsFinite ==
  ASSUME NEW F
  PROVE  /\ IsFiniteSet(Units(F)) /\ Cardinality(Units(F)) \in Nat
         /\ Cardinality(Units(F)) = 0 <=> Units(F) = {}
<1>1. IsFiniteSet(Slot)
  <2>1. IsFiniteSet({"old"})
    BY FS_Singleton
  <2>2. IsFiniteSet({"old"} \cup {"new"})
    BY <2>1, FS_AddElement
  <2>3. Slot = {"old"} \cup {"new"}
    BY DEF Slot
  <2> QED
    BY <2>2, <2>3
<1>2. IsFiniteSet(AllPtrs \X Slot)
  BY <1>1, PointersAssumption, FS_Product
<1>3. IsFiniteSet(Units(F))
  BY <1>2, FS_Subset DEF Units
<1> QED
  BY <1>3, FS_CardinalityType, FS_EmptySet

\* A unit more, of pointer p.
LEMMA UnitAdded ==
  ASSUME NEW F, NEW G, NEW p \in AllPtrs, NEW s \in Slot, s \notin F[p], G[p] = F[p] \cup {s},
         \A q \in AllPtrs : q # p => G[q] = F[q]
  PROVE  Cardinality(Units(G)) = Cardinality(Units(F)) + 1 /\ Units(G) # {}
<1>1. Units(G) = Units(F) \cup {<<p, s>>} /\ <<p, s>> \notin Units(F)
  BY DEF Units
<1> HIDE DEF Units
<1> QED
  BY <1>1, UnitsFinite, FS_AddElement

\* A unit less.
LEMMA UnitRemoved ==
  ASSUME NEW F, NEW G, NEW p \in AllPtrs, NEW s \in Slot, s \in F[p], G[p] = F[p] \ {s},
         \A q \in AllPtrs : q # p => G[q] = F[q]
  PROVE  Cardinality(Units(G)) = Cardinality(Units(F)) - 1 /\ Units(F) # {}
<1>1. Units(G) = Units(F) \ {<<p, s>>} /\ <<p, s>> \in Units(F)
  BY DEF Units
<1> HIDE DEF Units
<1> QED
  BY <1>1, UnitsFinite, FS_RemoveElement, ZenonT(40)

\* A unit of q, in slot z, becomes one of p, in slot s.
Shifted(F, G, p, s, q, z) ==
    /\ z \in F[q] /\ s \notin F[p] /\ <<p, s>> # <<q, z>>
    /\ \A a \in AllPtrs, y \in Slot : y \in G[a] <=> (y \in F[a] /\ <<a, y>> # <<q, z>>) \/ <<a, y>> = <<p, s>>

\* The pointers may be the same.
LEMMA UnitMoved ==
  ASSUME NEW F, NEW G, NEW p \in AllPtrs, NEW s \in Slot, NEW q \in AllPtrs, NEW z \in Slot,
         Shifted(F, G, p, s, q, z)
  PROVE  Cardinality(Units(G)) = Cardinality(Units(F)) /\ Units(F) # {} /\ Units(G) # {}
<1> DEFINE U == Units(F) \ {<<q, z>>}
<1>1. <<q, z>> \in Units(F) /\ <<p, s>> \notin U
  BY DEF Units, Shifted
<1>2. Units(G) = U \cup {<<p, s>>}
  BY DEF Units, Shifted
<1>3. IsFiniteSet(U) /\ Cardinality(U) = Cardinality(Units(F)) - 1
  BY <1>1, UnitsFinite, FS_RemoveElement
<1>4. Cardinality(Units(F)) \in Nat
  BY UnitsFinite
<1> HIDE DEF U, Units
<1>5. Cardinality(U \cup {<<p, s>>}) = Cardinality(U) + 1
  BY <1>1, <1>3, FS_AddElement
<1> QED
  BY <1>1, <1>2, <1>3, <1>4, <1>5

\* What a pointer has, part by part.
Has(st, shared, weak, unique, work) == st.shared = shared /\ st.weak = weak /\ st.unique = unique /\ st.work = work

\* shared_ptr counts a block that others share.
LEMMA SharedMore ==
  ASSUME NEW f, NEW g, NEW r \in BlockRecord, NEW p \in AllPtrs, NEW s \in Slot, BlockKept(f, r),
         SharedUnits(f) # {}, s \notin f[p].shared,
         Has(g[p], f[p].shared \cup {s}, f[p].weak, f[p].unique, f[p].work), \A q \in AllPtrs : q # p => g[q] = f[q]
  PROVE  BlockKept(g, SharedBy(r, 1))
<1>1. CountedBlock(f, r)
  BY DEF BlockKept, UniqueBlock, SharedUnits, Units
<1>2. Cardinality(SharedUnits(g)) = Cardinality(SharedUnits(f)) + 1 /\ SharedUnits(g) # {}
  <2> DEFINE F == [q \in AllPtrs |-> f[q].shared]
             G == [q \in AllPtrs |-> g[q].shared]
  <2>1. s \notin F[p] /\ G[p] = F[p] \cup {s} /\ \A q \in AllPtrs : q # p => G[q] = F[q]
    BY DEF Has
  <2> HIDE DEF F, G
  <2>2. Cardinality(Units(G)) = Cardinality(Units(F)) + 1 /\ Units(G) # {}
    BY <2>1, UnitAdded, SMTT(30)
  <2> QED
    BY <2>2 DEF SharedUnits, F, G
<1>3. \A q \in AllPtrs : g[q].weak = f[q].weak /\ g[q].unique = f[q].unique /\ g[q].work = f[q].work
  BY DEF Has
<1>4. WeakUnits(g) = WeakUnits(f)
  BY <1>3 DEF WeakUnits
<1>5. \A q \in AllPtrs : f[q].work # "destruct"
  BY <1>1 DEF CountedBlock, Worked
<1> QED
  BY <1>1, <1>2, <1>3, <1>4, <1>5 DEF BlockKept, CountedBlock, Worked, Working, BlockRecord, SharedBy

\* A block that is counted is counted once more.
LEMMA WeakMore ==
  ASSUME NEW f, NEW g, NEW r \in BlockRecord, NEW p \in AllPtrs, NEW s \in Slot, BlockKept(f, r),
         WeakUnits(f) # {}, s \notin f[p].weak,
         Has(g[p], f[p].shared, f[p].weak \cup {s}, f[p].unique, f[p].work), \A q \in AllPtrs : q # p => g[q] = f[q]
  PROVE  BlockKept(g, CountedBy(r, 1))
<1>1. CountedBlock(f, r)
  BY DEF BlockKept, UniqueBlock, WeakUnits, Units
<1>2. Cardinality(WeakUnits(g)) = Cardinality(WeakUnits(f)) + 1 /\ WeakUnits(g) # {}
  <2> DEFINE F == [q \in AllPtrs |-> f[q].weak]
             G == [q \in AllPtrs |-> g[q].weak]
  <2>1. s \notin F[p] /\ G[p] = F[p] \cup {s} /\ \A q \in AllPtrs : q # p => G[q] = F[q]
    BY DEF Has
  <2> HIDE DEF F, G
  <2>2. Cardinality(Units(G)) = Cardinality(Units(F)) + 1 /\ Units(G) # {}
    BY <2>1, UnitAdded
  <2> QED
    BY <2>2 DEF WeakUnits, F, G
<1>3. \A q \in AllPtrs : g[q].shared = f[q].shared /\ g[q].unique = f[q].unique /\ g[q].work = f[q].work
  BY DEF Has
<1>4. SharedUnits(g) = SharedUnits(f)
  BY <1>3 DEF SharedUnits
<1>5. \A q \in AllPtrs : f[q].work # "free"
  BY <1>1 DEF CountedBlock, Worked
<1> QED
  BY <1>1, <1>2, <1>3, <1>4, <1>5 DEF BlockKept, CountedBlock, Worked, Working, BlockRecord, CountedBy

\* The last to share the value will destruct it, and nobody else will.
LEMMA SharedLess ==
  ASSUME NEW f, NEW g, NEW r \in BlockRecord, NEW p \in AllPtrs, BlockKept(f, r),
         "old" \in f[p].shared, f[p].work = "none", \A q \in AllPtrs : q # p => g[q] = f[q],
         Has(g[p], f[p].shared \ {"old"}, f[p].weak, f[p].unique, IF r.shared = 1 THEN "destruct" ELSE "none")
  PROVE  BlockKept(g, SharedBy(r, -1))
<1>1. CountedBlock(f, r)
  BY DEF BlockKept, UniqueBlock
<1>2. /\ Cardinality(SharedUnits(g)) = Cardinality(SharedUnits(f)) - 1 /\ SharedUnits(f) # {}
      /\ Cardinality(SharedUnits(g)) \in Nat /\ (Cardinality(SharedUnits(g)) = 0 <=> SharedUnits(g) = {})
      /\ Cardinality(SharedUnits(f)) \in Nat
  <2> DEFINE F == [q \in AllPtrs |-> f[q].shared]
             G == [q \in AllPtrs |-> g[q].shared]
  <2>1. "old" \in F[p] /\ G[p] = F[p] \ {"old"} /\ \A q \in AllPtrs : q # p => G[q] = F[q]
    BY DEF Has
  <2>2. "old" \in Slot
    BY DEF Slot
  <2> HIDE DEF F, G
  <2>3. Cardinality(Units(G)) = Cardinality(Units(F)) - 1 /\ Units(F) # {}
    BY <2>1, <2>2, UnitRemoved
  <2> QED
    BY <2>3, UnitsFinite DEF SharedUnits, F, G
<1>3. \A q \in AllPtrs : g[q].weak = f[q].weak /\ g[q].unique = f[q].unique /\ (q # p => g[q].work = f[q].work)
  BY DEF Has
<1>4. WeakUnits(g) = WeakUnits(f)
  BY <1>3 DEF WeakUnits
<1>5. \A q \in AllPtrs : f[q].work # "destruct"
  BY <1>1, <1>2 DEF CountedBlock, Worked
<1>6. g[p].work = IF r.shared = 1 THEN "destruct" ELSE "none"
  BY DEF Has
<1>7. /\ r.shared = Cardinality(SharedUnits(f))
      /\ \A q, z \in AllPtrs : f[q].work = "free" /\ f[z].work = "free" => q = z
      /\ \A q \in AllPtrs : f[q].work = "free" => WeakUnits(f) = {}
  BY <1>1 DEF CountedBlock, Worked
<1>8. Worked(g, "destruct", SharedUnits(g))
  BY <1>2, <1>3, <1>5, <1>6, <1>7 DEF Worked
<1>9. Worked(g, "free", WeakUnits(g))
  BY <1>3, <1>4, <1>6, <1>7 DEF Worked
<1>10. SharedUnits(g) # {} \/ Working(g, "destruct")
  BY <1>2, <1>6, <1>7 DEF Working
<1>11. Working(g, "free") <=> Working(f, "free")
  BY <1>3, <1>6 DEF Working
<1>12. SharedUnits(f) # {} \/ Working(f, "destruct")
  BY <1>2
<1> QED
  BY <1>1, <1>2, <1>3, <1>4, <1>8, <1>9, <1>10, <1>11, <1>12 DEF BlockKept, CountedBlock, BlockRecord, SharedBy

\* The last to count the block will free it, and nobody else will.
LEMMA WeakLess ==
  ASSUME NEW f, NEW g, NEW r \in BlockRecord, NEW p \in AllPtrs, BlockKept(f, r),
         "old" \in f[p].weak, f[p].work = "none", \A q \in AllPtrs : q # p => g[q] = f[q],
         Has(g[p], f[p].shared, f[p].weak \ {"old"}, f[p].unique, IF r.weak = 1 THEN "free" ELSE "none")
  PROVE  BlockKept(g, CountedBy(r, -1))
<1>1. CountedBlock(f, r)
  BY DEF BlockKept, UniqueBlock
<1>2. /\ Cardinality(WeakUnits(g)) = Cardinality(WeakUnits(f)) - 1 /\ WeakUnits(f) # {}
      /\ Cardinality(WeakUnits(g)) \in Nat /\ (Cardinality(WeakUnits(g)) = 0 <=> WeakUnits(g) = {})
      /\ Cardinality(WeakUnits(f)) \in Nat
  <2> DEFINE F == [q \in AllPtrs |-> f[q].weak]
             G == [q \in AllPtrs |-> g[q].weak]
  <2>1. "old" \in F[p] /\ G[p] = F[p] \ {"old"} /\ \A q \in AllPtrs : q # p => G[q] = F[q]
    BY DEF Has
  <2>2. "old" \in Slot
    BY DEF Slot
  <2> HIDE DEF F, G
  <2>3. Cardinality(Units(G)) = Cardinality(Units(F)) - 1 /\ Units(F) # {}
    BY <2>1, <2>2, UnitRemoved
  <2> QED
    BY <2>3, UnitsFinite DEF WeakUnits, F, G
<1>3. \A q \in AllPtrs : g[q].shared = f[q].shared /\ g[q].unique = f[q].unique /\ (q # p => g[q].work = f[q].work)
  BY DEF Has
<1>4. SharedUnits(g) = SharedUnits(f)
  BY <1>3 DEF SharedUnits
<1>5. \A q \in AllPtrs : f[q].work # "free"
  BY <1>1, <1>2 DEF CountedBlock, Worked
<1>6. g[p].work = IF r.weak = 1 THEN "free" ELSE "none"
  BY DEF Has
<1>7. /\ r.weak = Cardinality(WeakUnits(f))
      /\ \A q, z \in AllPtrs : f[q].work = "destruct" /\ f[z].work = "destruct" => q = z
      /\ \A q \in AllPtrs : f[q].work = "destruct" => SharedUnits(f) = {}
  BY <1>1 DEF CountedBlock, Worked
<1>8. Worked(g, "free", WeakUnits(g))
  BY <1>2, <1>3, <1>5, <1>6, <1>7 DEF Worked
<1>9. Worked(g, "destruct", SharedUnits(g))
  BY <1>3, <1>4, <1>6, <1>7 DEF Worked
<1>10. WeakUnits(g) # {} \/ Working(g, "free")
  BY <1>2, <1>6, <1>7 DEF Working
<1>11. Working(g, "destruct") <=> Working(f, "destruct")
  BY <1>3, <1>6 DEF Working
<1>12. WeakUnits(f) # {} \/ Working(f, "free")
  BY <1>2
<1> QED
  BY <1>1, <1>2, <1>3, <1>4, <1>8, <1>9, <1>10, <1>11, <1>12 DEF BlockKept, CountedBlock, BlockRecord, CountedBy

\* The value is destructed by the one that found nobody to share it.
LEMMA ValueDestructed ==
  ASSUME NEW f, NEW g, NEW r \in BlockRecord, NEW p \in AllPtrs, BlockKept(f, r),
         "old" \in f[p].weak, f[p].work = "destruct", \A q \in AllPtrs : q # p => g[q] = f[q],
         Has(g[p], f[p].shared, f[p].weak, f[p].unique, "none")
  PROVE  BlockKept(g, Destructed(r)) /\ r.lives
<1>1. CountedBlock(f, r)
  BY DEF BlockKept, UniqueBlock
<1>2. \A q \in AllPtrs : g[q].shared = f[q].shared /\ g[q].weak = f[q].weak /\ g[q].unique = f[q].unique
  BY DEF Has
<1>3. SharedUnits(g) = SharedUnits(f) /\ WeakUnits(g) = WeakUnits(f)
  BY <1>2 DEF SharedUnits, WeakUnits
<1>4. g[p].work = "none"
  BY DEF Has
<1>5. SharedUnits(f) = {} /\ \A q \in AllPtrs : g[q].work # "destruct"
  BY <1>1, <1>4 DEF CountedBlock, Worked
<1>6. Working(f, "destruct") /\ (Working(g, "free") <=> Working(f, "free"))
  BY <1>4 DEF Working
<1>7. Worked(g, "destruct", SharedUnits(g)) /\ ~Working(g, "destruct")
  BY <1>5 DEF Worked, Working
<1>8. Worked(g, "free", WeakUnits(g))
  BY <1>1, <1>3, <1>4 DEF CountedBlock, Worked
<1> QED
  BY <1>1, <1>2, <1>3, <1>5, <1>6, <1>7, <1>8 DEF BlockKept, CountedBlock, BlockRecord, Destructed

\* The block is freed by the one that found nobody to count it.
LEMMA BlockFreed ==
  ASSUME NEW f, NEW g, NEW r \in BlockRecord, NEW p \in Counted, BlockKept(f, r),
         f[p].work = "free", \A q \in AllPtrs : q # p => g[q] = f[q],
         Has(g[p], f[p].shared, f[p].weak, f[p].unique, "none")
  PROVE  BlockKept(g, Freed(r)) /\ r.allocated
<1>0. p \in AllPtrs
  BY DEF AllPtrs
<1>1. CountedBlock(f, r)
  BY <1>0 DEF BlockKept, UniqueBlock
<1>2. \A q \in AllPtrs : g[q].shared = f[q].shared /\ g[q].weak = f[q].weak /\ g[q].unique = f[q].unique
  BY DEF Has
<1>3. SharedUnits(g) = SharedUnits(f) /\ WeakUnits(g) = WeakUnits(f)
  BY <1>2 DEF SharedUnits, WeakUnits
<1>4. g[p].work = "none"
  BY DEF Has
<1>5. WeakUnits(f) = {} /\ \A q \in AllPtrs : g[q].work # "free"
  BY <1>0, <1>1, <1>4 DEF CountedBlock, Worked
<1>6. Working(f, "free") /\ (Working(g, "destruct") <=> Working(f, "destruct"))
  BY <1>0, <1>4 DEF Working
<1>7. Worked(g, "free", WeakUnits(g)) /\ ~Working(g, "free")
  BY <1>5 DEF Worked, Working
<1>8. Worked(g, "destruct", SharedUnits(g))
  BY <1>1, <1>3, <1>4 DEF CountedBlock, Worked
<1> QED
  BY <1>1, <1>2, <1>3, <1>5, <1>6, <1>7, <1>8 DEF BlockKept, CountedBlock, BlockRecord, Freed

\* unique_ptr destructs the value that it alone has ...
LEMMA UniqueDestructed ==
  ASSUME NEW f, NEW g, NEW r \in BlockRecord, NEW p \in UniquePtrs, BlockKept(f, r),
         "old" \in f[p].unique, f[p].work = "none", \A q \in AllPtrs : q # p => g[q] = f[q],
         Has(g[p], f[p].shared, f[p].weak, f[p].unique, "free")
  PROVE  BlockKept(g, Destructed(r)) /\ r.lives /\ r.allocated
<1>0. p \in AllPtrs /\ p \notin Counted
  BY PointersAssumption DEF AllPtrs
<1>1. UniqueBlock(f, r)
  BY <1>0 DEF BlockKept, CountedBlock
<1>2. /\ \A q \in AllPtrs : g[q].shared = f[q].shared /\ g[q].weak = f[q].weak /\ g[q].unique = f[q].unique
      /\ \A q \in AllPtrs : q # p => g[q].work = f[q].work
      /\ g[p].work = "free"
  BY DEF Has
<1>3. \A q \in AllPtrs : f[q].unique # {} => q = p
  BY <1>0, <1>1 DEF UniqueBlock
<1>4. r.lives /\ r.allocated
  BY <1>0, <1>1 DEF UniqueBlock
<1>5. ~ \E q \in AllPtrs : g[q].unique # {} /\ ("old" \in g[q].unique => g[q].work # "free")
  BY <1>2, <1>3
<1>6. \A q \in AllPtrs : g[q].shared = {} /\ g[q].weak = {} /\ (q \in Counted => g[q].work = "none")
  BY <1>0, <1>1, <1>2 DEF UniqueBlock
<1>7. \A a, q \in AllPtrs : \A s \in g[a].unique, z \in g[q].unique : a = q /\ s = z
  BY <1>1, <1>2 DEF UniqueBlock
<1>8. \E q \in AllPtrs : g[q].unique # {}
  BY <1>0, <1>2
<1> QED
  BY <1>4, <1>5, <1>6, <1>7, <1>8 DEF BlockKept, UniqueBlock, BlockRecord, Destructed

\* ... and frees the block.
LEMMA UniqueFreed ==
  ASSUME NEW f, NEW g, NEW r \in BlockRecord, NEW p \in UniquePtrs, BlockKept(f, r),
         "old" \in f[p].unique, f[p].work = "free", \A q \in AllPtrs : q # p => g[q] = f[q],
         Has(g[p], f[p].shared, f[p].weak, f[p].unique \ {"old"}, "none")
  PROVE  BlockKept(g, Freed(r)) /\ r.allocated
<1>0. p \in AllPtrs /\ p \notin Counted
  BY PointersAssumption DEF AllPtrs
<1>1. UniqueBlock(f, r)
  BY <1>0 DEF BlockKept, CountedBlock
<1>2. /\ \A q \in AllPtrs : g[q].shared = f[q].shared /\ g[q].weak = f[q].weak
      /\ \A q \in AllPtrs : q # p => g[q].work = f[q].work /\ g[q].unique = f[q].unique
      /\ g[p].work = "none" /\ g[p].unique = f[p].unique \ {"old"}
  BY DEF Has
<1>3. \A q \in AllPtrs : g[q].unique = {}
  BY <1>0, <1>1, <1>2 DEF UniqueBlock
<1>4. \A q \in AllPtrs : f[q].unique # {} => q = p
  BY <1>0, <1>1 DEF UniqueBlock
<1>5. r.allocated /\ ~r.lives
  BY <1>0, <1>1, <1>4 DEF UniqueBlock
<1>6. \A q \in AllPtrs : g[q].shared = {} /\ g[q].weak = {} /\ (q \in Counted => g[q].work = "none")
  BY <1>0, <1>1, <1>2 DEF UniqueBlock
<1> QED
  BY <1>3, <1>5, <1>6 DEF BlockKept, UniqueBlock, BlockRecord, Freed

\* Pointer q hands what it has in slot z, if anything, over to slot s of p.
HandedOver(f, g, p, s, q, z) ==
    /\ \/ \A a \in AllPtrs : g[a].shared = f[a].shared
       \/ Shifted([a \in AllPtrs |-> f[a].shared], [a \in AllPtrs |-> g[a].shared], p, s, q, z)
    /\ \/ \A a \in AllPtrs : g[a].weak = f[a].weak
       \/ Shifted([a \in AllPtrs |-> f[a].weak], [a \in AllPtrs |-> g[a].weak], p, s, q, z)
    /\ \/ \A a \in AllPtrs : g[a].unique = f[a].unique
       \/ Shifted([a \in AllPtrs |-> f[a].unique], [a \in AllPtrs |-> g[a].unique], p, s, q, z)

\* The units that a pointer hands over are as many as before.
LEMMA UnitsHandedOver ==
  ASSUME NEW f, NEW g, NEW r \in BlockRecord, NEW p \in AllPtrs, NEW s \in Slot, NEW q \in AllPtrs, NEW z \in Slot,
         BlockKept(f, r), \A a \in AllPtrs : g[a].work = f[a].work /\ f[a].unique \subseteq Slot /\ g[a].unique \subseteq Slot,
         f[p].work = "none", f[q].work = "none",
         HandedOver(f, g, p, s, q, z)
  PROVE  BlockKept(g, r)
<1>0. /\ \/ \A a \in AllPtrs : g[a].shared = f[a].shared
         \/ Shifted([a \in AllPtrs |-> f[a].shared], [a \in AllPtrs |-> g[a].shared], p, s, q, z)
      /\ \/ \A a \in AllPtrs : g[a].weak = f[a].weak
         \/ Shifted([a \in AllPtrs |-> f[a].weak], [a \in AllPtrs |-> g[a].weak], p, s, q, z)
      /\ \/ \A a \in AllPtrs : g[a].unique = f[a].unique
         \/ Shifted([a \in AllPtrs |-> f[a].unique], [a \in AllPtrs |-> g[a].unique], p, s, q, z)
  BY DEF HandedOver
<1>1. CASE CountedBlock(f, r)
  <2>1. Cardinality(SharedUnits(g)) = Cardinality(SharedUnits(f)) /\ (SharedUnits(g) = {} <=> SharedUnits(f) = {})
    <3>1. CASE \A a \in AllPtrs : g[a].shared = f[a].shared
      BY <3>1 DEF SharedUnits
    <3>2. CASE Shifted([a \in AllPtrs |-> f[a].shared], [a \in AllPtrs |-> g[a].shared], p, s, q, z)
      <4> DEFINE F == [a \in AllPtrs |-> f[a].shared]
                 G == [a \in AllPtrs |-> g[a].shared]
      <4>1. Shifted(F, G, p, s, q, z)
        BY <3>2
      <4> HIDE DEF F, G
      <4>2. Cardinality(Units(G)) = Cardinality(Units(F)) /\ Units(F) # {} /\ Units(G) # {}
        BY <4>1, UnitMoved
      <4> QED
        BY <4>2 DEF SharedUnits, F, G
    <3> QED
      BY <1>0, <3>1, <3>2
  <2>2. Cardinality(WeakUnits(g)) = Cardinality(WeakUnits(f)) /\ (WeakUnits(g) = {} <=> WeakUnits(f) = {})
    <3>1. CASE \A a \in AllPtrs : g[a].weak = f[a].weak
      BY <3>1 DEF WeakUnits
    <3>2. CASE Shifted([a \in AllPtrs |-> f[a].weak], [a \in AllPtrs |-> g[a].weak], p, s, q, z)
      <4> DEFINE F == [a \in AllPtrs |-> f[a].weak]
                 G == [a \in AllPtrs |-> g[a].weak]
      <4>1. Shifted(F, G, p, s, q, z)
        BY <3>2
      <4> HIDE DEF F, G
      <4>2. Cardinality(Units(G)) = Cardinality(Units(F)) /\ Units(F) # {} /\ Units(G) # {}
        BY <4>1, UnitMoved
      <4> QED
        BY <4>2 DEF WeakUnits, F, G
    <3> QED
      BY <1>0, <3>1, <3>2
  <2>3. \A a \in AllPtrs : g[a].unique = {}
    BY <1>0, <1>1 DEF CountedBlock, Shifted
  <2>4. Worked(g, "destruct", SharedUnits(g)) /\ Worked(g, "free", WeakUnits(g))
    BY <1>1, <2>1, <2>2 DEF CountedBlock, Worked
  <2>5. (Working(g, "destruct") <=> Working(f, "destruct")) /\ (Working(g, "free") <=> Working(f, "free"))
    BY DEF Working
  <2> QED
    BY <1>1, <2>1, <2>2, <2>3, <2>4, <2>5 DEF BlockKept, CountedBlock
<1>2. CASE UniqueBlock(f, r)
  <2>1. \A a \in AllPtrs : g[a].shared = f[a].shared /\ g[a].weak = f[a].weak
    BY <1>0, <1>2 DEF UniqueBlock, Shifted
  <2>2. CASE \A a \in AllPtrs : g[a].unique = f[a].unique
    BY <1>2, <2>1, <2>2 DEF BlockKept, UniqueBlock
  <2>3. CASE Shifted([a \in AllPtrs |-> f[a].unique], [a \in AllPtrs |-> g[a].unique], p, s, q, z)
    <3>1. z \in f[q].unique
      BY <2>3 DEF Shifted
    <3>2. \A a \in AllPtrs, y \in Slot : y \in f[a].unique => a = q /\ y = z
      BY <1>2, <3>1 DEF UniqueBlock
    <3>3. \A a \in AllPtrs, y \in Slot : y \in g[a].unique <=> a = p /\ y = s
      BY <2>3, <3>2 DEF Shifted
    <3>4. r.lives /\ r.allocated
      BY <1>2, <3>1 DEF UniqueBlock
    <3>5. s \in g[p].unique /\ g[p].work = "none"
      BY <3>3
    <3>6. \A a, b \in AllPtrs : \A y \in g[a].unique, x \in g[b].unique : a = b /\ y = x
      BY <3>3
    <3>7. \A a \in AllPtrs : g[a].shared = {} /\ g[a].weak = {} /\ (a \in Counted => g[a].work = "none")
      BY <1>2, <2>1 DEF UniqueBlock
    <3>8. /\ \E a \in AllPtrs : g[a].unique # {}
          /\ \E a \in AllPtrs : g[a].unique # {} /\ ("old" \in g[a].unique => g[a].work # "free")
      BY <3>5
    <3>9. r.lives = TRUE /\ r.allocated = TRUE
      BY <3>4 DEF BlockRecord
    <3> QED
      BY <3>6, <3>7, <3>8, <3>9 DEF BlockKept, UniqueBlock
  <2> QED
    BY <1>0, <2>2, <2>3
<1> QED
  BY <1>1, <1>2 DEF BlockKept

\* The part of the block d that is held, or will be, if it is x.
Part(slot, d, x) == IF d = x THEN {slot} ELSE {}

\* What a pointer has before each step: a shared_ptr, ...
SharedStandings(p, d, c, x) ==
    /\ Has(Standing(p, <<>>, d, x), Part("old", d, x), Part("old", d, x), {}, "none")
    /\ Has(Standing(p, CopyBoth(d), d, x), {}, {}, {}, "none")
    /\ Has(Standing(p, CopyWeak(d), d, x), Part("old", d, x), {}, {}, "none")
    /\ Has(Standing(p, TakeBoth(d, c), d, x), Part("old", d, x), Part("old", d, x), {}, "none")
    /\ Has(Standing(p, TakeWeak(d, c), d, x), Part("old", d, x) \cup Part("new", c, x), Part("old", d, x), {}, "none")
    /\ Has(Standing(p, GiveBoth(d, c), d, x), Part("old", d, x) \cup Part("new", c, x), Part("old", d, x) \cup Part("new", c, x), {}, "none")
    /\ Has(Standing(p, GiveValue(d, c), d, x), Part("new", c, x), Part("old", d, x) \cup Part("new", c, x), {}, IF d = x THEN "destruct" ELSE "none")
    /\ Has(Standing(p, GiveWeak(d, c), d, x), Part("new", c, x), Part("old", d, x) \cup Part("new", c, x), {}, "none")
    /\ Has(Standing(p, GiveBlock(d, c), d, x), Part("new", c, x), Part("new", c, x), {}, IF d = x THEN "free" ELSE "none")
    /\ Has(Standing(p, SetTo(c), d, x), Part("new", c, x), Part("new", c, x), {}, "none")
    /\ Has(Standing(p, FillBoth(c), d, x), {}, {}, {}, "none")
    /\ Has(Standing(p, FillWeak(c), d, x), Part("new", c, x), {}, {}, "none")
    /\ Has(Standing(p, LockLoad(c), d, x), {}, {}, {}, "none")
    /\ \A k : Has(Standing(p, LockCas(c, k), d, x), {}, {}, {}, "none")

\* ... a weak_ptr,
WeakStandings(p, d, c, x) ==
    /\ Has(Standing(p, <<>>, d, x), {}, Part("old", d, x), {}, "none")
    /\ Has(Standing(p, CopyWeak(d), d, x), {}, {}, {}, "none")
    /\ Has(Standing(p, TakeOther(d, c), d, x), {}, Part("old", d, x), {}, "none")
    /\ Has(Standing(p, GiveWeak(d, c), d, x), {}, Part("old", d, x) \cup Part("new", c, x), {}, "none")
    /\ Has(Standing(p, GiveBlock(d, c), d, x), {}, Part("new", c, x), {}, IF d = x THEN "free" ELSE "none")
    /\ Has(Standing(p, SetTo(c), d, x), {}, Part("new", c, x), {}, "none")
    /\ Has(Standing(p, FillWeak(c), d, x), {}, {}, {}, "none")

\* ... a unique_ptr.
UniqueStandings(p, d, c, x) ==
    /\ Has(Standing(p, <<>>, d, x), {}, {}, Part("old", d, x), "none")
    /\ Has(Standing(p, GiveBlock(d, c), d, x), {}, {}, Part("old", d, x) \cup Part("new", c, x), IF d = x THEN "free" ELSE "none")
    /\ Has(Standing(p, GiveUnique(d, c), d, x), {}, {}, Part("old", d, x) \cup Part("new", c, x), "none")
    /\ Has(Standing(p, SetTo(c), d, x), {}, {}, Part("new", c, x), "none")

\* It follows from the steps left of a shared_ptr.
LEMMA SharedStandingsHold ==
  ASSUME NEW p \in SharedPtrs, NEW d, NEW c, NEW x
  PROVE  SharedStandings(p, d, c, x)
<1>1. p \in Counted /\ p \notin UniquePtrs /\ p \in SharedPtrs
  BY PointersAssumption DEF Counted
<1>2. Firsts(d, c)
  BY FirstSteps
<1>3. Has(Standing(p, <<>>, d, x), Part("old", d, x), Part("old", d, x), {}, "none")
  <2>1. What(<<>>) = "idle"
    BY <1>2 DEF Firsts, Begins
  <2> QED
    BY <1>1, <2>1 DEF Has, Standing, Part, Slots, Slot, SharedOld, SharedNew, WeakOld, WeakNew, UniqueOld, UniqueNew
<1>4. Has(Standing(p, CopyBoth(d), d, x), {}, {}, {}, "none")
  <2>1. What(CopyBoth(d)) = "shared+" /\ Len(CopyBoth(d)) = 2 /\ Goal(CopyBoth(d)) = d
    BY <1>2 DEF Firsts, Begins
  <2> QED
    BY <1>1, <2>1 DEF Has, Standing, Part, Slots, Slot, SharedOld, SharedNew, WeakOld, WeakNew, UniqueOld, UniqueNew
<1>5. Has(Standing(p, CopyWeak(d), d, x), Part("old", d, x), {}, {}, "none")
  <2>1. What(CopyWeak(d)) = "weak+" /\ Len(CopyWeak(d)) = 1 /\ Goal(CopyWeak(d)) = d
    BY <1>2 DEF Firsts, Begins
  <2> QED
    BY <1>1, <2>1 DEF Has, Standing, Part, Slots, Slot, SharedOld, SharedNew, WeakOld, WeakNew, UniqueOld, UniqueNew
<1>6. Has(Standing(p, TakeBoth(d, c), d, x), Part("old", d, x), Part("old", d, x), {}, "none")
  <2>1. What(TakeBoth(d, c)) = "shared+" /\ Len(TakeBoth(d, c)) = 5 /\ Goal(TakeBoth(d, c)) = c
    BY <1>2 DEF Firsts, Begins
  <2> QED
    BY <1>1, <2>1 DEF Has, Standing, Part, Slots, Slot, SharedOld, SharedNew, WeakOld, WeakNew, UniqueOld, UniqueNew
<1>7. Has(Standing(p, TakeWeak(d, c), d, x), Part("old", d, x) \cup Part("new", c, x), Part("old", d, x), {}, "none")
  <2>1. What(TakeWeak(d, c)) = "weak+" /\ Len(TakeWeak(d, c)) = 4 /\ Goal(TakeWeak(d, c)) = c
    BY <1>2 DEF Firsts, Begins
  <2> QED
    BY <1>1, <2>1 DEF Has, Standing, Part, Slots, Slot, SharedOld, SharedNew, WeakOld, WeakNew, UniqueOld, UniqueNew
<1>8. Has(Standing(p, GiveBoth(d, c), d, x), Part("old", d, x) \cup Part("new", c, x), Part("old", d, x) \cup Part("new", c, x), {}, "none")
  <2>1. What(GiveBoth(d, c)) = "shared-" /\ Len(GiveBoth(d, c)) = 3 /\ Goal(GiveBoth(d, c)) = c
    BY <1>2 DEF Firsts, Begins
  <2> QED
    BY <1>1, <2>1 DEF Has, Standing, Part, Slots, Slot, SharedOld, SharedNew, WeakOld, WeakNew, UniqueOld, UniqueNew
<1>9. Has(Standing(p, GiveValue(d, c), d, x), Part("new", c, x), Part("old", d, x) \cup Part("new", c, x), {}, IF d = x THEN "destruct" ELSE "none")
  <2>1. What(GiveValue(d, c)) = "destruct" /\ Len(GiveValue(d, c)) = 3 /\ Goal(GiveValue(d, c)) = c
    BY <1>2 DEF Firsts, Begins
  <2> QED
    BY <1>1, <2>1 DEF Has, Standing, Part, Slots, Slot, SharedOld, SharedNew, WeakOld, WeakNew, UniqueOld, UniqueNew
<1>10. Has(Standing(p, GiveWeak(d, c), d, x), Part("new", c, x), Part("old", d, x) \cup Part("new", c, x), {}, "none")
  <2>1. What(GiveWeak(d, c)) = "weak-" /\ Len(GiveWeak(d, c)) = 2 /\ Goal(GiveWeak(d, c)) = c
    BY <1>2 DEF Firsts, Begins
  <2> QED
    BY <1>1, <2>1 DEF Has, Standing, Part, Slots, Slot, SharedOld, SharedNew, WeakOld, WeakNew, UniqueOld, UniqueNew
<1>11. Has(Standing(p, GiveBlock(d, c), d, x), Part("new", c, x), Part("new", c, x), {}, IF d = x THEN "free" ELSE "none")
  <2>1. What(GiveBlock(d, c)) = "free" /\ Len(GiveBlock(d, c)) = 2 /\ Goal(GiveBlock(d, c)) = c
    BY <1>2 DEF Firsts, Begins
  <2> QED
    BY <1>1, <2>1 DEF Has, Standing, Part, Slots, Slot, SharedOld, SharedNew, WeakOld, WeakNew, UniqueOld, UniqueNew
<1>12. Has(Standing(p, SetTo(c), d, x), Part("new", c, x), Part("new", c, x), {}, "none")
  <2>1. What(SetTo(c)) = "set" /\ Len(SetTo(c)) = 1 /\ Goal(SetTo(c)) = c
    BY <1>2 DEF Firsts, Begins
  <2> QED
    BY <1>1, <2>1 DEF Has, Standing, Part, Slots, Slot, SharedOld, SharedNew, WeakOld, WeakNew, UniqueOld, UniqueNew
<1>13. Has(Standing(p, FillBoth(c), d, x), {}, {}, {}, "none")
  <2>1. What(FillBoth(c)) = "shared+" /\ Len(FillBoth(c)) = 3 /\ Goal(FillBoth(c)) = c
    BY <1>2 DEF Firsts, Begins
  <2> QED
    BY <1>1, <2>1 DEF Has, Standing, Part, Slots, Slot, SharedOld, SharedNew, WeakOld, WeakNew, UniqueOld, UniqueNew
<1>14. Has(Standing(p, FillWeak(c), d, x), Part("new", c, x), {}, {}, "none")
  <2>1. What(FillWeak(c)) = "weak+" /\ Len(FillWeak(c)) = 2 /\ Goal(FillWeak(c)) = c
    BY <1>2 DEF Firsts, Begins
  <2> QED
    BY <1>1, <2>1 DEF Has, Standing, Part, Slots, Slot, SharedOld, SharedNew, WeakOld, WeakNew, UniqueOld, UniqueNew
<1>15. Has(Standing(p, LockLoad(c), d, x), {}, {}, {}, "none")
  <2>1. What(LockLoad(c)) = "load" /\ Len(LockLoad(c)) = 3 /\ Goal(LockLoad(c)) = c
    BY <1>2 DEF Firsts, Begins
  <2> QED
    BY <1>1, <2>1 DEF Has, Standing, Part, Slots, Slot, SharedOld, SharedNew, WeakOld, WeakNew, UniqueOld, UniqueNew
<1>16. ASSUME NEW k PROVE Has(Standing(p, LockCas(c, k), d, x), {}, {}, {}, "none")
  <2>1. What(LockCas(c, k)) = "cas" /\ Len(LockCas(c, k)) = 3 /\ Goal(LockCas(c, k)) = c
    BY <1>2 DEF Firsts, Begins
  <2> QED
    BY <1>1, <2>1 DEF Has, Standing, Part, Slots, Slot, SharedOld, SharedNew, WeakOld, WeakNew, UniqueOld, UniqueNew
<1> QED
  BY <1>3, <1>4, <1>5, <1>6, <1>7, <1>8, <1>9, <1>10, <1>11, <1>12, <1>13, <1>14, <1>15, <1>16 DEF SharedStandings

\* It follows from the steps left of a weak_ptr.
LEMMA WeakStandingsHold ==
  ASSUME NEW p \in WeakPtrs, NEW d, NEW c, NEW x
  PROVE  WeakStandings(p, d, c, x)
<1>1. p \in Counted /\ p \notin UniquePtrs /\ p \notin SharedPtrs
  BY PointersAssumption DEF Counted
<1>2. Firsts(d, c)
  BY FirstSteps
<1>3. Has(Standing(p, <<>>, d, x), {}, Part("old", d, x), {}, "none")
  <2>1. What(<<>>) = "idle"
    BY <1>2 DEF Firsts, Begins
  <2> QED
    BY <1>1, <2>1 DEF Has, Standing, Part, Slots, Slot, SharedOld, SharedNew, WeakOld, WeakNew, UniqueOld, UniqueNew
<1>4. Has(Standing(p, CopyWeak(d), d, x), {}, {}, {}, "none")
  <2>1. What(CopyWeak(d)) = "weak+" /\ Len(CopyWeak(d)) = 1 /\ Goal(CopyWeak(d)) = d
    BY <1>2 DEF Firsts, Begins
  <2> QED
    BY <1>1, <2>1 DEF Has, Standing, Part, Slots, Slot, SharedOld, SharedNew, WeakOld, WeakNew, UniqueOld, UniqueNew
<1>5. Has(Standing(p, TakeOther(d, c), d, x), {}, Part("old", d, x), {}, "none")
  <2>1. What(TakeOther(d, c)) = "weak+" /\ Len(TakeOther(d, c)) = 3 /\ Goal(TakeOther(d, c)) = c
    BY <1>2 DEF Firsts, Begins
  <2> QED
    BY <1>1, <2>1 DEF Has, Standing, Part, Slots, Slot, SharedOld, SharedNew, WeakOld, WeakNew, UniqueOld, UniqueNew
<1>6. Has(Standing(p, GiveWeak(d, c), d, x), {}, Part("old", d, x) \cup Part("new", c, x), {}, "none")
  <2>1. What(GiveWeak(d, c)) = "weak-" /\ Len(GiveWeak(d, c)) = 2 /\ Goal(GiveWeak(d, c)) = c
    BY <1>2 DEF Firsts, Begins
  <2> QED
    BY <1>1, <2>1 DEF Has, Standing, Part, Slots, Slot, SharedOld, SharedNew, WeakOld, WeakNew, UniqueOld, UniqueNew
<1>7. Has(Standing(p, GiveBlock(d, c), d, x), {}, Part("new", c, x), {}, IF d = x THEN "free" ELSE "none")
  <2>1. What(GiveBlock(d, c)) = "free" /\ Len(GiveBlock(d, c)) = 2 /\ Goal(GiveBlock(d, c)) = c
    BY <1>2 DEF Firsts, Begins
  <2> QED
    BY <1>1, <2>1 DEF Has, Standing, Part, Slots, Slot, SharedOld, SharedNew, WeakOld, WeakNew, UniqueOld, UniqueNew
<1>8. Has(Standing(p, SetTo(c), d, x), {}, Part("new", c, x), {}, "none")
  <2>1. What(SetTo(c)) = "set" /\ Len(SetTo(c)) = 1 /\ Goal(SetTo(c)) = c
    BY <1>2 DEF Firsts, Begins
  <2> QED
    BY <1>1, <2>1 DEF Has, Standing, Part, Slots, Slot, SharedOld, SharedNew, WeakOld, WeakNew, UniqueOld, UniqueNew
<1>9. Has(Standing(p, FillWeak(c), d, x), {}, {}, {}, "none")
  <2>1. What(FillWeak(c)) = "weak+" /\ Len(FillWeak(c)) = 2 /\ Goal(FillWeak(c)) = c
    BY <1>2 DEF Firsts, Begins
  <2> QED
    BY <1>1, <2>1 DEF Has, Standing, Part, Slots, Slot, SharedOld, SharedNew, WeakOld, WeakNew, UniqueOld, UniqueNew
<1> QED
  BY <1>3, <1>4, <1>5, <1>6, <1>7, <1>8, <1>9 DEF WeakStandings

\* It follows from the steps left of a unique_ptr.
LEMMA UniqueStandingsHold ==
  ASSUME NEW p \in UniquePtrs, NEW d, NEW c, NEW x
  PROVE  UniqueStandings(p, d, c, x)
<1>1. p \notin Counted /\ p \notin SharedPtrs /\ p \in UniquePtrs
  BY PointersAssumption DEF Counted
<1>2. Firsts(d, c)
  BY FirstSteps
<1>3. Has(Standing(p, <<>>, d, x), {}, {}, Part("old", d, x), "none")
  <2>1. What(<<>>) = "idle"
    BY <1>2 DEF Firsts, Begins
  <2> QED
    BY <1>1, <2>1 DEF Has, Standing, Part, Slots, Slot, SharedOld, SharedNew, WeakOld, WeakNew, UniqueOld, UniqueNew
<1>4. Has(Standing(p, GiveBlock(d, c), d, x), {}, {}, Part("old", d, x) \cup Part("new", c, x), IF d = x THEN "free" ELSE "none")
  <2>1. What(GiveBlock(d, c)) = "free" /\ Len(GiveBlock(d, c)) = 2 /\ Goal(GiveBlock(d, c)) = c
    BY <1>2 DEF Firsts, Begins
  <2> QED
    BY <1>1, <2>1 DEF Has, Standing, Part, Slots, Slot, SharedOld, SharedNew, WeakOld, WeakNew, UniqueOld, UniqueNew
<1>5. Has(Standing(p, GiveUnique(d, c), d, x), {}, {}, Part("old", d, x) \cup Part("new", c, x), "none")
  <2>1. What(GiveUnique(d, c)) = "destruct" /\ Len(GiveUnique(d, c)) = 3 /\ Goal(GiveUnique(d, c)) = c
    BY <1>2 DEF Firsts, Begins
  <2> QED
    BY <1>1, <2>1 DEF Has, Standing, Part, Slots, Slot, SharedOld, SharedNew, WeakOld, WeakNew, UniqueOld, UniqueNew
<1>6. Has(Standing(p, SetTo(c), d, x), {}, {}, Part("new", c, x), "none")
  <2>1. What(SetTo(c)) = "set" /\ Len(SetTo(c)) = 1 /\ Goal(SetTo(c)) = c
    BY <1>2 DEF Firsts, Begins
  <2> QED
    BY <1>1, <2>1 DEF Has, Standing, Part, Slots, Slot, SharedOld, SharedNew, WeakOld, WeakNew, UniqueOld, UniqueNew
<1> QED
  BY <1>3, <1>4, <1>5, <1>6 DEF UniqueStandings

\* A pointer has the same of a block, when it has the same parts.
Same(st, tt) == Has(st, tt.shared, tt.weak, tt.unique, tt.work)

\* What a pointer has is given by its parts.
LEMMA SameStanding ==
  ASSUME NEW p, NEW t, NEW d, NEW u, NEW e, NEW x, Same(Standing(p, u, e, x), Standing(p, t, d, x))
  PROVE  Standing(p, u, e, x) = Standing(p, t, d, x)
  BY DEF Same, Has, Standing

\* From t to u the pointer gains a shared unit of y, and no more.
GainsShared(p, t, u, d, y, s) ==
    /\ s \notin Standing(p, t, d, y).shared
    /\ Has(Standing(p, u, d, y), Standing(p, t, d, y).shared \cup {s}, Standing(p, t, d, y).weak,
           Standing(p, t, d, y).unique, Standing(p, t, d, y).work)
    /\ \A x : x # y => Same(Standing(p, u, d, x), Standing(p, t, d, x))

\* A shared_ptr counts a value for the first time.
LEMMA CountsShared ==
  ASSUME NEW p \in AllPtrs, NEW t, NEW d, NEW c, Shape(p, t, d, c), What(t) = "shared+"
  PROVE  /\ Head(t).what = "shared+" /\ Head(t).b \in {d, c} \ {NoBlock} /\ Shape(p, Tail(t), d, c)
         /\ What(Tail(t)) = "weak+" /\ Head(Tail(t)).b = Head(t).b /\ Tail(t) # <<>>
         /\ (Long(t) /\ Head(t).b = d) => Long(Tail(t)) /\ "old" \in Standing(p, t, d, d).shared \cap Standing(p, t, d, d).weak
         /\ \E s \in Slot : GainsShared(p, t, Tail(t), d, Head(t).b, s)
<1>1. Firsts(d, c)
  BY FirstSteps
<1>2. /\ p \in SharedPtrs
      /\ \/ d # NoBlock /\ t = CopyBoth(d)
         \/ d # NoBlock /\ c # NoBlock /\ t = TakeBoth(d, c)
         \/ d = NoBlock /\ c # NoBlock /\ t = FillBoth(c)
  BY <1>1 DEF Firsts, Begins, Shape, AnyShape, SharedShape, WeakShape, CountedShape
<1>3. \A x : SharedStandings(p, d, c, x)
  BY <1>2, SharedStandingsHold
<1>4. p \in Counted /\ "old" \in Slot /\ "new" \in Slot
  BY <1>2 DEF Counted, Slot
<1>5. CASE d # NoBlock /\ t = CopyBoth(d)
  <2>0. ~Long(t)
    BY <1>1, <1>5 DEF Firsts, Begins, Long
  <2>1. /\ Tail(t) = CopyWeak(d) /\ What(Tail(t)) = "weak+" /\ Tail(t) # <<>>
        /\ Head(t).what = "shared+" /\ Head(t).b = d /\ Head(Tail(t)).b = d
    BY <1>1, <1>5 DEF Firsts, Begins
  <2>2. Shape(p, Tail(t), d, c)
    BY <1>2, <1>5, <2>1 DEF Shape, SharedShape
  <2>3. ASSUME NEW x
        PROVE  /\ Has(Standing(p, t, d, x), {}, {}, {}, "none")
               /\ Has(Standing(p, Tail(t), d, x), Part("old", d, x), {}, {}, "none")
    BY <1>3, <1>5, <2>1 DEF SharedStandings
  <2>4. GainsShared(p, t, Tail(t), d, d, "old")
    BY <2>3 DEF GainsShared, Same, Has, Part
  <2> QED
    BY <1>4, <1>5, <2>0, <2>1, <2>2, <2>4
<1>6. CASE d # NoBlock /\ c # NoBlock /\ t = TakeBoth(d, c)
  <2>1. /\ Tail(t) = TakeWeak(d, c) /\ What(Tail(t)) = "weak+" /\ Tail(t) # <<>>
        /\ Head(t).what = "shared+" /\ Head(t).b = c /\ Head(Tail(t)).b = c
    BY <1>1, <1>6 DEF Firsts, Begins
  <2>2. Shape(p, Tail(t), d, c)
    BY <1>2, <1>6, <2>1 DEF Shape, SharedShape
  <2>3. ASSUME NEW x
        PROVE  /\ Has(Standing(p, t, d, x), Part("old", d, x), Part("old", d, x), {}, "none")
               /\ Has(Standing(p, Tail(t), d, x), Part("old", d, x) \cup Part("new", c, x), Part("old", d, x), {}, "none")
    BY <1>3, <1>6, <2>1 DEF SharedStandings
  <2>4. GainsShared(p, t, Tail(t), d, c, "new")
    <3>1. \A x : x # c => Same(Standing(p, Tail(t), d, x), Standing(p, t, d, x))
      BY <2>3, ZenonT(40) DEF Same, Has, Part
    <3>2. Has(Standing(p, t, d, c), Part("old", d, c), Part("old", d, c), {}, "none")
      BY <2>3
    <3>3. Has(Standing(p, Tail(t), d, c), Part("old", d, c) \cup {"new"}, Part("old", d, c), {}, "none")
      BY <2>3 DEF Part
    <3> QED
      BY <3>1, <3>2, <3>3 DEF GainsShared, Has, Part
  <2>5. "old" \in Standing(p, t, d, d).shared \cap Standing(p, t, d, d).weak
    BY <2>3 DEF Has, Part
  <2>6. \E s \in Slot : GainsShared(p, t, Tail(t), d, Head(t).b, s)
    BY <1>4, <2>1, <2>4
  <2>7. Long(Tail(t))
    BY <1>1, <2>1, SMTT(30) DEF Firsts, Begins, Long
  <2> QED
    BY <1>6, <2>1, <2>2, <2>5, <2>6, <2>7
<1>7. CASE d = NoBlock /\ c # NoBlock /\ t = FillBoth(c)
  <2>1. /\ Tail(t) = FillWeak(c) /\ What(Tail(t)) = "weak+" /\ Tail(t) # <<>>
        /\ Head(t).what = "shared+" /\ Head(t).b = c /\ Head(Tail(t)).b = c
    BY <1>1, <1>7, ZenonT(40) DEF Firsts, Begins
  <2>2. Shape(p, Tail(t), d, c)
    BY <1>4, <1>7, <2>1 DEF Shape, CountedShape
  <2>3. ASSUME NEW x
        PROVE  /\ Has(Standing(p, t, d, x), {}, {}, {}, "none")
               /\ Has(Standing(p, Tail(t), d, x), Part("new", c, x), {}, {}, "none")
    BY <1>3, <1>7, <2>1 DEF SharedStandings
  <2>4. GainsShared(p, t, Tail(t), d, c, "new")
    BY <2>3 DEF GainsShared, Same, Has, Part
  <2> QED
    BY <1>4, <1>7, <2>1, <2>2, <2>4
<1> QED
  BY <1>2, <1>5, <1>6, <1>7

\* From t to u the pointer gains a weak unit of y, and no more.
GainsWeak(p, t, u, d, y, s) ==
    /\ s \notin Standing(p, t, d, y).weak
    /\ Has(Standing(p, u, d, y), Standing(p, t, d, y).shared, Standing(p, t, d, y).weak \cup {s},
           Standing(p, t, d, y).unique, Standing(p, t, d, y).work)
    /\ \A x : x # y => Same(Standing(p, u, d, x), Standing(p, t, d, x))

\* A pointer counts a block.
LEMMA CountsWeak ==
  ASSUME NEW p \in AllPtrs, NEW t, NEW d, NEW c, Shape(p, t, d, c), What(t) = "weak+"
  PROVE  /\ Head(t).what = "weak+" /\ Head(t).b \in {d, c} \ {NoBlock} /\ Shape(p, Tail(t), d, c)
         /\ What(Tail(t)) \notin Increases
         /\ (Long(t) /\ Head(t).b = d) => "old" \in Standing(p, t, d, d).weak
         /\ \E s \in Slot : GainsWeak(p, t, Tail(t), d, Head(t).b, s)
<1>1. Firsts(d, c)
  BY FirstSteps
<1>2. /\ p \in Counted
      /\ \/ d # NoBlock /\ t = CopyWeak(d)
         \/ p \in SharedPtrs /\ d # NoBlock /\ c # NoBlock /\ t = TakeWeak(d, c)
         \/ p \in WeakPtrs /\ d # NoBlock /\ c # NoBlock /\ t = TakeOther(d, c)
         \/ d = NoBlock /\ c # NoBlock /\ t = FillWeak(c)
  BY <1>1 DEF Firsts, Begins, Shape, AnyShape, SharedShape, WeakShape, CountedShape, Counted
<1>3. \A x : (p \in SharedPtrs => SharedStandings(p, d, c, x)) /\ (p \in WeakPtrs => WeakStandings(p, d, c, x))
  BY SharedStandingsHold, WeakStandingsHold
<1>4. (p \in SharedPtrs \/ p \in WeakPtrs) /\ "old" \in Slot /\ "new" \in Slot
  BY <1>2 DEF Counted, Slot
<1>5. CASE d # NoBlock /\ t = CopyWeak(d)
  <2>1. Tail(t) = <<>> /\ What(Tail(t)) = "idle" /\ Head(t).what = "weak+" /\ Head(t).b = d
    BY <1>1, <1>5 DEF Firsts, Begins
  <2>2. Shape(p, Tail(t), d, c) /\ What(Tail(t)) \notin Increases
    BY <1>2, <1>5, <2>1 DEF Shape, AnyShape, Increases
  <2>3. CASE p \in SharedPtrs
    <3>1. ASSUME NEW x
          PROVE  /\ Has(Standing(p, t, d, x), Part("old", d, x), {}, {}, "none")
                 /\ Has(Standing(p, Tail(t), d, x), Part("old", d, x), Part("old", d, x), {}, "none")
      BY <1>3, <1>5, <2>1, <2>3 DEF SharedStandings
    <3>2. ~Long(t)
      BY <1>1, <1>5 DEF Firsts, Begins, Long
    <3>3. GainsWeak(p, t, Tail(t), d, d, "old")
      BY <3>1 DEF GainsWeak, Same, Has, Part
    <3>4. \E s \in Slot : GainsWeak(p, t, Tail(t), d, Head(t).b, s)
      BY <1>4, <2>1, <3>3
    <3> QED
      BY <1>5, <2>1, <2>2, <3>2, <3>4
  <2>4. CASE p \in WeakPtrs
    <3>1. ASSUME NEW x
          PROVE  /\ Has(Standing(p, t, d, x), {}, {}, {}, "none")
                 /\ Has(Standing(p, Tail(t), d, x), {}, Part("old", d, x), {}, "none")
      BY <1>3, <1>5, <2>1, <2>4 DEF WeakStandings
    <3>2. ~Long(t)
      BY <1>1, <1>5 DEF Firsts, Begins, Long
    <3>3. GainsWeak(p, t, Tail(t), d, d, "old")
      BY <3>1 DEF GainsWeak, Same, Has, Part
    <3>4. \E s \in Slot : GainsWeak(p, t, Tail(t), d, Head(t).b, s)
      BY <1>4, <2>1, <3>3
    <3> QED
      BY <1>5, <2>1, <2>2, <3>2, <3>4
  <2> QED
    BY <1>4, <1>5, <2>3, <2>4
<1>6. CASE p \in SharedPtrs /\ d # NoBlock /\ c # NoBlock /\ t = TakeWeak(d, c)
  <2>1. Tail(t) = GiveBoth(d, c) /\ What(Tail(t)) = "shared-" /\ Head(t).what = "weak+" /\ Head(t).b = c
    BY <1>1, <1>6 DEF Firsts, Begins
  <2>2. Shape(p, Tail(t), d, c) /\ What(Tail(t)) \notin Increases
    BY <1>2, <1>6, <2>1 DEF Shape, SharedShape, Increases
  <2>3. CASE p \in SharedPtrs
    <3>1. ASSUME NEW x
          PROVE  /\ Has(Standing(p, t, d, x), Part("old", d, x) \cup Part("new", c, x), Part("old", d, x), {}, "none")
                 /\ Has(Standing(p, Tail(t), d, x), Part("old", d, x) \cup Part("new", c, x), Part("old", d, x) \cup Part("new", c, x), {}, "none")
      BY <1>3, <1>6, <2>1, <2>3 DEF SharedStandings
    <3>2. \A x : x # c => Same(Standing(p, Tail(t), d, x), Standing(p, t, d, x))
      BY <3>1, ZenonT(40) DEF Same, Has, Part
    <3>3. /\ Has(Standing(p, t, d, c), Part("old", d, c) \cup Part("new", c, c), Part("old", d, c), {}, "none")
          /\ Has(Standing(p, Tail(t), d, c), Part("old", d, c) \cup Part("new", c, c), Part("old", d, c) \cup {"new"}, {}, "none")
      BY <3>1 DEF Part
    <3>4. "old" \in Standing(p, t, d, d).weak
      BY <3>1 DEF Has, Part
    <3>5. GainsWeak(p, t, Tail(t), d, c, "new")
      BY <3>2, <3>3 DEF GainsWeak, Has, Part
    <3>6. \E s \in Slot : GainsWeak(p, t, Tail(t), d, Head(t).b, s)
      BY <1>4, <2>1, <3>5
    <3> QED
      BY <1>6, <2>1, <2>2, <3>4, <3>6
  <2> QED
    BY <1>4, <1>6, <2>3
<1>7. CASE p \in WeakPtrs /\ d # NoBlock /\ c # NoBlock /\ t = TakeOther(d, c)
  <2>1. Tail(t) = GiveWeak(d, c) /\ What(Tail(t)) = "weak-" /\ Head(t).what = "weak+" /\ Head(t).b = c
    BY <1>1, <1>7 DEF Firsts, Begins
  <2>2. Shape(p, Tail(t), d, c) /\ What(Tail(t)) \notin Increases
    BY <1>2, <1>7, <2>1 DEF Shape, CountedShape, Increases
  <2>3. CASE p \in WeakPtrs
    <3>1. ASSUME NEW x
          PROVE  /\ Has(Standing(p, t, d, x), {}, Part("old", d, x), {}, "none")
                 /\ Has(Standing(p, Tail(t), d, x), {}, Part("old", d, x) \cup Part("new", c, x), {}, "none")
      BY <1>3, <1>7, <2>1, <2>3 DEF WeakStandings
    <3>2. \A x : x # c => Same(Standing(p, Tail(t), d, x), Standing(p, t, d, x))
      BY <3>1 DEF Same, Has, Part
    <3>3. /\ Has(Standing(p, t, d, c), {}, Part("old", d, c), {}, "none")
          /\ Has(Standing(p, Tail(t), d, c), {}, Part("old", d, c) \cup {"new"}, {}, "none")
      BY <3>1 DEF Part
    <3>4. "old" \in Standing(p, t, d, d).weak
      BY <3>1 DEF Has, Part
    <3>5. GainsWeak(p, t, Tail(t), d, c, "new")
      BY <3>2, <3>3 DEF GainsWeak, Has, Part
    <3>6. \E s \in Slot : GainsWeak(p, t, Tail(t), d, Head(t).b, s)
      BY <1>4, <2>1, <3>5
    <3> QED
      BY <1>7, <2>1, <2>2, <3>4, <3>6
  <2> QED
    BY <1>4, <1>7, <2>3
<1>8. CASE d = NoBlock /\ c # NoBlock /\ t = FillWeak(c)
  <2>1. Tail(t) = SetTo(c) /\ What(Tail(t)) = "set" /\ Head(t).what = "weak+" /\ Head(t).b = c
    BY <1>1, <1>8 DEF Firsts, Begins
  <2>2. Shape(p, Tail(t), d, c) /\ What(Tail(t)) \notin Increases
    BY <1>2, <1>8, <2>1 DEF Shape, AnyShape, Increases
  <2>3. CASE p \in SharedPtrs
    <3>1. ASSUME NEW x
          PROVE  /\ Has(Standing(p, t, d, x), Part("new", c, x), {}, {}, "none")
                 /\ Has(Standing(p, Tail(t), d, x), Part("new", c, x), Part("new", c, x), {}, "none")
      BY <1>3, <1>8, <2>1, <2>3 DEF SharedStandings
    <3>3. GainsWeak(p, t, Tail(t), d, c, "new")
      BY <3>1 DEF GainsWeak, Same, Has, Part
    <3>4. \E s \in Slot : GainsWeak(p, t, Tail(t), d, Head(t).b, s)
      BY <1>4, <2>1, <3>3
    <3> QED
      BY <1>8, <2>1, <2>2, <3>4
  <2>4. CASE p \in WeakPtrs
    <3>1. ASSUME NEW x
          PROVE  /\ Has(Standing(p, t, d, x), {}, {}, {}, "none")
                 /\ Has(Standing(p, Tail(t), d, x), {}, Part("new", c, x), {}, "none")
      BY <1>3, <1>8, <2>1, <2>4 DEF WeakStandings
    <3>3. GainsWeak(p, t, Tail(t), d, c, "new")
      BY <3>1 DEF GainsWeak, Same, Has, Part
    <3>4. \E s \in Slot : GainsWeak(p, t, Tail(t), d, Head(t).b, s)
      BY <1>4, <2>1, <3>3
    <3> QED
      BY <1>8, <2>1, <2>2, <3>4
  <2> QED
    BY <1>4, <1>8, <2>3, <2>4
<1> QED
  BY <1>2, <1>5, <1>6, <1>7, <1>8

\* What is left after the first step, on a block that is as r.
Left(t, r) == After(Head(t), r, Tail(t))

\* A shared_ptr lets go of the value; the last one will destruct it.
LEMMA GivesShared ==
  ASSUME NEW p \in AllPtrs, NEW t, NEW d, NEW c, NEW r, Shape(p, t, d, c), What(t) = "shared-"
  PROVE  /\ Head(t).what = "shared-" /\ Head(t).b = d /\ d # NoBlock
         /\ Shape(p, Left(t, r), d, c) /\ What(Left(t, r)) \notin Increases
         /\ "old" \in Standing(p, t, d, d).shared /\ "old" \in Standing(p, t, d, d).weak /\ Standing(p, t, d, d).work = "none"
         /\ Has(Standing(p, Left(t, r), d, d), Standing(p, t, d, d).shared \ {"old"}, Standing(p, t, d, d).weak,
                Standing(p, t, d, d).unique, IF r.shared = 1 THEN "destruct" ELSE "none")
         /\ \A x : x # d => Same(Standing(p, Left(t, r), d, x), Standing(p, t, d, x))
<1>1. Firsts(d, c)
  BY FirstSteps
<1>2. p \in SharedPtrs /\ d # NoBlock /\ t = GiveBoth(d, c)
  BY <1>1 DEF Firsts, Begins, Shape, AnyShape, SharedShape, WeakShape, CountedShape
<1>3. \A x : SharedStandings(p, d, c, x)
  BY <1>2, SharedStandingsHold
<1>4. /\ Tail(t) = GiveWeak(d, c) /\ Head(t).what = "shared-" /\ Head(t).b = d
      /\ What(GiveWeak(d, c)) = "weak-" /\ What(GiveValue(d, c)) = "destruct"
  BY <1>1, <1>2 DEF Firsts, Begins
<1>5. <<Do("destruct", d)>> \o GiveWeak(d, c) = GiveValue(d, c)
  BY Lists DEF GiveWeak, GiveValue
<1>6. Left(t, r) = IF r.shared = 1 THEN GiveValue(d, c) ELSE GiveWeak(d, c)
  BY <1>4, <1>5 DEF Left, After
<1>7. Shape(p, Left(t, r), d, c) /\ What(Left(t, r)) \notin Increases
  <2>1. p \in Counted
    BY <1>2 DEF Counted
  <2> QED
    BY <1>2, <1>4, <1>6, <2>1 DEF Shape, SharedShape, CountedShape, Increases
<1>8. ASSUME NEW x
      PROVE  /\ Has(Standing(p, t, d, x), Part("old", d, x) \cup Part("new", c, x), Part("old", d, x) \cup Part("new", c, x), {}, "none")
             /\ Has(Standing(p, Left(t, r), d, x), Part("new", c, x), Part("old", d, x) \cup Part("new", c, x), {},
                    IF d = x /\ r.shared = 1 THEN "destruct" ELSE "none")
  <2>1. CASE r.shared = 1
    BY <1>2, <1>3, <1>6, <2>1 DEF SharedStandings
  <2>2. CASE r.shared # 1
    BY <1>2, <1>3, <1>6, <2>2 DEF SharedStandings
  <2> QED
    BY <2>1, <2>2
<1>9. \A x : x # d => Same(Standing(p, Left(t, r), d, x), Standing(p, t, d, x))
  BY <1>8, ZenonT(40) DEF Same, Has, Part
<1>10. /\ Has(Standing(p, t, d, d), {"old"} \cup Part("new", c, d), {"old"} \cup Part("new", c, d), {}, "none")
       /\ Has(Standing(p, Left(t, r), d, d), Part("new", c, d), {"old"} \cup Part("new", c, d), {},
              IF r.shared = 1 THEN "destruct" ELSE "none")
  BY <1>8 DEF Part
<1>11. /\ "old" \in Standing(p, t, d, d).shared /\ "old" \in Standing(p, t, d, d).weak /\ Standing(p, t, d, d).work = "none"
       /\ Has(Standing(p, Left(t, r), d, d), Standing(p, t, d, d).shared \ {"old"}, Standing(p, t, d, d).weak,
              Standing(p, t, d, d).unique, IF r.shared = 1 THEN "destruct" ELSE "none")
  BY <1>10 DEF Has, Part
<1> QED
  BY <1>2, <1>4, <1>7, <1>9, <1>11

\* A pointer lets go of the block; the last one will free it.
LEMMA GivesWeak ==
  ASSUME NEW p \in AllPtrs, NEW t, NEW d, NEW c, NEW r, Shape(p, t, d, c), What(t) = "weak-"
  PROVE  /\ Head(t).what = "weak-" /\ Head(t).b = d /\ d # NoBlock
         /\ Shape(p, Left(t, r), d, c) /\ What(Left(t, r)) \notin Increases
         /\ "old" \in Standing(p, t, d, d).weak /\ Standing(p, t, d, d).work = "none"
         /\ Has(Standing(p, Left(t, r), d, d), Standing(p, t, d, d).shared, Standing(p, t, d, d).weak \ {"old"},
                Standing(p, t, d, d).unique, IF r.weak = 1 THEN "free" ELSE "none")
         /\ \A x : x # d => Same(Standing(p, Left(t, r), d, x), Standing(p, t, d, x))
<1>1. Firsts(d, c)
  BY FirstSteps
<1>2. p \in Counted /\ d # NoBlock /\ t = GiveWeak(d, c)
  BY <1>1 DEF Firsts, Begins, Shape, AnyShape, SharedShape, WeakShape, CountedShape
<1>3. \A x : (p \in SharedPtrs => SharedStandings(p, d, c, x)) /\ (p \in WeakPtrs => WeakStandings(p, d, c, x))
  BY SharedStandingsHold, WeakStandingsHold
<1>4. /\ Tail(t) = SetTo(c) /\ Head(t).what = "weak-" /\ Head(t).b = d
      /\ What(SetTo(c)) = "set" /\ What(GiveBlock(d, c)) = "free"
  BY <1>1, <1>2 DEF Firsts, Begins
<1>5. <<Do("free", d)>> \o SetTo(c) = GiveBlock(d, c)
  BY Lists DEF SetTo, GiveBlock
<1>6. Left(t, r) = IF r.weak = 1 THEN GiveBlock(d, c) ELSE SetTo(c)
  BY <1>4, <1>5 DEF Left, After
<1>7. Shape(p, Left(t, r), d, c) /\ What(Left(t, r)) \notin Increases
  BY <1>2, <1>4, <1>6 DEF Shape, AnyShape, Increases
<1>8. PICK sh \in {{}, {"new"}} : \A x :
             /\ Has(Standing(p, t, d, x), IF c = x THEN sh ELSE {}, Part("old", d, x) \cup Part("new", c, x), {}, "none")
             /\ Has(Standing(p, Left(t, r), d, x), IF c = x THEN sh ELSE {}, Part("new", c, x), {},
                    IF d = x /\ r.weak = 1 THEN "free" ELSE "none")
  <2>1. CASE p \in SharedPtrs
    <3>1. ASSUME NEW x
          PROVE  /\ Has(Standing(p, t, d, x), Part("new", c, x), Part("old", d, x) \cup Part("new", c, x), {}, "none")
                 /\ Has(Standing(p, Left(t, r), d, x), Part("new", c, x), Part("new", c, x), {},
                        IF d = x /\ r.weak = 1 THEN "free" ELSE "none")
      <4>1. CASE r.weak = 1
        BY <1>2, <1>3, <1>6, <2>1, <4>1 DEF SharedStandings
      <4>2. CASE r.weak # 1
        BY <1>2, <1>3, <1>6, <2>1, <4>2 DEF SharedStandings
      <4> QED
        BY <4>1, <4>2
    <3> QED
      BY <3>1 DEF Part
  <2>2. CASE p \in WeakPtrs
    <3>1. ASSUME NEW x
          PROVE  /\ Has(Standing(p, t, d, x), {}, Part("old", d, x) \cup Part("new", c, x), {}, "none")
                 /\ Has(Standing(p, Left(t, r), d, x), {}, Part("new", c, x), {},
                        IF d = x /\ r.weak = 1 THEN "free" ELSE "none")
      <4>1. CASE r.weak = 1
        BY <1>2, <1>3, <1>6, <2>2, <4>1 DEF WeakStandings
      <4>2. CASE r.weak # 1
        BY <1>2, <1>3, <1>6, <2>2, <4>2 DEF WeakStandings
      <4> QED
        BY <4>1, <4>2
    <3> QED
      BY <3>1
  <2> QED
    BY <1>2, <2>1, <2>2 DEF Counted
<1>9. \A x : x # d => Same(Standing(p, Left(t, r), d, x), Standing(p, t, d, x))
  BY <1>8 DEF Same, Has, Part
<1>10. /\ Has(Standing(p, t, d, d), IF c = d THEN sh ELSE {}, {"old"} \cup Part("new", c, d), {}, "none")
       /\ Has(Standing(p, Left(t, r), d, d), IF c = d THEN sh ELSE {}, Part("new", c, d), {},
              IF r.weak = 1 THEN "free" ELSE "none")
  BY <1>8 DEF Part
<1>11. /\ "old" \in Standing(p, t, d, d).weak /\ Standing(p, t, d, d).work = "none"
       /\ Has(Standing(p, Left(t, r), d, d), Standing(p, t, d, d).shared, Standing(p, t, d, d).weak \ {"old"},
              Standing(p, t, d, d).unique, IF r.weak = 1 THEN "free" ELSE "none")
  BY <1>10 DEF Has, Part
<1> QED
  BY <1>2, <1>4, <1>7, <1>9, <1>11

\* The value is destructed, by a shared_ptr or by a unique_ptr.
LEMMA GivesValue ==
  ASSUME NEW p \in AllPtrs, NEW t, NEW d, NEW c, NEW r, Shape(p, t, d, c), What(t) = "destruct"
  PROVE  /\ Head(t).what = "destruct" /\ Head(t).b = d /\ d # NoBlock
         /\ Shape(p, Left(t, r), d, c) /\ What(Left(t, r)) \notin Increases
         /\ \/ /\ "old" \in Standing(p, t, d, d).weak /\ Standing(p, t, d, d).work = "destruct"
               /\ Has(Standing(p, Left(t, r), d, d), Standing(p, t, d, d).shared, Standing(p, t, d, d).weak,
                      Standing(p, t, d, d).unique, "none")
            \/ /\ p \in UniquePtrs /\ "old" \in Standing(p, t, d, d).unique /\ Standing(p, t, d, d).work = "none"
               /\ Has(Standing(p, Left(t, r), d, d), Standing(p, t, d, d).shared, Standing(p, t, d, d).weak,
                      Standing(p, t, d, d).unique, "free")
         /\ \A x : x # d => Same(Standing(p, Left(t, r), d, x), Standing(p, t, d, x))
<1>1. Firsts(d, c)
  BY FirstSteps
<1>2. \/ p \in SharedPtrs /\ d # NoBlock /\ t = GiveValue(d, c)
      \/ p \in UniquePtrs /\ d # NoBlock /\ t = GiveUnique(d, c)
  BY <1>1 DEF Firsts, Begins, Shape, AnyShape, SharedShape, WeakShape, CountedShape
<1>3. Head(t).what = "destruct" /\ Head(t).b = d
  BY <1>1, <1>2 DEF Firsts, Begins
<1>4. Left(t, r) = Tail(t)
  BY <1>3 DEF Left, After
<1>5. CASE p \in SharedPtrs /\ d # NoBlock /\ t = GiveValue(d, c)
  <2>1. Left(t, r) = GiveWeak(d, c) /\ What(GiveWeak(d, c)) = "weak-"
    BY <1>1, <1>4, <1>5 DEF Firsts, Begins
  <2>2. p \in Counted
    BY <1>5 DEF Counted
  <2>3. Shape(p, Left(t, r), d, c) /\ What(Left(t, r)) \notin Increases
    BY <1>5, <2>1, <2>2 DEF Shape, CountedShape, Increases
  <2>4. ASSUME NEW x
        PROVE  /\ Has(Standing(p, t, d, x), Part("new", c, x), Part("old", d, x) \cup Part("new", c, x), {},
                      IF d = x THEN "destruct" ELSE "none")
               /\ Has(Standing(p, Left(t, r), d, x), Part("new", c, x), Part("old", d, x) \cup Part("new", c, x), {}, "none")
    BY <1>5, <2>1, SharedStandingsHold DEF SharedStandings
  <2>5. \A x : x # d => Same(Standing(p, Left(t, r), d, x), Standing(p, t, d, x))
    BY <2>4 DEF Same, Has
  <2>6. /\ Has(Standing(p, t, d, d), Part("new", c, d), {"old"} \cup Part("new", c, d), {}, "destruct")
        /\ Has(Standing(p, Left(t, r), d, d), Part("new", c, d), {"old"} \cup Part("new", c, d), {}, "none")
    BY <2>4 DEF Part
  <2>7. /\ "old" \in Standing(p, t, d, d).weak /\ Standing(p, t, d, d).work = "destruct"
        /\ Has(Standing(p, Left(t, r), d, d), Standing(p, t, d, d).shared, Standing(p, t, d, d).weak,
               Standing(p, t, d, d).unique, "none")
    BY <2>6 DEF Has
  <2> QED
    BY <1>3, <1>5, <2>3, <2>5, <2>7
<1>6. CASE p \in UniquePtrs /\ d # NoBlock /\ t = GiveUnique(d, c)
  <2>1. Left(t, r) = GiveBlock(d, c) /\ What(GiveBlock(d, c)) = "free"
    BY <1>1, <1>4, <1>6 DEF Firsts, Begins
  <2>3. Shape(p, Left(t, r), d, c) /\ What(Left(t, r)) \notin Increases
    BY <1>6, <2>1 DEF Shape, AnyShape, Increases
  <2>4. ASSUME NEW x
        PROVE  /\ Has(Standing(p, t, d, x), {}, {}, Part("old", d, x) \cup Part("new", c, x), "none")
               /\ Has(Standing(p, Left(t, r), d, x), {}, {}, Part("old", d, x) \cup Part("new", c, x),
                      IF d = x THEN "free" ELSE "none")
    BY <1>6, <2>1, UniqueStandingsHold DEF UniqueStandings
  <2>5. \A x : x # d => Same(Standing(p, Left(t, r), d, x), Standing(p, t, d, x))
    BY <2>4 DEF Same, Has
  <2>6. /\ Has(Standing(p, t, d, d), {}, {}, {"old"} \cup Part("new", c, d), "none")
        /\ Has(Standing(p, Left(t, r), d, d), {}, {}, {"old"} \cup Part("new", c, d), "free")
    BY <2>4 DEF Part
  <2>7. /\ "old" \in Standing(p, t, d, d).unique /\ Standing(p, t, d, d).work = "none"
        /\ Has(Standing(p, Left(t, r), d, d), Standing(p, t, d, d).shared, Standing(p, t, d, d).weak,
               Standing(p, t, d, d).unique, "free")
    BY <2>6 DEF Has
  <2> QED
    BY <1>3, <1>6, <2>3, <2>5, <2>7
<1> QED
  BY <1>2, <1>5, <1>6

\* The block is freed.
LEMMA GivesBlock ==
  ASSUME NEW p \in AllPtrs, NEW t, NEW d, NEW c, NEW r, Shape(p, t, d, c), What(t) = "free"
  PROVE  /\ Head(t).what = "free" /\ Head(t).b = d /\ d # NoBlock
         /\ Shape(p, Left(t, r), d, c) /\ What(Left(t, r)) \notin Increases
         /\ Standing(p, t, d, d).work = "free"
         /\ \/ /\ p \in Counted
               /\ Has(Standing(p, Left(t, r), d, d), Standing(p, t, d, d).shared, Standing(p, t, d, d).weak,
                      Standing(p, t, d, d).unique, "none")
            \/ /\ p \in UniquePtrs /\ "old" \in Standing(p, t, d, d).unique
               /\ Has(Standing(p, Left(t, r), d, d), Standing(p, t, d, d).shared, Standing(p, t, d, d).weak,
                      Standing(p, t, d, d).unique \ {"old"}, "none")
         /\ \A x : x # d => Same(Standing(p, Left(t, r), d, x), Standing(p, t, d, x))
<1>1. Firsts(d, c)
  BY FirstSteps
<1>2. d # NoBlock /\ t = GiveBlock(d, c)
  BY <1>1 DEF Firsts, Begins, Shape, AnyShape, SharedShape, WeakShape, CountedShape
<1>3. Head(t).what = "free" /\ Head(t).b = d /\ Tail(t) = SetTo(c) /\ What(SetTo(c)) = "set"
  BY <1>1, <1>2 DEF Firsts, Begins
<1>4. Left(t, r) = SetTo(c)
  BY <1>3 DEF Left, After
<1>5. Shape(p, Left(t, r), d, c) /\ What(Left(t, r)) \notin Increases
  BY <1>3, <1>4 DEF Shape, AnyShape, Increases
<1>6. CASE p \in Counted
  <2>1. PICK sh \in {{}, {"new"}} : \A x :
             /\ Has(Standing(p, t, d, x), IF c = x THEN sh ELSE {}, Part("new", c, x), {}, IF d = x THEN "free" ELSE "none")
             /\ Has(Standing(p, Left(t, r), d, x), IF c = x THEN sh ELSE {}, Part("new", c, x), {}, "none")
    <3>1. CASE p \in SharedPtrs
      <4>1. ASSUME NEW x
            PROVE  /\ Has(Standing(p, t, d, x), Part("new", c, x), Part("new", c, x), {}, IF d = x THEN "free" ELSE "none")
                   /\ Has(Standing(p, Left(t, r), d, x), Part("new", c, x), Part("new", c, x), {}, "none")
        BY <1>2, <1>4, <3>1, SharedStandingsHold DEF SharedStandings
      <4> QED
        BY <4>1 DEF Part
    <3>2. CASE p \in WeakPtrs
      <4>1. ASSUME NEW x
            PROVE  /\ Has(Standing(p, t, d, x), {}, Part("new", c, x), {}, IF d = x THEN "free" ELSE "none")
                   /\ Has(Standing(p, Left(t, r), d, x), {}, Part("new", c, x), {}, "none")
        BY <1>2, <1>4, <3>2, WeakStandingsHold DEF WeakStandings
      <4> QED
        BY <4>1
    <3> QED
      BY <1>6, <3>1, <3>2 DEF Counted
  <2>2. \A x : x # d => Same(Standing(p, Left(t, r), d, x), Standing(p, t, d, x))
    BY <2>1 DEF Same, Has
  <2>3. /\ Has(Standing(p, t, d, d), IF c = d THEN sh ELSE {}, Part("new", c, d), {}, "free")
        /\ Has(Standing(p, Left(t, r), d, d), IF c = d THEN sh ELSE {}, Part("new", c, d), {}, "none")
    BY <2>1
  <2>4. /\ Standing(p, t, d, d).work = "free"
        /\ Has(Standing(p, Left(t, r), d, d), Standing(p, t, d, d).shared, Standing(p, t, d, d).weak,
               Standing(p, t, d, d).unique, "none")
    BY <2>3 DEF Has
  <2> QED
    BY <1>2, <1>3, <1>5, <1>6, <2>2, <2>4
<1>7. CASE p \in UniquePtrs
  <2>1. ASSUME NEW x
        PROVE  /\ Has(Standing(p, t, d, x), {}, {}, Part("old", d, x) \cup Part("new", c, x), IF d = x THEN "free" ELSE "none")
               /\ Has(Standing(p, Left(t, r), d, x), {}, {}, Part("new", c, x), "none")
    BY <1>2, <1>4, <1>7, UniqueStandingsHold DEF UniqueStandings
  <2>2. \A x : x # d => Same(Standing(p, Left(t, r), d, x), Standing(p, t, d, x))
    BY <2>1, ZenonT(40) DEF Same, Has, Part
  <2>3. /\ Has(Standing(p, t, d, d), {}, {}, {"old"} \cup Part("new", c, d), "free")
        /\ Has(Standing(p, Left(t, r), d, d), {}, {}, Part("new", c, d), "none")
    BY <2>1 DEF Part
  <2>4. /\ Standing(p, t, d, d).work = "free" /\ "old" \in Standing(p, t, d, d).unique
        /\ Has(Standing(p, Left(t, r), d, d), Standing(p, t, d, d).shared, Standing(p, t, d, d).weak,
               Standing(p, t, d, d).unique \ {"old"}, "none")
    BY <2>3 DEF Has, Part
  <2> QED
    BY <1>2, <1>3, <1>5, <1>7, <2>2, <2>4
<1> QED
  BY <1>6, <1>7 DEF AllPtrs

\* An empty shared_ptr is to be filled by weak_ptr::lock.
LEMMA LocksEmpty ==
  ASSUME NEW p \in AllPtrs, NEW t, NEW d, NEW c, Shape(p, t, d, c), What(t) \in {"load", "cas"}
  PROVE  Head(t).b = c /\ c # NoBlock /\ d = NoBlock
<1>1. Firsts(d, c)
  BY FirstSteps
<1>2. d = NoBlock /\ c # NoBlock /\ (t = LockLoad(c) \/ \E k \in Int : t = LockCas(c, k))
  BY <1>1 DEF Firsts, Begins, Shape, AnyShape, SharedShape, WeakShape, CountedShape
<1> QED
  BY <1>1, <1>2 DEF Firsts, Begins

\* weak_ptr::lock looks at the count, and counts when it finds what it saw.
LEMMA Locks ==
  ASSUME NEW p \in AllPtrs, NEW t, NEW d, NEW c, NEW r \in BlockRecord, Shape(p, t, d, c), What(t) \in {"load", "cas"}
  PROVE  /\ Head(t).what = What(t) /\ Head(t).b = c /\ c # NoBlock /\ d = NoBlock
         /\ Shape(p, Left(t, r), d, c) /\ What(Left(t, r)) \in {"idle", "cas", "weak+"}
         /\ What(Left(t, r)) # "idle" => Head(Left(t, r)).b = c /\ Left(t, r) # <<>>
         /\ IF What(t) = "cas" /\ Head(t).n # 0 /\ r.shared = Head(t).n
            THEN \E s \in Slot : GainsShared(p, t, Left(t, r), d, c, s)
            ELSE \A x : x # NoBlock => Same(Standing(p, Left(t, r), d, x), Standing(p, t, d, x))
<1>1. Firsts(d, c)
  BY FirstSteps
<1>2. /\ p \in SharedPtrs /\ p \in Counted /\ d = NoBlock /\ c # NoBlock
      /\ t = LockLoad(c) \/ \E k \in Int : t = LockCas(c, k)
  BY <1>1 DEF Firsts, Begins, Shape, AnyShape, SharedShape, WeakShape, CountedShape, Counted
<1>3. ASSUME NEW x
      PROVE  /\ Has(Standing(p, t, d, x), {}, {}, {}, "none")
             /\ Has(Standing(p, <<>>, d, x), Part("old", d, x), Part("old", d, x), {}, "none")
             /\ Has(Standing(p, FillWeak(c), d, x), Part("new", c, x), {}, {}, "none")
             /\ \A k : Has(Standing(p, LockCas(c, k), d, x), {}, {}, {}, "none")
  <2>1. SharedStandings(p, d, c, x)
    BY <1>2, SharedStandingsHold
  <2> QED
    BY <1>2, <2>1 DEF SharedStandings
<1>4. ASSUME NEW k \in Int
      PROVE  /\ Shape(p, LockCas(c, k), d, c) /\ What(LockCas(c, k)) = "cas"
             /\ Head(LockCas(c, k)).b = c /\ LockCas(c, k) # <<>>
             /\ \A x : Same(Standing(p, LockCas(c, k), d, x), Standing(p, t, d, x))
  <2>1. What(LockCas(c, k)) = "cas" /\ Head(LockCas(c, k)).b = c /\ LockCas(c, k) # <<>>
    BY <1>1 DEF Firsts, Begins
  <2>2. Shape(p, LockCas(c, k), d, c)
    BY <1>2 DEF Shape, SharedShape
  <2>3. \A x : Same(Standing(p, LockCas(c, k), d, x), Standing(p, t, d, x))
    BY <1>3 DEF Same, Has
  <2> QED
    BY <2>1, <2>2, <2>3
<1>5. ASSUME NEW k PROVE <<[Do("cas", c) EXCEPT !.n = k]>> \o FillWeak(c) = LockCas(c, k)
  BY Lists DEF FillWeak, LockCas
<1>6. CASE t = LockLoad(c)
  <2>1. What(t) = "load" /\ Tail(t) = FillWeak(c) /\ Head(t).what = "load" /\ Head(t).b = c
    BY <1>1, <1>6 DEF Firsts, Begins
  <2>2. Left(t, r) = LockCas(c, r.shared)
    BY <1>5, <2>1 DEF Left, After
  <2>3. r.shared \in Int
    BY DEF BlockRecord
  <2> QED
    BY <1>2, <1>4, <2>1, <2>2, <2>3
<1>7. ASSUME NEW k \in Int, t = LockCas(c, k)
      PROVE  /\ Head(t).what = "cas" /\ What(t) = "cas" /\ Head(t).b = c /\ Head(t).n = k /\ Tail(t) = FillWeak(c)
             /\ Head(t) = [Do("cas", c) EXCEPT !.n = k]
  <2>1. Head(t) = [Do("cas", c) EXCEPT !.n = k]
    BY <1>7 DEF LockCas
  <2>2. Head(t).what = "cas" /\ What(t) = "cas" /\ Head(t).b = c /\ Head(t).n = k /\ Tail(t) = FillWeak(c)
    BY <1>1, <1>7 DEF Firsts, Begins
  <2> QED
    BY <2>1, <2>2
<1>8. ASSUME NEW k \in Int, t = LockCas(c, k), k = 0 PROVE Left(t, r) = <<>>
  BY <1>7, <1>8 DEF Left, After
<1>9. ASSUME NEW k \in Int, t = LockCas(c, k), k # 0, r.shared # k PROVE Left(t, r) = LockCas(c, r.shared)
  <2>1. [Head(t) EXCEPT !.n = r.shared] = [Do("cas", c) EXCEPT !.n = r.shared]
    BY <1>7, <1>9 DEF Do
  <2>2. Left(t, r) = <<[Head(t) EXCEPT !.n = r.shared]>> \o Tail(t)
    BY <1>7, <1>9 DEF Left, After
  <2> QED
    BY <1>5, <1>7, <1>9, <2>1, <2>2
<1>10. ASSUME NEW k \in Int, t = LockCas(c, k), k # 0, r.shared = k PROVE Left(t, r) = FillWeak(c)
  BY <1>7, <1>10 DEF Left, After
<1>11. Shape(p, <<>>, d, c) /\ What(<<>>) = "idle" /\ \A x : x # NoBlock => Same(Standing(p, <<>>, d, x), Standing(p, t, d, x))
  <2>1. \A x : x # NoBlock => Same(Standing(p, <<>>, d, x), Standing(p, t, d, x))
    BY <1>2, <1>3, ZenonT(40) DEF Same, Has, Part
  <2> QED
    BY <1>1, <2>1 DEF Firsts, Shape, AnyShape
<1>12. /\ Shape(p, FillWeak(c), d, c) /\ What(FillWeak(c)) = "weak+" /\ Head(FillWeak(c)).b = c /\ FillWeak(c) # <<>>
       /\ \E s \in Slot : GainsShared(p, t, FillWeak(c), d, c, s)
  <2>1. What(FillWeak(c)) = "weak+" /\ Head(FillWeak(c)).b = c /\ FillWeak(c) # <<>>
    BY <1>1 DEF Firsts, Begins
  <2>2. Shape(p, FillWeak(c), d, c)
    BY <1>2 DEF Shape, CountedShape
  <2>3. GainsShared(p, t, FillWeak(c), d, c, "new")
    BY <1>3 DEF GainsShared, Same, Has, Part
  <2>4. "new" \in Slot
    BY DEF Slot
  <2> QED
    BY <2>1, <2>2, <2>3, <2>4
<1>13. CASE \E k \in Int : t = LockCas(c, k)
  <2>1. PICK k \in Int : t = LockCas(c, k)
    BY <1>13
  <2>2. Head(t).what = "cas" /\ What(t) = "cas" /\ Head(t).b = c /\ Head(t).n = k
    BY <1>7, <2>1
  <2>3. r.shared \in Int
    BY DEF BlockRecord
  <2>4. CASE k = 0
    BY <1>2, <1>8, <1>11, <2>1, <2>2, <2>4
  <2>5. CASE k # 0 /\ r.shared # k
    BY <1>2, <1>4, <1>9, <2>1, <2>2, <2>3, <2>5
  <2>6. CASE k # 0 /\ r.shared = k
    BY <1>2, <1>10, <1>12, <2>1, <2>2, <2>6
  <2> QED
    BY <2>4, <2>5, <2>6
<1> QED
  BY <1>2, <1>6, <1>13

\* What is left is the assignment: what the pointer will have, it has.
LEMMA Sets ==
  ASSUME NEW p \in AllPtrs, NEW t, NEW d, NEW c, Shape(p, t, d, c), What(t) = "set"
  PROVE  /\ Head(t).what = "set" /\ Head(t).b = c /\ Tail(t) = <<>>
         /\ \A x : LET st == Standing(p, t, d, x)
                       tt == Standing(p, <<>>, c, x)
                   IN /\ st.work = "none" /\ tt.work = "none"
                      /\ tt.shared = st.shared \/ (st.shared = {"new"} /\ tt.shared = {"old"})
                      /\ tt.weak = st.weak \/ (st.weak = {"new"} /\ tt.weak = {"old"})
                      /\ tt.unique = st.unique \/ (st.unique = {"new"} /\ tt.unique = {"old"})
<1>1. Firsts(d, c)
  BY FirstSteps
<1>2. t = SetTo(c)
  BY <1>1 DEF Firsts, Begins, Shape, AnyShape, SharedShape, WeakShape, CountedShape
<1>3. Head(t).what = "set" /\ Head(t).b = c /\ Tail(t) = <<>>
  BY <1>1, <1>2 DEF Firsts, Begins
<1>4. ASSUME NEW x, p \in SharedPtrs
      PROVE  /\ Has(Standing(p, t, d, x), Part("new", c, x), Part("new", c, x), {}, "none")
             /\ Has(Standing(p, <<>>, c, x), Part("old", c, x), Part("old", c, x), {}, "none")
  <2>1. SharedStandings(p, d, c, x) /\ SharedStandings(p, c, c, x)
    BY <1>4, SharedStandingsHold
  <2> QED
    BY <1>2, <2>1 DEF SharedStandings
<1>5. ASSUME NEW x, p \in WeakPtrs
      PROVE  /\ Has(Standing(p, t, d, x), {}, Part("new", c, x), {}, "none")
             /\ Has(Standing(p, <<>>, c, x), {}, Part("old", c, x), {}, "none")
  <2>1. WeakStandings(p, d, c, x) /\ WeakStandings(p, c, c, x)
    BY <1>5, WeakStandingsHold
  <2> QED
    BY <1>2, <2>1 DEF WeakStandings
<1>6. ASSUME NEW x, p \in UniquePtrs
      PROVE  /\ Has(Standing(p, t, d, x), {}, {}, Part("new", c, x), "none")
             /\ Has(Standing(p, <<>>, c, x), {}, {}, Part("old", c, x), "none")
  <2>1. UniqueStandings(p, d, c, x) /\ UniqueStandings(p, c, c, x)
    BY <1>6, UniqueStandingsHold
  <2> QED
    BY <1>2, <2>1 DEF UniqueStandings
<1>7. p \in SharedPtrs \/ p \in WeakPtrs \/ p \in UniquePtrs
  BY DEF AllPtrs, Counted
<1>8. ASSUME NEW x
      PROVE  LET st == Standing(p, t, d, x)
                 tt == Standing(p, <<>>, c, x)
             IN /\ st.work = "none" /\ tt.work = "none"
                /\ tt.shared = st.shared \/ (st.shared = {"new"} /\ tt.shared = {"old"})
                /\ tt.weak = st.weak \/ (st.weak = {"new"} /\ tt.weak = {"old"})
                /\ tt.unique = st.unique \/ (st.unique = {"new"} /\ tt.unique = {"old"})
  <2>1. CASE p \in SharedPtrs
    BY <1>4, <2>1 DEF Has, Part
  <2>2. CASE p \in WeakPtrs
    BY <1>5, <2>2 DEF Has, Part
  <2>3. CASE p \in UniquePtrs
    BY <1>6, <2>3 DEF Has, Part
  <2> QED
    BY <1>7, <2>1, <2>2, <2>3
<1> QED
  BY <1>3, <1>8

-----------------------------------------------------------------------------
(* The steps of a call keep the invariant.                                 *)

\* The accounts, when one pointer changes.
LEMMA AccountChanged ==
  ASSUME NEW p \in AllPtrs, NEW dt, NEW td, NEW u, NEW e, NEW x,
         DOMAIN dt = AllPtrs, DOMAIN td = AllPtrs
  PROVE  /\ Account(dt, td, x)[p] = Standing(p, td[p], dt[p], x)
         /\ Account([dt EXCEPT ![p] = e], [td EXCEPT ![p] = u], x)[p] = Standing(p, u, e, x)
         /\ \A q \in AllPtrs : q # p =>
              Account([dt EXCEPT ![p] = e], [td EXCEPT ![p] = u], x)[q] = Account(dt, td, x)[q]
         /\ Same(Standing(p, u, e, x), Standing(p, td[p], dt[p], x)) =>
              Account([dt EXCEPT ![p] = e], [td EXCEPT ![p] = u], x) = Account(dt, td, x)
<1>1. /\ Account(dt, td, x)[p] = Standing(p, td[p], dt[p], x)
      /\ Account([dt EXCEPT ![p] = e], [td EXCEPT ![p] = u], x)[p] = Standing(p, u, e, x)
  BY DEF Account
<1>2. \A q \in AllPtrs : q # p =>
        Account([dt EXCEPT ![p] = e], [td EXCEPT ![p] = u], x)[q] = Account(dt, td, x)[q]
  BY DEF Account
<1>3. ASSUME Same(Standing(p, u, e, x), Standing(p, td[p], dt[p], x))
      PROVE  Account([dt EXCEPT ![p] = e], [td EXCEPT ![p] = u], x) = Account(dt, td, x)
  <2>1. Standing(p, u, e, x) = Standing(p, td[p], dt[p], x)
    BY <1>3, SameStanding
  <2>2. \A q \in AllPtrs : Account([dt EXCEPT ![p] = e], [td EXCEPT ![p] = u], x)[q] = Account(dt, td, x)[q]
    BY <1>1, <1>2, <2>1
  <2> QED
    BY <2>2 DEF Account
<1> QED
  BY <1>1, <1>2, <1>3

\* The pointer that a call reads holds the block that the call counts.
LEMMA ReaderHolds ==
  ASSUME PointersInv, ~uniqueReset, NEW p \in AllPtrs, What(todo[p]) \in Increases
  PROVE  /\ Head(todo[p]).b \in DOMAIN block
         /\ WeakUnits(Account(data, todo, Head(todo[p]).b)) # {}
         /\ What(todo[p]) = "shared+" => SharedUnits(Account(data, todo, Head(todo[p]).b)) # {}
<1> DEFINE y == Head(todo[p]).b
           q == reading[p]
<1>1. PICK c \in 0 .. Len(block) : Shape(p, todo[p], data[p], c)
  BY DEF PointersInv, Shaped
<1>2. /\ q \in Counted /\ data[q] = y /\ (What(todo[p]) = "shared+" => q \in SharedPtrs)
      /\ IF q = p THEN Long(todo[p]) ELSE todo[q] = <<>>
  BY DEF PointersInv, AllRead, Read
<1>3. y \in {data[p], c} \ {NoBlock} /\ (What(todo[p]) \in {"load", "cas"} => y # data[p])
  <2>1. CASE What(todo[p]) = "shared+"
    BY <1>1, <2>1, CountsShared
  <2>2. CASE What(todo[p]) = "weak+"
    BY <1>1, <2>2, CountsWeak
  <2>3. CASE What(todo[p]) \in {"load", "cas"}
    BY <1>1, <2>3, LocksEmpty
  <2> QED
    BY <2>1, <2>2, <2>3 DEF Increases
<1>4. y \in DOMAIN block
  BY <1>3 DEF PointersInv, PointersTyped, NoBlock
<1>5. q \in AllPtrs /\ "old" \in Slot
  BY <1>2 DEF AllPtrs, Slot
<1>6. /\ "old" \in Standing(q, todo[q], data[q], y).weak
      /\ What(todo[p]) = "shared+" => "old" \in Standing(q, todo[q], data[q], y).shared
  <2>1. CASE q # p
    <3>1. todo[q] = <<>> /\ data[q] = y
      BY <1>2, <2>1, SMTT(30)
    <3>2. CASE q \in SharedPtrs
      <4>1. SharedStandings(q, y, y, y)
        BY <3>2, SharedStandingsHold
      <4> QED
        BY <3>1, <4>1, ZenonT(40) DEF SharedStandings, Has, Part
    <3>3. CASE q \in WeakPtrs
      <4>1. WeakStandings(q, y, y, y)
        BY <3>3, WeakStandingsHold
      <4>2. q \notin SharedPtrs
        BY <3>3, PointersAssumption
      <4> QED
        BY <1>2, <3>1, <4>1, <4>2, ZenonT(40) DEF WeakStandings, Has, Part
    <3> QED
      BY <1>2, <3>2, <3>3 DEF Counted
  <2>2. CASE q = p
    <3>1. Long(todo[p]) /\ data[p] = y
      BY <1>2, <2>2
    <3>2. What(todo[p]) \in {"shared+", "weak+"}
      BY <1>3, <3>1 DEF Increases
    <3>3. CASE What(todo[p]) = "shared+"
      <4>1. (Long(todo[p]) /\ Head(todo[p]).b = data[p]) =>
              "old" \in Standing(p, todo[p], data[p], data[p]).shared \cap Standing(p, todo[p], data[p], data[p]).weak
        BY <1>1, <3>3, CountsShared
      <4> QED
        BY <2>2, <3>1, <4>1
    <3>4. CASE What(todo[p]) = "weak+"
      <4>1. (Long(todo[p]) /\ Head(todo[p]).b = data[p]) => "old" \in Standing(p, todo[p], data[p], data[p]).weak
        BY <1>1, <3>4, CountsWeak
      <4> QED
        BY <2>2, <3>1, <3>4, <4>1
    <3> QED
      BY <3>2, <3>3, <3>4
  <2> QED
    BY <2>1, <2>2
<1>7. Account(data, todo, y)[q] = Standing(q, todo[q], data[q], y)
  BY <1>5 DEF Account
<1> HIDE DEF q
<1>8. <<q, "old">> \in WeakUnits(Account(data, todo, y))
  BY <1>5, <1>6, <1>7 DEF WeakUnits, Units
<1>9. What(todo[p]) = "shared+" => <<q, "old">> \in SharedUnits(Account(data, todo, y))
  BY <1>5, <1>6, <1>7 DEF SharedUnits, Units
<1> QED
  BY <1>4, <1>8, <1>9

\* No other call counts by a pointer that has a call.
LEMMA NotReadByOthers ==
  ASSUME PointersInv, ~uniqueReset, NEW p \in AllPtrs, todo[p] # <<>> \/ Idle(p),
         NEW q \in AllPtrs, q # p, What(todo[q]) \in Increases
  PROVE  reading[q] # p
<1>1. Read(q, data, todo, reading)
  BY DEF PointersInv, AllRead
<1> QED
  BY <1>1 DEF Read, Idle

\* A call or step on p changes what is left of it, and what p refers to.
LEMMA OneChanges ==
  ASSUME PointersInv, ~uniqueReset, NEW p \in AllPtrs, todo[p] # <<>> \/ Idle(p),
         NEW u, NEW e \in 0 .. Len(block), NEW c \in 0 .. Len(block), NEW v \in AllPtrs \cup {NoPtr},
         data' = [data EXCEPT ![p] = e], todo' = [todo EXCEPT ![p] = u], reading' = [reading EXCEPT ![p] = v],
         ~touched', block' \in Seq(BlockRecord), Len(block') = Len(block),
         Shape(p, u, e, c), Read(p, data', todo', reading'),
         \A x \in DOMAIN block : BlockKept(Account(data', todo', x), block'[x])
  PROVE  PointersInv'
<1>0. /\ data \in [AllPtrs -> Nat] /\ reading \in [AllPtrs -> AllPtrs \cup {NoPtr}] /\ DOMAIN todo = AllPtrs
      /\ block \in Seq(BlockRecord) /\ \A q \in AllPtrs : data[q] \in 0 .. Len(block)
  BY DEF PointersInv, PointersTyped
<1>1. DOMAIN block' = DOMAIN block
  BY <1>0
<1>2. /\ data'[p] = e /\ todo'[p] = u /\ reading'[p] = v
      /\ \A q \in AllPtrs : q # p => data'[q] = data[q] /\ todo'[q] = todo[q] /\ reading'[q] = reading[q]
  BY <1>0
<1>3. PointersTyped'
  <2>1. data' \in [AllPtrs -> Nat] /\ reading' \in [AllPtrs -> AllPtrs \cup {NoPtr}]
    BY <1>0
  <2>2. todo' = [q \in AllPtrs |-> todo'[q]]
    BY <1>0
  <2>3. \A q \in AllPtrs : data'[q] \in 0 .. Len(block')
    BY <1>0, <1>2
  <2> QED
    BY <2>1, <2>2, <2>3 DEF PointersTyped
<1>4. Shaped'
  <2>1. \A q \in AllPtrs : \E z \in 0 .. Len(block) : Shape(q, todo'[q], data'[q], z)
    BY <1>2 DEF PointersInv, Shaped
  <2> QED
    BY <2>1 DEF Shaped
<1>5. AllRead'
  <2>1. ASSUME NEW q \in AllPtrs, q # p PROVE Read(q, data', todo', reading')
    <3>1. Read(q, data, todo, reading)
      BY DEF PointersInv, AllRead
    <3>2. What(todo[q]) \in Increases => reading[q] # p
      BY <2>1, NotReadByOthers
    <3>3. Counted \subseteq AllPtrs
      BY DEF AllPtrs
    <3> QED
      BY <1>2, <2>1, <3>1, <3>2, <3>3 DEF Read
  <2> QED
    BY <2>1 DEF AllRead
<1>6. BlocksKept'
  BY <1>1 DEF BlocksKept
<1> QED
  BY <1>3, <1>4, <1>5, <1>6 DEF PointersInv

\* A step that changes one block keeps what the pointers have of the others.
LEMMA OneBlockChanges ==
  ASSUME PointersInv, ~uniqueReset, NEW p \in AllPtrs, NEW u, NEW y \in DOMAIN block, NEW r \in BlockRecord,
         \A x \in DOMAIN block : x # y => Same(Standing(p, u, data[p], x), Standing(p, todo[p], data[p], x)),
         data' = data, todo' = [todo EXCEPT ![p] = u], block' = [block EXCEPT ![y] = r],
         BlockKept(Stepped(p, u, y), r)
  PROVE  /\ block' \in Seq(BlockRecord) /\ Len(block') = Len(block)
         /\ \A x \in DOMAIN block : BlockKept(Account(data', todo', x), block'[x])
<1>0. /\ data \in [AllPtrs -> Nat] /\ DOMAIN todo = AllPtrs /\ block \in Seq(BlockRecord)
  BY DEF PointersInv, PointersTyped
<1>1. block' \in Seq(BlockRecord) /\ Len(block') = Len(block)
  BY <1>0, ExceptSeq
<1>2. \A x \in DOMAIN block : block'[x] = IF x = y THEN r ELSE block[x]
  BY <1>0
<1>4. ASSUME NEW x \in DOMAIN block, x # y PROVE BlockKept(Account(data', todo', x), block'[x])
  <2>1. Same(Standing(p, u, data[p], x), Standing(p, todo[p], data[p], x))
    BY <1>4
  <2>2. Stepped(p, u, x) = Account(data, todo, x)
    <3>1. Standing(p, u, data[p], x) = Standing(p, todo[p], data[p], x)
      BY <2>1, SameStanding
    <3> QED
      BY <1>0, <3>1 DEF Account, Stepped
  <2>3. BlockKept(Account(data, todo, x), block[x])
    BY DEF PointersInv, BlocksKept
  <2> QED
    BY <1>2, <1>4, <2>2, <2>3 DEF Stepped
<1>5. BlockKept(Account(data', todo', y), block'[y])
  BY <1>2 DEF Stepped
<1> QED
  BY <1>1, <1>4, <1>5

\* What the pointers have of the block, before and after.
LEMMA AccountStep ==
  ASSUME PointersInv, ~uniqueReset, NEW p \in AllPtrs, NEW u, NEW y \in DOMAIN block
  PROVE  /\ Account(data, todo, y)[p] = Standing(p, todo[p], data[p], y)
         /\ Stepped(p, u, y)[p] = Standing(p, u, data[p], y)
         /\ \A q \in AllPtrs : q # p => Stepped(p, u, y)[q] = Account(data, todo, y)[q]
         /\ BlockKept(Account(data, todo, y), block[y]) /\ block[y] \in BlockRecord
<1>0. data \in [AllPtrs -> Nat] /\ DOMAIN todo = AllPtrs /\ block \in Seq(BlockRecord)
  BY DEF PointersInv, PointersTyped
<1>2. BlockKept(Account(data, todo, y), block[y])
  BY DEF PointersInv, BlocksKept
<1>3. block[y] \in BlockRecord
  BY <1>0
<1>4. /\ Account(data, todo, y)[p] = Standing(p, todo[p], data[p], y)
      /\ Stepped(p, u, y)[p] = Standing(p, u, data[p], y)
      /\ \A q \in AllPtrs : q # p => Stepped(p, u, y)[q] = Account(data, todo, y)[q]
  BY <1>0 DEF Account, Stepped
<1> QED
  BY <1>2, <1>3, <1>4
\* What a step does, when it is not the assignment.
LEMMA StepDone ==
  ASSUME PointersInv, ~uniqueReset, NEW p \in AllPtrs, Step(p), Head(todo[p]).what # "set"
  PROVE  LET y == Head(todo[p]).b
             u == Left(todo[p], block[y])
         IN /\ todo[p] # <<>> /\ data' = data /\ todo' = [todo EXCEPT ![p] = u]
            /\ block' = [block EXCEPT ![y] = Done(Head(todo[p]), block[y])]
            /\ block[y].allocated /\ (Head(todo[p]).what = "destruct" => block[y].lives) => ~touched'
            /\ reading' = [reading EXCEPT ![p] = IF u = <<>> THEN NoPtr ELSE reading[p]]
            /\ uniqueReset' = uniqueReset
<1> DEFINE y == Head(todo[p]).b
           u == Left(todo[p], block[y])
<1>0. DOMAIN todo = AllPtrs /\ ~touched
  BY DEF PointersInv, PointersTyped
<1>1. /\ todo[p] # <<>> /\ data' = data /\ block' = [block EXCEPT ![y] = Done(Head(todo[p]), block[y])]
      /\ uniqueReset' = uniqueReset
      /\ touched' = (touched \/ ~block[y].allocated \/ (Head(todo[p]).what = "destruct" /\ ~block[y].lives))
  BY DEF Step
<1>2. todo' = [todo EXCEPT ![p] = u]
  BY DEF Step, Left
<1>3. todo'[p] = u
  BY <1>0, <1>2
<1> HIDE DEF u
<1>4. reading' = [reading EXCEPT ![p] = IF u = <<>> THEN NoPtr ELSE reading[p]]
  BY <1>3 DEF Step
<1> QED
  BY <1>0, <1>1, <1>2, <1>4 DEF u

\* A call goes on counting by the pointer that it reads, or counts no more.
GoesOn(p, u) ==
    What(u) \in Increases =>
       /\ What(todo[p]) \in Increases /\ What(u) # "shared+" /\ u # <<>> /\ Head(u).b = Head(todo[p]).b
       /\ Long(todo[p]) /\ Head(todo[p]).b = data[p] => Long(u)

\* A step keeps the invariant, when it does for its block.
LEMMA StepKept ==
  ASSUME PointersInv, ~uniqueReset, NEW p \in AllPtrs, Step(p), Head(todo[p]).what # "set",
         NEW c \in 0 .. Len(block), NEW y \in DOMAIN block, y = Head(todo[p]).b, NEW u, u = Left(todo[p], block[y]),
         NEW r \in BlockRecord, r = Done(Head(todo[p]), block[y]),
         Shape(p, u, data[p], c), GoesOn(p, u),
         block[y].allocated, Head(todo[p]).what = "destruct" => block[y].lives,
         \A x \in DOMAIN block : x # y => Same(Standing(p, u, data[p], x), Standing(p, todo[p], data[p], x)),
         BlockKept(Stepped(p, u, y), r)
  PROVE  PointersInv'
<1> DEFINE v == IF u = <<>> THEN NoPtr ELSE reading[p]
<1>0. /\ data \in [AllPtrs -> Nat] /\ DOMAIN todo = AllPtrs /\ DOMAIN reading = AllPtrs /\ reading[p] \in AllPtrs \cup {NoPtr}
      /\ data[p] \in 0 .. Len(block)
  BY DEF PointersInv, PointersTyped
<1>1. /\ todo[p] # <<>> /\ data' = data /\ todo' = [todo EXCEPT ![p] = u] /\ block' = [block EXCEPT ![y] = r]
      /\ ~touched' /\ reading' = [reading EXCEPT ![p] = v] /\ uniqueReset' = uniqueReset
  BY StepDone, SMTT(30)
<1>2. /\ block' \in Seq(BlockRecord) /\ Len(block') = Len(block)
      /\ \A x \in DOMAIN block : BlockKept(Account(data', todo', x), block'[x])
  BY <1>1, OneBlockChanges
<1>3. data' = [data EXCEPT ![p] = data[p]] /\ v \in AllPtrs \cup {NoPtr}
  BY <1>0, <1>1
<1>4. Read(p, data', todo', reading')
  <2> SUFFICES ASSUME What(todo'[p]) \in Increases
               PROVE  /\ reading'[p] \in Counted /\ data'[reading'[p]] = Head(todo'[p]).b
                      /\ What(todo'[p]) = "shared+" => reading'[p] \in SharedPtrs
                      /\ IF reading'[p] = p THEN Long(todo'[p]) ELSE todo'[reading'[p]] = <<>>
    BY DEF Read
  <2>1. todo'[p] = u /\ reading'[p] = v /\ What(u) \in Increases
    BY <1>0, <1>1
  <2>2. /\ What(todo[p]) \in Increases /\ What(u) # "shared+" /\ u # <<>> /\ Head(u).b = Head(todo[p]).b
        /\ Long(todo[p]) /\ Head(todo[p]).b = data[p] => Long(u)
    BY <2>1 DEF GoesOn
  <2>3. v = reading[p]
    BY <2>2
  <2>4. Read(p, data, todo, reading)
    BY DEF PointersInv, AllRead
  <2>5. /\ reading[p] \in Counted /\ data[reading[p]] = Head(todo[p]).b
        /\ IF reading[p] = p THEN Long(todo[p]) ELSE todo[reading[p]] = <<>>
    BY <2>2, <2>4 DEF Read
  <2>6. reading[p] # p => todo'[reading[p]] = todo[reading[p]]
    BY <1>0, <1>1
  <2> HIDE DEF v
  <2> QED
    BY <1>1, <2>1, <2>2, <2>3, <2>5, <2>6
<1> HIDE DEF v
<1> QED
  BY <1>0, <1>1, <1>2, <1>3, <1>4, OneChanges

\* A block that is counted is allocated.
LEMMA CountedAllocated ==
  ASSUME NEW f, NEW r, BlockKept(f, r), WeakUnits(f) # {}
  PROVE  CountedBlock(f, r) /\ r.allocated
<1>1. ASSUME UniqueBlock(f, r) PROVE FALSE
  <2>1. \A q \in AllPtrs : f[q].weak = {}
    BY <1>1 DEF UniqueBlock
  <2> QED
    BY <2>1 DEF WeakUnits, Units
<1> QED
  BY <1>1 DEF BlockKept, CountedBlock

\* A pointer with a part of the weak count of a block has a unit of it.
LEMMA WeakUnitOf ==
  ASSUME NEW f, NEW p \in AllPtrs, "old" \in f[p].weak
  PROVE  WeakUnits(f) # {}
<1>1. <<p, "old">> \in WeakUnits(f)
  BY DEF WeakUnits, Units, Slot
<1> QED
  BY <1>1
\* What the counters of a block become.
LEMMA DoneRecord ==
  ASSUME NEW r \in BlockRecord
  PROVE  /\ SharedBy(r, 1) \in BlockRecord /\ SharedBy(r, -1) \in BlockRecord
         /\ CountedBy(r, 1) \in BlockRecord /\ CountedBy(r, -1) \in BlockRecord
         /\ Destructed(r) \in BlockRecord /\ Freed(r) \in BlockRecord
<1>1. SharedBy(r, 1) \in BlockRecord /\ SharedBy(r, -1) \in BlockRecord
  BY DEF BlockRecord, SharedBy
<1>2. CountedBy(r, 1) \in BlockRecord /\ CountedBy(r, -1) \in BlockRecord
  BY DEF BlockRecord, CountedBy
<1>3. Destructed(r) \in BlockRecord
  BY DEF BlockRecord, Destructed
<1>4. Freed(r) \in BlockRecord
  BY DEF BlockRecord, Freed
<1> QED
  BY <1>1, <1>2, <1>3, <1>4

\* "shared+" keeps the invariant.
LEMMA StepSharedMore ==
  ASSUME PointersInv, ~uniqueReset, NEW p \in AllPtrs, Step(p), What(todo[p]) = "shared+"
  PROVE  PointersInv'
<1> DEFINE t == todo[p]
           y == Head(t).b
           f == Account(data, todo, y)
           g == Stepped(p, Tail(t), y)
           r == SharedBy(block[y], 1)
<1>1. PICK c \in 0 .. Len(block) : Shape(p, t, data[p], c)
  BY DEF PointersInv, Shaped
<1>2. y \in DOMAIN block /\ WeakUnits(f) # {} /\ SharedUnits(f) # {}
  BY ReaderHolds DEF Increases
<1>3. /\ f[p] = Standing(p, t, data[p], y) /\ g[p] = Standing(p, Tail(t), data[p], y)
      /\ \A q \in AllPtrs : q # p => g[q] = f[q]
      /\ BlockKept(f, block[y]) /\ block[y] \in BlockRecord
  BY <1>2, AccountStep
<1>4. /\ Head(t).what = "shared+" /\ Shape(p, Tail(t), data[p], c)
      /\ What(Tail(t)) = "weak+" /\ Head(Tail(t)).b = y /\ Tail(t) # <<>>
      /\ (Long(t) /\ y = data[p]) => Long(Tail(t))
      /\ \E s \in Slot : GainsShared(p, t, Tail(t), data[p], y, s)
  BY <1>1, CountsShared, ZenonT(40)
<1>5. Left(t, block[y]) = Tail(t) /\ Done(Head(t), block[y]) = r
  BY <1>4, ZenonT(40) DEF Left, After, Done, SharedBy, CountedBy
<1>6. block[y].allocated
  BY <1>2, <1>3, CountedAllocated
<1>7. r \in BlockRecord
  BY <1>3, DoneRecord
<1>8. PICK s \in Slot : GainsShared(p, t, Tail(t), data[p], y, s)
  BY <1>4
<1>9. \A x : x # y => Same(Standing(p, Tail(t), data[p], x), Standing(p, t, data[p], x))
  BY <1>8, SMTT(30) DEF GainsShared
<1>10. s \notin f[p].shared /\ Has(g[p], f[p].shared \cup {s}, f[p].weak, f[p].unique, f[p].work)
  BY <1>3, <1>8 DEF GainsShared
<1> HIDE DEF f, g
<1>11. BlockKept(g, r)
  BY <1>2, <1>3, <1>10, SharedMore, ZenonT(40)
<1>12. GoesOn(p, Tail(t))
  BY <1>4 DEF GoesOn, Increases
<1> HIDE DEF r
<1> QED
  BY <1>1, <1>2, <1>4, <1>5, <1>6, <1>7, <1>9, <1>11, <1>12, StepKept DEF g

\* "weak+" keeps the invariant.
LEMMA StepWeakMore ==
  ASSUME PointersInv, ~uniqueReset, NEW p \in AllPtrs, Step(p), What(todo[p]) = "weak+"
  PROVE  PointersInv'
<1> DEFINE t == todo[p]
           y == Head(t).b
           f == Account(data, todo, y)
           g == Stepped(p, Tail(t), y)
           r == CountedBy(block[y], 1)
<1>1. PICK c \in 0 .. Len(block) : Shape(p, t, data[p], c)
  BY DEF PointersInv, Shaped
<1>2. y \in DOMAIN block /\ WeakUnits(f) # {}
  BY ReaderHolds DEF Increases
<1>3. /\ f[p] = Standing(p, t, data[p], y) /\ g[p] = Standing(p, Tail(t), data[p], y)
      /\ \A q \in AllPtrs : q # p => g[q] = f[q]
      /\ BlockKept(f, block[y]) /\ block[y] \in BlockRecord
  BY <1>2, AccountStep
<1>4. /\ Head(t).what = "weak+" /\ Shape(p, Tail(t), data[p], c) /\ What(Tail(t)) \notin Increases
      /\ \E s \in Slot : GainsWeak(p, t, Tail(t), data[p], y, s)
  BY <1>1, CountsWeak
<1>5. Left(t, block[y]) = Tail(t) /\ Done(Head(t), block[y]) = r
  BY <1>4, ZenonT(40) DEF Left, After, Done, SharedBy, CountedBy
<1>6. block[y].allocated
  BY <1>2, <1>3, CountedAllocated
<1>7. r \in BlockRecord
  BY <1>3, DoneRecord
<1>8. PICK s \in Slot : GainsWeak(p, t, Tail(t), data[p], y, s)
  BY <1>4
<1>9. \A x : x # y => Same(Standing(p, Tail(t), data[p], x), Standing(p, t, data[p], x))
  BY <1>8, SMTT(30) DEF GainsWeak
<1>10. s \notin f[p].weak /\ Has(g[p], f[p].shared, f[p].weak \cup {s}, f[p].unique, f[p].work)
  BY <1>3, <1>8 DEF GainsWeak
<1> HIDE DEF f, g
<1>11. BlockKept(g, r)
  BY <1>2, <1>3, <1>10, WeakMore, ZenonT(40)
<1>12. GoesOn(p, Tail(t))
  BY <1>4 DEF GoesOn
<1> HIDE DEF r
<1> QED
  BY <1>1, <1>2, <1>4, <1>5, <1>6, <1>7, <1>9, <1>11, <1>12, StepKept DEF g

\* "shared-" keeps the invariant.
LEMMA StepSharedLess ==
  ASSUME PointersInv, ~uniqueReset, NEW p \in AllPtrs, Step(p), What(todo[p]) = "shared-"
  PROVE  PointersInv'
<1> DEFINE t == todo[p]
           y == data[p]
           u == Left(t, block[y])
           f == Account(data, todo, y)
           g == Stepped(p, u, y)
           r == SharedBy(block[y], -1)
<1>1. PICK c \in 0 .. Len(block) : Shape(p, t, data[p], c)
  BY DEF PointersInv, Shaped
<1>2. /\ Head(t).what = "shared-" /\ Head(t).b = y /\ y # NoBlock
      /\ Shape(p, u, y, c) /\ What(u) \notin Increases
      /\ "old" \in Standing(p, t, y, y).shared /\ "old" \in Standing(p, t, y, y).weak /\ Standing(p, t, y, y).work = "none"
      /\ Has(Standing(p, u, y, y), Standing(p, t, y, y).shared \ {"old"}, Standing(p, t, y, y).weak,
             Standing(p, t, y, y).unique, IF block[y].shared = 1 THEN "destruct" ELSE "none")
      /\ \A x : x # y => Same(Standing(p, u, y, x), Standing(p, t, y, x))
  BY <1>1, GivesShared
<1>3. y \in DOMAIN block
  BY <1>2 DEF PointersInv, PointersTyped, NoBlock
<1> HIDE DEF u
<1>4. /\ f[p] = Standing(p, t, y, y) /\ g[p] = Standing(p, u, y, y)
      /\ \A q \in AllPtrs : q # p => g[q] = f[q]
      /\ BlockKept(f, block[y]) /\ block[y] \in BlockRecord
  <2> HIDE DEF t, y
  <2>1. f[p] = Standing(p, t, y, y) /\ g[p] = Standing(p, u, y, y)
    BY <1>3, AccountStep DEF t, y
  <2>2. ASSUME NEW q \in AllPtrs, q # p PROVE g[q] = f[q]
    BY <1>3, <2>2, AccountStep
  <2>3. BlockKept(f, block[y]) /\ block[y] \in BlockRecord
    BY <1>3, AccountStep
  <2> QED
    BY <2>1, <2>2, <2>3
<1>5. Done(Head(t), block[y]) = r
  BY <1>2 DEF Done, SharedBy, CountedBy, Destructed, Freed
<1>6. "old" \in f[p].weak
  BY <1>2, <1>4
<1> HIDE DEF f, g
<1>7. block[y].allocated
  BY <1>4, <1>6, WeakUnitOf, CountedAllocated
<1>8. r \in BlockRecord
  BY <1>4, DoneRecord
<1>9. BlockKept(g, r)
  BY <1>2, <1>4, SharedLess, ZenonT(40)
<1>10. GoesOn(p, u)
  BY <1>2 DEF GoesOn
<1> HIDE DEF r
<1> QED
  BY <1>1, <1>2, <1>3, <1>5, <1>7, <1>8, <1>9, <1>10, StepKept DEF g, u

\* "weak-" keeps the invariant.
LEMMA StepWeakLess ==
  ASSUME PointersInv, ~uniqueReset, NEW p \in AllPtrs, Step(p), What(todo[p]) = "weak-"
  PROVE  PointersInv'
<1> DEFINE t == todo[p]
           y == data[p]
           u == Left(t, block[y])
           f == Account(data, todo, y)
           g == Stepped(p, u, y)
           r == CountedBy(block[y], -1)
<1>1. PICK c \in 0 .. Len(block) : Shape(p, t, data[p], c)
  BY DEF PointersInv, Shaped
<1>2. /\ Head(t).what = "weak-" /\ Head(t).b = y /\ y # NoBlock
      /\ Shape(p, u, y, c) /\ What(u) \notin Increases
      /\ "old" \in Standing(p, t, y, y).weak /\ Standing(p, t, y, y).work = "none"
      /\ Has(Standing(p, u, y, y), Standing(p, t, y, y).shared, Standing(p, t, y, y).weak \ {"old"},
             Standing(p, t, y, y).unique, IF block[y].weak = 1 THEN "free" ELSE "none")
      /\ \A x : x # y => Same(Standing(p, u, y, x), Standing(p, t, y, x))
  BY <1>1, GivesWeak
<1>3. y \in DOMAIN block
  BY <1>2 DEF PointersInv, PointersTyped, NoBlock
<1> HIDE DEF u
<1>4. /\ f[p] = Standing(p, t, y, y) /\ g[p] = Standing(p, u, y, y)
      /\ \A q \in AllPtrs : q # p => g[q] = f[q]
      /\ BlockKept(f, block[y]) /\ block[y] \in BlockRecord
  <2> HIDE DEF t, y
  <2>1. f[p] = Standing(p, t, y, y) /\ g[p] = Standing(p, u, y, y)
    BY <1>3, AccountStep DEF t, y
  <2>2. ASSUME NEW q \in AllPtrs, q # p PROVE g[q] = f[q]
    BY <1>3, <2>2, AccountStep
  <2>3. BlockKept(f, block[y]) /\ block[y] \in BlockRecord
    BY <1>3, AccountStep
  <2> QED
    BY <2>1, <2>2, <2>3
<1>5. Done(Head(t), block[y]) = r
  BY <1>2 DEF Done, SharedBy, CountedBy, Destructed, Freed
<1>6. "old" \in f[p].weak
  BY <1>2, <1>4
<1> HIDE DEF f, g
<1>7. block[y].allocated
  BY <1>4, <1>6, WeakUnitOf, CountedAllocated
<1>8. r \in BlockRecord
  BY <1>4, DoneRecord
<1>9. BlockKept(g, r)
  BY <1>2, <1>4, WeakLess, ZenonT(40)
<1>10. GoesOn(p, u)
  BY <1>2 DEF GoesOn
<1> HIDE DEF r
<1> QED
  BY <1>1, <1>2, <1>3, <1>5, <1>7, <1>8, <1>9, <1>10, StepKept DEF g, u

\* "destruct" keeps the invariant.
LEMMA StepDestruct ==
  ASSUME PointersInv, ~uniqueReset, NEW p \in AllPtrs, Step(p), What(todo[p]) = "destruct"
  PROVE  PointersInv'
<1> DEFINE t == todo[p]
           y == data[p]
           u == Left(t, block[y])
           f == Account(data, todo, y)
           g == Stepped(p, u, y)
           r == Destructed(block[y])
<1>1. PICK c \in 0 .. Len(block) : Shape(p, t, data[p], c)
  BY DEF PointersInv, Shaped
<1>2. /\ Head(t).what = "destruct" /\ Head(t).b = y /\ y # NoBlock
      /\ Shape(p, u, y, c) /\ What(u) \notin Increases
      /\ \/ /\ "old" \in Standing(p, t, y, y).weak /\ Standing(p, t, y, y).work = "destruct"
            /\ Has(Standing(p, u, y, y), Standing(p, t, y, y).shared, Standing(p, t, y, y).weak,
                   Standing(p, t, y, y).unique, "none")
         \/ /\ p \in UniquePtrs /\ "old" \in Standing(p, t, y, y).unique /\ Standing(p, t, y, y).work = "none"
            /\ Has(Standing(p, u, y, y), Standing(p, t, y, y).shared, Standing(p, t, y, y).weak,
                   Standing(p, t, y, y).unique, "free")
      /\ \A x : x # y => Same(Standing(p, u, y, x), Standing(p, t, y, x))
  BY <1>1, GivesValue
<1>3. y \in DOMAIN block
  BY <1>2 DEF PointersInv, PointersTyped, NoBlock
<1> HIDE DEF u
<1>4. /\ f[p] = Standing(p, t, y, y) /\ g[p] = Standing(p, u, y, y)
      /\ \A q \in AllPtrs : q # p => g[q] = f[q]
      /\ BlockKept(f, block[y]) /\ block[y] \in BlockRecord
  <2> HIDE DEF t, y
  <2>1. f[p] = Standing(p, t, y, y) /\ g[p] = Standing(p, u, y, y)
    BY <1>3, AccountStep DEF t, y
  <2>2. ASSUME NEW q \in AllPtrs, q # p PROVE g[q] = f[q]
    BY <1>3, <2>2, AccountStep
  <2>3. BlockKept(f, block[y]) /\ block[y] \in BlockRecord
    BY <1>3, AccountStep
  <2> QED
    BY <2>1, <2>2, <2>3
<1>5. Done(Head(t), block[y]) = r
  BY <1>2 DEF Done, SharedBy, CountedBy, Destructed, Freed
<1>6. \/ /\ "old" \in f[p].weak /\ f[p].work = "destruct"
         /\ Has(g[p], f[p].shared, f[p].weak, f[p].unique, "none")
      \/ /\ p \in UniquePtrs /\ "old" \in f[p].unique /\ f[p].work = "none"
         /\ Has(g[p], f[p].shared, f[p].weak, f[p].unique, "free")
  BY <1>2, <1>4
<1> HIDE DEF f, g
<1>7. block[y].allocated /\ block[y].lives /\ BlockKept(g, r)
  <2>1. CASE /\ "old" \in f[p].weak /\ f[p].work = "destruct"
             /\ Has(g[p], f[p].shared, f[p].weak, f[p].unique, "none")
    <3>1. block[y].allocated
      BY <1>4, <2>1, WeakUnitOf, CountedAllocated
    <3>2. block[y].lives /\ BlockKept(g, r)
      BY <1>4, <2>1, ValueDestructed, ZenonT(40)
    <3> QED
      BY <3>1, <3>2
  <2>2. CASE /\ p \in UniquePtrs /\ "old" \in f[p].unique /\ f[p].work = "none"
             /\ Has(g[p], f[p].shared, f[p].weak, f[p].unique, "free")
    <3>1. /\ BlockKept(f, block[y]) /\ block[y] \in BlockRecord /\ \A q \in AllPtrs : q # p => g[q] = f[q]
          /\ p \in UniquePtrs /\ "old" \in f[p].unique /\ f[p].work = "none"
          /\ Has(g[p], f[p].shared, f[p].weak, f[p].unique, "free")
      BY <1>4, <2>2
    <3> HIDE DEF y
    <3> QED
      BY <3>1, UniqueDestructed, ZenonT(40)
  <2> QED
    BY <1>6, <2>1, <2>2
<1>8. r \in BlockRecord
  BY <1>4, DoneRecord
<1>10. GoesOn(p, u)
  BY <1>2 DEF GoesOn
<1> HIDE DEF r
<1> QED
  BY <1>1, <1>2, <1>3, <1>5, <1>7, <1>8, <1>10, StepKept DEF g, u

\* "free" keeps the invariant.
LEMMA StepFree ==
  ASSUME PointersInv, ~uniqueReset, NEW p \in AllPtrs, Step(p), What(todo[p]) = "free"
  PROVE  PointersInv'
<1> DEFINE t == todo[p]
           y == data[p]
           u == Left(t, block[y])
           f == Account(data, todo, y)
           g == Stepped(p, u, y)
           r == Freed(block[y])
<1>1. PICK c \in 0 .. Len(block) : Shape(p, t, data[p], c)
  BY DEF PointersInv, Shaped
<1>2. /\ Head(t).what = "free" /\ Head(t).b = y /\ y # NoBlock
      /\ Shape(p, u, y, c) /\ What(u) \notin Increases
      /\ Standing(p, t, y, y).work = "free"
      /\ \/ /\ p \in Counted
            /\ Has(Standing(p, u, y, y), Standing(p, t, y, y).shared, Standing(p, t, y, y).weak,
                   Standing(p, t, y, y).unique, "none")
         \/ /\ p \in UniquePtrs /\ "old" \in Standing(p, t, y, y).unique
            /\ Has(Standing(p, u, y, y), Standing(p, t, y, y).shared, Standing(p, t, y, y).weak,
                   Standing(p, t, y, y).unique \ {"old"}, "none")
      /\ \A x : x # y => Same(Standing(p, u, y, x), Standing(p, t, y, x))
  BY <1>1, GivesBlock
<1>3. y \in DOMAIN block
  BY <1>2 DEF PointersInv, PointersTyped, NoBlock
<1> HIDE DEF u
<1>4. /\ f[p] = Standing(p, t, y, y) /\ g[p] = Standing(p, u, y, y)
      /\ \A q \in AllPtrs : q # p => g[q] = f[q]
      /\ BlockKept(f, block[y]) /\ block[y] \in BlockRecord
  <2> HIDE DEF t, y
  <2>1. f[p] = Standing(p, t, y, y) /\ g[p] = Standing(p, u, y, y)
    BY <1>3, AccountStep DEF t, y
  <2>2. ASSUME NEW q \in AllPtrs, q # p PROVE g[q] = f[q]
    BY <1>3, <2>2, AccountStep
  <2>3. BlockKept(f, block[y]) /\ block[y] \in BlockRecord
    BY <1>3, AccountStep
  <2> QED
    BY <2>1, <2>2, <2>3
<1>5. Done(Head(t), block[y]) = r
  BY <1>2 DEF Done, SharedBy, CountedBy, Destructed, Freed
<1>6. /\ f[p].work = "free"
      /\ \/ p \in Counted /\ Has(g[p], f[p].shared, f[p].weak, f[p].unique, "none")
         \/ /\ p \in UniquePtrs /\ "old" \in f[p].unique
            /\ Has(g[p], f[p].shared, f[p].weak, f[p].unique \ {"old"}, "none")
  BY <1>2, <1>4
<1> HIDE DEF f, g
<1>7. block[y].allocated /\ BlockKept(g, r)
  <2>1. CASE p \in Counted /\ Has(g[p], f[p].shared, f[p].weak, f[p].unique, "none")
    BY <1>4, <1>6, <2>1, BlockFreed, ZenonT(40)
  <2>2. CASE /\ p \in UniquePtrs /\ "old" \in f[p].unique
             /\ Has(g[p], f[p].shared, f[p].weak, f[p].unique \ {"old"}, "none")
    BY <1>4, <1>6, <2>2, UniqueFreed, ZenonT(40)
  <2> QED
    BY <1>6, <2>1, <2>2
<1>8. r \in BlockRecord
  BY <1>4, DoneRecord
<1>10. GoesOn(p, u)
  BY <1>2 DEF GoesOn
<1> HIDE DEF r
<1> QED
  BY <1>1, <1>2, <1>3, <1>5, <1>7, <1>8, <1>10, StepKept DEF g, u
\* A block whose count is not zero is shared.
LEMMA SharedWhenCounted ==
  ASSUME NEW f, NEW r, CountedBlock(f, r), r.shared # 0
  PROVE  SharedUnits(f) # {}
<1>1. Cardinality(SharedUnits(f)) = 0 <=> SharedUnits(f) = {}
  BY UnitsFinite DEF SharedUnits
<1> QED
  BY <1>1 DEF CountedBlock

\* The steps of weak_ptr::lock keep the invariant.
LEMMA StepLock ==
  ASSUME PointersInv, ~uniqueReset, NEW p \in AllPtrs, Step(p), What(todo[p]) \in {"load", "cas"}
  PROVE  PointersInv'
<1> DEFINE t == todo[p]
           y == Head(t).b
           u == Left(t, block[y])
           f == Account(data, todo, y)
           g == Stepped(p, u, y)
           r == Done(Head(t), block[y])
           won == What(t) = "cas" /\ Head(t).n # 0 /\ block[y].shared = Head(t).n
<1>1. PICK c \in 0 .. Len(block) : Shape(p, t, data[p], c)
  BY DEF PointersInv, Shaped
<1>2. y \in DOMAIN block /\ WeakUnits(f) # {}
  BY ReaderHolds DEF Increases
<1>3. /\ f[p] = Standing(p, t, data[p], y) /\ g[p] = Standing(p, u, data[p], y)
      /\ \A q \in AllPtrs : q # p => g[q] = f[q]
      /\ BlockKept(f, block[y]) /\ block[y] \in BlockRecord
  <2> HIDE DEF t, y, u
  <2>1. f[p] = Standing(p, t, data[p], y) /\ g[p] = Standing(p, u, data[p], y)
    BY <1>2, AccountStep DEF t
  <2>2. ASSUME NEW q \in AllPtrs, q # p PROVE g[q] = f[q]
    BY <1>2, <2>2, AccountStep
  <2>3. BlockKept(f, block[y]) /\ block[y] \in BlockRecord
    BY <1>2, AccountStep
  <2> QED
    BY <2>1, <2>2, <2>3
<1>4. /\ Head(t).what = What(t) /\ y = c /\ c # NoBlock /\ data[p] = NoBlock
      /\ Shape(p, u, data[p], c) /\ What(u) \in {"idle", "cas", "weak+"}
      /\ What(u) # "idle" => Head(u).b = c /\ u # <<>>
      /\ IF won
         THEN \E s \in Slot : GainsShared(p, t, u, data[p], c, s)
         ELSE \A x : x # NoBlock => Same(Standing(p, u, data[p], x), Standing(p, t, data[p], x))
  <2> DEFINE b == block[y]
  <2>1. b \in BlockRecord
    BY <1>3
  <2> HIDE DEF b
  <2>2. /\ Head(t).what = What(t) /\ Head(t).b = c /\ c # NoBlock /\ data[p] = NoBlock
        /\ Shape(p, Left(t, b), data[p], c) /\ What(Left(t, b)) \in {"idle", "cas", "weak+"}
        /\ What(Left(t, b)) # "idle" => Head(Left(t, b)).b = c /\ Left(t, b) # <<>>
        /\ IF What(t) = "cas" /\ Head(t).n # 0 /\ b.shared = Head(t).n
           THEN \E s \in Slot : GainsShared(p, t, Left(t, b), data[p], c, s)
           ELSE \A x : x # NoBlock => Same(Standing(p, Left(t, b), data[p], x), Standing(p, t, data[p], x))
    BY <1>1, <2>1, Locks
  <2> QED
    BY <2>2 DEF b
<1>5. block[y].allocated /\ CountedBlock(f, block[y])
  <2> HIDE DEF y, f
  <2> QED
    BY <1>2, <1>3, CountedAllocated
<1>6. GoesOn(p, u)
  <2> HIDE DEF u
  <2> QED
    BY <1>4 DEF GoesOn, Increases
<1>7. CASE won
  <2>1. r = SharedBy(block[y], 1)
    BY <1>4, <1>7, ZenonT(40) DEF Done, SharedBy
  <2>2. SharedUnits(f) # {}
    <3>1. block[y].shared # 0
      BY <1>7
    <3> HIDE DEF f, y
    <3> QED
      BY <1>5, <3>1, SharedWhenCounted
  <2>3. PICK s \in Slot : GainsShared(p, t, u, data[p], y, s)
    BY <1>4, <1>7
  <2> HIDE DEF u, won, r
  <2>4. \A x : x # y => Same(Standing(p, u, data[p], x), Standing(p, t, data[p], x))
    BY <2>3, SMTT(30) DEF GainsShared
  <2>5. s \notin f[p].shared /\ Has(g[p], f[p].shared \cup {s}, f[p].weak, f[p].unique, f[p].work)
    BY <1>3, <2>3 DEF GainsShared
  <2> HIDE DEF f, g
  <2>6. BlockKept(g, r)
    BY <1>3, <2>1, <2>2, <2>5, SharedMore, ZenonT(40)
  <2>7. r \in BlockRecord
    BY <1>3, <2>1, DoneRecord
  <2>8. Head(t).what # "set" /\ Head(t).what # "destruct"
    BY <1>4
  <2> QED
    BY <1>1, <1>2, <1>4, <1>5, <1>6, <2>4, <2>6, <2>7, <2>8, StepKept, SMTT(30) DEF g, u, r
<1>8. CASE ~won
  <2>1. r = block[y]
    BY <1>4, <1>8, ZenonT(40) DEF Done
  <2>2. \A x : x # NoBlock => Same(Standing(p, u, data[p], x), Standing(p, t, data[p], x))
    BY <1>4, <1>8
  <2> HIDE DEF u, won, r
  <2>3. \A x \in DOMAIN block : Same(Standing(p, u, data[p], x), Standing(p, t, data[p], x))
    BY <2>2 DEF NoBlock, PointersInv, PointersTyped
  <2>4. Standing(p, u, data[p], y) = Standing(p, t, data[p], y)
    BY <1>2, <2>3, SameStanding
  <2>5. g = f
    <3>1. \A q \in AllPtrs : g[q] = f[q]
      BY <1>3, <2>4
    <3> QED
      BY <3>1 DEF Account, Stepped
  <2> HIDE DEF f, g
  <2>6. BlockKept(g, r) /\ r \in BlockRecord
    BY <1>3, <2>1, <2>5
  <2>7. Head(t).what # "set" /\ Head(t).what # "destruct"
    BY <1>4
  <2> QED
    BY <1>1, <1>2, <1>4, <1>5, <1>6, <2>3, <2>6, <2>7, StepKept, SMTT(30) DEF g, u, r
<1> QED
  BY <1>7, <1>8

\* What becomes a unit of another slot, or stays.
LEMMA SlotShifted ==
  ASSUME NEW F, NEW G, NEW p \in AllPtrs, \A a \in AllPtrs : a # p => G[a] = F[a],
         G[p] = F[p] \/ (F[p] = {"new"} /\ G[p] = {"old"})
  PROVE  (\A a \in AllPtrs : G[a] = F[a]) \/ Shifted(F, G, p, "old", p, "new")
<1>1. CASE G[p] = F[p]
  BY <1>1
<1>2. CASE F[p] = {"new"} /\ G[p] = {"old"}
  BY <1>2 DEF Shifted, Slot
<1> QED
  BY <1>1, <1>2

\* The parts are slots.
LEMMA StandingSlots ==
  ASSUME NEW p, NEW t, NEW d, NEW x
  PROVE  Standing(p, t, d, x).unique \subseteq Slot
  BY DEF Standing, Slots

\* The assignment at the end of a call keeps the invariant.
LEMMA StepSet ==
  ASSUME PointersInv, ~uniqueReset, NEW p \in AllPtrs, Step(p), What(todo[p]) = "set"
  PROVE  PointersInv'
<1> DEFINE t == todo[p]
<1>0. /\ data \in [AllPtrs -> Nat] /\ DOMAIN todo = AllPtrs /\ DOMAIN reading = AllPtrs
      /\ block \in Seq(BlockRecord) /\ ~touched
  BY DEF PointersInv, PointersTyped
<1>1. PICK c \in 0 .. Len(block) : Shape(p, t, data[p], c)
  BY DEF PointersInv, Shaped
<1>2. /\ Head(t).what = "set" /\ Head(t).b = c /\ Tail(t) = <<>>
      /\ \A x : LET st == Standing(p, t, data[p], x)
                    tt == Standing(p, <<>>, c, x)
                IN /\ st.work = "none" /\ tt.work = "none"
                   /\ tt.shared = st.shared \/ (st.shared = {"new"} /\ tt.shared = {"old"})
                   /\ tt.weak = st.weak \/ (st.weak = {"new"} /\ tt.weak = {"old"})
                   /\ tt.unique = st.unique \/ (st.unique = {"new"} /\ tt.unique = {"old"})
  BY <1>1, Sets
<1>3. /\ t # <<>> /\ data' = [data EXCEPT ![p] = c] /\ todo' = [todo EXCEPT ![p] = <<>>] /\ block' = block
      /\ touched' = touched /\ uniqueReset' = uniqueReset
  BY <1>2 DEF Step
<1>4. reading' = [reading EXCEPT ![p] = NoPtr]
  <2>1. todo'[p] = <<>>
    BY <1>0, <1>3
  <2> QED
    BY <2>1 DEF Step
<1>5. Read(p, data', todo', reading')
  BY <1>0, <1>3 DEF Read, What, Increases
<1>6. Shape(p, <<>>, c, c)
  BY DEF Shape, AnyShape
<1>7. ASSUME NEW x \in DOMAIN block PROVE BlockKept(Account(data', todo', x), block[x])
  <2> DEFINE f == Account(data, todo, x)
             g == Account(data', todo', x)
  <2>1. /\ f[p] = Standing(p, t, data[p], x) /\ g[p] = Standing(p, <<>>, c, x)
        /\ \A q \in AllPtrs : q # p => g[q] = f[q]
    BY <1>0, <1>3 DEF Account
  <2>2. BlockKept(f, block[x]) /\ block[x] \in BlockRecord
    BY <1>0 DEF PointersInv, BlocksKept
  <2>3. \A q \in AllPtrs : f[q].unique \subseteq Slot /\ g[q].unique \subseteq Slot
    BY StandingSlots DEF Account
  <2> HIDE DEF f, g
  <2>4. /\ f[p].work = "none" /\ g[p].work = "none"
        /\ g[p].shared = f[p].shared \/ (f[p].shared = {"new"} /\ g[p].shared = {"old"})
        /\ g[p].weak = f[p].weak \/ (f[p].weak = {"new"} /\ g[p].weak = {"old"})
        /\ g[p].unique = f[p].unique \/ (f[p].unique = {"new"} /\ g[p].unique = {"old"})
    BY <1>2, <2>1
  <2>5. \/ \A a \in AllPtrs : g[a].shared = f[a].shared
        \/ Shifted([a \in AllPtrs |-> f[a].shared], [a \in AllPtrs |-> g[a].shared], p, "old", p, "new")
    <3> DEFINE F == [a \in AllPtrs |-> f[a].shared]
               G == [a \in AllPtrs |-> g[a].shared]
    <3>1. (\A a \in AllPtrs : a # p => G[a] = F[a]) /\ (G[p] = F[p] \/ (F[p] = {"new"} /\ G[p] = {"old"}))
      BY <2>1, <2>4
    <3>2. (\A a \in AllPtrs : G[a] = F[a]) => \A a \in AllPtrs : g[a].shared = f[a].shared
      OBVIOUS
    <3> HIDE DEF F, G
    <3>3. (\A a \in AllPtrs : G[a] = F[a]) \/ Shifted(F, G, p, "old", p, "new")
      BY <3>1, SlotShifted
    <3> QED
      BY <3>2, <3>3 DEF F, G
  <2>6. \/ \A a \in AllPtrs : g[a].weak = f[a].weak
        \/ Shifted([a \in AllPtrs |-> f[a].weak], [a \in AllPtrs |-> g[a].weak], p, "old", p, "new")
    <3> DEFINE F == [a \in AllPtrs |-> f[a].weak]
               G == [a \in AllPtrs |-> g[a].weak]
    <3>1. (\A a \in AllPtrs : a # p => G[a] = F[a]) /\ (G[p] = F[p] \/ (F[p] = {"new"} /\ G[p] = {"old"}))
      BY <2>1, <2>4
    <3>2. (\A a \in AllPtrs : G[a] = F[a]) => \A a \in AllPtrs : g[a].weak = f[a].weak
      OBVIOUS
    <3> HIDE DEF F, G
    <3>3. (\A a \in AllPtrs : G[a] = F[a]) \/ Shifted(F, G, p, "old", p, "new")
      BY <3>1, SlotShifted
    <3> QED
      BY <3>2, <3>3 DEF F, G
  <2>7. \/ \A a \in AllPtrs : g[a].unique = f[a].unique
        \/ Shifted([a \in AllPtrs |-> f[a].unique], [a \in AllPtrs |-> g[a].unique], p, "old", p, "new")
    <3> DEFINE F == [a \in AllPtrs |-> f[a].unique]
               G == [a \in AllPtrs |-> g[a].unique]
    <3>1. (\A a \in AllPtrs : a # p => G[a] = F[a]) /\ (G[p] = F[p] \/ (F[p] = {"new"} /\ G[p] = {"old"}))
      BY <2>1, <2>4
    <3>2. (\A a \in AllPtrs : G[a] = F[a]) => \A a \in AllPtrs : g[a].unique = f[a].unique
      OBVIOUS
    <3> HIDE DEF F, G
    <3>3. (\A a \in AllPtrs : G[a] = F[a]) \/ Shifted(F, G, p, "old", p, "new")
      BY <3>1, SlotShifted
    <3> QED
      BY <3>2, <3>3 DEF F, G
  <2>8. \A a \in AllPtrs : g[a].work = f[a].work
    BY <2>1, <2>4
  <2>9. "old" \in Slot /\ "new" \in Slot
    BY DEF Slot
  <2>10. HandedOver(f, g, p, "old", p, "new")
    BY <2>5, <2>6, <2>7 DEF HandedOver
  <2>11. BlockKept(g, block[x])
    BY <2>2, <2>3, <2>4, <2>8, <2>9, <2>10, UnitsHandedOver
  <2> QED
    BY <2>11 DEF g
<1> QED
  BY <1>0, <1>1, <1>3, <1>4, <1>5, <1>6, <1>7, OneChanges

\* Every step keeps the invariant.
LEMMA StepKeeps ==
  ASSUME PointersInv, ~uniqueReset, NEW p \in AllPtrs, Step(p)
  PROVE  PointersInv'
<1>1. PICK c \in 0 .. Len(block) : Shape(p, todo[p], data[p], c)
  BY DEF PointersInv, Shaped
<1>2. Firsts(data[p], c)
  BY FirstSteps
<1>3. todo[p] # <<>>
  BY DEF Step
<1>4. What(todo[p]) \in {"shared+", "weak+", "shared-", "weak-", "destruct", "free", "load", "cas", "set"}
  <2> DEFINE W == {"shared+", "weak+", "shared-", "weak-", "destruct", "free", "load", "cas", "set"}
  <2>1. ASSUME AnyShape(todo[p], data[p], c) PROVE What(todo[p]) \in W
    BY <1>2, <1>3, <2>1, SMTT(30) DEF Firsts, Begins, AnyShape
  <2>2. ASSUME SharedShape(todo[p], data[p], c) PROVE What(todo[p]) \in W
    <3>1. \A k : What(LockCas(c, k)) = "cas"
      BY <1>2 DEF Firsts, Begins
    <3>2. CASE \E k \in Int : todo[p] = LockCas(c, k)
      BY <3>1, <3>2
    <3>3. CASE ~ \E k \in Int : todo[p] = LockCas(c, k)
      <4>1. \/ todo[p] \in {CopyBoth(data[p]), CopyWeak(data[p]), GiveBoth(data[p], c), GiveValue(data[p], c)}
            \/ todo[p] \in {TakeBoth(data[p], c), TakeWeak(data[p], c), FillBoth(c), LockLoad(c)}
        BY <2>2, <3>3 DEF SharedShape
      <4> QED
        BY <1>2, <4>1, ZenonT(40) DEF Firsts, Begins
    <3> QED
      BY <3>2, <3>3
  <2>3. ASSUME WeakShape(todo[p], data[p], c) PROVE What(todo[p]) \in W
    BY <1>2, <2>3 DEF Firsts, Begins, WeakShape
  <2>4. ASSUME CountedShape(todo[p], data[p], c) PROVE What(todo[p]) \in W
    BY <1>2, <2>4 DEF Firsts, Begins, CountedShape
  <2>5. ASSUME todo[p] = GiveUnique(data[p], c) PROVE What(todo[p]) \in W
    BY <1>2, <2>5 DEF Firsts, Begins
  <2> QED
    BY <1>1, <2>1, <2>2, <2>3, <2>4, <2>5, SMTT(30) DEF Shape
<1> QED
  BY <1>4, StepSharedMore, StepWeakMore, StepSharedLess, StepWeakLess, StepDestruct, StepFree, StepLock, StepSet
-----------------------------------------------------------------------------
(* The calls keep the invariant.                                           *)

\* What a pointer that rests has, and one that has yet to let go of d and take c.
KindHas(p, st, S) ==
    Has(st, IF p \in SharedPtrs THEN S ELSE {}, IF p \in Counted THEN S ELSE {}, IF p \in UniquePtrs THEN S ELSE {}, "none")
GiveUp(p, d, c) == dec(p, d) \o <<Do("set", c)>>

\* A pointer is of one kind.
LEMMA Kinds ==
  ASSUME NEW p \in AllPtrs
  PROVE  \/ p \in SharedPtrs /\ p \notin WeakPtrs /\ p \in Counted /\ p \notin UniquePtrs
         \/ p \notin SharedPtrs /\ p \in WeakPtrs /\ p \in Counted /\ p \notin UniquePtrs
         \/ p \notin SharedPtrs /\ p \notin WeakPtrs /\ p \notin Counted /\ p \in UniquePtrs
  BY PointersAssumption DEF AllPtrs, Counted

\* Pointers of the same kind.
LEMMA KindShared ==
  ASSUME NEW p \in AllPtrs, NEW q \in AllPtrs, SameKind(p, q)
  PROVE  /\ (p \in SharedPtrs <=> q \in SharedPtrs) /\ (p \in WeakPtrs <=> q \in WeakPtrs)
         /\ (p \in Counted <=> q \in Counted) /\ (p \in UniquePtrs <=> q \in UniquePtrs)
<1>1. PICK k \in {SharedPtrs, WeakPtrs, UniquePtrs} : p \in k /\ q \in k
  BY DEF SameKind
<1> QED
  BY <1>1, Kinds

\* A pointer that rests has what it refers to.
LEMMA IdleHas ==
  ASSUME NEW p \in AllPtrs, NEW d, NEW x
  PROVE  KindHas(p, Standing(p, <<>>, d, x), Part("old", d, x))
<1>1. CASE p \in SharedPtrs
  <2>1. SharedStandings(p, d, d, x)
    BY <1>1, SharedStandingsHold
  <2> QED
    BY <1>1, <2>1, Kinds DEF SharedStandings, KindHas
<1>2. CASE p \in WeakPtrs
  <2>1. WeakStandings(p, d, d, x)
    BY <1>2, WeakStandingsHold
  <2> QED
    BY <1>2, <2>1, Kinds DEF WeakStandings, KindHas
<1>3. CASE p \in UniquePtrs
  <2>1. UniqueStandings(p, d, d, x)
    BY <1>3, UniqueStandingsHold
  <2> QED
    BY <1>3, <2>1, Kinds DEF UniqueStandings, KindHas
<1> QED
  BY <1>1, <1>2, <1>3, Kinds

\* The steps that let go of d and take c.
LEMMA GiveUpSteps ==
  ASSUME NEW p \in AllPtrs, NEW d, NEW c
  PROVE  GiveUp(p, d, c) = IF d = NoBlock THEN SetTo(c)
                           ELSE IF p \in SharedPtrs THEN GiveBoth(d, c)
                           ELSE IF p \in WeakPtrs THEN GiveWeak(d, c) ELSE GiveUnique(d, c)
<1>1. CASE d = NoBlock
  <2>1. dec(p, d) = <<>>
    BY <1>1 DEF dec, shared_dec, weak_dec, If
  <2>2. <<>> \o <<Do("set", c)>> = <<Do("set", c)>>
    BY Lists
  <2> QED
    BY <1>1, <2>1, <2>2 DEF GiveUp, SetTo
<1>2. CASE d # NoBlock /\ p \in SharedPtrs
  <2>1. dec(p, d) = <<Do("shared-", d), Do("weak-", d)>>
    BY <1>2 DEF dec, shared_dec, If
  <2>2. <<Do("shared-", d), Do("weak-", d)>> \o <<Do("set", c)>> = <<Do("shared-", d), Do("weak-", d), Do("set", c)>>
    BY Lists
  <2> QED
    BY <1>2, <2>1, <2>2 DEF GiveUp, GiveBoth
<1>3. CASE d # NoBlock /\ p \notin SharedPtrs /\ p \in WeakPtrs
  <2>1. dec(p, d) = <<Do("weak-", d)>>
    BY <1>3 DEF dec, weak_dec, If
  <2>2. <<Do("weak-", d)>> \o <<Do("set", c)>> = <<Do("weak-", d), Do("set", c)>>
    BY Lists
  <2> QED
    BY <1>3, <2>1, <2>2 DEF GiveUp, GiveWeak
<1>4. CASE d # NoBlock /\ p \notin SharedPtrs /\ p \notin WeakPtrs
  <2>1. dec(p, d) = <<Do("destruct", d), Do("free", d)>>
    BY <1>4 DEF dec, If
  <2>2. <<Do("destruct", d), Do("free", d)>> \o <<Do("set", c)>> = <<Do("destruct", d), Do("free", d), Do("set", c)>>
    BY Lists
  <2> QED
    BY <1>4, <2>1, <2>2 DEF GiveUp, GiveUnique
<1> QED
  BY <1>1, <1>2, <1>3, <1>4

\* They can be left of a call, they count nothing, and the pointer has d until
\* then, and c already.
LEMMA GivesUp ==
  ASSUME NEW p \in AllPtrs, NEW d, NEW c
  PROVE  /\ Shape(p, GiveUp(p, d, c), d, c) /\ What(GiveUp(p, d, c)) \notin Increases
         /\ \A x : x # NoBlock => KindHas(p, Standing(p, GiveUp(p, d, c), d, x), Part("old", d, x) \cup Part("new", c, x))
<1> DEFINE u == GiveUp(p, d, c)
<1>1. Firsts(d, c)
  BY FirstSteps
<1>2. u = IF d = NoBlock THEN SetTo(c)
          ELSE IF p \in SharedPtrs THEN GiveBoth(d, c)
          ELSE IF p \in WeakPtrs THEN GiveWeak(d, c) ELSE GiveUnique(d, c)
  BY GiveUpSteps
<1> HIDE DEF u
<1>3. CASE p \in SharedPtrs
  <2>1. p \in Counted /\ p \notin UniquePtrs
    BY <1>3, Kinds
  <2>2. Shape(p, u, d, c)
    BY <1>2, <1>3 DEF Shape, SharedShape, AnyShape
  <2>3. What(u) \notin Increases
    BY <1>1, <1>2, <1>3 DEF Firsts, Begins, Increases
  <2>4. ASSUME NEW x, x # NoBlock
        PROVE  KindHas(p, Standing(p, u, d, x), Part("old", d, x) \cup Part("new", c, x))
    <3>1. SharedStandings(p, d, c, x)
      BY <1>3, SharedStandingsHold
    <3>2. CASE d = NoBlock
      <4>1. Has(Standing(p, u, d, x), Part("new", c, x), Part("new", c, x), {}, "none")
        BY <1>2, <3>1, <3>2 DEF SharedStandings
      <4>2. Part("old", d, x) = {}
        BY <2>4, <3>2 DEF Part
      <4> QED
        BY <1>3, <2>1, <4>1, <4>2 DEF KindHas
    <3>3. CASE d # NoBlock
      <4>1. Has(Standing(p, u, d, x), Part("old", d, x) \cup Part("new", c, x), Part("old", d, x) \cup Part("new", c, x), {}, "none")
        BY <1>2, <1>3, <3>1, <3>3 DEF SharedStandings
      <4> QED
        BY <1>3, <2>1, <4>1 DEF KindHas
    <3> QED
      BY <3>2, <3>3
  <2> QED
    BY <2>2, <2>3, <2>4 DEF u
<1>4. CASE p \in WeakPtrs
  <2>1. p \in Counted /\ p \notin UniquePtrs /\ p \notin SharedPtrs
    BY <1>4, Kinds
  <2>2. Shape(p, u, d, c)
    BY <1>2, <1>4, <2>1 DEF Shape, CountedShape, AnyShape
  <2>3. What(u) \notin Increases
    BY <1>1, <1>2, <1>4, <2>1 DEF Firsts, Begins, Increases
  <2>4. ASSUME NEW x, x # NoBlock
        PROVE  KindHas(p, Standing(p, u, d, x), Part("old", d, x) \cup Part("new", c, x))
    <3>1. WeakStandings(p, d, c, x)
      BY <1>4, WeakStandingsHold
    <3>2. CASE d = NoBlock
      <4>1. Has(Standing(p, u, d, x), {}, Part("new", c, x), {}, "none")
        BY <1>2, <3>1, <3>2 DEF WeakStandings
      <4>2. Part("old", d, x) = {}
        BY <2>4, <3>2 DEF Part
      <4> QED
        BY <1>4, <2>1, <4>1, <4>2 DEF KindHas
    <3>3. CASE d # NoBlock
      <4>1. Has(Standing(p, u, d, x), {}, Part("old", d, x) \cup Part("new", c, x), {}, "none")
        BY <1>2, <1>4, <2>1, <3>1, <3>3 DEF WeakStandings
      <4> QED
        BY <1>4, <2>1, <4>1 DEF KindHas
    <3> QED
      BY <3>2, <3>3
  <2> QED
    BY <2>2, <2>3, <2>4 DEF u
<1>5. CASE p \in UniquePtrs
  <2>1. p \notin Counted /\ p \notin SharedPtrs /\ p \notin WeakPtrs
    BY <1>5, Kinds
  <2>2. Shape(p, u, d, c)
    BY <1>2, <1>5, <2>1 DEF Shape, AnyShape
  <2>3. What(u) \notin Increases
    BY <1>1, <1>2, <2>1 DEF Firsts, Begins, Increases
  <2>4. ASSUME NEW x, x # NoBlock
        PROVE  KindHas(p, Standing(p, u, d, x), Part("old", d, x) \cup Part("new", c, x))
    <3>1. UniqueStandings(p, d, c, x)
      BY <1>5, UniqueStandingsHold
    <3>2. CASE d = NoBlock
      <4>1. Has(Standing(p, u, d, x), {}, {}, Part("new", c, x), "none")
        BY <1>2, <3>1, <3>2 DEF UniqueStandings
      <4>2. Part("old", d, x) = {}
        BY <2>4, <3>2 DEF Part
      <4> QED
        BY <1>5, <2>1, <4>1, <4>2 DEF KindHas
    <3>3. CASE d # NoBlock
      <4>1. Has(Standing(p, u, d, x), {}, {}, Part("old", d, x) \cup Part("new", c, x), "none")
        BY <1>2, <2>1, <3>1, <3>3 DEF UniqueStandings
      <4> QED
        BY <1>5, <2>1, <4>1 DEF KindHas
    <3> QED
      BY <3>2, <3>3
  <2> QED
    BY <2>2, <2>3, <2>4 DEF u
<1> QED
  BY <1>3, <1>4, <1>5, Kinds
\* A call that reads q and begins with u counts by q what q refers to.
Counts(p, q, d, u) ==
    What(u) \in Increases =>
       /\ q \in Counted /\ d[q] = Head(u).b /\ (What(u) = "shared+" => q \in SharedPtrs)
       /\ IF q = p THEN Long(u) ELSE todo[q] = <<>>

\* A call that begins with as much as its pointer had keeps the invariant.
LEMMA CallKept ==
  ASSUME PointersInv, ~uniqueReset, NEW p \in AllPtrs, Idle(p), NEW q \in AllPtrs \cup {NoPtr}, NEW u,
         NEW e \in 0 .. Len(block), NEW c \in 0 .. Len(block), NEW d, d = [data EXCEPT ![p] = e],
         Begin(p, q, d, u), block' = block, Shape(p, u, e, c), Counts(p, q, d, u),
         \A x \in DOMAIN block : Same(Standing(p, u, e, x), Standing(p, <<>>, data[p], x))
  PROVE  PointersInv'
<1> DEFINE v == IF u = <<>> THEN NoPtr ELSE q
<1>0. /\ data \in [AllPtrs -> Nat] /\ DOMAIN todo = AllPtrs /\ DOMAIN reading = AllPtrs
      /\ block \in Seq(BlockRecord) /\ ~touched
  BY DEF PointersInv, PointersTyped
<1>1. /\ data' = d /\ todo' = [todo EXCEPT ![p] = u] /\ reading' = [reading EXCEPT ![p] = v] /\ ~touched'
      /\ v \in AllPtrs \cup {NoPtr} /\ todo[p] = <<>>
  BY <1>0 DEF Begin, Idle
<1>2. Read(p, data', todo', reading')
  <2>1. todo'[p] = u /\ reading'[p] = v /\ (q # p => todo'[q] = todo[q])
    BY <1>0, <1>1
  <2>2. What(u) \in Increases => v = q
    BY DEF What, Increases
  <2> HIDE DEF v
  <2> QED
    BY <1>1, <2>1, <2>2 DEF Read, Counts
<1>3. ASSUME NEW x \in DOMAIN block PROVE BlockKept(Account(data', todo', x), block'[x])
  <2>1. Standing(p, u, e, x) = Standing(p, <<>>, data[p], x)
    BY SameStanding
  <2>2. Account(data', todo', x) = Account(data, todo, x)
    BY <1>0, <1>1, <2>1 DEF Account
  <2> QED
    BY <2>2 DEF PointersInv, BlocksKept
<1> HIDE DEF v
<1> QED
  BY <1>0, <1>1, <1>2, <1>3, OneChanges

\* Two pointers that have the same as one another.
LEMMA KindSame ==
  ASSUME NEW p, NEW S, NEW t, NEW d, NEW u, NEW e, NEW x,
         KindHas(p, Standing(p, t, d, x), S), KindHas(p, Standing(p, u, e, x), S)
  PROVE  Same(Standing(p, u, e, x), Standing(p, t, d, x))
  BY DEF KindHas, Same, Has

\* A pointer that has a call refers to a block, or to none.
LEMMA Refers ==
  ASSUME PointersInv, ~uniqueReset, NEW p \in AllPtrs
  PROVE  /\ data[p] \in 0 .. Len(block) /\ NoBlock \in 0 .. Len(block) /\ [data EXCEPT ![p] = data[p]] = data
         /\ \A x \in DOMAIN block : x # NoBlock
  BY DEF PointersInv, PointersTyped, NoBlock

\* A call that lets go of what its pointer has, and takes nothing.
LEMMA GiveUpKept ==
  ASSUME PointersInv, ~uniqueReset, NEW p \in AllPtrs, Idle(p), NEW q \in AllPtrs \cup {NoPtr},
         Begin(p, q, data, GiveUp(p, data[p], NoBlock)), block' = block
  PROVE  PointersInv'
<1> DEFINE u == GiveUp(p, data[p], NoBlock)
<1>1. /\ Shape(p, u, data[p], NoBlock) /\ What(u) \notin Increases
      /\ \A x : x # NoBlock => KindHas(p, Standing(p, u, data[p], x), Part("old", data[p], x) \cup Part("new", NoBlock, x))
  BY GivesUp
<1> HIDE DEF u
<1>2. /\ data[p] \in 0 .. Len(block) /\ NoBlock \in 0 .. Len(block) /\ [data EXCEPT ![p] = data[p]] = data
      /\ \A x \in DOMAIN block : x # NoBlock
  BY Refers
<1>3. ASSUME NEW x \in DOMAIN block PROVE Same(Standing(p, u, data[p], x), Standing(p, <<>>, data[p], x))
  <2>1. Part("old", data[p], x) \cup Part("new", NoBlock, x) = Part("old", data[p], x)
    BY <1>2 DEF Part
  <2>2. KindHas(p, Standing(p, u, data[p], x), Part("old", data[p], x))
    BY <1>1, <1>2, <2>1
  <2> QED
    BY <2>2, IdleHas, KindSame
<1>4. Counts(p, q, data, u)
  BY <1>1 DEF Counts
<1> QED
  BY <1>1, <1>2, <1>3, <1>4, CallKept DEF u

\* reset, and a move to itself, keep the invariant.
LEMMA ResetKeeps ==
  ASSUME PointersInv, ~uniqueReset, NEW p \in AllPtrs, PtrReset(p) \/ PtrMoveAssign(p, p)
  PROVE  PointersInv'
<1>1. [data EXCEPT ![p] = data[p]] = data
  BY Refers
<1>2. CASE PtrReset(p)
  BY <1>2, GiveUpKept DEF PtrReset, GiveUp
<1>3. CASE PtrMoveAssign(p, p)
  <2>1. /\ Idle(p) /\ Begin(p, p, data, GiveUp(p, data[p], NoBlock)) /\ block' = block
    BY <1>1, <1>3 DEF PtrMoveAssign, GiveUp
  <2> QED
    BY <2>1, GiveUpKept
<1> QED
  BY <1>2, <1>3
\* The copy constructors keep the invariant.
LEMMA CopyKeeps ==
  ASSUME PointersInv, ~uniqueReset, NEW p \in AllPtrs, NEW q \in AllPtrs, PtrCopy(p, q)
  PROVE  PointersInv'
<1> DEFINE e == data[q]
           u == inc(p, e)
<1>1. /\ p # q /\ Idle(p) /\ todo[q] = <<>> /\ data[p] = NoBlock /\ p \in Counted
      /\ Begin(p, q, [data EXCEPT ![p] = e], u) /\ block' = block
      /\ (p \in SharedPtrs => q \in SharedPtrs) /\ q \in Counted
  <2>1. /\ p # q /\ Idle(p) /\ todo[q] = <<>> /\ data[p] = NoBlock /\ p \in Counted
        /\ Begin(p, q, [data EXCEPT ![p] = e], u) /\ block' = block
        /\ SameKind(p, q) \/ (p \in WeakPtrs /\ q \in SharedPtrs)
    BY DEF PtrCopy
  <2>2. (p \in SharedPtrs => q \in SharedPtrs) /\ q \in Counted
    BY <2>1, KindShared, Kinds
  <2> QED
    BY <2>1, <2>2
<1>2. e \in 0 .. Len(block) /\ \A x \in DOMAIN block : x # NoBlock
  BY Refers
<1>3. u = IF e = NoBlock THEN <<>> ELSE IF p \in SharedPtrs THEN CopyBoth(e) ELSE CopyWeak(e)
  BY DEF inc, shared_inc, weak_inc, If, CopyBoth, CopyWeak
<1> HIDE DEF u
<1>4. Firsts(e, e)
  BY FirstSteps
<1>5. Shape(p, u, e, e)
  BY <1>1, <1>3, Kinds, SMTT(30) DEF Shape, AnyShape, SharedShape, WeakShape
<1>6. What(u) \in Increases => Head(u).b = e /\ (What(u) = "shared+" => p \in SharedPtrs)
  BY <1>3, <1>4, ZenonT(40) DEF Firsts, Begins, Increases
<1>7. DOMAIN data = AllPtrs
  BY DEF PointersInv, PointersTyped
<1>8. Counts(p, q, [data EXCEPT ![p] = e], u)
  BY <1>1, <1>6, <1>7 DEF Counts
<1>9. ASSUME NEW x \in DOMAIN block PROVE Same(Standing(p, u, e, x), Standing(p, <<>>, data[p], x))
  <2>1. Part("old", NoBlock, x) = {}
    BY <1>2 DEF Part
  <2>2. KindHas(p, Standing(p, <<>>, data[p], x), {})
    <3>1. KindHas(p, Standing(p, <<>>, data[p], x), Part("old", data[p], x))
      BY IdleHas
    <3> QED
      BY <1>1, <2>1, <3>1
  <2>3. KindHas(p, Standing(p, u, e, x), {})
    <3>1. CASE e = NoBlock
      <4>1. KindHas(p, Standing(p, <<>>, e, x), Part("old", e, x))
        BY IdleHas
      <4> QED
        BY <1>3, <2>1, <3>1, <4>1
    <3>2. CASE e # NoBlock /\ p \in SharedPtrs
      <4>1. SharedStandings(p, e, e, x)
        BY <3>2, SharedStandingsHold
      <4>2. Has(Standing(p, u, e, x), {}, {}, {}, "none")
        BY <1>3, <3>2, <4>1 DEF SharedStandings
      <4> QED
        BY <4>2 DEF KindHas
    <3>3. CASE e # NoBlock /\ p \in WeakPtrs
      <4>1. WeakStandings(p, e, e, x)
        BY <3>3, WeakStandingsHold
      <4>2. Has(Standing(p, u, e, x), {}, {}, {}, "none")
        BY <1>3, <3>3, <4>1, Kinds DEF WeakStandings
      <4> QED
        BY <4>2 DEF KindHas
    <3> QED
      BY <1>1, <3>1, <3>2, <3>3, Kinds
  <2> QED
    BY <2>2, <2>3, KindSame
<1> QED
  BY <1>1, <1>2, <1>5, <1>8, <1>9, CallKept

\* The steps of a copy assignment.
LEMMA TakeSteps ==
  ASSUME NEW p \in Counted, NEW d, NEW c
  PROVE  inc(p, c) \o dec(p, d) \o <<Do("set", c)>> =
           IF c = NoBlock THEN GiveUp(p, d, c)
           ELSE IF d = NoBlock THEN (IF p \in SharedPtrs THEN FillBoth(c) ELSE FillWeak(c))
           ELSE IF p \in SharedPtrs THEN TakeBoth(d, c) ELSE TakeOther(d, c)
<1> DEFINE i == inc(p, c)
           j == dec(p, d)
           s == Do("set", c)
<1>0. p \in AllPtrs
  BY DEF AllPtrs
<1>1. CASE c = NoBlock
  <2>1. i = <<>>
    BY <1>1 DEF inc, shared_inc, weak_inc, If
  <2>2. j \in {<<>>, <<Do("shared-", d), Do("weak-", d)>>, <<Do("weak-", d)>>}
    BY <1>0, Kinds DEF dec, shared_dec, weak_dec, If
  <2>3. <<>> \o j = j
    BY <2>2, Lists
  <2> QED
    BY <1>1, <2>1, <2>3 DEF GiveUp
<1>2. CASE c # NoBlock /\ d = NoBlock /\ p \in SharedPtrs
  <2>1. i = <<Do("shared+", c), Do("weak+", c)>> /\ j = <<>>
    BY <1>2 DEF inc, shared_inc, dec, shared_dec, If
  <2>2. <<Do("shared+", c), Do("weak+", c)>> \o <<>> = <<Do("shared+", c), Do("weak+", c)>>
    BY Lists
  <2>3. <<Do("shared+", c), Do("weak+", c)>> \o <<s>> = <<Do("shared+", c), Do("weak+", c), s>>
    BY Lists
  <2> QED
    BY <1>2, <2>1, <2>2, <2>3 DEF FillBoth
<1>3. CASE c # NoBlock /\ d = NoBlock /\ p \notin SharedPtrs
  <2>1. i = <<Do("weak+", c)>> /\ j = <<>>
    BY <1>3 DEF inc, weak_inc, dec, weak_dec, If
  <2>2. <<Do("weak+", c)>> \o <<>> = <<Do("weak+", c)>>
    BY Lists
  <2>3. <<Do("weak+", c)>> \o <<s>> = <<Do("weak+", c), s>>
    BY Lists
  <2> QED
    BY <1>3, <2>1, <2>2, <2>3 DEF FillWeak
<1>4. CASE c # NoBlock /\ d # NoBlock /\ p \in SharedPtrs
  <2> DEFINE a1 == Do("shared+", c)
             a2 == Do("weak+", c)
             a3 == Do("shared-", d)
             a4 == Do("weak-", d)
  <2>1. i = <<a1, a2>> /\ j = <<a3, a4>>
    BY <1>4 DEF inc, shared_inc, dec, shared_dec, If
  <2>2. ASSUME NEW b1, NEW b2, NEW b3, NEW b4, NEW b5
        PROVE  (<<b1, b2>> \o <<b3, b4>>) \o <<b5>> = <<b1, b2, b3, b4, b5>>
    <3>1. <<b1, b2>> \o <<b3, b4>> = <<b1, b2, b3, b4>>
      BY TwoAndTwo
    <3>2. <<b1, b2, b3, b4>> \o <<b5>> = <<b1, b2, b3, b4, b5>>
      BY FourAndOne
    <3> QED
      BY <3>1, <3>2
  <2> HIDE DEF i, j, s, a1, a2, a3, a4
  <2>3. (i \o j) \o <<s>> = <<a1, a2, a3, a4, s>>
    BY <2>1, <2>2
  <2> QED
    BY <1>4, <2>3 DEF TakeBoth, i, j, s, a1, a2, a3, a4
<1>5. CASE c # NoBlock /\ d # NoBlock /\ p \notin SharedPtrs
  <2>1. i = <<Do("weak+", c)>> /\ j = <<Do("weak-", d)>>
    BY <1>0, <1>5, Kinds DEF inc, weak_inc, dec, weak_dec, If
  <2>2. <<Do("weak+", c)>> \o <<Do("weak-", d)>> = <<Do("weak+", c), Do("weak-", d)>>
    BY Lists
  <2>3. <<Do("weak+", c), Do("weak-", d)>> \o <<s>> = <<Do("weak+", c), Do("weak-", d), s>>
    BY Lists
  <2> QED
    BY <1>5, <2>1, <2>2, <2>3 DEF TakeOther
<1> QED
  BY <1>1, <1>2, <1>3, <1>4, <1>5

\* The copy assignments keep the invariant.
LEMMA CopyAssignKeeps ==
  ASSUME PointersInv, ~uniqueReset, NEW p \in AllPtrs, NEW q \in AllPtrs, PtrCopyAssign(p, q)
  PROVE  PointersInv'
<1> DEFINE d == data[p]
           c == data[q]
           u == inc(p, c) \o dec(p, d) \o <<Do("set", c)>>
<1>1. Idle(p) /\ todo[q] = <<>> /\ p \in Counted /\ SameKind(p, q) /\ Begin(p, q, data, u) /\ block' = block
  BY DEF PtrCopyAssign
<1>2. /\ d \in 0 .. Len(block) /\ c \in 0 .. Len(block) /\ [data EXCEPT ![p] = d] = data
      /\ \A x \in DOMAIN block : x # NoBlock
  BY Refers
<1>3. u = IF c = NoBlock THEN GiveUp(p, d, c)
          ELSE IF d = NoBlock THEN (IF p \in SharedPtrs THEN FillBoth(c) ELSE FillWeak(c))
          ELSE IF p \in SharedPtrs THEN TakeBoth(d, c) ELSE TakeOther(d, c)
  BY <1>1, TakeSteps
<1>4. Firsts(d, c)
  BY FirstSteps
<1> HIDE DEF u
<1>5. CASE c = NoBlock
  BY <1>1, <1>3, <1>5, GiveUpKept
<1>6. CASE c # NoBlock
  <2>1. Shape(p, u, d, c)
    BY <1>1, <1>3, <1>6, Kinds DEF Shape, SharedShape, WeakShape, CountedShape
  <2>2. Head(u).b = c /\ (What(u) = "shared+" => p \in SharedPtrs) /\ (d = c => Long(u))
    <3>1. CASE d = NoBlock
      <4>1. u \in {FillBoth(c), FillWeak(c)} /\ (p \notin SharedPtrs => u = FillWeak(c))
        BY <1>3, <1>6, <3>1
      <4> QED
        BY <1>4, <1>6, <3>1, <4>1, ZenonT(40) DEF Firsts, Begins
    <3>2. CASE d # NoBlock
      <4>1. u \in {TakeBoth(d, c), TakeOther(d, c)} /\ (p \notin SharedPtrs => u = TakeOther(d, c))
        BY <1>3, <1>6, <3>2, SMTT(30)
      <4>2. Len(TakeBoth(d, c)) = 5 /\ Len(TakeOther(d, c)) = 3
        BY <1>4, ZenonT(40) DEF Firsts, Begins
      <4>3. Long(TakeBoth(d, c)) /\ Long(TakeOther(d, c))
        BY <4>2, SMTT(30) DEF Long
      <4> QED
        BY <1>4, <4>1, <4>3, ZenonT(40) DEF Firsts, Begins
    <3> QED
      BY <3>1, <3>2
  <2>3. (p \in SharedPtrs => q \in SharedPtrs) /\ q \in Counted
    BY <1>1, KindShared
  <2>4. Counts(p, q, data, u)
    BY <1>1, <2>2, <2>3 DEF Counts
  <2>5. ASSUME NEW x \in DOMAIN block PROVE Same(Standing(p, u, d, x), Standing(p, <<>>, d, x))
    <3>1. d = NoBlock => Part("old", d, x) = {}
      BY <1>2 DEF Part
    <3>2. KindHas(p, Standing(p, <<>>, d, x), Part("old", d, x))
      BY IdleHas
    <3>3. KindHas(p, Standing(p, u, d, x), Part("old", d, x))
      <4>1. CASE p \in SharedPtrs
        <5>1. SharedStandings(p, d, c, x)
          BY <4>1, SharedStandingsHold
        <5>2. Has(Standing(p, u, d, x), Part("old", d, x), Part("old", d, x), {}, "none")
          BY <1>3, <1>6, <3>1, <4>1, <5>1 DEF SharedStandings
        <5> QED
          BY <4>1, <5>2, Kinds DEF KindHas
      <4>2. CASE p \in WeakPtrs
        <5>1. WeakStandings(p, d, c, x) /\ p \notin SharedPtrs
          BY <4>2, WeakStandingsHold, Kinds
        <5>2. Has(Standing(p, u, d, x), {}, Part("old", d, x), {}, "none")
          BY <1>3, <1>6, <3>1, <5>1 DEF WeakStandings
        <5> QED
          BY <4>2, <5>2, Kinds DEF KindHas
      <4> QED
        BY <1>1, <4>1, <4>2, Kinds
    <3> QED
      BY <3>2, <3>3, KindSame
  <2> QED
    BY <1>1, <1>2, <2>1, <2>4, <2>5, CallKept
<1> QED
  BY <1>5, <1>6

\* weak_ptr::lock keeps the invariant.
LEMMA LockKeeps ==
  ASSUME PointersInv, ~uniqueReset, NEW p \in AllPtrs, NEW q \in AllPtrs, WeakLock(p, q)
  PROVE  PointersInv'
<1> DEFINE c == data[q]
           u == If(c, <<Do("load", c), Do("weak+", c), Do("set", c)>>)
<1>1. /\ p \in SharedPtrs /\ q \in WeakPtrs /\ Idle(p) /\ todo[q] = <<>> /\ data[p] = NoBlock
      /\ Begin(p, q, data, u) /\ block' = block
  BY DEF WeakLock
<1>2. /\ c \in 0 .. Len(block) /\ NoBlock \in 0 .. Len(block) /\ [data EXCEPT ![p] = data[p]] = data
      /\ \A x \in DOMAIN block : x # NoBlock
  BY Refers
<1>3. u = IF c = NoBlock THEN <<>> ELSE LockLoad(c)
  BY DEF If, LockLoad
<1> HIDE DEF u
<1>4. Firsts(NoBlock, c)
  BY FirstSteps
<1>5. Shape(p, u, NoBlock, c)
  BY <1>1, <1>3 DEF Shape, AnyShape, SharedShape
<1>6. What(u) \in Increases => Head(u).b = c /\ What(u) = "load"
  BY <1>3, <1>4, ZenonT(40) DEF Firsts, Begins, Increases
<1>7. q # p /\ q \in Counted
  BY <1>1, Kinds
<1>8. Counts(p, q, data, u)
  BY <1>1, <1>6, <1>7 DEF Counts
<1>9. ASSUME NEW x \in DOMAIN block PROVE Same(Standing(p, u, NoBlock, x), Standing(p, <<>>, NoBlock, x))
  <2>1. SharedStandings(p, NoBlock, c, x)
    BY <1>1, SharedStandingsHold
  <2>2. Part("old", NoBlock, x) = {}
    BY <1>2 DEF Part
  <2>3. /\ Has(Standing(p, <<>>, NoBlock, x), {}, {}, {}, "none")
        /\ Has(Standing(p, u, NoBlock, x), {}, {}, {}, "none")
    BY <1>3, <2>1, <2>2 DEF SharedStandings
  <2> QED
    BY <2>3 DEF Same, Has
<1> QED
  BY <1>1, <1>2, <1>5, <1>8, <1>9, CallKept
\* A pointer q hands over to p, of the same kind, what it refers to.
LEMMA Moved ==
  ASSUME NEW f, NEW g, NEW r \in BlockRecord, NEW p \in AllPtrs, NEW q \in AllPtrs, p # q, SameKind(p, q),
         NEW P, NEW s \in Slot, s \notin P, NEW c, NEW x, BlockKept(f, r),
         KindHas(p, f[p], P), KindHas(q, f[q], Part("old", c, x)),
         KindHas(p, g[p], P \cup Part(s, c, x)), KindHas(q, g[q], {}),
         \A a \in AllPtrs : a \notin {p, q} => g[a] = f[a],
         \A a \in AllPtrs : f[a].unique \subseteq Slot /\ g[a].unique \subseteq Slot
  PROVE  BlockKept(g, r)
<1>1. /\ (p \in SharedPtrs <=> q \in SharedPtrs)
      /\ (p \in Counted <=> q \in Counted) /\ (p \in UniquePtrs <=> q \in UniquePtrs)
  BY KindShared
<1>2. /\ f[p].work = "none" /\ f[q].work = "none" /\ \A a \in AllPtrs : g[a].work = f[a].work
  BY DEF KindHas, Has
<1>3. ASSUME NEW F, NEW G, NEW yes \in BOOLEAN, \A a \in AllPtrs : a \notin {p, q} => G[a] = F[a],
             F[p] = IF yes THEN P ELSE {}, F[q] = IF yes THEN Part("old", c, x) ELSE {},
             G[p] = IF yes THEN P \cup Part(s, c, x) ELSE {}, G[q] = {}
      PROVE  (\A a \in AllPtrs : G[a] = F[a]) \/ Shifted(F, G, p, s, q, "old")
  <2>1. CASE yes /\ c = x
    <3>1. F[p] = P /\ F[q] = {"old"} /\ G[p] = P \cup {s} /\ G[q] = {}
      BY <1>3, <2>1 DEF Part
    <3>2. ASSUME NEW a \in AllPtrs, NEW y \in Slot
          PROVE  y \in G[a] <=> (y \in F[a] /\ <<a, y>> # <<q, "old">>) \/ <<a, y>> = <<p, s>>
      BY <1>3, <3>1
    <3> QED
      BY <3>1, <3>2 DEF Shifted
  <2>2. CASE ~yes \/ c # x
    <3>1. G[p] = F[p] /\ G[q] = F[q]
      BY <1>3, <2>2 DEF Part
    <3> QED
      BY <1>3, <3>1
  <2> QED
    BY <2>1, <2>2
<1>4. \/ \A a \in AllPtrs : g[a].shared = f[a].shared
      \/ Shifted([a \in AllPtrs |-> f[a].shared], [a \in AllPtrs |-> g[a].shared], p, s, q, "old")
  <2> DEFINE F == [a \in AllPtrs |-> f[a].shared]
             G == [a \in AllPtrs |-> g[a].shared]
             yes == p \in SharedPtrs
  <2>1. /\ \A a \in AllPtrs : a \notin {p, q} => G[a] = F[a]
        /\ F[p] = (IF yes THEN P ELSE {}) /\ F[q] = (IF yes THEN Part("old", c, x) ELSE {})
        /\ G[p] = (IF yes THEN P \cup Part(s, c, x) ELSE {}) /\ G[q] = {}
    BY <1>1 DEF KindHas, Has
  <2>2. (\A a \in AllPtrs : G[a] = F[a]) => \A a \in AllPtrs : g[a].shared = f[a].shared
    OBVIOUS
  <2>3. yes \in BOOLEAN
    OBVIOUS
  <2> HIDE DEF F, G, yes
  <2>4. (\A a \in AllPtrs : G[a] = F[a]) \/ Shifted(F, G, p, s, q, "old")
    BY <1>3, <2>1, <2>3
  <2> QED
    BY <2>2, <2>4 DEF F, G
<1>5. \/ \A a \in AllPtrs : g[a].weak = f[a].weak
      \/ Shifted([a \in AllPtrs |-> f[a].weak], [a \in AllPtrs |-> g[a].weak], p, s, q, "old")
  <2> DEFINE F == [a \in AllPtrs |-> f[a].weak]
             G == [a \in AllPtrs |-> g[a].weak]
             yes == p \in Counted
  <2>1. /\ \A a \in AllPtrs : a \notin {p, q} => G[a] = F[a]
        /\ F[p] = (IF yes THEN P ELSE {}) /\ F[q] = (IF yes THEN Part("old", c, x) ELSE {})
        /\ G[p] = (IF yes THEN P \cup Part(s, c, x) ELSE {}) /\ G[q] = {}
    BY <1>1 DEF KindHas, Has
  <2>2. (\A a \in AllPtrs : G[a] = F[a]) => \A a \in AllPtrs : g[a].weak = f[a].weak
    OBVIOUS
  <2>3. yes \in BOOLEAN
    OBVIOUS
  <2> HIDE DEF F, G, yes
  <2>4. (\A a \in AllPtrs : G[a] = F[a]) \/ Shifted(F, G, p, s, q, "old")
    BY <1>3, <2>1, <2>3
  <2> QED
    BY <2>2, <2>4 DEF F, G
<1>6. \/ \A a \in AllPtrs : g[a].unique = f[a].unique
      \/ Shifted([a \in AllPtrs |-> f[a].unique], [a \in AllPtrs |-> g[a].unique], p, s, q, "old")
  <2> DEFINE F == [a \in AllPtrs |-> f[a].unique]
             G == [a \in AllPtrs |-> g[a].unique]
             yes == p \in UniquePtrs
  <2>1. /\ \A a \in AllPtrs : a \notin {p, q} => G[a] = F[a]
        /\ F[p] = (IF yes THEN P ELSE {}) /\ F[q] = (IF yes THEN Part("old", c, x) ELSE {})
        /\ G[p] = (IF yes THEN P \cup Part(s, c, x) ELSE {}) /\ G[q] = {}
    BY <1>1 DEF KindHas, Has
  <2>2. (\A a \in AllPtrs : G[a] = F[a]) => \A a \in AllPtrs : g[a].unique = f[a].unique
    OBVIOUS
  <2>3. yes \in BOOLEAN
    OBVIOUS
  <2> HIDE DEF F, G, yes
  <2>4. (\A a \in AllPtrs : G[a] = F[a]) \/ Shifted(F, G, p, s, q, "old")
    BY <1>3, <2>1, <2>3
  <2> QED
    BY <2>2, <2>4 DEF F, G
<1>7. HandedOver(f, g, p, s, q, "old") /\ "old" \in Slot
  BY <1>4, <1>5, <1>6 DEF HandedOver, Slot
<1> QED
  BY <1>2, <1>7, UnitsHandedOver

\* A call by which p takes what q refers to keeps the invariant.
LEMMA MoveKept ==
  ASSUME PointersInv, ~uniqueReset, NEW p \in AllPtrs, NEW q \in AllPtrs, p # q, Idle(p), Idle(q), SameKind(p, q),
         NEW v \in AllPtrs \cup {NoPtr}, NEW u, NEW e \in 0 .. Len(block), NEW s \in Slot,
         Begin(p, v, [data EXCEPT ![p] = e, ![q] = NoBlock], u), block' = block,
         Shape(p, u, e, data[q]), What(u) \notin Increases,
         \A x \in DOMAIN block : \E P : /\ s \notin P /\ KindHas(p, Standing(p, <<>>, data[p], x), P)
                                        /\ KindHas(p, Standing(p, u, e, x), P \cup Part(s, data[q], x))
  PROVE  PointersInv'
<1> DEFINE w == IF u = <<>> THEN NoPtr ELSE v
           c == data[q]
<1>0. /\ data \in [AllPtrs -> Nat] /\ reading \in [AllPtrs -> AllPtrs \cup {NoPtr}] /\ DOMAIN todo = AllPtrs
      /\ block \in Seq(BlockRecord) /\ ~touched /\ \A a \in AllPtrs : data[a] \in 0 .. Len(block)
      /\ NoBlock \in 0 .. Len(block) /\ \A x \in DOMAIN block : x # NoBlock
  BY DEF PointersInv, PointersTyped, NoBlock
<1>1. /\ data' = [data EXCEPT ![p] = e, ![q] = NoBlock] /\ todo' = [todo EXCEPT ![p] = u]
      /\ reading' = [reading EXCEPT ![p] = w] /\ ~touched' /\ w \in AllPtrs \cup {NoPtr}
      /\ todo[p] = <<>> /\ todo[q] = <<>>
  BY <1>0 DEF Begin, Idle
<1> HIDE DEF w
<1>2. /\ data'[p] = e /\ data'[q] = NoBlock /\ todo'[p] = u /\ todo'[q] = <<>> /\ reading'[p] = w
      /\ \A a \in AllPtrs : a \notin {p, q} => data'[a] = data[a] /\ todo'[a] = todo[a] /\ reading'[a] = reading[a]
  BY <1>0, <1>1
<1>3. PointersTyped'
  <2>1. data' \in [AllPtrs -> Nat] /\ reading' \in [AllPtrs -> AllPtrs \cup {NoPtr}]
    BY <1>0, <1>1 DEF NoBlock
  <2>2. todo' = [a \in AllPtrs |-> todo'[a]]
    BY <1>0, <1>1
  <2>3. \A a \in AllPtrs : data'[a] \in 0 .. Len(block')
    BY <1>0, <1>2
  <2> QED
    BY <1>0, <2>1, <2>2, <2>3 DEF PointersTyped
<1>4. Shaped'
  <2>1. ASSUME NEW a \in AllPtrs PROVE \E z \in 0 .. Len(block) : Shape(a, todo'[a], data'[a], z)
    <3>1. CASE a = p
      BY <1>0, <1>2, <3>1
    <3>2. CASE a = q
      BY <1>0, <1>2, <3>2 DEF Shape, AnyShape
    <3>3. CASE a \notin {p, q}
      BY <1>2, <3>3 DEF PointersInv, Shaped
    <3> QED
      BY <3>1, <3>2, <3>3
  <2> QED
    BY <2>1 DEF Shaped
<1>5. AllRead'
  <2>1. ASSUME NEW a \in AllPtrs PROVE Read(a, data', todo', reading')
    <3>1. CASE a \in {p, q}
      BY <1>2, <3>1 DEF Read, What, Increases
    <3>2. CASE a \notin {p, q}
      <4>1. Read(a, data, todo, reading)
        BY DEF PointersInv, AllRead
      <4>2. reading[a] \notin {p, q}
        BY DEF Idle
      <4>3. Counted \subseteq AllPtrs
        BY DEF AllPtrs
      <4> QED
        BY <1>2, <3>2, <4>1, <4>2, <4>3 DEF Read
    <3> QED
      BY <3>1, <3>2
  <2> QED
    BY <2>1 DEF AllRead
<1>6. BlocksKept'
  <2>1. ASSUME NEW x \in DOMAIN block PROVE BlockKept(Account(data', todo', x), block[x])
    <3> DEFINE f == Account(data, todo, x)
               g == Account(data', todo', x)
    <3>1. PICK P : /\ s \notin P /\ KindHas(p, Standing(p, <<>>, data[p], x), P)
                   /\ KindHas(p, Standing(p, u, e, x), P \cup Part(s, c, x))
      OBVIOUS
    <3>2. /\ f[p] = Standing(p, <<>>, data[p], x) /\ g[p] = Standing(p, u, e, x)
          /\ f[q] = Standing(q, <<>>, c, x) /\ g[q] = Standing(q, <<>>, NoBlock, x)
      BY <1>1, <1>2 DEF Account
    <3>9. ASSUME NEW a \in AllPtrs, a \notin {p, q} PROVE g[a] = f[a]
      BY <1>2, <3>9 DEF Account
    <3>3. KindHas(q, f[q], Part("old", c, x))
      BY <3>2, IdleHas
    <3>4. KindHas(q, g[q], {})
      <4>1. KindHas(q, Standing(q, <<>>, NoBlock, x), Part("old", NoBlock, x))
        BY IdleHas
      <4>2. Part("old", NoBlock, x) = {}
        BY <1>0 DEF Part
      <4> QED
        BY <3>2, <4>1, <4>2
    <3>5. BlockKept(f, block[x]) /\ block[x] \in BlockRecord
      BY <1>0 DEF PointersInv, BlocksKept
    <3>6. \A a \in AllPtrs : f[a].unique \subseteq Slot /\ g[a].unique \subseteq Slot
      BY StandingSlots DEF Account
    <3> HIDE DEF f, g, c
    <3>7. KindHas(p, f[p], P) /\ KindHas(p, g[p], P \cup Part(s, c, x))
      BY <3>1, <3>2
    <3>8. BlockKept(g, block[x])
      <4>1. s \notin P
        BY <3>1
      <4> QED
        BY <4>1, <3>3, <3>4, <3>5, <3>6, <3>7, <3>9, Moved, ZenonT(40)
    <3> QED
      BY <3>8 DEF g
  <2> QED
    BY <2>1 DEF BlocksKept
<1> QED
  BY <1>1, <1>3, <1>4, <1>5, <1>6 DEF PointersInv

\* The move constructors keep the invariant.
LEMMA PtrMoveKeeps ==
  ASSUME PointersInv, ~uniqueReset, NEW p \in AllPtrs, NEW q \in AllPtrs, PtrMove(p, q)
  PROVE  PointersInv'
<1>1. /\ p # q /\ Idle(p) /\ Idle(q) /\ data[p] = NoBlock /\ SameKind(p, q) /\ block' = block
      /\ Begin(p, NoPtr, [data EXCEPT ![p] = data[q], ![q] = NoBlock], <<>>)
  BY DEF PtrMove
<1>2. data[q] \in 0 .. Len(block) /\ \A x \in DOMAIN block : x # NoBlock
  BY Refers
<1>3. Shape(p, <<>>, data[q], data[q]) /\ What(<<>>) \notin Increases /\ "old" \in Slot
  BY DEF Shape, AnyShape, What, Increases, Slot
<1>4. ASSUME NEW x \in DOMAIN block
      PROVE  \E P : /\ "old" \notin P /\ KindHas(p, Standing(p, <<>>, data[p], x), P)
                    /\ KindHas(p, Standing(p, <<>>, data[q], x), P \cup Part("old", data[q], x))
  <2>1. KindHas(p, Standing(p, <<>>, data[p], x), Part("old", data[p], x))
    BY IdleHas
  <2>2. KindHas(p, Standing(p, <<>>, data[q], x), Part("old", data[q], x))
    BY IdleHas
  <2>3. Part("old", data[p], x) = {} /\ {} \cup Part("old", data[q], x) = Part("old", data[q], x)
    BY <1>1, <1>2 DEF Part
  <2> WITNESS {}
  <2> QED
    BY <2>1, <2>2, <2>3
<1> QED
  BY <1>1, <1>2, <1>3, <1>4, MoveKept

\* The move assignments keep the invariant.
LEMMA MoveAssignKeeps ==
  ASSUME PointersInv, ~uniqueReset, NEW p \in AllPtrs, NEW q \in AllPtrs, p # q, PtrMoveAssign(p, q)
  PROVE  PointersInv'
<1> DEFINE c == data[q]
           u == GiveUp(p, data[p], c)
<1>1. Idle(p) /\ Idle(q) /\ SameKind(p, q) /\ block' = block /\ Begin(p, q, [data EXCEPT ![q] = NoBlock], u)
  BY DEF PtrMoveAssign, GiveUp
<1>2. [data EXCEPT ![q] = NoBlock] = [data EXCEPT ![p] = data[p], ![q] = NoBlock]
  BY DEF PointersInv, PointersTyped
<1>3. data[p] \in 0 .. Len(block) /\ \A x \in DOMAIN block : x # NoBlock
  BY Refers
<1>4. /\ Shape(p, u, data[p], c) /\ What(u) \notin Increases
      /\ \A x : x # NoBlock => KindHas(p, Standing(p, u, data[p], x), Part("old", data[p], x) \cup Part("new", c, x))
  BY GivesUp
<1> HIDE DEF u
<1>5. ASSUME NEW x \in DOMAIN block
      PROVE  \E P : /\ "new" \notin P /\ KindHas(p, Standing(p, <<>>, data[p], x), P)
                    /\ KindHas(p, Standing(p, u, data[p], x), P \cup Part("new", c, x))
  <2>1. KindHas(p, Standing(p, <<>>, data[p], x), Part("old", data[p], x))
    BY IdleHas
  <2>2. "new" \notin Part("old", data[p], x)
    BY DEF Part
  <2> WITNESS Part("old", data[p], x)
  <2> QED
    BY <1>3, <1>4, <2>1, <2>2
<1>6. "new" \in Slot
  BY DEF Slot
<1> QED
  BY <1>1, <1>2, <1>3, <1>4, <1>5, <1>6, MoveKept
\* A pointer has nothing of a block that it neither refers to nor will.
LEMMA NothingOf ==
  ASSUME NEW p \in AllPtrs, NEW t, NEW d, NEW c, NEW x, Shape(p, t, d, c), d # x, c # x
  PROVE  Has(Standing(p, t, d, x), {}, {}, {}, "none")
<1>1. Firsts(d, c)
  BY FirstSteps
<1>2. t = <<>> \/ Goal(t) \in {d, c}
  <2>1. ASSUME AnyShape(t, d, c), t # <<>> PROVE Goal(t) \in {d, c}
    BY <1>1, <2>1 DEF Firsts, Begins, AnyShape
  <2>2. ASSUME SharedShape(t, d, c) PROVE Goal(t) \in {d, c}
    <3>1. \A k : Goal(LockCas(c, k)) = c
      BY <1>1 DEF Firsts, Begins
    <3>2. CASE \E k \in Int : t = LockCas(c, k)
      BY <3>1, <3>2
    <3>3. CASE ~ \E k \in Int : t = LockCas(c, k)
      <4>1. \/ t \in {CopyBoth(d), CopyWeak(d), GiveBoth(d, c), GiveValue(d, c)}
            \/ t \in {TakeBoth(d, c), TakeWeak(d, c), FillBoth(c), LockLoad(c)}
        BY <2>2, <3>3 DEF SharedShape
      <4> QED
        BY <1>1, <4>1 DEF Firsts, Begins
    <3> QED
      BY <3>2, <3>3
  <2>3. ASSUME WeakShape(t, d, c) PROVE Goal(t) \in {d, c}
    BY <1>1, <2>3 DEF Firsts, Begins, WeakShape
  <2>4. ASSUME CountedShape(t, d, c) PROVE Goal(t) \in {d, c}
    BY <1>1, <2>4 DEF Firsts, Begins, CountedShape
  <2>5. ASSUME t = GiveUnique(d, c) PROVE Goal(t) \in {d, c}
    BY <1>1, <2>5 DEF Firsts, Begins
  <2> QED
    BY <2>1, <2>2, <2>3, <2>4, <2>5 DEF Shape
<1>3. (~SharedNew(t) /\ ~WeakNew(t) /\ ~UniqueNew(t)) \/ Goal(t) # x
  BY <1>2 DEF SharedNew, WeakNew, UniqueNew, What
<1> QED
  BY <1>3 DEF Has, Standing, Slots

\* A new block, that p alone has.
LEMMA NewBlock ==
  ASSUME NEW g, NEW p \in AllPtrs, p \notin WeakPtrs, KindHas(p, g[p], {"old"}),
         \A q \in AllPtrs : q # p => Has(g[q], {}, {}, {}, "none")
  PROVE  BlockKept(g, [shared |-> 1, weak |-> 1, lives |-> TRUE, allocated |-> TRUE])
<1>1. CASE p \in SharedPtrs
  <2>1. Has(g[p], {"old"}, {"old"}, {}, "none")
    BY <1>1, Kinds DEF KindHas
  <2>2. SharedUnits(g) = {<<p, "old">>} /\ WeakUnits(g) = {<<p, "old">>}
    <3>1. \A q \in AllPtrs, s \in Slot : (s \in g[q].shared <=> q = p /\ s = "old") /\ (s \in g[q].weak <=> q = p /\ s = "old")
      BY <2>1 DEF Has
    <3>2. "old" \in Slot
      BY DEF Slot
    <3>3. SharedUnits(g) = {<<p, "old">>}
      BY <3>1, <3>2 DEF SharedUnits, Units
    <3>4. WeakUnits(g) = {<<p, "old">>}
      BY <3>1, <3>2 DEF WeakUnits, Units
    <3> QED
      BY <3>3, <3>4
  <2>3. Cardinality({<<p, "old">>}) = 1
    BY FS_Singleton
  <2>4. \A q \in AllPtrs : g[q].work = "none" /\ g[q].unique = {}
    BY <2>1 DEF Has
  <2>5. Worked(g, "destruct", SharedUnits(g)) /\ Worked(g, "free", WeakUnits(g))
    BY <2>4 DEF Worked
  <2> QED
    BY <2>2, <2>3, <2>4, <2>5 DEF BlockKept, CountedBlock
<1>2. CASE p \in UniquePtrs
  <2>1. Has(g[p], {}, {}, {"old"}, "none")
    BY <1>2, Kinds DEF KindHas
  <2>2. \A q \in AllPtrs : g[q].shared = {} /\ g[q].weak = {} /\ g[q].work = "none" /\ (q # p => g[q].unique = {})
    BY <2>1 DEF Has
  <2>3. g[p].unique = {"old"}
    BY <2>1 DEF Has
  <2> QED
    BY <2>2, <2>3 DEF BlockKept, UniqueBlock
<1> QED
  BY <1>1, <1>2, Kinds

\* The constructors keep the invariant.
LEMMA MakeKeeps ==
  ASSUME PointersInv, ~uniqueReset, NEW p \in AllPtrs, Make(p)
  PROVE  PointersInv'
<1> DEFINE n == Len(block) + 1
           r == [shared |-> 1, weak |-> 1, lives |-> TRUE, allocated |-> TRUE]
<1>0. /\ data \in [AllPtrs -> Nat] /\ reading \in [AllPtrs -> AllPtrs \cup {NoPtr}]
      /\ todo = [a \in AllPtrs |-> todo[a]] /\ block \in Seq(BlockRecord) /\ ~touched
      /\ \A a \in AllPtrs : data[a] \in 0 .. Len(block)
  BY DEF PointersInv, PointersTyped
<1>1. /\ Idle(p) /\ todo[p] = <<>> /\ data[p] = NoBlock /\ p \notin WeakPtrs /\ data' = [data EXCEPT ![p] = n]
      /\ todo' = [todo EXCEPT ![p] = <<>>] /\ reading' = [reading EXCEPT ![p] = NoPtr] /\ ~touched'
      /\ block' = Append(block, r)
  BY <1>0 DEF Make, Begin, Idle
<1>2. todo' = todo
  BY <1>0, <1>1
<1>3. data'[p] = n /\ \A a \in AllPtrs : a # p => data'[a] = data[a] /\ reading'[a] = reading[a]
  BY <1>0, <1>1
<1>4. r \in BlockRecord /\ n \in Nat /\ Len(block) \in Nat
  BY <1>0 DEF BlockRecord
<1> HIDE DEF r
<1>5. /\ block' \in Seq(BlockRecord) /\ Len(block') = n /\ block'[n] = r
      /\ \A x \in 1 .. Len(block) : block'[x] = block[x]
  BY <1>0, <1>1, <1>4
<1>6. DOMAIN block = 1 .. Len(block) /\ DOMAIN block' = 1 .. n
  BY <1>0, <1>5
<1>7. PointersTyped'
  <2>1. data' \in [AllPtrs -> Nat] /\ reading' \in [AllPtrs -> AllPtrs \cup {NoPtr}]
    BY <1>0, <1>1, <1>4
  <2>2. \A a \in AllPtrs : data'[a] \in 0 .. Len(block')
    BY <1>0, <1>3, <1>4, <1>5
  <2> QED
    BY <1>0, <1>2, <1>5, <2>1, <2>2 DEF PointersTyped
<1>8. Shaped'
  <2>1. ASSUME NEW a \in AllPtrs PROVE \E c \in 0 .. n : Shape(a, todo[a], data'[a], c)
    <3>1. CASE a = p
      BY <1>1, <1>4, <3>1 DEF Shape, AnyShape
    <3>2. CASE a # p
      <4>1. PICK c \in 0 .. Len(block) : Shape(a, todo[a], data[a], c)
        BY DEF PointersInv, Shaped
      <4> QED
        BY <1>3, <1>4, <3>2, <4>1
    <3> QED
      BY <3>1, <3>2
  <2> QED
    BY <1>2, <1>5, <2>1 DEF Shaped
<1>9. AllRead'
  <2>1. ASSUME NEW a \in AllPtrs PROVE Read(a, data', todo, reading')
    <3>1. CASE a = p
      BY <1>1, <3>1 DEF Read, What, Increases
    <3>2. CASE a # p
      <4>1. Read(a, data, todo, reading)
        BY DEF PointersInv, AllRead
      <4>2. reading[a] # p
        BY <1>1 DEF Idle
      <4>3. Counted \subseteq AllPtrs
        BY DEF AllPtrs
      <4> QED
        BY <1>3, <3>2, <4>1, <4>2, <4>3 DEF Read
    <3> QED
      BY <3>1, <3>2
  <2> QED
    BY <1>2, <2>1 DEF AllRead
<1>10. ASSUME NEW x \in 1 .. Len(block) PROVE BlockKept(Account(data', todo', x), block'[x])
  <2>1. Part("old", n, x) = {} /\ Part("old", NoBlock, x) = {}
    BY <1>4 DEF Part, NoBlock
  <2>2. KindHas(p, Standing(p, <<>>, n, x), Part("old", n, x)) /\ KindHas(p, Standing(p, <<>>, NoBlock, x), Part("old", NoBlock, x))
    BY IdleHas
  <2>3. Standing(p, <<>>, n, x) = Standing(p, <<>>, NoBlock, x)
    <3>1. Same(Standing(p, <<>>, n, x), Standing(p, <<>>, NoBlock, x))
      BY <2>1, <2>2, KindSame
    <3> QED
      BY <3>1, SameStanding
  <2>4. \A a \in AllPtrs : Standing(a, todo[a], data'[a], x) = Standing(a, todo[a], data[a], x)
    BY <1>1, <1>3, <2>3
  <2>5. Account(data', todo', x) = Account(data, todo, x)
    BY <1>2, <2>4 DEF Account
  <2> QED
    BY <1>5, <1>6, <2>5 DEF PointersInv, BlocksKept
<1>11. BlockKept(Account(data', todo', n), r)
  <2> DEFINE g == Account(data', todo', n)
  <2>1. KindHas(p, g[p], {"old"})
    <3>1. KindHas(p, Standing(p, <<>>, n, n), Part("old", n, n))
      BY IdleHas
    <3>2. Part("old", n, n) = {"old"} /\ g[p] = Standing(p, <<>>, n, n)
      BY <1>1, <1>2, <1>3 DEF Part, Account
    <3> QED
      BY <3>1, <3>2
  <2>2. ASSUME NEW q \in AllPtrs, q # p PROVE Has(g[q], {}, {}, {}, "none")
    <3>1. PICK c \in 0 .. Len(block) : Shape(q, todo[q], data[q], c)
      BY DEF PointersInv, Shaped
    <3>2. data[q] # n /\ c # n
      BY <1>0, <1>4
    <3>3. g[q] = Standing(q, todo[q], data[q], n)
      BY <1>2, <1>3, <2>2 DEF Account
    <3> HIDE DEF n
    <3>4. Has(Standing(q, todo[q], data[q], n), {}, {}, {}, "none")
      BY <3>1, <3>2, NothingOf
    <3> QED
      BY <3>3, <3>4
  <2> HIDE DEF g
  <2>3. BlockKept(g, r)
    BY <1>1, <2>1, <2>2, NewBlock DEF r
  <2> QED
    BY <2>3 DEF g
<1>12. BlocksKept'
  <2>1. ASSUME NEW x \in 1 .. n PROVE BlockKept(Account(data', todo', x), block'[x])
    BY <1>4, <1>5, <1>10, <1>11
  <2> QED
    BY <1>6, <2>1 DEF BlocksKept
<1> QED
  BY <1>1, <1>7, <1>8, <1>9, <1>12 DEF PointersInv

-----------------------------------------------------------------------------
(* The theorem.                                                            *)

\* At first no pointer refers to a block, and there is none.
LEMMA PointersInvInit ==
  ASSUME PointersInit
  PROVE  PointersInv
<1>1. PointersTyped /\ ~touched
  BY DEF PointersInit, PointersTyped, NoBlock
<1>2. Shaped
  BY DEF PointersInit, Shaped, Shape, AnyShape
<1>3. AllRead
  BY DEF PointersInit, AllRead, Read, What, Increases
<1>4. BlocksKept
  BY DEF PointersInit, BlocksKept
<1> QED
  BY <1>1, <1>2, <1>3, <1>4 DEF PointersInv

\* Every call and every step keeps the invariant.
LEMMA PointersInvStep ==
  ASSUME PointersInv, [PointersNext]_pointerVars
  PROVE  PointersInv'
<1>1. CASE uniqueReset
  <2>1. uniqueReset'
    BY <1>1, ZenonT(40) DEF PointersNext, Step, Make, PtrReset, UniqueReset, PtrCopy, PtrMove, PtrCopyAssign, PtrMoveAssign, WeakLock, pointerVars
  <2> QED
    BY <2>1, SMTT(30) DEF PointersInv
<1>2. CASE ~uniqueReset /\ UNCHANGED pointerVars
  BY <1>2 DEF PointersInv, PointersTyped, Shaped, AllRead, BlocksKept, pointerVars
<1>3. CASE ~uniqueReset /\ PointersNext
  <2>1. PICK p \in AllPtrs : \/ Step(p) \/ Make(p) \/ PtrReset(p) \/ UniqueReset(p)
                             \/ \E q \in AllPtrs : PtrCopy(p, q) \/ PtrMove(p, q) \/ PtrCopyAssign(p, q) \/ PtrMoveAssign(p, q) \/ WeakLock(p, q)
    BY <1>3 DEF PointersNext
  <2>2. CASE Step(p)
    BY <1>3, <2>2, StepKeeps
  <2>3. CASE Make(p)
    BY <1>3, <2>3, MakeKeeps
  <2>4. CASE PtrReset(p)
    BY <1>3, <2>4, ResetKeeps
  <2>5. CASE UniqueReset(p)
    BY <2>5 DEF UniqueReset, PointersInv
  <2>6. ASSUME NEW q \in AllPtrs, PtrCopy(p, q) PROVE PointersInv'
    BY <1>3, <2>6, CopyKeeps
  <2>7. ASSUME NEW q \in AllPtrs, PtrMove(p, q) PROVE PointersInv'
    BY <1>3, <2>7, PtrMoveKeeps
  <2>8. ASSUME NEW q \in AllPtrs, PtrCopyAssign(p, q) PROVE PointersInv'
    BY <1>3, <2>8, CopyAssignKeeps
  <2>9. ASSUME NEW q \in AllPtrs, PtrMoveAssign(p, q) PROVE PointersInv'
    <3>1. CASE p = q
      BY <1>3, <2>9, <3>1, ResetKeeps
    <3>2. CASE p # q
      BY <1>3, <2>9, <3>2, MoveAssignKeeps
    <3> QED
      BY <3>1, <3>2
  <2>10. ASSUME NEW q \in AllPtrs, WeakLock(p, q) PROVE PointersInv'
    BY <1>3, <2>10, LockKeeps
  <2> QED
    BY <2>1, <2>2, <2>3, <2>4, <2>5, <2>6, <2>7, <2>8, <2>9, <2>10
<1> QED
  BY <1>1, <1>2, <1>3
\* Pointers that refer to a block can be counted.
LEMMA ReferringSome ==
  ASSUME NEW S, S \subseteq AllPtrs, NEW b
  PROVE  Referring(S, b) \in Nat /\ (Referring(S, b) > 0 <=> \E p \in S : data[p] = b)
<1> DEFINE R == {p \in S : data[p] = b}
<1>1. IsFiniteSet(R)
  <2>1. R \subseteq AllPtrs
    OBVIOUS
  <2> QED
    BY <2>1, PointersAssumption, FS_Subset
<1>2. R = {} <=> ~ \E p \in S : data[p] = b
  OBVIOUS
<1> HIDE DEF R
<1>3. Cardinality(R) \in Nat /\ (Cardinality(R) = 0 <=> R = {})
  BY <1>1, FS_CardinalityType, FS_EmptySet
<1>4. Referring(S, b) = Cardinality(R)
  BY DEF Referring, R
<1> QED
  BY <1>2, <1>3, <1>4

\* A pointer that rests keeps its block, and its value.
LEMMA RestingHolds ==
  ASSUME PointersInv, ~uniqueReset, NEW p \in AllPtrs, todo[p] = <<>>, data[p] # NoBlock
  PROVE  block[data[p]].allocated /\ (p \notin WeakPtrs => block[data[p]].lives)
<1> DEFINE y == data[p]
           f == Account(data, todo, y)
           r == block[y]
<1>1. y \in DOMAIN block /\ r \in BlockRecord
  BY DEF PointersInv, PointersTyped, NoBlock
<1>2. BlockKept(f, r)
  BY <1>1 DEF PointersInv, BlocksKept
<1>3. KindHas(p, f[p], {"old"})
  <2>1. KindHas(p, Standing(p, <<>>, y, y), Part("old", y, y))
    BY IdleHas
  <2>2. Part("old", y, y) = {"old"} /\ f[p] = Standing(p, <<>>, y, y)
    BY DEF Part, Account
  <2> QED
    BY <2>1, <2>2
<1> HIDE DEF f, r
<1>4. CASE p \in Counted
  <2>1. "old" \in f[p].weak
    BY <1>3, <1>4 DEF KindHas, Has
  <2>2. CountedBlock(f, r) /\ r.allocated
    BY <1>2, <2>1, WeakUnitOf, CountedAllocated
  <2>3. ASSUME p \notin WeakPtrs PROVE r.lives
    <3>1. p \in SharedPtrs /\ "old" \in f[p].shared
      BY <1>3, <1>4, <2>3, Kinds DEF KindHas, Has
    <3>2. <<p, "old">> \in SharedUnits(f)
      BY <3>1 DEF SharedUnits, Units, Slot
    <3> QED
      BY <2>2, <3>2 DEF CountedBlock
  <2> QED
    BY <2>2, <2>3 DEF r
<1>5. CASE p \in UniquePtrs
  <2>1. f[p].unique = {"old"} /\ f[p].work = "none"
    BY <1>3, <1>5 DEF KindHas, Has
  <2>2. UniqueBlock(f, r)
    BY <1>2, <2>1 DEF BlockKept, CountedBlock
  <2> QED
    BY <2>1, <2>2 DEF UniqueBlock, r
<1> QED
  BY <1>4, <1>5, Kinds

\* When no call is under way a block is there for those that refer to it.
LEMMA SettledHolds ==
  ASSUME PointersInv, ~uniqueReset, Settled, NEW b \in DOMAIN block
  PROVE  /\ block[b].lives <=> \E p \in SharedPtrs \cup UniquePtrs : data[p] = b
         /\ block[b].allocated <=> \E p \in AllPtrs : data[p] = b
         /\ \A p \in WeakPtrs : data[p] = b => (block[b].shared = 0 <=> ~ \E q \in SharedPtrs \cup UniquePtrs : data[q] = b)
<1> DEFINE f == Account(data, todo, b)
           r == block[b]
<1>1. BlockKept(f, r)
  BY DEF PointersInv, BlocksKept
<1>2. ASSUME NEW p \in AllPtrs PROVE KindHas(p, f[p], Part("old", data[p], b))
  <2>1. f[p] = Standing(p, <<>>, data[p], b)
    BY DEF Account, Settled
  <2> QED
    BY <2>1, IdleHas
<1> HIDE DEF f, r
<1>3. ASSUME NEW p \in AllPtrs
      PROVE  /\ f[p].work = "none"
             /\ f[p].shared = IF p \in SharedPtrs /\ data[p] = b THEN {"old"} ELSE {}
             /\ f[p].weak = IF p \in Counted /\ data[p] = b THEN {"old"} ELSE {}
             /\ f[p].unique = IF p \in UniquePtrs /\ data[p] = b THEN {"old"} ELSE {}
  BY <1>2 DEF KindHas, Has, Part
<1>4. SharedPtrs \subseteq AllPtrs /\ WeakPtrs \subseteq AllPtrs /\ UniquePtrs \subseteq AllPtrs /\ Counted \subseteq AllPtrs /\ "old" \in Slot
  BY DEF AllPtrs, Counted, Slot
<1>5. SharedUnits(f) # {} <=> \E p \in SharedPtrs : data[p] = b
  <2>1. ASSUME NEW p \in SharedPtrs, data[p] = b PROVE <<p, "old">> \in SharedUnits(f)
    BY <1>3, <1>4, <2>1 DEF SharedUnits, Units
  <2>2. ASSUME NEW w \in SharedUnits(f) PROVE w[1] \in SharedPtrs /\ data[w[1]] = b
    BY <1>3, <2>2 DEF SharedUnits, Units
  <2> QED
    BY <2>1, <2>2
<1>6. WeakUnits(f) # {} <=> \E p \in Counted : data[p] = b
  <2>1. ASSUME NEW p \in Counted, data[p] = b PROVE <<p, "old">> \in WeakUnits(f)
    BY <1>3, <1>4, <2>1 DEF WeakUnits, Units
  <2>2. ASSUME NEW w \in WeakUnits(f) PROVE w[1] \in Counted /\ data[w[1]] = b
    BY <1>3, <2>2 DEF WeakUnits, Units
  <2> QED
    BY <2>1, <2>2
<1>7. CASE CountedBlock(f, r)
  <2>1. \A p \in UniquePtrs : data[p] # b
    BY <1>3, <1>4, <1>7 DEF CountedBlock
  <2>2. ~Working(f, "destruct") /\ ~Working(f, "free")
    BY <1>3 DEF Working
  <2>3. r.lives <=> \E p \in SharedPtrs : data[p] = b
    BY <1>5, <1>7, <2>2 DEF CountedBlock
  <2>4. r.allocated <=> \E p \in Counted : data[p] = b
    BY <1>6, <1>7, <2>2 DEF CountedBlock
  <2>5. r.shared = 0 <=> ~ \E p \in SharedPtrs : data[p] = b
    <3>1. Cardinality(SharedUnits(f)) = 0 <=> SharedUnits(f) = {}
      BY UnitsFinite DEF SharedUnits
    <3> QED
      BY <1>5, <1>7, <3>1 DEF CountedBlock
  <2> QED
    BY <2>1, <2>3, <2>4, <2>5 DEF r, AllPtrs
<1>8. CASE UniqueBlock(f, r)
  <2>1. \A p \in Counted : data[p] # b
    BY <1>3, <1>4, <1>8 DEF UniqueBlock
  <2>2. r.allocated <=> \E p \in UniquePtrs : data[p] = b
    BY <1>3, <1>4, <1>8 DEF UniqueBlock
  <2>3. r.lives <=> \E p \in UniquePtrs : data[p] = b
    BY <1>3, <1>4, <1>8 DEF UniqueBlock
  <2> QED
    BY <2>1, <2>2, <2>3 DEF r, AllPtrs, Counted
<1> QED
  BY <1>1, <1>7, <1>8 DEF BlockKept

\* The invariant says that what the pointers refer to is there.
LEMMA PointersInvHold ==
  ASSUME PointersInv
  PROVE  PointersHold
<1> SUFFICES ASSUME ~uniqueReset PROVE PointersHold
  BY DEF PointersHold
<1>1. ~touched /\ block \in Seq(BlockRecord)
  BY DEF PointersInv, PointersTyped
<1>2. \A p \in AllPtrs : (todo[p] = <<>> /\ data[p] # NoBlock) =>
        /\ block[data[p]].allocated
        /\ p \notin WeakPtrs => block[data[p]].lives
  BY RestingHolds
<1>3. ASSUME Settled, NEW b \in DOMAIN block
      PROVE  LET owners == Referring(SharedPtrs \cup UniquePtrs, b)
                 weaks == Referring(WeakPtrs, b)
             IN /\ block[b].lives = (owners > 0) /\ block[b].allocated = (owners + weaks > 0)
                /\ \A p \in WeakPtrs : data[p] = b => expired(p) = (owners = 0)
  <2> DEFINE owners == Referring(SharedPtrs \cup UniquePtrs, b)
             weaks == Referring(WeakPtrs, b)
  <2>1. /\ block[b].lives <=> \E p \in SharedPtrs \cup UniquePtrs : data[p] = b
        /\ block[b].allocated <=> \E p \in AllPtrs : data[p] = b
        /\ \A p \in WeakPtrs : data[p] = b => (block[b].shared = 0 <=> ~ \E q \in SharedPtrs \cup UniquePtrs : data[q] = b)
    BY <1>3, SettledHolds
  <2>2. block[b].lives \in BOOLEAN /\ block[b].allocated \in BOOLEAN /\ b # NoBlock
    <3>1. block[b] \in BlockRecord /\ b \in 1 .. Len(block)
      BY <1>1, <1>3
    <3> QED
      BY <3>1 DEF BlockRecord, NoBlock
  <2>3. owners \in Nat /\ (owners > 0 <=> \E p \in SharedPtrs \cup UniquePtrs : data[p] = b)
    <3>1. SharedPtrs \cup UniquePtrs \subseteq AllPtrs
      BY DEF AllPtrs, Counted
    <3> QED
      BY <3>1, ReferringSome
  <2>4. weaks \in Nat /\ (weaks > 0 <=> \E p \in WeakPtrs : data[p] = b)
    <3>1. WeakPtrs \subseteq AllPtrs
      BY DEF AllPtrs, Counted
    <3> QED
      BY <3>1, ReferringSome
  <2> HIDE DEF owners, weaks
  <2>5. block[b].lives = (owners > 0)
    BY <2>1, <2>2, <2>3
  <2>6. block[b].allocated = (owners + weaks > 0)
    <3>1. owners + weaks > 0 <=> owners > 0 \/ weaks > 0
      BY <2>3, <2>4
    <3>2. (\E p \in AllPtrs : data[p] = b) <=> (\E p \in SharedPtrs \cup UniquePtrs : data[p] = b) \/ \E p \in WeakPtrs : data[p] = b
      BY DEF AllPtrs, Counted
    <3> QED
      BY <2>1, <2>2, <2>3, <2>4, <3>1, <3>2
  <2>7. ASSUME NEW p \in WeakPtrs, data[p] = b PROVE expired(p) = (owners = 0)
    <3>1. expired(p) <=> block[b].shared = 0
      BY <2>2, <2>7 DEF expired
    <3>2. expired(p) \in BOOLEAN
      BY DEF expired
    <3>3. owners = 0 <=> ~(owners > 0)
      BY <2>3
    <3> QED
      BY <2>1, <2>3, <2>7, <3>1, <3>2, <3>3
  <2> QED
    BY <2>5, <2>6, <2>7 DEF owners, weaks
<1> QED
  BY <1>1, <1>2, <1>3 DEF PointersHold

\* Whatever the pointers, and however the steps of the calls on them interleave
\* (shared_ptr::dec, weak_ptr::lock, operator =): no block is used after it is
\* freed or destructed twice, a pointer that rests keeps its block and value,
\* and what nothing refers to is gone, unless unique_ptr::reset was called.
THEOREM PointersCorrect == PointersSpec => []PointersHold
<1>1. PointersInit => PointersInv
  BY PointersInvInit
<1>2. PointersInv /\ [PointersNext]_pointerVars => PointersInv'
  BY PointersInvStep
<1>3. PointersInv => PointersHold
  BY PointersInvHold
<1> QED
  BY <1>1, <1>2, <1>3, PTL DEF PointersSpec

=============================================================================
