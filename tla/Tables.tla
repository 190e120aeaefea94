-------------------------------- MODULE Tables --------------------------------
(****************************************************************************)
(* The tables of a debug build that turn tokens into text: the table of     *)
(* ranges of tokens (engine/TokenTable.cpp), of which the hash table        *)
(* (engine/HashTable.cpp) is one and each entity factory                    *)
(* (engine/EntityFactory.hpp) is another.  Each operation of a table holds  *)
(* its spinlock, so it is one step; threads interleave between them.        *)
(****************************************************************************)
EXTENDS Integers, Sequences, FiniteSets

CONSTANTS
  Tokens,        \* 0 .. n: the values of a token, which wrap around
  HashRange,     \* the range of the hashes
  FactoryRanges, \* the ranges factories are made with
  Factories,     \* objects of class EntityFactory
  TableMax,      \* the capacity of the token table
  HashStrings,   \* [hashes -> strings]: what the static hashes add
  MaxTableCalls  \* bound

ASSUME TablesAssumption ==
  /\ IsFiniteSet(Tokens) /\ Tokens # {} /\ Tokens = 0 .. Cardinality(Tokens) - 1
  /\ HashRange.from \in Int /\ HashRange.count \in Nat
  /\ \A r \in FactoryRanges : r.from \in Int /\ r.count \in Nat
  /\ IsFiniteSet(Factories) /\ "__hash_table__" \notin Factories

NoFactory == [alive |-> FALSE, from |-> 0, count |-> 0, name |-> "none"]
NoIndex == 0
Unknown == "[ ? ]"
UnknownHash == "( ? )"

VARIABLES
  ranges,    \* ranges, names and callbacks of the table, by position
  hashes,    \* the strings of the hash table, by hash
  factories, \* the factories
  refused,   \* whether a range was ever refused
  ntable     \* calls, against the bound

tableVars == <<ranges, hashes, factories, refused, ntable>>

-----------------------------------------------------------------------------
Wrapped(x) == x % Cardinality(Tokens)
InRange(value, r) == Wrapped(value - r.from) < r.count

FirstOf(S) ==
  IF S = {} THEN NoIndex ELSE CHOOSE i \in S : \A j \in S : i <= j

find_by_range(from, count) ==
  FirstOf({i \in DOMAIN ranges : ranges[i].from = from /\ ranges[i].count = count})
find_by_value(value) ==
  FirstOf({i \in DOMAIN ranges : InRange(value, ranges[i])})

(* Mutant: the name of the range that moves is forgotten.                    *)
unregister_callback_short(from, count) ==
  LET i == find_by_range(from, count)
      n == Len(ranges)
  IN  IF i = NoIndex THEN ranges
      ELSE SubSeq([ranges EXCEPT ![i] = [@ EXCEPT !.from = ranges[n].from,
                                                  !.count = ranges[n].count]],
                  1, n - 1)

(* The last range fills the place of the one that goes.                      *)
unregister_callback(from, count) ==
  LET i == find_by_range(from, count)
      n == Len(ranges)
  IN  IF i = NoIndex THEN ranges
      ELSE SubSeq([ranges EXCEPT ![i] = ranges[n]], 1, n - 1)

CanRegister(from, count) ==
  Len(ranges) < TableMax /\ find_by_range(from, count) = NoIndex

register_callback(from, count, name) ==
  IF CanRegister(from, count)
  THEN Append(ranges, [from |-> from, count |-> count, name |-> name])
  ELSE ranges

(* The callback of the hash table prints the string, others their name.      *)
hashtable_copy(value) ==
  IF value \in DOMAIN hashes THEN hashes[value] ELSE UnknownHash

copy_string(value) ==
  LET i == find_by_value(value)
  IN  IF i = NoIndex THEN Unknown
      ELSE IF ranges[i].name = "__hash_table__" THEN hashtable_copy(value)
      ELSE ranges[i].name

-----------------------------------------------------------------------------
TablesInit ==
  /\ ranges = <<>>
  /\ hashes = [h \in {} |-> ""]
  /\ factories = [f \in Factories |-> NoFactory]
  /\ refused = FALSE
  /\ ntable = 0

Calls == ntable < MaxTableCalls /\ ntable' = ntable + 1

(* The hash table comes to be, registers its range and knows the empty       *)
(* string when the first string is added.                                    *)
add_string(h) ==
  /\ Calls
  /\ IF hashes = [x \in {} |-> ""]
     THEN /\ hashes' = [x \in {0, h} |-> IF x = 0 THEN "()" ELSE HashStrings[x]]
          /\ ranges' = register_callback(HashRange.from, HashRange.count,
                                         "__hash_table__")
          /\ refused' = (refused \/ ~CanRegister(HashRange.from, HashRange.count))
     ELSE /\ hashes' = IF h \in DOMAIN hashes THEN hashes
                       ELSE [x \in DOMAIN hashes \cup {h} |->
                               IF x = h THEN HashStrings[h] ELSE hashes[x]]
          /\ UNCHANGED <<ranges, refused>>
  /\ UNCHANGED factories

(* A factory whose range is refused keeps its count all the same: what the   *)
(* constructor sets to zero is its parameter.                                *)
EntityFactory(f, r) ==
  /\ Calls
  /\ ~factories[f].alive
  /\ factories' = [factories EXCEPT ![f] =
       [alive |-> TRUE, from |-> r.from, count |-> r.count, name |-> f]]
  /\ ranges' = IF r.count = 0 THEN ranges
               ELSE register_callback(r.from, r.count, f)
  /\ refused' = (refused \/ (r.count # 0 /\ ~CanRegister(r.from, r.count)))
  /\ UNCHANGED hashes

Dropped(f) ==
  IF factories[f].count # 0
  THEN unregister_callback(factories[f].from, factories[f].count) ELSE ranges

destroy_factory(f) ==
  /\ Calls
  /\ factories[f].alive
  /\ ranges' = Dropped(f)
  /\ factories' = [factories EXCEPT ![f] = NoFactory]
  /\ UNCHANGED <<hashes, refused>>

(* Construction by move, and assignment, which drops the range held before.  *)
FactoryMovedFrom(f, g) ==
  /\ factories' = [factories EXCEPT ![f] = [factories[g] EXCEPT !.alive = TRUE],
                                    ![g].count = 0]
  /\ UNCHANGED <<hashes, refused>>

factory_move_construct(f, g) ==
  /\ Calls
  /\ ~factories[f].alive /\ factories[g].alive
  /\ FactoryMovedFrom(f, g)
  /\ UNCHANGED ranges

factory_move_assign(f, g) ==
  /\ Calls
  /\ f # g /\ factories[f].alive /\ factories[g].alive
  /\ ranges' = Dropped(f)
  /\ FactoryMovedFrom(f, g)

TablesNext ==
  \/ \E h \in DOMAIN HashStrings : add_string(h)
  \/ \E f \in Factories :
       \/ \E r \in FactoryRanges : EntityFactory(f, r)
       \/ destroy_factory(f)
       \/ \E g \in Factories : factory_move_construct(f, g) \/ factory_move_assign(f, g)

TablesSpec == TablesInit /\ [][TablesNext]_tableVars

-----------------------------------------------------------------------------
FactoriesRegistered ==
  \A f \in Factories : factories[f].alive /\ factories[f].count # 0 =>
    \E i \in DOMAIN ranges : /\ ranges[i].from = factories[f].from
                             /\ ranges[i].count = factories[f].count
                             /\ ranges[i].name = factories[f].name

(* As long as no factory was refused its range, whatever factories are made, *)
(* moved, assigned and destroyed: every live factory that has a range is in  *)
(* the token table under the name it was made with, no range is there twice  *)
(* or left behind, and every token of that range, and of no two ranges, is   *)
(* printed with that name.                                                   *)
TokensNamed ==
  ~refused =>
    /\ FactoriesRegistered
    /\ \A i, j \in DOMAIN ranges :
         i # j => <<ranges[i].from, ranges[i].count>> # <<ranges[j].from, ranges[j].count>>
    /\ Len(ranges) = (IF hashes = [x \in {} |-> ""] THEN 0 ELSE 1)
         + Cardinality({f \in Factories : factories[f].alive /\ factories[f].count # 0})
    /\ \A f \in Factories, v \in Tokens :
         /\ factories[f].alive /\ InRange(v, factories[f])
         /\ ~\E i, j \in DOMAIN ranges : i # j /\ InRange(v, ranges[i]) /\ InRange(v, ranges[j])
         => copy_string(v) = factories[f].name
=============================================================================
