----------------------------- MODULE Collection ------------------------------
(***************************************************************************)
(* Collection, MultiCollection and UnorderedCollection                     *)
(* (core/container/Collection.hpp): components by key.  A lookup table of  *)
(* buckets, each with a key and a slot, is probed at five places; the slot *)
(* says where the component is.  Collections keep their components in      *)
(* vectors, whose erase moves the last one into the gap; unordered ones in *)
(* fragmentations, which do not move them but when they grow, and then     *)
(* leave some behind.                                                      *)
(***************************************************************************)
EXTENDS Storages, FiniteSets

CONSTANTS
    CollectionKeys,     \* keys, numbers other than Key{}
    CollectionTypes,    \* component types
    CollectionStorages, \* among "static", "heap": where unordered components may be
    MaxBuckets,         \* bound: what the lookup table may grow to
    MaxComponents       \* CollectionStorages -> type -> bound: components of it

ASSUME CollectionKeysAssumption == CollectionKeys \subseteq Nat \ {0}

VARIABLES
    ckind,      \* which of the three classes
    cstorage,   \* and where unordered components are, the vectors being full as if static
    coll,       \* the collection
    held,       \* what the client has put into it: <<key, type>> to value
    leftBehind  \* ghost: keys of components that a reallocation did not move, or twice

collectionVars == <<ckind, cstorage, coll, held, leftBehind>>

NoKey == 0
NoBucket == -1

hash_of(key, nkeys) == (key * key) % nkeys

\* The buckets of a table are numbered from 0.  A key is looked for at five of them.
find_bucket(key, keys, first) ==
    LET bucket(count) == (first + count * count) % Len(keys)
        hits == {count \in 0 .. 4 : keys[bucket(count) + 1] = key}
    IN IF hits = {} THEN NoBucket ELSE bucket(CHOOSE c \in hits : \A d \in hits : c <= d)

find(c, key) == find_bucket(key, c.keys, hash_of(key, Len(c.keys)))

find_empty_bucket(keys, key) == find_bucket(NoKey, keys, hash_of(key, Len(keys)))

EmptySlot == [type |-> 0, index |-> 0]
EmptyMultiSlot == [t \in CollectionTypes |-> NoBucket]
Blank == IF ckind = "multi" THEN EmptyMultiSlot ELSE EmptySlot

\* A table that has grown to n buckets, old buckets in order, or the old table if one of
\* the keys finds no bucket.
relocate_rehash(c, n) ==
    LET place(b, table) ==
            IF c.keys[b] = NoKey \/ ~table.ok THEN table
            ELSE LET bucket == find_empty_bucket(table.keys, c.keys[b])
                 IN IF bucket = NoBucket THEN [table EXCEPT !.ok = FALSE]
                    ELSE [table EXCEPT !.keys[bucket + 1] = c.keys[b], !.slots[bucket + 1] = c.slots[b]]
        blank == [ok |-> TRUE, keys |-> [b \in 1 .. n |-> NoKey], slots |-> [b \in 1 .. n |-> Blank]]
        moved == FoldRight(place, [b \in 1 .. Len(c.keys) |-> Len(c.keys) + 1 - b], blank)
    IN IF moved.ok THEN [c EXCEPT !.keys = moved.keys, !.slots = moved.slots] ELSE c

\* try_place of a key that has no bucket: the table grows to the next power of two
\* until one of the five is empty, or it cannot grow.
RECURSIVE try_place(_, _)
try_place(c, key) ==
    LET grown == relocate_rehash(c, 2 * Len(c.keys))
    IN IF find_empty_bucket(c.keys, key) # NoBucket \/ 2 * Len(c.keys) > MaxBuckets \/ grown = c THEN c
       ELSE try_place(grown, key)

CollectionOf ==
    [keys |-> <<NoKey>>, slots |-> <<Blank>>,
     arrays |-> [t \in CollectionTypes |-> <<>>],
     cells |-> [t \in CollectionTypes |-> FragmentationOf(IF cstorage = "static" THEN MaxComponents[cstorage][t] ELSE 0)]]

-----------------------------------------------------------------------------
(* Collection: one component for a key, in the vector of its type.         *)

emplace(c, key, type, value) ==
    LET placed == try_place(c, key)
        bucket == find_empty_bucket(placed.keys, key)
    IN IF find(c, key) # NoBucket THEN c
       ELSE IF bucket = NoBucket \/ Len(c.arrays[type]) = MaxComponents[cstorage][type] THEN placed
       ELSE [placed EXCEPT !.arrays[type] = Append(@, [value |-> value, key |-> key]),
                           !.slots[bucket + 1] = [type |-> type, index |-> Len(c.arrays[type])],
                           !.keys[bucket + 1] = key]

\* What the slot of an empty bucket still says is never read: it is blank here.
Emptied(c, bucket) == [c EXCEPT !.keys[bucket + 1] = NoKey, !.slots[bucket + 1] = Blank]

\* Mutant: the last component is not moved into the gap before it is taken off.
remove_impl_pops(c, bucket) ==
    LET slot == c.slots[bucket + 1]
        last == find(c, Last(c.arrays[slot.type]).key)
        told == [c EXCEPT !.slots[last + 1].index = slot.index]
    IN [Emptied(told, bucket) EXCEPT !.arrays[slot.type] = Front(@)]

remove_impl(c, bucket) ==
    LET slot == c.slots[bucket + 1]
        last == find(c, Last(c.arrays[slot.type]).key)
        told == [c EXCEPT !.slots[last + 1].index = slot.index]
    IN [Emptied(told, bucket) EXCEPT !.arrays[slot.type] = WithoutAt(@, slot.index + 1)]

erase(c, bucket) == IF bucket = NoBucket THEN c ELSE remove_impl(c, bucket)

clear(c) ==
    [c EXCEPT !.arrays = [t \in CollectionTypes |-> <<>>],
              !.keys = [b \in 1 .. Len(c.keys) |-> NoKey],
              !.slots = [b \in 1 .. Len(c.keys) |-> Blank]]

get(c, type, bucket) ==
    LET slot == c.slots[bucket + 1]
    IN IF bucket = NoBucket \/ slot.type # type THEN NoElement ELSE c.arrays[type][slot.index + 1].value

-----------------------------------------------------------------------------
(* MultiCollection: one component of each type for a key.  A slot has an   *)
(* index for every type of its mask.                                       *)

HasType(slot, type) == slot[type] # NoBucket

multi_try_place(c, key) == IF find(c, key) # NoBucket THEN c ELSE try_place(c, key)

multi_emplace(c, key, type, value) ==
    LET placed == multi_try_place(c, key)
        known == find(placed, key)
        bucket == IF known # NoBucket THEN known ELSE find_empty_bucket(placed.keys, key)
    IN IF bucket = NoBucket \/ HasType(placed.slots[bucket + 1], type) \/ Len(c.arrays[type]) = MaxComponents[cstorage][type]
       THEN placed
       ELSE [placed EXCEPT !.arrays[type] = Append(@, [value |-> value, key |-> key]),
                           !.slots[bucket + 1][type] = Len(c.arrays[type]),
                           !.keys[bucket + 1] = key]

remove_at_impl(c, bucket, type) ==
    LET index == c.slots[bucket + 1][type]
        last == find(c, Last(c.arrays[type]).key)
        moved == [c.slots EXCEPT ![last + 1][type] = index]
        cleared == [moved EXCEPT ![bucket + 1][type] = NoBucket]
    IN [c EXCEPT !.slots = cleared,
                 !.keys[bucket + 1] = IF cleared[bucket + 1] = EmptyMultiSlot THEN NoKey ELSE @,
                 !.arrays[type] = WithoutAt(@, index + 1)]

multi_erase_type(c, bucket, type) ==
    IF bucket = NoBucket \/ ~HasType(c.slots[bucket + 1], type) THEN c ELSE remove_at_impl(c, bucket, type)

multi_erase(c, bucket) ==
    IF bucket = NoBucket THEN c
    ELSE FoldRight(LAMBDA t, d : multi_erase_type(d, bucket, t), SetToSeq(CollectionTypes), c)

multi_get(c, type, bucket) ==
    IF bucket = NoBucket \/ ~HasType(c.slots[bucket + 1], type) THEN NoElement
    ELSE c.arrays[type][c.slots[bucket + 1][type] + 1].value

-----------------------------------------------------------------------------
(* UnorderedCollection: one component for a key, in the fragmentation of   *)
(* its type.                                                               *)

add_impl(c, bucket, key, type, value) ==
    LET cells == try_reserve(c.cells[type], c.cells[type].size + 1, cstorage, MaxComponents[cstorage][type])
    IN IF cells.size = capacity(cells) THEN c
       ELSE [c EXCEPT !.cells[type] = EmplaceCell(cells, value),
                      !.slots[bucket + 1] = [type |-> type, index |-> NextIndex(cells)],
                      !.keys[bucket + 1] = key]

unordered_remove_impl(c, bucket) ==
    LET slot == c.slots[bucket + 1]
    IN [Emptied(c, bucket) EXCEPT !.cells[slot.type] = EraseCell(@, slot.index)]

unordered_emplace(c, key, type, value) ==
    LET placed == try_place(c, key)
        bucket == find_empty_bucket(placed.keys, key)
    IN IF find(c, key) # NoBucket THEN c
       ELSE IF bucket = NoBucket THEN placed
       ELSE add_impl(placed, bucket, key, type, value)

\* The old component is gone also if there is no room for the new one.
unordered_replace(c, key, type, value) ==
    LET known == find(c, key)
        placed == IF known = NoBucket THEN try_place(c, key) ELSE unordered_remove_impl(c, known)
        bucket == IF known = NoBucket THEN find_empty_bucket(placed.keys, key) ELSE known
    IN IF bucket = NoBucket THEN placed ELSE add_impl(placed, bucket, key, type, value)

unordered_erase(c, bucket) == IF bucket = NoBucket THEN c ELSE unordered_remove_impl(c, bucket)

unordered_get(c, type, bucket) ==
    LET slot == c.slots[bucket + 1]
    IN IF bucket = NoBucket \/ slot.type # type THEN NoElement ELSE c.cells[type].cells[slot.index + 1]

-----------------------------------------------------------------------------
(* A client of one collection.                                             *)

Found(c, key, type) ==
    CASE ckind = "single" -> get(c, type, find(c, key))
      [] ckind = "multi" -> multi_get(c, type, find(c, key))
      [] ckind = "unordered" -> unordered_get(c, type, find(c, key))

get_all_keys(c) == {c.keys[b] : b \in 1 .. Len(c.keys)} \ {NoKey}

CollectionInit ==
    /\ ckind \in {"single", "multi", "unordered"}
    /\ cstorage \in CollectionStorages /\ (ckind # "unordered" => cstorage = "static")
    /\ coll = CollectionOf
    /\ held = <<>>
    /\ leftBehind = {}

\* A call that returned a component is remembered.
Emplaced(key, type, value) ==
    IF coll' # coll /\ find(coll', key) # NoBucket /\ Found(coll', key, type) = value
    THEN (<<key, type>> :> value) @@ held ELSE held

Without2(keys, types) == [x \in {y \in DOMAIN held : y[1] \notin keys \/ y[2] \notin types} |-> held[x]]

\* Keys of a type whose component the growth of its fragmentation loses.
Unmoved(type) ==
    LET f == coll.cells[type]
    IN IF capacity(coll'.cells[type]) = capacity(f) THEN {}
       ELSE {x[1] : x \in {y \in DOMAIN held : y[2] = type /\
                TimesNamed(f, coll.slots[find(coll, y[1]) + 1].index) # 1}}

CollectionEmplace(key, type) ==
    LET value == <<key, type, 0>> IN
    /\ coll' = CASE ckind = "single" -> emplace(coll, key, type, value)
                 [] ckind = "multi" -> multi_emplace(coll, key, type, value)
                 [] ckind = "unordered" -> unordered_emplace(coll, key, type, value)
    /\ held' = Emplaced(key, type, value)
    /\ leftBehind' = leftBehind \cup Unmoved(type)
    /\ UNCHANGED <<ckind, cstorage>>

CollectionReplace(key, type) ==
    LET value == <<key, type, 1>> IN
    /\ ckind = "unordered"
    /\ coll' = unordered_replace(coll, key, type, value)
    /\ held' = IF find(coll', key) = NoBucket THEN Without2({key}, CollectionTypes)
               ELSE (<<key, type>> :> value) @@ Without2({key}, CollectionTypes)
    /\ leftBehind' = (leftBehind \cup Unmoved(type)) \ {key}
    /\ UNCHANGED <<ckind, cstorage>>

CollectionErase(key) ==
    /\ coll' = CASE ckind = "single" -> erase(coll, find(coll, key))
                 [] ckind = "multi" -> multi_erase(coll, find(coll, key))
                 [] ckind = "unordered" -> unordered_erase(coll, find(coll, key))
    /\ held' = Without2({key}, CollectionTypes)
    /\ leftBehind' = leftBehind \ {key}
    /\ UNCHANGED <<ckind, cstorage>>

CollectionEraseType(key, type) ==
    /\ ckind = "multi"
    /\ coll' = multi_erase_type(coll, find(coll, key), type)
    /\ held' = Without2({key}, {type})
    /\ UNCHANGED <<ckind, cstorage, leftBehind>>

CollectionClear ==
    /\ ckind = "single"
    /\ coll' = clear(coll)
    /\ held' = <<>>
    /\ UNCHANGED <<ckind, cstorage, leftBehind>>

CollectionNext ==
    \/ \E key \in CollectionKeys :
           \/ CollectionErase(key)
           \/ \E type \in CollectionTypes :
                  CollectionEmplace(key, type) \/ CollectionReplace(key, type) \/ CollectionEraseType(key, type)
    \/ CollectionClear

-----------------------------------------------------------------------------
(* Properties.                                                             *)

(* Whatever was put in and taken out before, however the table grew and    *)
(* the components moved, a key finds the component that was put in for it, *)
(* and no other key finds one: the slots that remove_impl, remove_at_impl  *)
(* and relocate_rehash change stay right.  Only a component that is left   *)
(* behind, when the heap fragmentation of an unordered collection grows    *)
(* after it has lost another, is not there any more for its key, which     *)
(* does find a bucket; it can be erased or replaced (fragmentation.hpp,    *)
(* try_erase and move).                                                    *)
CollectionIsMap ==
    /\ get_all_keys(coll) = {x[1] : x \in DOMAIN held}
    /\ leftBehind # {} => ckind = "unordered" /\ cstorage = "heap"
    /\ \A key \in CollectionKeys \ leftBehind, type \in CollectionTypes :
           Found(coll, key, type) =
               IF find(coll, key) # NoBucket /\ <<key, type>> \in DOMAIN held
               THEN held[<<key, type>>] ELSE NoElement

=============================================================================
