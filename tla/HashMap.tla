------------------------------- MODULE HashMap -------------------------------
(***************************************************************************)
(* The hash map of src/src/primitives/map/map.c: a hash table whose        *)
(* entries have a key and a value.                                         *)
(***************************************************************************)
EXTENDS HashTable

CONSTANTS
  Values,
  Reinsert       \* whether the program inserts keys the map already has

ASSUME ProgramAssumption == Reinsert \in BOOLEAN

VARIABLE map

Entries == [key : Keys, value : Values]

\* The map has its type (TableTypeOK).
TypeOK == TableTypeOK(map, Entries)

Init == map = EmptyTable

\* cubs_map_insert.
Insert(key, value) ==
  /\ map.len < MaxHeaders
  /\ Reinsert \/ \A h \in DOMAIN map.headers : map.headers[h].entry.key # key
  /\ map' = Inserted(map, [key |-> key, value |-> value])

\* The program writes a value through the pointer of cubs_map_find_mut.
FindMut(key, value) ==
  /\ Found(map, key) # 0
  /\ map' = [map EXCEPT !.headers[HeaderAt(map, key, Found(map, key))].entry.value = value]

\* cubs_map_erase; without the key nothing changes.
Erase(key) ==
  /\ Found(map, key) # 0
  /\ map' = Erased(map, key, Found(map, key))

\* The program clones the map, deinitialises it and goes on with the clone.
Clone ==
  /\ map.len <= CloneLimit
  /\ map' = Cloned(map)

\* cubs_map_hash: the hashes of the keys and of the values, in order.
HashOfMap(m) ==
  LET entries == EntriesOf(m, TRUE)
  IN  [i \in DOMAIN entries |-> <<HashOf[entries[i].key], entries[i].value>>]

Next ==
  \/ \E key \in Keys :
       \/ \E value \in Values : Insert(key, value) \/ FindMut(key, value)
       \/ Erase(key)
  \/ Clone

Spec == Init /\ [][Next]_map
-----------------------------------------------------------------------------
(***************************************************************************)
(* Properties.                                                             *)
(***************************************************************************)

\* No header of a map is lost or duplicated, however the groups grow and double
\* (HeadersFiled).
SlotsMatchPairs == HeadersFiled(map)

\* The iterations go through the same pairs; so a clone, although its pairs are
\* filed elsewhere, is equal to the map and has its hash.
IterationsMirror ==
  /\ IterationsAgree(map)
  /\ Eql(map, Cloned(map)) /\ HashOfMap(map) = HashOfMap(Cloned(map))

\* "Find `key` within the map `self`. If it doesn't exist, returns `NULL`,
\* otherwise" a reference to its value (map.h on cubs_map_find).
FindsWhatIsThere == FindsKeys(map)

\* The comment on group_insert: "If the entry already exists, overrides the
\* existing value."  No key has two pairs.
OnePairPerKey ==
  \A p, q \in DOMAIN map.headers :
    map.headers[p].entry.key = map.headers[q].entry.key => p = q

Abs == INSTANCE OrderedMap WITH entries <- EntriesOf(map, TRUE)

\* As long as the program inserts new keys only and clones no map with several
\* pairs, the map is one that remembers the order of the inserts: neither the
\* doubling of the groups nor an erase disturbs a pair that stays.
ImplementsOrderedMap == Abs!Spec
=============================================================================
