------------------------------ MODULE HashTable ------------------------------
(***************************************************************************)
(* What the hash map of src/src/primitives/map/map.c and the hash set of   *)
(* src/src/primitives/set/set.c have in common: set.c repeats these        *)
(* functions of map.c line by line, for headers that have a key but no     *)
(* value.                                                                  *)
(*                                                                         *)
(* A table is an array of GROUPS.  The high bits of a key's hash choose    *)
(* its group, and the low 7 bits are its MASK: a group has an array of     *)
(* masks, 0 where a slot is free, and next to it an array of pointers to   *)
(* the HEADERS.  A header keeps its entry (a key, and a value in a map),   *)
(* the hash it was inserted with, and the links of the list that iteration *)
(* follows.  The number of groups doubles when no entry is available any   *)
(* more, and the headers are dealt out again by their hashes.              *)
(*                                                                         *)
(* A table is one record, so that an operation is the composition of the   *)
(* functions of the C file, and a loop of the C file is a function of the  *)
(* number of its turns.  Scanning a group 32 masks at a time with SIMD     *)
(* instructions is scanning it.  Keys have a size that is a multiple of 8, *)
(* so that every function finds the value at the same offset.              *)
(***************************************************************************)
EXTENDS Integers, FiniteSets, SequencesExt

CONSTANTS
  Keys,
  HashOf,        \* HashOf[k]: the hash of a key, as its group and mask bits
  GroupSize,     \* GROUP_ALLOC_SIZE, the slots of a new group
  MaxHeaders,    \* bound on the headers of a table
  SizeT,         \* 2^64, the values of size_t
  CloneLimit     \* the program goes on with clones of up to this many entries

ASSUME HashOfAssumption ==
  HashOf \in [Keys -> [group : Nat, mask : Nat \ {0}]]
ASSUME SizesAssumption ==
  /\ GroupSize \in Nat \ {0, 1} /\ MaxHeaders \in Nat /\ CloneLimit \in Nat
  /\ SizeT \in Nat /\ SizeT > 2 * GroupSize + 8 * MaxHeaders

NULL == 0

FreeSlot == [mask |-> 0, header |-> NULL]

Used(slot) == slot.mask # 0

\* cubs_map_init: no groups yet, and no headers.
EmptyTable ==
  [groups |-> << >>, available |-> 0, len |-> 0,
   first |-> NULL, last |-> NULL, headers |-> << >>]
-----------------------------------------------------------------------------
(***************************************************************************)
(* Groups.                                                                 *)
(***************************************************************************)

FreeSlots(n) == [i \in 1 .. n |-> FreeSlot]

\* group_init.
NewGroup == [slots |-> FreeSlots(GroupSize), pairCount |-> 0]

NewGroups(n) == [g \in 1 .. n |-> NewGroup]

\* The used ones among the slots, as a loop over them comes to them.
UsedOf(slots) ==
  LET used[i \in 0 .. Len(slots)] ==
        IF i = 0 THEN << >>
        ELSE LET before == used[i - 1]
             IN  IF Used(slots[i]) THEN Append(before, slots[i]) ELSE before
  IN  used[Len(slots)]

\* A mutant: moving starts after the first slot, whose header is lost.
GroupEnsuredFromSecond(group, n) ==
  IF n <= Len(group.slots) THEN group
  ELSE LET capacity == n + (GroupSize - (n % GroupSize))
           used == UsedOf(Tail(group.slots))
       IN  [group EXCEPT !.slots = used \o FreeSlots(capacity - Len(used))]

\* group_ensure_total_capacity: the used slots move to the front of the new
\* arrays, whose size is the next multiple of GroupSize above n.
GroupEnsured(group, n) ==
  IF n <= Len(group.slots) THEN group
  ELSE LET capacity == n + (GroupSize - (n % GroupSize))
           used == UsedOf(group.slots)
       IN  [group EXCEPT !.slots = used \o FreeSlots(capacity - Len(used))]

\* A slot of a group becomes a used one.
Filled(group, i, slot) ==
  [slots |-> [group.slots EXCEPT ![i] = slot], pairCount |-> group.pairCount + 1]

\* groupBitmask.value % groupCount, as an index of the array.
GroupIndex(hash, groupCount) == (hash.group % groupCount) + 1

\* The start of find, find_mut and erase, and group_find: the first slot of
\* the key's group with its mask and a header with that key, 0 if there is none.
Found(m, key) ==
  IF m.len = 0 THEN 0
  ELSE SelectInSeq(m.groups[GroupIndex(HashOf[key], Len(m.groups))].slots,
                   LAMBDA slot : /\ slot.mask = HashOf[key].mask
                                 /\ m.headers[slot.header].entry.key = key)

\* The header in a slot that was found for the key.
HeaderAt(m, key, i) == m.groups[GroupIndex(HashOf[key], Len(m.groups))].slots[i].header

\* The used slots of the groups, group by group.
UsedSlots(m) ==
  LET used[g \in 0 .. Len(m.groups)] ==
        IF g = 0 THEN << >> ELSE used[g - 1] \o UsedOf(m.groups[g].slots)
  IN  used[Len(m.groups)]
-----------------------------------------------------------------------------
(***************************************************************************)
(* Inserting.                                                              *)
(***************************************************************************)

\* A mutant: a header is dealt out by the old number of groups.
DealtToOldGroup(m, groups, slot) ==
  LET g == GroupIndex(m.headers[slot.header].hash, Len(m.groups))
      group == GroupEnsured(groups[g], groups[g].pairCount + 1)
  IN  [groups EXCEPT ![g] = Filled(group, group.pairCount + 1, slot)]

\* One used slot of an old group is moved to the next slot of its new group.
DealtOut(m, groups, slot) ==
  LET g == GroupIndex(m.headers[slot.header].hash, Len(groups))
      group == GroupEnsured(groups[g], groups[g].pairCount + 1)
  IN  [groups EXCEPT ![g] = Filled(group, group.pairCount + 1, slot)]

\* All of them, in the order of the loop, into n new groups.
Dealt(m, n) ==
  LET slots == UsedSlots(m)
      dealt[k \in 0 .. Len(slots)] ==
        IF k = 0 THEN NewGroups(n) ELSE DealtOut(m, dealt[k - 1], slots[k])
  IN  dealt[Len(slots)]

LoadFactor(groupCount) == (GroupSize * groupCount * 4) \div 5

\* map_ensure_total_capacity.
Ensured(m) ==
  IF m.groups = << >> THEN
    [m EXCEPT !.groups = NewGroups(1), !.available = LoadFactor(1),
              !.first = NULL, !.last = NULL]
  ELSE IF m.available # 0 THEN m
  ELSE LET n == 2 * Len(m.groups)
       IN  [m EXCEPT !.available = LoadFactor(n), !.groups = Dealt(m, n)]

\* cubs_malloc: some address that is not in use.
FreshHeader(m) == Min(1 .. MaxHeaders \ DOMAIN m.headers)

\* A mutant: the header is not linked back to the one before it.
LinkedForwardOnly(m, h, new) ==
  [a \in DOMAIN m.headers \cup {h} |->
     IF a = h THEN [new EXCEPT !.before = m.first]
     ELSE IF a = m.last THEN [m.headers[a] EXCEPT !.after = h]
     ELSE m.headers[a]]

\* The header h becomes the last of the iteration.
Linked(m, h, new) ==
  [a \in DOMAIN m.headers \cup {h} |->
     IF a = h THEN new
     ELSE IF a = m.last THEN [m.headers[a] EXCEPT !.after = h]
     ELSE m.headers[a]]

\* group_insert.  Its search for an existing entry passes the address of the
\* local pointer, &key, where group_find expects the key's, so it compares keys
\* with that pointer and finds none: a new header is made in any case.
GroupInserted(m, entry, hash) ==
  LET g == GroupIndex(hash, Len(m.groups))
      group == GroupEnsured(m.groups[g], m.groups[g].pairCount + 1)
      i == SelectInSeq(group.slots, LAMBDA slot : ~Used(slot))
      h == FreshHeader(m)
      new == [entry |-> entry, hash |-> hash, before |-> m.last, after |-> NULL]
  IN  [m EXCEPT
         !.headers = Linked(m, h, new),
         !.first = IF @ = NULL THEN h ELSE @,
         !.last = h,
         !.groups[g] = Filled(group, i, [mask |-> hash.mask, header |-> h])]

\* cubs_map_insert.
Inserted(m, entry) ==
  [GroupInserted(Ensured(m), entry, HashOf[entry.key])
     EXCEPT !.len = @ + 1, !.available = @ - 1]
-----------------------------------------------------------------------------
(***************************************************************************)
(* Erasing.                                                                *)
(***************************************************************************)

\* A mutant: the header after the one unlinked keeps its link to it.
UnlinkedForwardOnly(m, h) ==
  LET before == m.headers[h].before
      after == m.headers[h].after
  IN  [m EXCEPT
         !.first = IF before = NULL THEN after ELSE @,
         !.last = IF after = NULL THEN before ELSE @,
         !.headers = [a \in DOMAIN @ \ {h} |->
                        IF a = before THEN [@[a] EXCEPT !.after = after] ELSE @[a]]]

\* pair_deinit.
Unlinked(m, h) ==
  LET before == m.headers[h].before
      after == m.headers[h].after
  IN  [m EXCEPT
         !.first = IF before = NULL THEN after ELSE @,
         !.last = IF after = NULL THEN before ELSE @,
         !.headers = [a \in DOMAIN @ \ {h} |->
                        IF a = before THEN [@[a] EXCEPT !.after = after]
                        ELSE IF a = after THEN [@[a] EXCEPT !.before = before]
                        ELSE @[a]]]

\* group_erase.  The pointer the code leaves in a slot whose mask is 0 is never
\* read, and left out.
Freed(group, i) ==
  [slots |-> [group.slots EXCEPT ![i] = FreeSlot], pairCount |-> group.pairCount - 1]

\* cubs_map_erase, of a key that was found at i.
Erased(m, key, i) ==
  LET g == GroupIndex(HashOf[key], Len(m.groups))
  IN  [Unlinked(m, HeaderAt(m, key, i)) EXCEPT
         !.groups[g] = Freed(@, i),
         !.len = @ - 1,
         !.available = @ + 1]

\* cubs_map_deinit and group_deinit: group by group, not in the order of the links.
Deinited(m) ==
  LET slots == UsedSlots(m)
      rest[k \in 0 .. Len(slots)] == IF k = 0 THEN m ELSE Unlinked(rest[k - 1], slots[k].header)
  IN  rest[Len(slots)]
-----------------------------------------------------------------------------
(***************************************************************************)
(* Iterating and cloning.                                                  *)
(***************************************************************************)

\* A mutant: where it goes to is what followed the header it went to first.
FollowingFirst(m, h, forward) ==
  IF h = (IF forward THEN m.last ELSE m.first) THEN NULL
  ELSE m.headers[IF forward THEN m.first ELSE m.last].after

\* Where an iterator goes to after h.
Following(m, h, forward) ==
  IF h = (IF forward THEN m.last ELSE m.first) THEN NULL
  ELSE IF forward THEN m.headers[h].after ELSE m.headers[h].before

\* The headers an iterator goes through, one more than there can be if they
\* lead in a circle.
Iterated(m, forward) ==
  LET next == [h \in DOMAIN m.headers \cup {NULL} |->
                 IF h = NULL THEN NULL ELSE Following(m, h, forward)]
      at[n \in 0 .. MaxHeaders] ==
        IF n = 0 THEN IF forward THEN m.first ELSE m.last ELSE next[at[n - 1]]
  IN  [i \in 1 .. Cardinality({n \in 0 .. MaxHeaders : at[n] # NULL}) |-> at[i - 1]]

\* What it gives of every header.
EntriesOf(m, forward) ==
  LET headers == Iterated(m, forward)
  IN  [i \in DOMAIN headers |-> m.headers[headers[i]].entry]

\* cubs_map_clone.  Every entry is inserted with the hash of the first.
Cloned(m) ==
  IF m.len = 0 THEN EmptyTable
  ELSE
    LET n == Len(m.groups)
        fresh == [EmptyTable EXCEPT
                    !.groups = NewGroups(n), !.len = m.len,
                    !.available = (LoadFactor(n) - m.len) % SizeT]
        hash == m.headers[m.first].hash
        entries == EntriesOf(m, TRUE)
        copied[k \in 0 .. Len(entries)] ==
          IF k = 0 THEN fresh ELSE GroupInserted(copied[k - 1], entries[k], hash)
    IN  copied[Len(entries)]

\* cubs_map_eql, which fails an assertion if one iteration is longer.
Eql(m, n) == m.len = n.len /\ EntriesOf(m, TRUE) = EntriesOf(n, TRUE)
-----------------------------------------------------------------------------
(***************************************************************************)
(* What makes a table a good one.                                          *)
(***************************************************************************)

UsedPlaces(slots) == {i \in DOMAIN slots : Used(slots[i])}

\* Every field of the table has its type, no link leads to a header that was freed,
\* and the count of available entries never wraps around (map.c:492, 511).
TableTypeOK(m, entries) ==
  /\ \A g \in DOMAIN m.groups :
       /\ m.groups[g].pairCount \in 0 .. MaxHeaders
       /\ \A i \in DOMAIN m.groups[g].slots :
            m.groups[g].slots[i] \in [mask : Nat, header : 0 .. MaxHeaders]
  /\ m.available \in 0 .. SizeT - 1
  /\ m.len \in 0 .. MaxHeaders
  /\ {m.first, m.last} \subseteq DOMAIN m.headers \cup {NULL}
  /\ DOMAIN m.headers \subseteq 1 .. MaxHeaders
  /\ \A h \in DOMAIN m.headers :
       m.headers[h] \in [entry : entries, hash : Range(HashOf),
                         before : DOMAIN m.headers \cup {NULL},
                         after : DOMAIN m.headers \cup {NULL}]

\* The group g of n has what it counts: each of its used slots has a header of
\* the table with the slot's mask and the group's hash, and no two have the same.
GroupFiled(group, g, n, headers) ==
  /\ group.pairCount = Cardinality(UsedPlaces(group.slots))
  /\ Len(group.slots) % GroupSize = 0
  /\ \A i \in UsedPlaces(group.slots) :
       LET h == group.slots[i].header
       IN  /\ h \in DOMAIN headers
           /\ group.slots[i].mask = headers[h].hash.mask
           /\ GroupIndex(headers[h].hash, n) = g
           /\ \A j \in UsedPlaces(group.slots) : group.slots[j].header = h => i = j

\* Every header sits in one used slot, with its mask, in the group of its hash,
\* and the counts are those of the slots: growing, dealing out again and
\* erasing neither lose nor duplicate a header.
HeadersFiled(m) ==
  /\ m.len = Cardinality(DOMAIN m.headers)
  /\ \A g \in DOMAIN m.groups : GroupFiled(m.groups[g], g, Len(m.groups), m.headers)
  /\ \A h \in DOMAIN m.headers :
       LET g == GroupIndex(m.headers[h].hash, Len(m.groups))
       IN  g \in DOMAIN m.groups /\ \E i \in UsedPlaces(m.groups[g].slots) :
             m.groups[g].slots[i].header = h

\* The iterators go through all headers, and the reverse ones through the same
\* in reverse.
IterationsAgree(m) ==
  /\ ToSet(Iterated(m, TRUE)) = DOMAIN m.headers
  /\ Len(Iterated(m, TRUE)) = m.len
  /\ Iterated(m, FALSE) = Reverse(Iterated(m, TRUE))

\* What iteration shows, find finds, and nothing else.
FindsKeys(m) ==
  \A key \in Keys :
    IF Found(m, key) = 0
    THEN \A h \in DOMAIN m.headers : m.headers[h].entry.key # key
    ELSE m.headers[HeaderAt(m, key, Found(m, key))].entry.key = key
=============================================================================
