------------------------------- MODULE HashSet -------------------------------
(***************************************************************************)
(* The hash set of src/src/primitives/set/set.c, a hash table whose        *)
(* entries have a key only, and an iterator over it.                       *)
(*                                                                         *)
(* An iterator holds the header it goes to next, and follows the links of  *)
(* that header only when it is there, so that a program may insert and     *)
(* erase keys between two steps, as long as it does not erase the key the  *)
(* iterator goes to next.                                                  *)
(***************************************************************************)
EXTENDS HashTable

VARIABLES set, iter

Members == [key : Keys]

KeysIn(s) == {s.headers[h].entry.key : h \in DOMAIN s.headers}

\* cubs_set_iter_end.  Of the keys that have been in the set since the iterator
\* began, the ghosts `due' and `seen' are those it has still to go to and those it
\* has been to, and `again' says that it went to one of them twice.
NoIter == [next |-> NULL, forward |-> TRUE, due |-> {}, seen |-> {}, again |-> FALSE]

SetInit == set = EmptyTable /\ iter = NoIter

\* cubs_set_contains.
SetContains(s, key) == Found(s, key) # 0

\* A mutant: the hash of the keys as they lie in the groups.
HashOfSetByGroups(s) ==
  LET slots == UsedSlots(s) IN [i \in DOMAIN slots |-> HashOf[s.headers[slots[i].header].entry.key]]

\* cubs_set_hash: the hashes of the keys, in order, combined into one.
HashOfSet(s) == LET keys == EntriesOf(s, TRUE) IN [i \in DOMAIN keys |-> HashOf[keys[i].key]]
-----------------------------------------------------------------------------
\* cubs_set_insert, of a key that is not there: group_insert does not find one that is,
\* as in the map.
SetInsert(key) ==
  /\ set.len < MaxHeaders
  /\ key \notin KeysIn(set)
  /\ set' = Inserted(set, [key |-> key])
  /\ UNCHANGED iter

\* cubs_set_erase, of another key than the one an iterator goes to next.
SetErase(key) ==
  LET i == Found(set, key)
  IN  /\ i # 0
      /\ HeaderAt(set, key, i) # iter.next
      /\ set' = Erased(set, key, i)
      /\ iter' = [iter EXCEPT !.due = @ \ {key}, !.seen = @ \ {key}]

\* The program goes on with a clone, and deinitialises the set.
SetClone ==
  /\ set.len <= CloneLimit /\ iter = NoIter
  /\ set' = Cloned(set)
  /\ UNCHANGED iter

\* cubs_set_iter_begin and cubs_set_reverse_iter_begin.
IterBegin(forward) ==
  /\ iter = NoIter /\ set.len # 0
  /\ iter' = [NoIter EXCEPT !.next = IF forward THEN set.first ELSE set.last,
                            !.forward = forward,
                            !.due = KeysIn(set)]
  /\ UNCHANGED set

\* cubs_set_iter_next and cubs_set_reverse_iter_next, which give the key.
IterNext ==
  /\ iter.next # NULL
  /\ LET key == set.headers[iter.next].entry.key
     IN  iter' = [iter EXCEPT !.next = Following(set, iter.next, iter.forward),
                              !.due = @ \ {key},
                              !.seen = IF key \in iter.due THEN @ \cup {key} ELSE @,
                              !.again = @ \/ key \in iter.seen]
  /\ UNCHANGED set

\* The iterator said that it is at the end.
IterDone == iter.next = NULL /\ iter # NoIter /\ iter' = NoIter /\ UNCHANGED set

SetNext ==
  \/ \E key \in Keys : SetInsert(key) \/ SetErase(key)
  \/ SetClone
  \/ \E forward \in BOOLEAN : IterBegin(forward)
  \/ IterNext \/ IterDone

SetSpec == SetInit /\ [][SetNext]_<<set, iter>>
-----------------------------------------------------------------------------
\* Every header is in one slot, in the group and with the mask of its hash; counts
\* and available entries are right; the iterations mirror each other; contains
\* finds just the keys that are iterated over; deinit frees every header.
KeysFiled ==
  /\ TableTypeOK(set, Members)
  /\ HeadersFiled(set)
  /\ IterationsAgree(set)
  /\ \A key \in Keys : SetContains(set, key) <=> key \in KeysIn(set)
  /\ DOMAIN Deinited(set).headers = {} /\ Deinited(set).first = NULL

\* An iterator that is at the end has been just once to every key that was in the
\* set all the time, whatever was inserted and erased meanwhile.
IterationComplete ==
  ~iter.again /\ (iter.next = NULL => iter.due = {})

\* A clone of any size is equal to the set, and equal sets have equal hashes.
CloneEqual == Eql(set, Cloned(set)) /\ HashOfSet(set) = HashOfSet(Cloned(set))
=============================================================================
