----------------------------- MODULE OrderedMap -----------------------------
(***************************************************************************)
(* What a CubsMap promises: one value per key, and an iteration that goes  *)
(* through the keys in the order they were inserted.                       *)
(***************************************************************************)
EXTENDS Naturals, Sequences

CONSTANTS Keys, Values

VARIABLE entries    \* records with a key and a value, oldest first

Init == entries = << >>

\* A step from the old entries to the new ones: a new key at the end, another value for
\* one that is there, or one entry less.
Insert(old, new) ==
  /\ Len(new) = Len(old) + 1
  /\ old = SubSeq(new, 1, Len(old))
  /\ new[Len(new)] \in [key : Keys, value : Values]
  /\ \A i \in DOMAIN old : old[i].key # new[Len(new)].key

Set(old, new) ==
  /\ Len(new) = Len(old)
  /\ \E i \in DOMAIN old, v \in Values : new = [old EXCEPT ![i].value = v]

Erase(old, new) ==
  /\ Len(new) = Len(old) - 1
  /\ \E i \in DOMAIN old : new = SubSeq(old, 1, i - 1) \o SubSeq(old, i + 1, Len(old))

Next ==
  \E old \in {entries}, new \in {entries'} : Insert(old, new) \/ Set(old, new) \/ Erase(old, new)

Spec == Init /\ [][Next]_entries
=============================================================================
