----------------------------- MODULE MCHashMap -----------------------------
(***************************************************************************)
(* Instances of HashMap for TLC: few slots, so that groups fill up and the *)
(* number of groups doubles, and hashes that collide.                      *)
(***************************************************************************)
EXTENDS HashMap

\* Keys 1 and 2 have the same hash; 3 shares their group and 4 their mask.
CollidingHashes ==
  [k \in Keys |->
     CASE k \in {1, 2} -> [group |-> 0, mask |-> 1]
       [] k = 3 -> [group |-> 2, mask |-> 2]
       [] k = 4 -> [group |-> 1, mask |-> 1]
       [] OTHER -> [group |-> k, mask |-> k]]

\* What the values are makes no difference to the map.
Symmetry == Permutations(Values)
=============================================================================
