------------------------------ MODULE HashSeed ------------------------------
(***************************************************************************)
(* The global hash seed of src/src/util/hash.c.  Every hash of a string, a *)
(* map key or a set key starts from it, so a map filled under one seed is  *)
(* unreadable under another.  It is drawn by the first thread that asks,   *)
(* under a mutex that the others spin on.                                  *)
(***************************************************************************)
EXTENDS Naturals

CONSTANTS
  Threads,
  Seeds     \* the values the random bytes may give

VARIABLES
  seed,       \* ATOMIC_SEED.seed, 0 until it is set
  holder,     \* the threads that hold ATOMIC_SEED.mutex
  pc,         \* pc[t]: where t's call of cubs_hash_seed is
  drawn,      \* drawn[t]: its local r
  returned    \* the seeds some call has returned

vars == <<seed, holder, pc, drawn, returned>>

\* Every variable has its type; in particular no call returns the invalid seed 0.
TypeOK ==
  /\ seed \in Seeds \cup {0}
  /\ holder \subseteq Threads
  /\ pc \in [Threads -> {"idle", "load", "try", "reload", "store", "unlock"}]
  /\ drawn \in [Threads -> Seeds \cup {0}]
  /\ returned \subseteq Seeds \ {0}

Init ==
  /\ seed = 0
  /\ holder = {}
  /\ pc = [t \in Threads |-> "idle"]
  /\ drawn = [t \in Threads |-> 0]
  /\ returned = {}

Goto(t, label) == pc' = [pc EXCEPT ![t] = label]

Call(t) ==
  /\ pc[t] = "idle"
  /\ Goto(t, "load")
  /\ UNCHANGED <<seed, holder, drawn, returned>>

\* The first load, and the one after a failed try_lock: a seed that is set is
\* returned, else the thread tries to lock (again, after yielding).
Load(t) ==
  /\ pc[t] \in {"load", "reload"}
  /\ IF seed # 0 THEN Goto(t, "idle") /\ returned' = returned \cup {seed}
                 ELSE Goto(t, "try") /\ UNCHANGED returned
  /\ UNCHANGED <<seed, holder, drawn>>

TryLock(t) ==
  /\ pc[t] = "try"
  /\ IF holder = {} THEN Goto(t, "store") /\ holder' = {t}
                    ELSE Goto(t, "reload") /\ UNCHANGED holder
  /\ UNCHANGED <<seed, drawn, returned>>

\* With the mutex held, the seed is drawn until it is not 0, and stored.
Store(t) ==
  /\ pc[t] = "store"
  /\ \E r \in Seeds \ {0} :
       /\ drawn' = [drawn EXCEPT ![t] = r]
       /\ seed' = r
  /\ Goto(t, "unlock")
  /\ UNCHANGED <<holder, returned>>

Unlock(t) ==
  /\ pc[t] = "unlock"
  /\ holder' = holder \ {t}
  /\ returned' = returned \cup {drawn[t]}
  /\ Goto(t, "idle")
  /\ UNCHANGED <<seed, drawn>>

Next ==
  \E t \in Threads : Call(t) \/ Load(t) \/ TryLock(t) \/ Store(t) \/ Unlock(t)

Spec == Init /\ [][Next]_vars
-----------------------------------------------------------------------------
\* The comment on cubs_hash_seed: "Instantiated once per program call".  Every
\* call returns the same seed.
OneSeed == \A r, s \in returned : r = s
=============================================================================
