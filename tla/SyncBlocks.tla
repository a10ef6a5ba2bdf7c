----------------------------- MODULE SyncBlocks -----------------------------
(***************************************************************************)
(* What a sync block promises to the program, with the queues and the      *)
(* one-by-one locking left out: a thread ENTERS a block with everything it *)
(* asked for or with nothing, and while it is inside nobody else is inside *)
(* a block with a conflicting request.  docs/SCRIPT.md, "Sync Blocks", and *)
(* the tests of src/src/sync/sync_queue.zig rely on this.                  *)
(***************************************************************************)
EXTENDS RwLock, Naturals, SequencesExt

CONSTANT Requests   \* records with a field obj and a field mode

VARIABLE blocks     \* blocks[t]: the request sets of t's open blocks, outermost first

Init == blocks = [t \in Threads |-> << >>]

Conflict(r, s) ==
  r.obj = s.obj /\ "Exclusive" \in {r.mode, s.mode}

\* Everything thread t has in its open blocks.
Granted(t) == UNION {blocks[t][k] : k \in DOMAIN blocks[t]}

Enter(t) ==
  \E R \in SUBSET Requests :
    /\ blocks' = [blocks EXCEPT ![t] = Append(@, R)]
    /\ \A r, s \in R : r.obj = s.obj => r = s
    /\ \A u \in Threads \ {t} : \A r \in R, s \in Granted(u) : ~Conflict(r, s)

Leave(t) ==
  /\ blocks[t] # << >>
  /\ blocks' = [blocks EXCEPT ![t] = Front(@)]

Next == \E t \in Threads : Enter(t) \/ Leave(t)

Spec == Init /\ [][Next]_blocks
=============================================================================
