---------------------------- MODULE MCSyncQueue ----------------------------
(***************************************************************************)
(* Instances of SyncQueue for TLC.  Threads are interchangeable; objects   *)
(* are not, since their addresses are compared.                            *)
(***************************************************************************)
EXTENDS SyncQueue

\* Every object in both modes.
AllRequests == [obj : Objects, mode : Modes]

\* One object in both modes, the others to write: enough for readers that
\* share, writers that exclude, and an order of acquisition.
FewRequests == {r \in AllRequests : r.mode = "Shared" => r.obj = 1}

Symmetry == Permutations(Threads)
=============================================================================
