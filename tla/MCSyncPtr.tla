----------------------------- MODULE MCSyncPtr -----------------------------
(***************************************************************************)
(* Instances of SyncPtr for TLC.  Handles are interchangeable.             *)
(***************************************************************************)
EXTENDS SyncPtr, TLC

Symmetry == Permutations(Handles)
=============================================================================
