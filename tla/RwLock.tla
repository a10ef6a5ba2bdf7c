------------------------------- MODULE RwLock -------------------------------
(***************************************************************************)
(* The reader-writer lock of src/src/sync/locks.c, as the other parts of   *)
(* CubicScript use it.  The C file forwards each call to pthread_rwlock_t, *)
(* so a lock is the two sets of threads that hold it, one per mode, and a  *)
(* call is a condition on those sets and their new value.                  *)
(*                                                                         *)
(* A blocking call of a thread is enabled when the mode is available; a    *)
(* try call returns whether it is.  No thread is given precedence: glibc's *)
(* default lets readers overtake a waiting writer.                         *)
(*                                                                         *)
(* A thread is a member of at most one of the sets, once: the clients      *)
(* modelled here never lock a lock they already hold.                      *)
(***************************************************************************)
CONSTANT Threads

Modes == {"Exclusive", "Shared"}

\* A lock gives the threads that hold it in each mode.
RwLocks == [Modes -> SUBSET Threads]

Unlocked == [mode \in Modes |-> {}]

\* A mutant: a writer does not wait for the readers.
AvailableOverReaders(lock, mode) == lock["Exclusive"] = {}

\* cubs_rwlock_lock_exclusive waits for this and cubs_rwlock_try_lock_exclusive
\* returns it, and the same for the shared calls.
Available(lock, mode) ==
  /\ lock["Exclusive"] = {}
  /\ mode = "Exclusive" => lock["Shared"] = {}

\* The lock once thread t has got it.
LockedBy(lock, t, mode) == [lock EXCEPT ![mode] = @ \cup {t}]

\* The lock once thread t, which held it, has unlocked it.
UnlockedBy(lock, t, mode) == [lock EXCEPT ![mode] = @ \ {t}]

\* The guarantee of a reader-writer lock: a writer excludes everyone else.
LockExcludes(lock) ==
  /\ \A t, u \in lock["Exclusive"] : t = u
  /\ lock["Exclusive"] # {} => lock["Shared"] = {}
=============================================================================
