------------------------------- MODULE SyncPtr -------------------------------
(***************************************************************************)
(* The unique, shared and weak pointers of                                 *)
(* src/src/primitives/sync_ptr/sync_ptr.c, seen from one object: the value *)
(* and the header in front of it, with its lock, its two counts and its    *)
(* expired flag, and the handles that point at it.                         *)
(*                                                                         *)
(* A unique object has one strong handle; a shared one as many as were     *)
(* cloned.  The last strong handle to be deinitialised destroys the value  *)
(* under the lock and marks it expired.  The memory lives on as long as    *)
(* there are weak handles, and is freed by the last strong handle when it  *)
(* counts none, else by the last weak one when it finds the value expired. *)
(*                                                                         *)
(* A handle is used by one thread at a time, so the handles are what runs  *)
(* concurrently: every atomic access of a call is a step of its own, and   *)
(* the handle remembers where its call is.                                 *)
(***************************************************************************)
EXTENDS Naturals, FiniteSets

CONSTANT Handles   \* the CubsUnique, CubsShared and CubsWeak that may exist

ASSUME HandlesAssumption == IsFiniteSet(Handles)

INSTANCE RwLock WITH Threads <- Handles

VARIABLES
  isShared,    \* header->isShared
  refCount,    \* the count before the header, of a shared object
  weakCount,   \* header->weakCount
  expired,     \* header->isExpired
  lock,        \* header->lock
  alive,       \* the value has not been destroyed
  frees,       \* how often the memory has been freed
  kind,        \* kind[h]: what the handle is, "strong" or "weak"
  pc,          \* pc[h]: where its call is, "ready" between calls
  seen,        \* seen[h]: isExpired of weak_deinit, shouldFree of the others
  overlapped   \* a weak handle's deinit and one that destroys the value have overlapped

vars ==
  <<isShared, refCount, weakCount, expired, lock, alive, frees, kind, pc, seen,
    overlapped>>

\* The handle exists: it has not been deinitialised.
Idle == {"ready", "locked", "using"}

\* The calls that destroy the value, in the order of their steps.
TearingDown == {"waiting", "destroying", "expiring", "counting", "unlocking"}

Live(h) == pc[h] \in Idle
Strong(h) == kind[h] = "strong" /\ Live(h)
Weak(h) == kind[h] = "weak" /\ Live(h)
Teardown(h) == pc[h] \in TearingDown

\* The weak handles weakCount counts: one whose call is yet to take itself off
\* is among them.
CountedWeak(h) == kind[h] = "weak" /\ pc[h] \in Idle \cup {"dropping"}

\* Every variable has its type; in particular neither count is ever decremented
\* below 0 (remove_ref of atomic.c on a size_t).
TypeOK ==
  /\ isShared \in BOOLEAN
  /\ refCount \in Nat
  /\ weakCount \in Nat
  /\ expired \in BOOLEAN
  /\ lock \in RwLocks
  /\ alive \in BOOLEAN
  /\ frees \in Nat
  /\ kind \in [Handles -> {"strong", "weak"}]
  /\ pc \in [Handles -> Idle \cup TearingDown \cup {"none", "dropping", "freeing"}]
  /\ seen \in [Handles -> BOOLEAN]
  /\ overlapped \in BOOLEAN

\* cubs_unique_init or cubs_shared_init has made the object's first handle.
Init ==
  /\ isShared \in BOOLEAN
  /\ refCount = IF isShared THEN 1 ELSE 0
  /\ weakCount = 0
  /\ expired = FALSE
  /\ lock = Unlocked
  /\ alive = TRUE
  /\ frees = 0
  /\ kind = [h \in Handles |-> "strong"]
  /\ \E h \in Handles : pc = [g \in Handles |-> IF g = h THEN "ready" ELSE "none"]
  /\ seen = [h \in Handles |-> FALSE]
  /\ overlapped = FALSE
-----------------------------------------------------------------------------
(***************************************************************************)
(* New handles: n is one that does not exist yet.  None of these calls     *)
(* needs the lock, and all may be made while holding it.                   *)
(***************************************************************************)

Created(n, k) ==
  /\ pc[n] = "none"
  /\ pc' = [pc EXCEPT ![n] = "ready"]
  /\ kind' = [kind EXCEPT ![n] = k]

\* cubs_shared_clone.
CloneShared(h, n) ==
  /\ isShared
  /\ Strong(h)
  /\ Created(n, "strong")
  /\ refCount' = refCount + 1
  /\ UNCHANGED <<isShared, weakCount, expired, lock, alive, frees, seen, overlapped>>

\* cubs_unique_make_weak and cubs_shared_make_weak.
MakeWeak(h, n) ==
  /\ Strong(h)
  /\ Created(n, "weak")
  /\ weakCount' = weakCount + 1
  /\ UNCHANGED <<isShared, refCount, expired, lock, alive, frees, seen, overlapped>>

\* A mutant: the new handle is not counted.
CloneWeakUncounted(h, n) ==
  /\ Weak(h)
  /\ Created(n, "weak")
  /\ UNCHANGED <<isShared, refCount, weakCount, expired, lock, alive, frees, seen, overlapped>>

\* cubs_weak_clone.
CloneWeak(h, n) ==
  /\ Weak(h)
  /\ Created(n, "weak")
  /\ weakCount' = weakCount + 1
  /\ UNCHANGED <<isShared, refCount, expired, lock, alive, frees, seen, overlapped>>
-----------------------------------------------------------------------------
(***************************************************************************)
(* Using the value: lock, look, unlock.                                    *)
(***************************************************************************)

Goto(h, label) == pc' = [pc EXCEPT ![h] = label]

\* The lock and try_lock calls of all three pointers; a try_lock that is
\* refused changes nothing.
Lock(h, mode) ==
  /\ pc[h] = "ready"
  /\ Available(lock, mode)
  /\ lock' = LockedBy(lock, h, mode)
  /\ Goto(h, "locked")
  /\ UNCHANGED <<isShared, refCount, weakCount, expired, alive, frees, kind, seen, overlapped>>

\* The get calls.  The user of a weak handle asks cubs_weak_expired first, as
\* the assertion in cubs_weak_get demands.
Get(h) ==
  /\ pc[h] = "locked"
  /\ kind[h] = "weak" => ~expired
  /\ Goto(h, "using")
  /\ UNCHANGED <<isShared, refCount, weakCount, expired, lock, alive, frees, kind, seen, overlapped>>

Unlock(h) ==
  /\ pc[h] \in {"locked", "using"}
  /\ \E mode \in Modes :
       /\ h \in lock[mode]
       /\ lock' = UnlockedBy(lock, h, mode)
  /\ Goto(h, "ready")
  /\ UNCHANGED <<isShared, refCount, weakCount, expired, alive, frees, kind, seen, overlapped>>
-----------------------------------------------------------------------------
(***************************************************************************)
(* Deinitialising a strong handle.  "Mustn't be locked" (sync_ptr.h).      *)
(***************************************************************************)

\* A mutant: compares the count after the decrement with 1.
DeinitStrongTooEarly(h) ==
  /\ pc[h] = "ready" /\ kind[h] = "strong"
  /\ refCount' = IF isShared THEN refCount - 1 ELSE refCount
  /\ Goto(h, IF isShared /\ refCount > 2 THEN "none" ELSE "waiting")
  /\ overlapped' = \/ overlapped
                   \/ pc'[h] = "waiting" /\ \E w \in Handles : pc[w] = "dropping"
  /\ UNCHANGED <<isShared, weakCount, expired, lock, alive, frees, kind, seen>>

\* The start of cubs_unique_deinit and cubs_shared_deinit: a shared handle that
\* is not the last one is done.
DeinitStrong(h) ==
  /\ pc[h] = "ready" /\ kind[h] = "strong"
  /\ refCount' = IF isShared THEN refCount - 1 ELSE refCount
  /\ Goto(h, IF isShared /\ refCount # 1 THEN "none" ELSE "waiting")
  /\ overlapped' = \/ overlapped
                   \/ pc'[h] = "waiting" /\ \E w \in Handles : pc[w] = "dropping"
  /\ UNCHANGED <<isShared, weakCount, expired, lock, alive, frees, kind, seen>>

\* A mutant: destroys the value with readers present.
LockToDestroyShared(h) ==
  /\ pc[h] = "waiting"
  /\ Available(lock, "Shared")
  /\ lock' = LockedBy(lock, h, "Exclusive")
  /\ Goto(h, "destroying")
  /\ UNCHANGED <<isShared, refCount, weakCount, expired, alive, frees, kind, seen, overlapped>>

LockToDestroy(h) ==
  /\ pc[h] = "waiting"
  /\ Available(lock, "Exclusive")
  /\ lock' = LockedBy(lock, h, "Exclusive")
  /\ Goto(h, "destroying")
  /\ UNCHANGED <<isShared, refCount, weakCount, expired, alive, frees, kind, seen, overlapped>>

DestroyValue(h) ==
  /\ pc[h] = "destroying"
  /\ alive' = FALSE
  /\ Goto(h, "expiring")
  /\ UNCHANGED <<isShared, refCount, weakCount, expired, lock, frees, kind, seen, overlapped>>

SetExpired(h) ==
  /\ pc[h] = "expiring"
  /\ expired' = TRUE
  /\ Goto(h, "counting")
  /\ UNCHANGED <<isShared, refCount, weakCount, lock, alive, frees, kind, seen, overlapped>>

\* shouldFree: there are no weak references.
CountWeak(h) ==
  /\ pc[h] = "counting"
  /\ seen' = [seen EXCEPT ![h] = weakCount = 0]
  /\ Goto(h, "unlocking")
  /\ UNCHANGED <<isShared, refCount, weakCount, expired, lock, alive, frees, kind, overlapped>>

UnlockDestroyed(h) ==
  /\ pc[h] = "unlocking"
  /\ lock' = UnlockedBy(lock, h, "Exclusive")
  /\ Goto(h, IF seen[h] THEN "freeing" ELSE "none")
  /\ UNCHANGED <<isShared, refCount, weakCount, expired, alive, frees, kind, seen, overlapped>>
-----------------------------------------------------------------------------
(***************************************************************************)
(* Deinitialising a weak handle, and freeing the memory.                   *)
(***************************************************************************)

\* cubs_weak_deinit loads the flag ...
DeinitWeak(h) ==
  /\ pc[h] = "ready" /\ kind[h] = "weak"
  /\ seen' = [seen EXCEPT ![h] = expired]
  /\ overlapped' = (overlapped \/ \E s \in Handles : Teardown(s))
  /\ Goto(h, "dropping")
  /\ UNCHANGED <<isShared, refCount, weakCount, expired, lock, alive, frees, kind>>

\* A mutant: frees an expired object whether or not another weak handle is left.
DropWeakNotLast(h) ==
  /\ pc[h] = "dropping"
  /\ weakCount' = weakCount - 1
  /\ Goto(h, IF seen[h] THEN "freeing" ELSE "none")
  /\ UNCHANGED <<isShared, refCount, expired, lock, alive, frees, kind, seen, overlapped>>

\* A mutant: the comparison with the last reference is off by one.
DropWeakNeverLast(h) ==
  /\ pc[h] = "dropping"
  /\ weakCount' = weakCount - 1
  /\ Goto(h, IF seen[h] /\ weakCount = 0 THEN "freeing" ELSE "none")
  /\ UNCHANGED <<isShared, refCount, expired, lock, alive, frees, kind, seen, overlapped>>

\* ... and only then takes the handle off the count.
DropWeak(h) ==
  /\ pc[h] = "dropping"
  /\ weakCount' = weakCount - 1
  /\ Goto(h, IF seen[h] /\ weakCount = 1 THEN "freeing" ELSE "none")
  /\ UNCHANGED <<isShared, refCount, expired, lock, alive, frees, kind, seen, overlapped>>

\* header_free, at the end of all three.
Free(h) ==
  /\ pc[h] = "freeing"
  /\ frees' = frees + 1
  /\ Goto(h, "none")
  /\ UNCHANGED <<isShared, refCount, weakCount, expired, lock, alive, kind, seen, overlapped>>
-----------------------------------------------------------------------------
\* What handle h does inside a call to deinitialise it.
Continue(h) ==
  \/ LockToDestroy(h) \/ DestroyValue(h) \/ SetExpired(h)
  \/ CountWeak(h) \/ UnlockDestroyed(h)
  \/ DropWeak(h) \/ Free(h)

Next ==
  \E h \in Handles :
    \/ \E n \in Handles : CloneShared(h, n) \/ MakeWeak(h, n) \/ CloneWeak(h, n)
    \/ \E mode \in Modes : Lock(h, mode)
    \/ Get(h)
    \/ Unlock(h)
    \/ DeinitStrong(h)
    \/ DeinitWeak(h)
    \/ Continue(h)

Spec == Init /\ [][Next]_vars

\* A thread inside a call to deinitialise goes on.
Fairness == \A h \in Handles : WF_vars(Continue(h))

FairSpec == Spec /\ Fairness
-----------------------------------------------------------------------------
(***************************************************************************)
(* Properties.                                                             *)
(***************************************************************************)

\* Nothing can reach the memory by a handle any more.
Abandoned == \A h \in Handles : ~Strong(h) /\ ~CountedWeak(h)

Strongs == {h \in Handles : Strong(h)}
CountedWeaks == {h \in Handles : CountedWeak(h)}

\* The counts are those of the handles; a unique object has one.
CountsMatch ==
  /\ isShared => refCount = Cardinality(Strongs)
  /\ ~isShared => \A g, h \in Strongs : g = h
  /\ weakCount = Cardinality(CountedWeaks)

\* The lock is held by the handles inside a call that holds it.
LockMatches ==
  /\ \A h \in Handles :
       /\ pc[h] \in {"locked", "using"} <=>
            \E mode \in Modes : h \in lock[mode] /\ ~Teardown(h)
       /\ Teardown(h) =>
            /\ h \notin lock["Shared"]
            /\ pc[h] = "waiting" <=> h \notin lock["Exclusive"]
       /\ h \in lock["Exclusive"] \cup lock["Shared"] => Live(h) \/ Teardown(h)
  /\ LockExcludes(lock)

\* The value is destroyed and marked by one strong handle, after the last one.
TeardownOnce ==
  \A h \in Handles : Teardown(h) =>
    /\ kind[h] = "strong"
    /\ \A g \in Handles : Strong(g) \/ Teardown(g) => g = h
    /\ alive <=> pc[h] \in {"waiting", "destroying"}
    /\ expired <=> pc[h] \in {"counting", "unlocking"}

\* The value is alive and unmarked as long as there is a strong handle; it is
\* marked at the end of the call that destroyed it.
StrongKeepsValue ==
  /\ \A h \in Handles : Strong(h) => alive /\ ~expired
  /\ (\A h \in Handles : ~Teardown(h)) => (alive <=> ~expired)
  /\ (\A h \in Handles : ~Strong(h) /\ ~Teardown(h)) => expired

\* Whoever has decided to free, or has freed, did so when no handle was left.
FreedAbandoned ==
  /\ \A h \in Handles :
       pc[h] = "freeing" \/ (pc[h] = "unlocking" /\ seen[h]) => Abandoned
  /\ frees > 0 => Abandoned /\ expired
  /\ \A h \in Handles :
       /\ pc[h] = "freeing" => expired
       /\ pc[h] = "dropping" => kind[h] = "weak" /\ (seen[h] => expired)

\* The value is not destroyed while somebody who found it there uses it.
UsedAlive == \A h \in Handles : pc[h] = "using" => alive

\* The inductive invariant: the counts, the lock and the expired flag agree with
\* what the handles are doing, whatever the calls of the others have got to.
IInv ==
  /\ TypeOK
  /\ CountsMatch
  /\ LockMatches
  /\ TeardownOnce
  /\ StrongKeepsValue
  /\ FreedAbandoned
  /\ UsedAlive

\* The memory is there for every handle that is still to be deinitialised, and
\* for a weak one until it has taken itself off the count.
HandlesKeepMemory ==
  frees > 0 => \A h \in Handles : ~Live(h) /\ pc[h] # "dropping"

\* As long as no weak handle was deinitialised while the last strong one was: the memory
\* is freed once, by whoever is the last to touch it.
FreedOnceAtTheEnd ==
  ~overlapped =>
    /\ frees <= 1
    /\ frees = 1 => \A h \in Handles : pc[h] = "none"

\* ... and it is freed: nothing is leaked once no handle is left.
AbandonedIsFreed ==
  (\A h \in Handles : ~Live(h)) ~> (frees > 0 \/ overlapped)

\* The comment in cubs_weak_deinit on the free at its end: "dont need to lock
\* here since `self` is the only object with access to the memory".
WeakFreesAlone ==
  \A h \in Handles :
    kind[h] = "weak" /\ pc[h] = "freeing" =>
      \A g \in Handles \ {h} : pc[g] = "none"
=============================================================================
