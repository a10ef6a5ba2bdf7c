---------------------------- MODULE SyncPtrProofs ----------------------------
(***************************************************************************)
(* What the handles of an object rely on, proved for any number of them    *)
(* and for every interleaving of their calls.                              *)
(***************************************************************************)
EXTENDS SyncPtr, FiniteSetTheorems, TLAPS

\* A count that goes with a set of handles as it loses or gains one.
LEMMA CountOneMore ==
  ASSUME NEW S \in SUBSET Handles, NEW h \in Handles, h \notin S
  PROVE  Cardinality(S \cup {h}) = Cardinality(S) + 1
BY HandlesAssumption, FS_Subset, FS_AddElement

\* One handle less is counted one less.
LEMMA CountOneLess ==
  ASSUME NEW S \in SUBSET Handles, NEW h \in S
  PROVE  /\ Cardinality(S \ {h}) = Cardinality(S) - 1
         /\ Cardinality(S) \in Nat \ {0}
         /\ Cardinality(S) = 1 => S = {h}
<1>1. IsFiniteSet(S)
  BY HandlesAssumption, FS_Subset
<1>2. Cardinality(S \ {h}) = Cardinality(S) - 1
  BY <1>1, FS_RemoveElement
<1>3. Cardinality(S) \in Nat /\ (Cardinality(S) = 0 <=> S = {})
  BY <1>1, FS_CardinalityType, FS_EmptySet
<1>4. ASSUME Cardinality(S) = 1
      PROVE  S = {h}
  <2>1. IsFiniteSet(S \ {h}) /\ Cardinality(S \ {h}) = 0
    BY <1>1, <1>2, <1>4, FS_Subset
  <2>. QED  BY <2>1, FS_EmptySet
<1>. QED  BY <1>2, <1>3, <1>4

\* A count of 0 goes with no handle.
LEMMA CountZero ==
  ASSUME NEW S \in SUBSET Handles, Cardinality(S) = 0
  PROVE  S = {}
BY HandlesAssumption, FS_Subset, FS_EmptySet

\* The invariant holds before there are handles in use.
LEMMA InitIInv == Init => IInv
<1>. SUFFICES ASSUME Init
              PROVE  IInv
  OBVIOUS
<1>1. PICK h \in Handles : pc = [g \in Handles |-> IF g = h THEN "ready" ELSE "none"]
  BY DEF Init
<1>2. TypeOK
  BY <1>1 DEF Init, TypeOK, Idle, TearingDown, RwLocks, Unlocked
<1>3. CountsMatch
  <2>1. Strongs = {h} /\ CountedWeaks = {}
    BY <1>1 DEF Init, Strongs, CountedWeaks, Strong, CountedWeak, Live, Idle
  <2>2. Cardinality(Strongs) = 1 /\ Cardinality(CountedWeaks) = 0
    BY <2>1, FS_Singleton, FS_EmptySet
  <2>. QED  BY <2>1, <2>2 DEF Init, CountsMatch
<1>4. LockMatches
  BY <1>1 DEF Init, LockMatches, LockExcludes, Unlocked, Modes, Teardown, TearingDown
<1>5. TeardownOnce /\ StrongKeepsValue /\ FreedAbandoned /\ UsedAlive
  BY <1>1 DEF Init, TeardownOnce, StrongKeepsValue, FreedAbandoned, UsedAlive, Strong,
       Live, Idle, Teardown, TearingDown
<1>. QED  BY <1>2, <1>3, <1>4, <1>5 DEF IInv

\* Taking or giving back a lock leaves a lock.
LEMMA LockTypes ==
  ASSUME NEW l \in RwLocks, NEW h \in Handles, NEW mode \in Modes
  PROVE  LockedBy(l, h, mode) \in RwLocks /\ UnlockedBy(l, h, mode) \in RwLocks
BY DEF RwLocks, LockedBy, UnlockedBy
-----------------------------------------------------------------------------
(***************************************************************************)
(* The counts.                                                             *)
(***************************************************************************)

\* Every step keeps the counts equal to the numbers of handles they count.
LEMMA CountsStep ==
  ASSUME IInv, [Next]_vars
  PROVE  CountsMatch'
<1>0. /\ Strongs \in SUBSET Handles /\ CountedWeaks \in SUBSET Handles
      /\ isShared => refCount = Cardinality(Strongs)
      /\ ~isShared => \A g, h \in Strongs : g = h
      /\ weakCount = Cardinality(CountedWeaks)
  BY DEF IInv, CountsMatch, Strongs, CountedWeaks
<1>1. ASSUME UNCHANGED <<isShared, refCount, weakCount, Strongs, CountedWeaks>>
      PROVE  CountsMatch'
  BY <1>0, <1>1 DEF CountsMatch
<1>. USE DEF Strong, CountedWeak, Live, Idle
<1>2. CASE UNCHANGED vars
  BY <1>1, <1>2 DEF vars, Strongs, CountedWeaks
<1>3. ASSUME NEW h \in Handles, NEW n \in Handles, CloneShared(h, n)
      PROVE  CountsMatch'
  <2>1. Strongs' = Strongs \cup {n} /\ n \notin Strongs /\ UNCHANGED CountedWeaks
    BY <1>3 DEF CloneShared, Created, IInv, TypeOK, Strongs, CountedWeaks
  <2>2. /\ isShared' /\ isShared /\ refCount' = refCount + 1
        /\ weakCount' = weakCount
    BY <1>3 DEF CloneShared
  <2>3. Cardinality(Strongs') = refCount + 1
    BY <1>0, <2>1, <2>2, CountOneMore
  <2>. QED  BY <1>0, <2>1, <2>2, <2>3 DEF CountsMatch
<1>4. ASSUME NEW h \in Handles, NEW n \in Handles, MakeWeak(h, n) \/ CloneWeak(h, n)
      PROVE  CountsMatch'
  <2>1. UNCHANGED Strongs /\ CountedWeaks' = CountedWeaks \cup {n} /\ n \notin CountedWeaks
    BY <1>4 DEF MakeWeak, CloneWeak, Created, IInv, TypeOK, Strongs, CountedWeaks
  <2>2. UNCHANGED <<isShared, refCount>> /\ weakCount' = weakCount + 1
    BY <1>4 DEF MakeWeak, CloneWeak
  <2>3. Cardinality(CountedWeaks') = weakCount + 1
    BY <1>0, <2>1, CountOneMore
  <2>. QED  BY <1>0, <2>1, <2>2, <2>3 DEF CountsMatch
<1>5. ASSUME NEW h \in Handles, DeinitStrong(h)
      PROVE  CountsMatch'
  <2>1. Strongs' = Strongs \ {h} /\ h \in Strongs /\ UNCHANGED CountedWeaks
    BY <1>5 DEF DeinitStrong, Goto, IInv, TypeOK, Strongs, CountedWeaks
  <2>2. /\ UNCHANGED <<isShared, weakCount>>
        /\ isShared => refCount' = refCount - 1
    BY <1>5 DEF DeinitStrong
  <2>3. Cardinality(Strongs') = Cardinality(Strongs) - 1
    BY <1>0, <2>1, CountOneLess
  <2>. QED  BY <1>0, <2>1, <2>2, <2>3 DEF CountsMatch
<1>6. ASSUME NEW h \in Handles, DropWeak(h)
      PROVE  CountsMatch'
  <2>1. kind[h] = "weak"
    BY <1>6 DEF DropWeak, IInv, FreedAbandoned
  <2>2. UNCHANGED Strongs /\ CountedWeaks' = CountedWeaks \ {h} /\ h \in CountedWeaks
    BY <1>6, <2>1 DEF DropWeak, Goto, IInv, TypeOK, Strongs, CountedWeaks
  <2>3. UNCHANGED <<isShared, refCount>> /\ weakCount' = weakCount - 1
    BY <1>6 DEF DropWeak
  <2>4. Cardinality(CountedWeaks') = Cardinality(CountedWeaks) - 1
    BY <1>0, <2>2, CountOneLess
  <2>. QED  BY <1>0, <2>2, <2>3, <2>4 DEF CountsMatch
<1>7. ASSUME NEW h \in Handles,
             \/ DeinitWeak(h) \/ Get(h) \/ Unlock(h) \/ \E mode \in Modes : Lock(h, mode)
             \/ LockToDestroy(h) \/ DestroyValue(h) \/ SetExpired(h)
             \/ CountWeak(h) \/ UnlockDestroyed(h) \/ Free(h)
      PROVE  CountsMatch'
  <2>1. UNCHANGED <<isShared, refCount, weakCount>>
    BY <1>7 DEF DeinitWeak, Get, Unlock, Lock, LockToDestroy, DestroyValue, SetExpired,
                CountWeak, UnlockDestroyed, Free
  <2>2. UNCHANGED <<Strongs, CountedWeaks>>
    BY <1>7 DEF DeinitWeak, Get, Unlock, Lock, LockToDestroy, DestroyValue, SetExpired,
                CountWeak, UnlockDestroyed, Free, Goto, IInv, TypeOK, Strongs, CountedWeaks
  <2>. QED  BY <1>1, <2>1, <2>2
<1>. QED
  BY <1>2, <1>3, <1>4, <1>5, <1>6, <1>7 DEF Next, Continue
-----------------------------------------------------------------------------
(***************************************************************************)
(* The rest of the invariant.                                              *)
(***************************************************************************)

\* The count is positive when a counted handle is taken off, and 1 when that
\* is the last.
LEMMA CountsAtDeinit ==
  ASSUME IInv, NEW h \in Handles
  PROVE  /\ Strong(h) /\ isShared => refCount \in Nat \ {0}
         /\ Strong(h) /\ (isShared => refCount = 1) => Strongs = {h}
         /\ CountedWeak(h) => weakCount \in Nat \ {0}
         /\ CountedWeak(h) /\ weakCount = 1 => CountedWeaks = {h}
         /\ weakCount = 0 => CountedWeaks = {}
<1>1. Strongs \in SUBSET Handles /\ CountedWeaks \in SUBSET Handles
  BY DEF Strongs, CountedWeaks
<1>2. Strong(h) <=> h \in Strongs
  BY DEF Strongs
<1>3. CountedWeak(h) <=> h \in CountedWeaks
  BY DEF CountedWeaks
<1>. QED  BY <1>1, <1>2, <1>3, CountOneLess, CountZero DEF IInv, CountsMatch

\* Every step keeps the types.
LEMMA TypeStep ==
  ASSUME IInv, [Next]_vars
  PROVE  TypeOK'
<1>. USE DEF TypeOK, Idle, TearingDown
<1>0. TypeOK
  BY DEF IInv
<1>1. CASE UNCHANGED vars
  BY <1>0, <1>1 DEF vars
<1>2. ASSUME NEW h \in Handles, NEW n \in Handles,
             CloneShared(h, n) \/ MakeWeak(h, n) \/ CloneWeak(h, n)
      PROVE  TypeOK'
  BY <1>0, <1>2 DEF CloneShared, MakeWeak, CloneWeak, Created
<1>3. ASSUME NEW h \in Handles, DeinitStrong(h)
      PROVE  TypeOK'
  <2>1. isShared => refCount \in Nat \ {0}
    BY <1>3, CountsAtDeinit DEF DeinitStrong, Strong, Live
  <2>. QED  BY <1>0, <1>3, <2>1 DEF DeinitStrong, Goto
<1>4. ASSUME NEW h \in Handles, DropWeak(h)
      PROVE  TypeOK'
  <2>1. weakCount \in Nat \ {0}
    BY <1>4, CountsAtDeinit DEF DropWeak, CountedWeak, IInv, FreedAbandoned
  <2>. QED  BY <1>0, <1>4, <2>1 DEF DropWeak, Goto
<1>5. ASSUME NEW h \in Handles, Unlock(h) \/ \E mode \in Modes : Lock(h, mode)
      PROVE  TypeOK'
  BY <1>0, <1>5, LockTypes DEF Unlock, Lock, Goto
<1>6. ASSUME NEW h \in Handles, LockToDestroy(h) \/ UnlockDestroyed(h)
      PROVE  TypeOK'
  BY <1>0, <1>6, LockTypes DEF LockToDestroy, UnlockDestroyed, Goto, Modes
<1>7. ASSUME NEW h \in Handles, Get(h) \/ DestroyValue(h) \/ SetExpired(h) \/ Free(h)
      PROVE  TypeOK'
  <2>1. /\ alive' \in BOOLEAN /\ expired' \in BOOLEAN
    BY <1>0, <1>7 DEF Get, DestroyValue, SetExpired, Free
  <2>2. frees' \in Nat
    BY <1>0, <1>7 DEF Get, DestroyValue, SetExpired, Free
  <2>3. pc' \in [Handles -> Idle \cup TearingDown \cup {"none", "dropping", "freeing"}]
    BY <1>0, <1>7 DEF Get, DestroyValue, SetExpired, Free, Goto
  <2>. QED  BY <1>0, <1>7, <2>1, <2>2, <2>3 DEF Get, DestroyValue, SetExpired, Free
<1>8. ASSUME NEW h \in Handles, DeinitWeak(h) \/ CountWeak(h)
      PROVE  TypeOK'
  <2>1. seen' \in [Handles -> BOOLEAN]
    <3>1. PICK b \in BOOLEAN : seen' = [seen EXCEPT ![h] = b]
      BY <1>0, <1>8 DEF DeinitWeak, CountWeak
    <3>. QED  BY <1>0, <3>1
  <2>2. pc' \in [Handles -> Idle \cup TearingDown \cup {"none", "dropping", "freeing"}]
    BY <1>0, <1>8 DEF DeinitWeak, CountWeak, Goto
  <2>. QED  BY <1>0, <1>8, <2>1, <2>2 DEF DeinitWeak, CountWeak
<1>. QED
  BY <1>1, <1>2, <1>3, <1>4, <1>5, <1>6, <1>7, <1>8 DEF Next, Continue

\* Every step keeps the lock held by those that are in a call that holds it.
LEMMA LockMatchesStep ==
  ASSUME IInv, [Next]_vars
  PROVE  LockMatches'
<1>. USE DEF LockMatches, Live, Idle, Teardown, TearingDown
<1>0. TypeOK /\ LockMatches
  BY DEF IInv
<1>1. CASE UNCHANGED vars
  BY <1>0, <1>1 DEF vars
<1>2. ASSUME NEW h \in Handles, NEW n \in Handles,
             CloneShared(h, n) \/ MakeWeak(h, n) \/ CloneWeak(h, n)
      PROVE  LockMatches'
  BY <1>0, <1>2 DEF CloneShared, MakeWeak, CloneWeak, Created, TypeOK
<1>3. ASSUME NEW h \in Handles, \E mode \in Modes : Lock(h, mode)
      PROVE  LockMatches'
  BY <1>0, <1>3 DEF Lock, Goto, TypeOK, RwLocks, LockedBy, Available, LockExcludes, Modes
<1>4. ASSUME NEW h \in Handles, Unlock(h)
      PROVE  LockMatches'
  BY <1>0, <1>4 DEF Unlock, Goto, TypeOK, RwLocks, UnlockedBy, LockExcludes, Modes
<1>5. ASSUME NEW h \in Handles, LockToDestroy(h)
      PROVE  LockMatches'
  BY <1>0, <1>5 DEF LockToDestroy, Goto, TypeOK, RwLocks, LockedBy, Available, LockExcludes, Modes
<1>6. ASSUME NEW h \in Handles, UnlockDestroyed(h)
      PROVE  LockMatches'
  BY <1>0, <1>6 DEF UnlockDestroyed, Goto, TypeOK, RwLocks, UnlockedBy, LockExcludes, Modes
<1>7. ASSUME NEW h \in Handles, Get(h)
      PROVE  LockMatches'
  BY <1>0, <1>7 DEF Get, Goto, TypeOK
<1>8. ASSUME NEW h \in Handles,
             \/ DeinitStrong(h) \/ DeinitWeak(h) \/ DropWeak(h) \/ Free(h)
      PROVE  LockMatches'
  <2>1. /\ pc[h] \in {"ready", "dropping", "freeing"}
        /\ lock' = lock
        /\ \E label \in {"waiting", "none", "dropping", "freeing"} : Goto(h, label)
    BY <1>8 DEF DeinitStrong, DeinitWeak, DropWeak, Free
  <2>2. \A mode \in Modes : h \notin lock[mode]
    BY <1>0, <2>1 DEF Modes
  <2>. QED  BY <1>0, <2>1, <2>2 DEF Goto, TypeOK, Modes
<1>9. ASSUME NEW h \in Handles, DestroyValue(h) \/ SetExpired(h) \/ CountWeak(h)
      PROVE  LockMatches'
  <2>1. /\ pc[h] \in {"destroying", "expiring", "counting"}
        /\ lock' = lock
        /\ \E label \in {"expiring", "counting", "unlocking"} : Goto(h, label)
    BY <1>9 DEF DestroyValue, SetExpired, CountWeak
  <2>. QED  BY <1>0, <2>1 DEF Goto, TypeOK, Modes
<1>. QED
  BY <1>1, <1>2, <1>3, <1>4, <1>5, <1>6, <1>7, <1>8, <1>9 DEF Next, Continue

\* A handle is created or used: no call to deinitialise is affected, and none
\* that creates or looks runs once the value may be gone.
LEMMA LaterStep ==
  ASSUME IInv, [Next]_vars
  PROVE  TeardownOnce' /\ StrongKeepsValue' /\ FreedAbandoned' /\ UsedAlive'
<1>. USE DEF Live, Idle, Teardown, TearingDown, Strong, CountedWeak
<1>0. TypeOK /\ TeardownOnce /\ StrongKeepsValue /\ FreedAbandoned /\ UsedAlive
  BY DEF IInv
<1>1. CASE UNCHANGED vars
  BY <1>0, <1>1 DEF vars, TeardownOnce, StrongKeepsValue, FreedAbandoned, UsedAlive, Abandoned
<1>2. ASSUME NEW h \in Handles, NEW n \in Handles,
             CloneShared(h, n) \/ MakeWeak(h, n) \/ CloneWeak(h, n)
      PROVE  TeardownOnce' /\ StrongKeepsValue' /\ FreedAbandoned' /\ UsedAlive'
  <2>. USE <1>0, <1>2 DEF CloneShared, MakeWeak, CloneWeak, Created, TypeOK, Weak
  <2>1. TeardownOnce'
    BY DEF TeardownOnce
  <2>2. StrongKeepsValue'
    BY DEF StrongKeepsValue
  <2>3. FreedAbandoned'
    BY DEF FreedAbandoned, Abandoned
  <2>4. UsedAlive'
    BY DEF UsedAlive
  <2>. QED  BY <2>1, <2>2, <2>3, <2>4
<1>3. ASSUME NEW h \in Handles,
             Get(h) \/ Unlock(h) \/ \E mode \in Modes : Lock(h, mode)
      PROVE  TeardownOnce' /\ StrongKeepsValue' /\ FreedAbandoned' /\ UsedAlive'
  <2>1. /\ pc[h] \in Idle
        /\ \E label \in Idle : Goto(h, label)
        /\ UNCHANGED <<kind, alive, expired, frees, seen>>
    BY <1>3 DEF Get, Unlock, Lock
  <2>2. TeardownOnce'
    BY <1>0, <2>1 DEF Goto, TypeOK, TeardownOnce
  <2>3. StrongKeepsValue'
    BY <1>0, <2>1 DEF Goto, TypeOK, StrongKeepsValue
  <2>4. FreedAbandoned'
    BY <1>0, <2>1 DEF Goto, TypeOK, FreedAbandoned, Abandoned
  <2>5. pc'[h] = "using" => alive
    <3>1. CASE Get(h) /\ kind[h] = "strong"
      BY <1>0, <3>1 DEF Get, StrongKeepsValue
    <3>2. CASE Get(h) /\ kind[h] = "weak"
      <4>1. pc[h] = "locked" /\ ~expired
        BY <3>2 DEF Get
      <4>2. ASSUME NEW g \in Handles, Teardown(g)
            PROVE  pc[g] = "waiting"
        BY <4>1, <4>2 DEF IInv, LockMatches, LockExcludes, Modes
      <4>. QED  BY <1>0, <4>1, <4>2 DEF TeardownOnce, StrongKeepsValue
    <3>3. CASE ~Get(h)
      BY <1>0, <1>3, <3>3 DEF Unlock, Lock, Goto, TypeOK
    <3>. QED  BY <1>0, <3>1, <3>2, <3>3 DEF TypeOK
  <2>6. UsedAlive'
    BY <1>0, <2>1, <2>5 DEF Goto, TypeOK, UsedAlive
  <2>. QED  BY <2>2, <2>3, <2>4, <2>6
<1>4. ASSUME NEW h \in Handles, DeinitStrong(h)
      PROVE  TeardownOnce' /\ StrongKeepsValue' /\ FreedAbandoned' /\ UsedAlive'
  <2>1. /\ Strong(h) /\ pc[h] = "ready"
        /\ UNCHANGED <<kind, alive, expired, frees, seen>>
    BY <1>4 DEF DeinitStrong
  <2>2. CASE isShared /\ refCount # 1
    <3>1. Goto(h, "none")
      BY <1>4, <2>2 DEF DeinitStrong
    <3>2. \E g \in Handles \ {h} : Strong(g)
      <4>1. Strongs # {h}
        <5>1. Cardinality({h}) = 1
          BY FS_Singleton
        <5>. QED  BY <2>2, <5>1 DEF IInv, CountsMatch
      <4>. QED  BY <2>1, <4>1 DEF Strongs
    <3>3. TeardownOnce'
      BY <1>0, <2>1, <3>1 DEF Goto, TypeOK, TeardownOnce
    <3>4. StrongKeepsValue'
      BY <1>0, <2>1, <3>1, <3>2 DEF Goto, TypeOK, StrongKeepsValue
    <3>5. FreedAbandoned' /\ UsedAlive'
      BY <1>0, <2>1, <3>1 DEF Goto, TypeOK, FreedAbandoned, Abandoned, UsedAlive
    <3>. QED  BY <3>3, <3>4, <3>5
  <2>3. CASE isShared => refCount = 1
    <3>1. Goto(h, "waiting")
      BY <1>4, <2>3 DEF DeinitStrong
    <3>2. Strongs = {h}
      BY <2>1, <2>3, CountsAtDeinit
    <3>3. \A g \in Handles : Strong(g) => g = h
      BY <3>2 DEF Strongs
    <3>4. TeardownOnce'
      BY <1>0, <2>1, <3>1, <3>3 DEF Goto, TypeOK, TeardownOnce, StrongKeepsValue
    <3>5. StrongKeepsValue'
      BY <1>0, <2>1, <3>1 DEF Goto, TypeOK, StrongKeepsValue
    <3>6. FreedAbandoned' /\ UsedAlive'
      BY <1>0, <2>1, <3>1 DEF Goto, TypeOK, FreedAbandoned, Abandoned, UsedAlive
    <3>. QED  BY <3>4, <3>5, <3>6
  <2>. QED  BY <2>2, <2>3
<1>5. ASSUME NEW h \in Handles,
             LockToDestroy(h) \/ DestroyValue(h) \/ SetExpired(h)
      PROVE  TeardownOnce' /\ StrongKeepsValue' /\ FreedAbandoned' /\ UsedAlive'
  <2>. USE DEF LockToDestroy, DestroyValue, SetExpired
  <2>1. /\ Teardown(h)
        /\ pc' = [pc EXCEPT ![h] = IF pc[h] = "waiting" THEN "destroying"
                                   ELSE IF pc[h] = "destroying" THEN "expiring"
                                   ELSE "counting"]
        /\ UNCHANGED <<kind, frees, seen>>
        /\ pc[h] \in {"waiting", "destroying", "expiring"}
    BY <1>5 DEF Goto
  <2>2. /\ alive' <=> (alive /\ pc[h] # "destroying")
        /\ expired' <=> (expired \/ pc[h] = "expiring")
    BY <1>5, <1>0 DEF TypeOK
  <2>3. /\ kind[h] = "strong"
        /\ \A g \in Handles : Strong(g) \/ Teardown(g) => g = h
        /\ alive <=> pc[h] \in {"waiting", "destroying"}
        /\ ~expired
    BY <1>0, <2>1 DEF TeardownOnce
  <2>4. TeardownOnce'
    BY <1>0, <2>1, <2>2, <2>3 DEF TypeOK, TeardownOnce
  <2>5. StrongKeepsValue'
    BY <1>0, <2>1, <2>2, <2>3 DEF TypeOK, StrongKeepsValue
  <2>6. FreedAbandoned'
    BY <1>0, <2>1, <2>2, <2>3 DEF TypeOK, FreedAbandoned, Abandoned
  <2>7. UsedAlive'
    <3>1. ASSUME pc[h] = "destroying", NEW g \in Handles
          PROVE  pc[g] # "using"
      BY <2>1, <3>1 DEF IInv, LockMatches, LockExcludes, Modes
    <3>. QED  BY <1>0, <2>1, <2>2, <3>1 DEF TypeOK, UsedAlive
  <2>. QED  BY <2>4, <2>5, <2>6, <2>7
<1>6. ASSUME NEW h \in Handles, CountWeak(h) \/ UnlockDestroyed(h)
      PROVE  TeardownOnce' /\ StrongKeepsValue' /\ FreedAbandoned' /\ UsedAlive'
  <2>1. /\ pc[h] \in {"counting", "unlocking"} /\ Teardown(h)
        /\ UNCHANGED <<kind, alive, expired, frees>>
    BY <1>6 DEF CountWeak, UnlockDestroyed
  <2>2. /\ kind[h] = "strong"
        /\ \A g \in Handles : Strong(g) \/ Teardown(g) => g = h
        /\ ~alive /\ expired
    BY <1>0, <2>1 DEF TeardownOnce
  <2>3. /\ pc' = [pc EXCEPT ![h] = IF pc[h] = "counting" THEN "unlocking"
                                   ELSE IF seen[h] THEN "freeing" ELSE "none"]
        /\ \A g \in Handles \ {h} : seen'[g] = seen[g]
        /\ pc[h] = "counting" => (seen'[h] <=> weakCount = 0)
        /\ pc[h] = "unlocking" => seen'[h] = seen[h]
    BY <1>0, <1>6 DEF CountWeak, UnlockDestroyed, Goto, TypeOK
  <2>4. weakCount = 0 => Abandoned
    <3>1. weakCount = 0 => CountedWeaks = {}
      BY CountsAtDeinit
    <3>. QED  BY <2>1, <2>2, <3>1 DEF Abandoned, CountedWeaks
  <2>5. TeardownOnce'
    BY <1>0, <2>1, <2>2, <2>3 DEF TypeOK, TeardownOnce
  <2>6. StrongKeepsValue'
    BY <1>0, <2>1, <2>2, <2>3 DEF TypeOK, StrongKeepsValue
  <2>7. Abandoned => Abandoned'
    BY <1>0, <2>1, <2>3 DEF TypeOK, Abandoned
  <2>8. ASSUME NEW g \in Handles,
               pc'[g] = "freeing" \/ (pc'[g] = "unlocking" /\ seen'[g])
        PROVE  Abandoned
    BY <1>0, <2>1, <2>3, <2>4, <2>8 DEF TypeOK, FreedAbandoned
  <2>9. FreedAbandoned'
    BY <1>0, <2>1, <2>2, <2>3, <2>7, <2>8 DEF TypeOK, FreedAbandoned
  <2>10. UsedAlive'
    BY <1>0, <2>1, <2>3 DEF TypeOK, UsedAlive
  <2>. QED  BY <2>5, <2>6, <2>9, <2>10
<1>7. ASSUME NEW h \in Handles, DeinitWeak(h)
      PROVE  TeardownOnce' /\ StrongKeepsValue' /\ FreedAbandoned' /\ UsedAlive'
  <2>1. /\ pc[h] = "ready" /\ kind[h] = "weak"
        /\ pc' = [pc EXCEPT ![h] = "dropping"]
        /\ \A g \in Handles \ {h} : seen'[g] = seen[g]
        /\ seen'[h] <=> expired
        /\ UNCHANGED <<kind, alive, expired, frees>>
    BY <1>0, <1>7 DEF DeinitWeak, Goto, TypeOK
  <2>2. TeardownOnce'
    BY <1>0, <2>1 DEF TypeOK, TeardownOnce
  <2>3. StrongKeepsValue'
    BY <1>0, <2>1 DEF TypeOK, StrongKeepsValue
  <2>4. FreedAbandoned'
    BY <1>0, <2>1 DEF TypeOK, FreedAbandoned, Abandoned
  <2>5. UsedAlive'
    BY <1>0, <2>1 DEF TypeOK, UsedAlive
  <2>. QED  BY <2>2, <2>3, <2>4, <2>5
<1>8. ASSUME NEW h \in Handles, DropWeak(h)
      PROVE  TeardownOnce' /\ StrongKeepsValue' /\ FreedAbandoned' /\ UsedAlive'
  <2>1. /\ pc[h] = "dropping" /\ kind[h] = "weak"
        /\ pc' = [pc EXCEPT ![h] = IF seen[h] /\ weakCount = 1 THEN "freeing" ELSE "none"]
        /\ seen[h] => expired
        /\ UNCHANGED <<kind, alive, expired, frees, seen>>
    BY <1>0, <1>8 DEF DropWeak, Goto, FreedAbandoned
  <2>2. TeardownOnce'
    BY <1>0, <2>1 DEF TypeOK, TeardownOnce
  <2>3. StrongKeepsValue'
    BY <1>0, <2>1 DEF TypeOK, StrongKeepsValue
  <2>4. seen[h] /\ weakCount = 1 => Abandoned'
    <3>1. weakCount = 1 => CountedWeaks = {h}
      BY <2>1, CountsAtDeinit
    <3>2. seen[h] => \A g \in Handles : ~Strong(g)
      BY <1>0, <2>1 DEF StrongKeepsValue
    <3>. QED  BY <1>0, <2>1, <3>1, <3>2 DEF TypeOK, Abandoned, CountedWeaks
  <2>5. Abandoned => Abandoned'
    BY <1>0, <2>1 DEF TypeOK, Abandoned
  <2>6. FreedAbandoned'
    BY <1>0, <2>1, <2>4, <2>5 DEF TypeOK, FreedAbandoned
  <2>7. UsedAlive'
    BY <1>0, <2>1 DEF TypeOK, UsedAlive
  <2>. QED  BY <2>2, <2>3, <2>6, <2>7
<1>9. ASSUME NEW h \in Handles, Free(h)
      PROVE  TeardownOnce' /\ StrongKeepsValue' /\ FreedAbandoned' /\ UsedAlive'
  <2>1. /\ pc[h] = "freeing" /\ expired /\ Abandoned
        /\ pc' = [pc EXCEPT ![h] = "none"]
        /\ UNCHANGED <<kind, alive, expired, seen>>
    BY <1>0, <1>9 DEF Free, Goto, FreedAbandoned
  <2>2. TeardownOnce'
    BY <1>0, <2>1 DEF TypeOK, TeardownOnce
  <2>3. StrongKeepsValue'
    BY <1>0, <2>1 DEF TypeOK, StrongKeepsValue
  <2>4. Abandoned'
    BY <1>0, <2>1 DEF TypeOK, Abandoned
  <2>5. FreedAbandoned'
    BY <1>0, <2>1, <2>4 DEF TypeOK, FreedAbandoned
  <2>6. UsedAlive'
    BY <1>0, <2>1 DEF TypeOK, UsedAlive
  <2>. QED  BY <2>2, <2>3, <2>5, <2>6
<1>. QED
  BY <1>1, <1>2, <1>3, <1>4, <1>5, <1>6, <1>7, <1>8, <1>9 DEF Next, Continue
-----------------------------------------------------------------------------
(***************************************************************************)
(* The theorems.                                                           *)
(***************************************************************************)

\* The counts, the lock, the teardown, the value and the free are always as the
\* inductive invariant says, also when the program lets deinits overlap.
THEOREM Invariance == Spec => []IInv
<1>1. Init => IInv
  BY InitIInv
<1>2. IInv /\ [Next]_vars => IInv'
  BY TypeStep, CountsStep, LockMatchesStep, LaterStep DEF IInv
<1>. QED  BY <1>1, <1>2, PTL DEF Spec

\* No handle, strong or weak, that is still to be deinitialised ever finds the
\* memory freed, and a weak one never does before it is off the count.
THEOREM MemoryKept == Spec => []HandlesKeepMemory
<1>1. IInv => HandlesKeepMemory
  BY DEF IInv, FreedAbandoned, Abandoned, HandlesKeepMemory, TeardownOnce, Strong,
         CountedWeak, Live, Idle, TypeOK
<1>. QED  BY <1>1, Invariance, PTL

\* Whoever got the value under the lock finds it alive until it unlocks.
THEOREM ValueKept == Spec => []UsedAlive
<1>1. IInv => UsedAlive
  BY DEF IInv
<1>. QED  BY <1>1, Invariance, PTL

\* What holds besides when deinits of weak and of last strong handles do not
\* overlap: whoever frees is alone.
Apart ==
  /\ \A g, h \in Handles : pc[g] = "dropping" => ~Teardown(h)
  /\ \A g, h \in Handles : pc[h] = "freeing" /\ g # h => pc[g] = "none"
  /\ \A h \in Handles : pc[h] = "freeing" => frees = 0
  /\ frees <= 1
  /\ frees = 1 => \A h \in Handles : pc[h] = "none"

\* Every step without overlap keeps weak deinits and the teardown apart.
LEMMA ApartStep ==
  ASSUME ~overlapped', IInv, Apart, [Next]_vars
  PROVE  Apart'
<1>. USE DEF Apart, Teardown, TearingDown
<1>0. TypeOK
  BY DEF IInv
<1>1. CASE UNCHANGED vars
  BY <1>1 DEF vars
<1>2. ASSUME NEW h \in Handles, NEW n \in Handles,
             CloneShared(h, n) \/ MakeWeak(h, n) \/ CloneWeak(h, n)
      PROVE  Apart'
  <2>1. /\ pc[h] \in Idle
        /\ pc' = [pc EXCEPT ![n] = "ready"]
        /\ frees' = frees
    BY <1>2 DEF CloneShared, MakeWeak, CloneWeak, Created, Strong, Weak, Live
  <2>2. frees = 0 /\ \A g \in Handles : pc[g] # "freeing"
    <3>1. \A g \in Handles : pc[g] = "freeing" => g = h
      BY <2>1 DEF Idle
    <3>2. frees # 1
      BY <2>1 DEF Idle
    <3>. QED  BY <1>0, <2>1, <3>1, <3>2 DEF Idle, TypeOK
  <2>. QED  BY <1>0, <2>1, <2>2 DEF TypeOK
<1>3. ASSUME NEW h \in Handles, NEW label \in Idle \cup TearingDown \cup {"none", "dropping"},
             Goto(h, label), pc[h] # "none", pc[h] # "freeing", frees' = frees,
             label = "dropping" => \A s \in Handles : ~Teardown(s),
             label \in TearingDown => \A w \in Handles : pc[w] # "dropping"
      PROVE  Apart'
  <2>1. frees = 0 /\ \A g \in Handles : pc[g] # "freeing"
    BY <1>0, <1>3 DEF TypeOK
  <2>2. /\ pc' = [pc EXCEPT ![h] = label]
        /\ label # "freeing"
    BY <1>3 DEF Goto, Idle
  <2>3. ASSUME NEW g \in Handles, NEW k \in Handles, pc'[g] = "dropping"
        PROVE  ~(pc'[k] \in TearingDown)
    BY <1>0, <1>3, <2>2, <2>3 DEF TypeOK
  <2>4. \A g \in Handles : pc'[g] # "freeing"
    BY <1>0, <2>1, <2>2 DEF TypeOK
  <2>. QED  BY <1>3, <2>1, <2>3, <2>4
<1>4. ASSUME NEW h \in Handles,
             \/ Get(h) \/ Unlock(h) \/ (\E mode \in Modes : Lock(h, mode))
             \/ DeinitStrong(h) \/ DeinitWeak(h)
      PROVE  Apart'
  <2>. USE <1>4 DEF Get, Unlock, Lock, DeinitStrong, DeinitWeak
  <2>1. /\ pc[h] \in Idle
        /\ frees' = frees
        /\ \E label \in Idle \cup {"none", "waiting", "dropping"} :
             /\ Goto(h, label)
             /\ label = "dropping" => \A s \in Handles : ~Teardown(s)
             /\ label \in TearingDown => \A w \in Handles : pc[w] # "dropping"
    <3>1. CASE Get(h) \/ Unlock(h) \/ \E mode \in Modes : Lock(h, mode)
      BY <3>1 DEF Idle
    <3>2. CASE DeinitStrong(h)
      <4>1. /\ pc[h] \in Idle /\ frees' = frees
            /\ Goto(h, IF isShared /\ refCount # 1 THEN "none" ELSE "waiting")
            /\ pc'[h] = "waiting" => \A w \in Handles : pc[w] # "dropping"
        BY <3>2 DEF Idle
      <4>2. CASE isShared /\ refCount # 1
        <5>1. Goto(h, "none")
          BY <4>1, <4>2
        <5>. QED  BY <4>1, <5>1
      <4>3. CASE ~(isShared /\ refCount # 1)
        <5>1. Goto(h, "waiting") /\ pc'[h] = "waiting"
          BY <1>0, <4>1, <4>3 DEF Goto, TypeOK
        <5>. QED  BY <4>1, <5>1
      <4>. QED  BY <4>2, <4>3
    <3>3. CASE DeinitWeak(h)
      BY <3>3 DEF Idle
    <3>. QED  BY <3>1, <3>2, <3>3
  <2>. QED  BY <1>3, <2>1 DEF Idle
<1>5. ASSUME NEW h \in Handles,
             LockToDestroy(h) \/ DestroyValue(h) \/ SetExpired(h) \/ CountWeak(h)
      PROVE  Apart'
  <2>1. /\ Teardown(h)
        /\ frees' = frees
        /\ \E label \in TearingDown : Goto(h, label)
    BY <1>5 DEF LockToDestroy, DestroyValue, SetExpired, CountWeak
  <2>2. \A w \in Handles : pc[w] # "dropping"
    BY <2>1
  <2>. QED  BY <1>3, <2>1, <2>2
\* A handle goes on to free: all others are gone.
<1>6. ASSUME NEW h \in Handles, Goto(h, "freeing"), frees' = frees,
             pc[h] # "none", pc[h] # "freeing",
             \A g \in Handles \ {h} : ~Strong(g) /\ ~CountedWeak(g) /\ ~Teardown(g)
      PROVE  Apart'
  <2>1. frees = 0 /\ \A g \in Handles : pc[g] # "freeing"
    BY <1>0, <1>6 DEF TypeOK
  <2>2. \A g \in Handles \ {h} : pc[g] \in {"none", "dropping"}
    BY <1>0, <1>6, <2>1 DEF TypeOK, Strong, CountedWeak, Live, Idle
  <2>3. \A g \in Handles : pc[g] = "dropping" => kind[g] = "weak"
    BY DEF IInv, FreedAbandoned
  <2>4. \A g \in Handles \ {h} : pc[g] = "none"
    BY <1>6, <2>2, <2>3 DEF CountedWeak
  <2>. QED  BY <1>0, <1>6, <2>1, <2>4 DEF Goto, TypeOK
<1>7. ASSUME NEW h \in Handles, UnlockDestroyed(h)
      PROVE  Apart'
  <2>1. pc[h] = "unlocking" /\ Teardown(h) /\ frees' = frees
    BY <1>7 DEF UnlockDestroyed
  <2>2. CASE seen[h]
    <3>1. Abandoned
      BY <2>1, <2>2 DEF IInv, FreedAbandoned
    <3>2. \A g \in Handles : Teardown(g) => g = h
      BY <2>1 DEF IInv, TeardownOnce
    <3>3. Goto(h, "freeing")
      BY <1>7, <2>2 DEF UnlockDestroyed
    <3>4. \A g \in Handles \ {h} : ~Strong(g) /\ ~CountedWeak(g) /\ ~Teardown(g)
      BY <3>1, <3>2 DEF Abandoned
    <3>. QED  BY <1>6, <2>1, <3>3, <3>4
  <2>3. CASE ~seen[h]
    <3>1. Goto(h, "none")
      BY <1>7, <2>3 DEF UnlockDestroyed
    <3>. QED  BY <1>3, <2>1, <3>1
  <2>. QED  BY <2>2, <2>3
<1>8. ASSUME NEW h \in Handles, DropWeak(h)
      PROVE  Apart'
  <2>1. pc[h] = "dropping" /\ CountedWeak(h) /\ frees' = frees
    BY <1>8 DEF DropWeak, IInv, FreedAbandoned, CountedWeak
  <2>2. CASE seen[h] /\ weakCount = 1
    <3>1. CountedWeaks = {h}
      BY <2>1, <2>2, CountsAtDeinit
    <3>2. \A g \in Handles : ~Strong(g)
      BY <2>1, <2>2 DEF IInv, FreedAbandoned, StrongKeepsValue
    <3>3. \A g \in Handles \ {h} : ~Strong(g) /\ ~CountedWeak(g) /\ ~Teardown(g)
      BY <2>1, <3>1, <3>2 DEF CountedWeaks
    <3>4. Goto(h, "freeing")
      BY <1>8, <2>2 DEF DropWeak
    <3>. QED  BY <1>6, <2>1, <3>3, <3>4
  <2>3. CASE ~(seen[h] /\ weakCount = 1)
    <3>1. Goto(h, "none")
      BY <1>8, <2>3 DEF DropWeak
    <3>. QED  BY <1>3, <2>1, <3>1
  <2>. QED  BY <2>2, <2>3
<1>9. ASSUME NEW h \in Handles, Free(h)
      PROVE  Apart'
  BY <1>0, <1>9 DEF Free, Goto, TypeOK
<1>. QED
  BY <1>1, <1>2, <1>4, <1>5, <1>7, <1>8, <1>9 DEF Next, Continue

\* What has overlapped once, has for good.
LEMMA OverlappedStep ==
  ASSUME [Next]_vars, overlapped
  PROVE  overlapped'
<1>. USE DEF vars, CloneShared, MakeWeak, CloneWeak, Lock, Get, Unlock, DeinitStrong, DeinitWeak,
             LockToDestroy, DestroyValue, SetExpired, CountWeak, UnlockDestroyed, DropWeak, Free
<1>. QED  BY DEF Next, Continue

\* As long as the deinits of a weak handle and of the last strong one have not overlapped,
\* the memory is freed at most once, and after that no call is under way that could
\* touch it.
THEOREM FreedOnce == Spec => []FreedOnceAtTheEnd
<1> DEFINE UntilOverlap == overlapped \/ Apart
<1>1. Init => UntilOverlap
  BY DEF Init, Apart, Teardown, TearingDown
<1>2. IInv /\ UntilOverlap /\ [Next]_vars => UntilOverlap'
  <2>1. ASSUME IInv, UntilOverlap, [Next]_vars, ~overlapped'
        PROVE  Apart'
    BY <2>1, ApartStep, OverlappedStep
  <2>. QED  BY <2>1
<1>3. UntilOverlap => FreedOnceAtTheEnd
  BY DEF Apart, FreedOnceAtTheEnd
<1>. QED  BY <1>1, <1>2, <1>3, Invariance, PTL DEF Spec
=============================================================================
