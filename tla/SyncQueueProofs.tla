--------------------------- MODULE SyncQueueProofs ---------------------------
(***************************************************************************)
(* What the sync queues guarantee for any number of threads, objects and   *)
(* levels, proved from the specification of SyncQueue.                     *)
(***************************************************************************)
EXTENDS SyncQueue, SequenceTheorems, FiniteSetTheorems, NatLemmas, TLAPS

USE DEF Pending, Topmost

\* The levels a queue can be at, as bounds.
LEMMA LevelBounds ==
  /\ MaxLevel \in Nat
  /\ \A l : l \in Levels <=> l \in Nat /\ l < MaxLevel
BY MaxLevelAssumption DEF Levels
-----------------------------------------------------------------------------
(***************************************************************************)
(* Inserting into a queue.                                                 *)
(***************************************************************************)

\* Inserting e at place i of a sequence keeps what is before i and moves the
\* rest up by one: the shifting loop of add_sync_object.
LEMMA InsertAtShifts ==
  ASSUME NEW S, NEW q \in Seq(S), NEW i \in 1 .. Len(q) + 1, NEW e \in S
  PROVE  /\ InsertAt(q, i, e) \in Seq(S)
         /\ Len(InsertAt(q, i, e)) = Len(q) + 1
         /\ \A j \in 1 .. Len(q) + 1 :
              InsertAt(q, i, e)[j] =
                IF j < i THEN q[j] ELSE IF j = i THEN e ELSE q[j - 1]
<1> DEFINE a == SubSeq(q, 1, i - 1)
           c == SubSeq(q, i, Len(q))
<1>0. Len(q) \in Nat /\ i \in Int
  BY LenProperties
<1>1. /\ a \in Seq(S) /\ Len(a) = i - 1
      /\ \A j \in 1 .. i - 1 : a[j] = q[j]
  <2>1. \A j \in 1 .. i - 1 : q[j] \in S
    BY <1>0, ElementOfSeq
  <2>2. /\ SubSeq(q, 1, i - 1) \in Seq(S)
        /\ Len(SubSeq(q, 1, i - 1)) = IF 1 <= i - 1 THEN (i - 1) - 1 + 1 ELSE 0
        /\ \A j \in 1 .. (i - 1) - 1 + 1 : SubSeq(q, 1, i - 1)[j] = q[1 + j - 1]
    BY <1>0, <2>1, SubSeqProperties
  <2>. QED  BY <1>0, <2>2
<1>2. /\ c \in Seq(S) /\ Len(c) = Len(q) - i + 1
      /\ \A j \in 1 .. Len(q) - i + 1 : c[j] = q[i + j - 1]
  <2>1. \A j \in i .. Len(q) : q[j] \in S
    BY <1>0, ElementOfSeq
  <2>. QED  BY <1>0, <2>1, SubSeqProperties
<1>3. /\ <<e>> \in Seq(S) /\ Len(<<e>>) = 1 /\ <<e>>[1] = e
  OBVIOUS
<1> HIDE DEF a, c
<1> DEFINE b == a \o <<e>>
           d == b \o c
<1>4. /\ b \in Seq(S)
      /\ Len(b) = Len(a) + Len(<<e>>)
      /\ \A j \in 1 .. Len(a) + Len(<<e>>) :
           b[j] = IF j <= Len(a) THEN a[j] ELSE <<e>>[j - Len(a)]
  BY <1>1, <1>3, ConcatProperties
<1>5. InsertAt(q, i, e) = d
  BY DEF InsertAt, a, c
<1> HIDE DEF b
<1>6. /\ d \in Seq(S)
      /\ Len(d) = Len(b) + Len(c)
      /\ \A j \in 1 .. Len(b) + Len(c) :
           d[j] = IF j <= Len(b) THEN b[j] ELSE c[j - Len(b)]
  <2>. b \in Seq(S) /\ c \in Seq(S)
    BY <1>2, <1>4
  <2>. QED  BY ConcatProperties
<1> HIDE DEF d
<1>7. /\ Len(b) = i
      /\ \A j \in 1 .. i : b[j] = IF j < i THEN q[j] ELSE e
  BY <1>0, <1>1, <1>3, <1>4
<1>8. /\ Len(d) = Len(q) + 1
      /\ \A j \in 1 .. Len(q) + 1 :
           d[j] = IF j < i THEN q[j] ELSE IF j = i THEN e ELSE q[j - 1]
  <2>1. Len(b) + Len(c) = Len(q) + 1
    BY <1>0, <1>2, <1>7
  <2>2. ASSUME NEW j \in 1 .. Len(q) + 1, j > i
        PROVE  d[j] = q[j - 1]
    <3>1. d[j] = c[j - i]
      BY <2>1, <2>2, <1>0, <1>6, <1>7
    <3>2. j - i \in 1 .. Len(q) - i + 1 /\ i + (j - i) - 1 = j - 1
      BY <2>2, <1>0
    <3>. QED  BY <1>2, <3>1, <3>2
  <2>3. ASSUME NEW j \in 1 .. Len(q) + 1, j <= i
        PROVE  d[j] = IF j < i THEN q[j] ELSE e
    BY <2>1, <2>3, <1>0, <1>6, <1>7
  <2>. QED  BY <1>0, <1>6, <2>1, <2>2, <2>3
<1>. QED  BY <1>5, <1>6, <1>8
-----------------------------------------------------------------------------
(***************************************************************************)
(* Control: types, and the loops stay inside their queues.                 *)
(***************************************************************************)

\* The entry added to a queue of requests leaves a queue of requests.
LEMMA WithEntryType ==
  ASSUME NEW q \in Seq(Requests), NEW i \in 1 .. Len(q) + 1, NEW r \in Requests
  PROVE  WithEntry(q, i, r) \in Seq(Requests)
BY InsertAtShifts DEF WithEntry

\* The types and the loops of the initial state.
LEMMA ControlInit == Init => TypeOK /\ LoopsInRange
BY LevelBounds, EmptySeq DEF Phases, Init, TypeOK, LoopsInRange, LoopInRange, RwLocks, Unlocked

\* Taking or giving back a lock leaves a lock.
LEMMA LockTypes ==
  ASSUME NEW lock \in RwLocks, NEW t \in Threads, NEW mode \in Modes
  PROVE  LockedBy(lock, t, mode) \in RwLocks /\ UnlockedBy(lock, t, mode) \in RwLocks
BY DEF RwLocks, LockedBy, UnlockedBy

\* What a request is.
LEMMA RequestFacts ==
  ASSUME NEW r \in Requests
  PROVE  /\ r.obj \in Objects /\ r.obj \in Nat
         /\ r.mode \in Modes
         /\ r = [obj |-> r.obj, mode |-> r.mode]
BY RequestsAssumption, ObjectsAssumption

\* What a queue is, at any level.
LEMMA QueueFacts ==
  ASSUME TypeOK, NEW t \in Threads, NEW l \in Levels
  PROVE  /\ queues[t][l] \in Seq(Requests)
         /\ Len(queues[t][l]) \in Nat
         /\ DOMAIN queues[t][l] = 1 .. Len(queues[t][l])
         /\ \A i \in 1 .. Len(queues[t][l]) :
              /\ queues[t][l][i] \in Requests
              /\ queues[t][l][i].obj \in Objects
              /\ queues[t][l][i].mode \in Modes
              /\ queues[t][l][i] =
                   [obj |-> queues[t][l][i].obj, mode |-> queues[t][l][i].mode]
<1>1. queues[t][l] \in Seq(Requests)
  BY DEF TypeOK
<1>2. /\ Len(queues[t][l]) \in Nat
      /\ DOMAIN queues[t][l] = 1 .. Len(queues[t][l])
      /\ \A i \in 1 .. Len(queues[t][l]) : queues[t][l][i] \in Requests
  BY <1>1, LenProperties, ElementOfSeq
<1>. QED  BY <1>1, <1>2, RequestFacts

\* Where a thread is, as bounds.
LEMMA CurrentBounds ==
  ASSUME TypeOK, NEW t \in Threads
  PROVE  /\ current[t] \in Nat /\ current[t] <= MaxLevel
         /\ iter[t] \in Nat /\ iter[t] >= 1
         /\ current[t] > 0 => current[t] - 1 \in Levels
<1>1. current[t] \in 0 .. MaxLevel /\ iter[t] \in Nat \ {0}
  BY DEF TypeOK
<1>. QED  BY <1>1, LevelBounds

\* Every step keeps the types, and the loops in the range of their queues.
LEMMA ControlStep ==
  ASSUME TypeOK, LoopsInRange, [Next]_vars
  PROVE  TypeOK' /\ LoopsInRange'
<1>. USE LevelBounds DEF Phases
<1>0. CASE UNCHANGED vars
  BY <1>0 DEF vars, TypeOK, LoopsInRange, LoopInRange
<1>1. ASSUME NEW t \in Threads, NEW r \in Requests, Add(t, r)
      PROVE  TypeOK' /\ LoopsInRange'
  <2>1. PICK i \in 1 .. Len(Pending(t)) + 1 :
          queues' = [queues EXCEPT ![t][current[t]] = WithEntry(@, i, r)]
    BY <1>1 DEF Add
  <2>2. current[t] \in Levels /\ Pending(t) \in Seq(Requests)
    BY <1>1 DEF Add, TypeOK
  <2>3. WithEntry(Pending(t), i, r) \in Seq(Requests)
    BY <2>2, WithEntryType
  <2>4. EnsuredQueueCount(t) \in Nat
    BY FirstQueueCountAssumption DEF TypeOK, EnsuredQueueCount
  <2>5. GrownCapacity(Len(Pending(t)), capacity[t][current[t]]) \in Nat
    BY <2>2, FirstCapacityAssumption DEF TypeOK, GrownCapacity
  <2>6. queues' \in [Threads -> [Levels -> Seq(Requests)]]
    BY <2>1, <2>2, <2>3 DEF TypeOK
  <2>7. capacity' \in [Threads -> [Levels -> Nat]]
    BY <1>1, <2>2, <2>5 DEF Add, TypeOK
  <2>8. TypeOK'
    BY <1>1, <2>4, <2>6, <2>7 DEF Add, TypeOK
  <2>9. LoopsInRange'
    BY <1>1, <2>1, <2>2 DEF Add, TypeOK, LoopsInRange, LoopInRange
  <2>. QED  BY <2>8, <2>9
<1>2. ASSUME NEW t \in Threads, Lock(t) \/ TryLock(t)
      PROVE  TypeOK' /\ LoopsInRange'
  <2>1. /\ current[t] \in Levels
        /\ \E loop \in {"acquire", "try"} : Start(t, loop)
    BY <1>2 DEF Lock, TryLock, MayLock
  <2>2. TypeOK'
    BY <2>1 DEF Start, TypeOK
  <2>3. LoopsInRange'
    BY <2>1, QueueFacts, SMTT(30) DEF Start, TypeOK, LoopsInRange, LoopInRange
  <2>. QED  BY <2>2, <2>3
<1>3. ASSUME NEW t \in Threads, Unlock(t)
      PROVE  TypeOK' /\ LoopsInRange'
  <2>1. TypeOK'
    BY <1>3 DEF Unlock, Start, TypeOK
  <2>2. current[t] - 1 \in Levels
    BY <1>3, CurrentBounds DEF Unlock
  <2>3. LoopsInRange'
    BY <1>3, <2>2, QueueFacts DEF Unlock, Start, TypeOK, LoopsInRange, LoopInRange
  <2>. QED  BY <2>1, <2>3
<1>4. ASSUME NEW t \in Threads, TakeNext(t)
      PROVE  TypeOK' /\ LoopsInRange'
  <2>1. current[t] \in Levels /\ iter[t] \in 1 .. Len(Pending(t))
    BY <1>4, QueueFacts DEF TakeNext, LoopsInRange, LoopInRange, TypeOK
  <2>2. locks' \in [Objects -> RwLocks]
    BY <1>4, <2>1, QueueFacts, LockTypes DEF TakeNext, TypeOK
  <2>3. TypeOK'
    <3>1. UNCHANGED <<queues, capacity, queueCount, current, phase>>
      BY <1>4 DEF TakeNext
    <3>2. iter' \in [Threads -> Nat \ {0}]
      <4>1. iter' = [iter EXCEPT ![t] = @ + 1]
        BY <1>4 DEF TakeNext
      <4>2. iter \in [Threads -> Nat \ {0}] /\ iter[t] + 1 \in Nat \ {0}
        BY <2>1 DEF TypeOK
      <4>. QED  BY <4>1, <4>2
    <3>. QED  BY <2>2, <3>1, <3>2 DEF TypeOK
  <2>4. ASSUME NEW u \in Threads
        PROVE  /\ UNCHANGED <<queues[u], current[u], phase[u]>>
               /\ iter'[u] = IF u = t THEN iter[t] + 1 ELSE iter[u]
    BY <1>4 DEF TakeNext, TypeOK
  <2>5. ASSUME NEW u \in Threads, u # t
        PROVE  LoopInRange(u)'
    BY <2>4, <2>5 DEF LoopsInRange, LoopInRange
  <2>6. LoopInRange(t)'
    BY <1>4, <2>1, <2>4, CurrentBounds, QueueFacts DEF TakeNext, LoopInRange
  <2>7. LoopsInRange'
    BY <2>5, <2>6 DEF LoopsInRange
  <2>. QED  BY <2>3, <2>7
<1>5. ASSUME NEW t \in Threads, Enter(t)
      PROVE  TypeOK' /\ LoopsInRange'
  <2>1. current[t] \in Levels
    BY <1>5 DEF Enter, LoopsInRange, LoopInRange
  <2>2. TypeOK'
    BY <1>5, <2>1 DEF Enter, TypeOK
  <2>3. LoopsInRange'
    BY <1>5, <2>1 DEF Enter, TypeOK, LoopsInRange, LoopInRange
  <2>. QED  BY <2>2, <2>3
<1>6. ASSUME NEW t \in Threads, Refused(t)
      PROVE  TypeOK' /\ LoopsInRange'
  BY <1>6 DEF Refused, TypeOK, LoopsInRange, LoopInRange
<1>7. ASSUME NEW t \in Threads, GiveBackNext(t)
      PROVE  TypeOK' /\ LoopsInRange'
  <2>1. current[t] \in Levels /\ iter[t] - 1 \in 1 .. Len(Pending(t))
    BY <1>7, QueueFacts DEF GiveBackNext, LoopsInRange, LoopInRange, TypeOK
  <2>2. locks' \in [Objects -> RwLocks]
    BY <1>7, <2>1, QueueFacts, LockTypes DEF GiveBackNext, TypeOK
  <2>3. TypeOK'
    <3>1. UNCHANGED <<queues, capacity, queueCount, current, phase>>
      BY <1>7 DEF GiveBackNext
    <3>2. iter' \in [Threads -> Nat \ {0}]
      <4>1. iter' = [iter EXCEPT ![t] = @ - 1]
        BY <1>7 DEF GiveBackNext
      <4>2. iter \in [Threads -> Nat \ {0}] /\ iter[t] - 1 \in Nat \ {0}
        BY <2>1 DEF TypeOK
      <4>. QED  BY <4>1, <4>2
    <3>. QED  BY <2>2, <3>1, <3>2 DEF TypeOK
  <2>4. ASSUME NEW u \in Threads
        PROVE  /\ UNCHANGED <<queues[u], current[u], phase[u]>>
               /\ iter'[u] = IF u = t THEN iter[t] - 1 ELSE iter[u]
    BY <1>7 DEF GiveBackNext, TypeOK
  <2>5. ASSUME NEW u \in Threads, u # t
        PROVE  LoopInRange(u)'
    BY <2>4, <2>5 DEF LoopsInRange, LoopInRange
  <2>6. LoopInRange(t)'
    BY <1>7, <2>1, <2>4, CurrentBounds, QueueFacts DEF GiveBackNext, LoopInRange
  <2>7. LoopsInRange'
    BY <2>5, <2>6 DEF LoopsInRange
  <2>. QED  BY <2>3, <2>7
<1>8. ASSUME NEW t \in Threads, GiveUp(t)
      PROVE  TypeOK' /\ LoopsInRange'
  BY <1>8, EmptySeq DEF GiveUp, TypeOK, LoopsInRange, LoopInRange
<1>9. ASSUME NEW t \in Threads, ReleaseNext(t)
      PROVE  TypeOK' /\ LoopsInRange'
  <2>1. current[t] - 1 \in Levels /\ iter[t] \in 1 .. Len(Topmost(t))
    BY <1>9, QueueFacts DEF ReleaseNext, LoopsInRange, LoopInRange, TypeOK
  <2>2. locks' \in [Objects -> RwLocks]
    BY <1>9, <2>1, QueueFacts, LockTypes DEF ReleaseNext, TypeOK
  <2>3. TypeOK'
    <3>1. UNCHANGED <<queues, capacity, queueCount, current, phase>>
      BY <1>9 DEF ReleaseNext
    <3>2. iter' \in [Threads -> Nat \ {0}]
      <4>1. iter' = [iter EXCEPT ![t] = @ + 1]
        BY <1>9 DEF ReleaseNext
      <4>2. iter \in [Threads -> Nat \ {0}] /\ iter[t] + 1 \in Nat \ {0}
        BY <2>1 DEF TypeOK
      <4>. QED  BY <4>1, <4>2
    <3>. QED  BY <2>2, <3>1, <3>2 DEF TypeOK
  <2>4. ASSUME NEW u \in Threads
        PROVE  /\ UNCHANGED <<queues[u], current[u], phase[u]>>
               /\ iter'[u] = IF u = t THEN iter[t] + 1 ELSE iter[u]
    BY <1>9 DEF ReleaseNext, TypeOK
  <2>5. ASSUME NEW u \in Threads, u # t
        PROVE  LoopInRange(u)'
    BY <2>4, <2>5 DEF LoopsInRange, LoopInRange
  <2>6. LoopInRange(t)'
    BY <1>9, <2>1, <2>4, CurrentBounds, QueueFacts, SMTT(30) DEF ReleaseNext, LoopInRange
  <2>7. LoopsInRange'
    BY <2>5, <2>6 DEF LoopsInRange
  <2>. QED  BY <2>3, <2>7
<1>10. ASSUME NEW t \in Threads, Leave(t)
       PROVE  TypeOK' /\ LoopsInRange'
  <2>1. current[t] - 1 \in Levels
    BY <1>10, CurrentBounds DEF Leave, LoopsInRange, LoopInRange
  <2>2. TypeOK'
    BY <1>10, <2>1, EmptySeq DEF Leave, TypeOK
  <2>3. LoopsInRange'
    BY <1>10, <2>1 DEF Leave, TypeOK, LoopsInRange, LoopInRange
  <2>. QED  BY <2>2, <2>3
<1>. QED
  BY <1>0, <1>1, <1>2, <1>3, <1>4, <1>5, <1>6, <1>7, <1>8, <1>9, <1>10
     DEF Next, Continue
-----------------------------------------------------------------------------
(***************************************************************************)
(* The queues stay sorted.                                                 *)
(***************************************************************************)

\* A sorted queue is sorted after an add at the place the search stops at.
LEMMA WithEntrySorted ==
  ASSUME NEW q \in Seq(Requests), Sorted(q), NEW r \in Requests,
         NEW i \in 1 .. Len(q) + 1, StopsAt(q, r.obj, i)
  PROVE  Sorted(WithEntry(q, i, r))
<1>1. CASE i <= Len(q) /\ q[i].obj = r.obj
  BY <1>1 DEF WithEntry
<1>2. CASE ~(i <= Len(q) /\ q[i].obj = r.obj)
  <2> DEFINE n == InsertAt(q, i, r)
  <2>1. Len(q) \in Nat /\ DOMAIN q = 1 .. Len(q)
    BY LenProperties
  <2>2. r.obj \in Nat /\ \A j \in 1 .. Len(q) : q[j].obj \in Nat
    <3>1. \A j \in 1 .. Len(q) : q[j] \in Requests
      BY ElementOfSeq
    <3>. QED  BY <3>1, RequestFacts
  <2>3. /\ \A j \in 1 .. i - 1 : q[j].obj < r.obj
        /\ \A j \in i .. Len(q) : r.obj < q[j].obj
    <3>1. \A j \in 1 .. i - 1 : q[j].obj < r.obj
      BY DEF StopsAt
    <3>2. ASSUME NEW j \in i .. Len(q)
          PROVE  r.obj < q[j].obj
      <4>1. i \in 1 .. Len(q) /\ j \in 1 .. Len(q)
        BY <2>1
      <4>2. r.obj < q[i].obj
        BY <1>2, <2>2, <4>1 DEF StopsAt
      <4>3. q[i].obj < q[j].obj \/ i = j
        BY <2>1, <4>1 DEF Sorted
      <4>. QED  BY <2>2, <4>1, <4>2, <4>3
    <3>. QED  BY <3>1, <3>2
  <2>4. /\ n \in Seq(Requests)
        /\ Len(n) = Len(q) + 1
        /\ \A j \in 1 .. Len(q) + 1 :
             n[j] = IF j < i THEN q[j] ELSE IF j = i THEN r ELSE q[j - 1]
    BY InsertAtShifts
  <2>5. DOMAIN n = 1 .. Len(q) + 1
    BY <2>4, LenProperties
  <2> HIDE DEF n
  <2>6. ASSUME NEW j \in 1 .. Len(q) + 1, NEW k \in 1 .. Len(q) + 1, j < k
        PROVE  n[j].obj < n[k].obj
    <3>1. CASE k < i
      <4>1. n[j] = q[j] /\ n[k] = q[k]
        BY <2>1, <2>4, <2>6, <3>1
      <4>. QED  BY <2>1, <2>6, <3>1, <4>1 DEF Sorted
    <3>2. CASE k = i
      <4>1. n[j] = q[j] /\ n[k] = r
        BY <2>1, <2>4, <2>6, <3>2
      <4>. QED  BY <2>1, <2>3, <2>6, <3>2, <4>1
    <3>3. CASE i < k /\ j < i
      <4>1. n[j] = q[j] /\ n[k] = q[k - 1]
        BY <2>1, <2>4, <2>6, <3>3
      <4>2. j \in 1 .. Len(q) /\ k - 1 \in 1 .. Len(q) /\ j < k - 1
        BY <2>1, <2>6, <3>3
      <4>. QED  BY <2>1, <4>1, <4>2 DEF Sorted
    <3>4. CASE i < k /\ j = i
      <4>1. n[j] = r /\ n[k] = q[k - 1]
        BY <2>1, <2>4, <2>6, <3>4
      <4>2. k - 1 \in i .. Len(q)
        BY <2>1, <2>6, <3>4
      <4>. QED  BY <2>3, <4>1, <4>2
    <3>5. CASE i < j
      <4>1. n[j] = q[j - 1] /\ n[k] = q[k - 1]
        BY <2>1, <2>4, <2>6, <3>5
      <4>2. j - 1 \in 1 .. Len(q) /\ k - 1 \in 1 .. Len(q) /\ j - 1 < k - 1
        BY <2>1, <2>6, <3>5
      <4>. QED  BY <2>1, <4>1, <4>2 DEF Sorted
    <3>. QED  BY <2>1, <2>6, <3>1, <3>2, <3>3, <3>4, <3>5
  <2>7. Sorted(n)
    BY <2>5, <2>6 DEF Sorted
  <2>. QED  BY <1>2, <2>7 DEF WithEntry, n
<1>. QED  BY <1>1, <1>2

\* An empty queue is sorted.
LEMMA EmptySorted == Sorted(<< >>)
BY DEF Sorted

\* Every step keeps the queues sorted: only adding changes what is in them.
LEMMA SortedStep ==
  ASSUME TypeOK, LoopsInRange, QueuesSorted, [Next]_vars
  PROVE  QueuesSorted'
<1>1. ASSUME UNCHANGED queues
      PROVE  QueuesSorted'
  BY <1>1 DEF QueuesSorted
<1>2. ASSUME NEW t \in Threads, NEW r \in Requests, Add(t, r)
      PROVE  QueuesSorted'
  <2>1. PICK i \in 1 .. Len(Pending(t)) + 1 :
          /\ StopsAt(Pending(t), r.obj, i)
          /\ queues' = [queues EXCEPT ![t][current[t]] = WithEntry(@, i, r)]
    BY <1>2 DEF Add
  <2>2. current[t] \in Levels /\ Pending(t) \in Seq(Requests) /\ Sorted(Pending(t))
    BY <1>2, QueueFacts DEF Add, QueuesSorted
  <2>3. Sorted(WithEntry(Pending(t), i, r))
    BY <2>1, <2>2, WithEntrySorted
  <2>. QED  BY <2>1, <2>3 DEF QueuesSorted, TypeOK
<1>3. ASSUME NEW t \in Threads, GiveUp(t) \/ Leave(t)
      PROVE  QueuesSorted'
  <2>1. PICK l \in Int : queues' = [queues EXCEPT ![t][l] = << >>]
    BY <1>3, CurrentBounds DEF GiveUp, Leave
  <2>. QED  BY <2>1, EmptySorted DEF QueuesSorted, TypeOK
<1>. QED
  BY <1>1, <1>2, <1>3
     DEF Next, Continue, vars, Lock, TryLock, Unlock, Start, TakeNext, Enter,
         Refused, GiveBackNext, ReleaseNext
-----------------------------------------------------------------------------
(***************************************************************************)
(* The locks are held as the queues account for them.                      *)
(***************************************************************************)

\* A step that leaves the locks alone and moves no held entry keeps the
\* accounts.
LEMMA SameAccounts ==
  ASSUME LocksMatchQueues, UNCHANGED locks,
         \A t \in Threads, l \in Levels :
           /\ HeldIndices(t, l)' = HeldIndices(t, l)
           /\ \A i \in HeldIndices(t, l) : queues'[t][l][i] = queues[t][l][i]
  PROVE  LocksMatchQueues'
BY DEF LocksMatchQueues, Holds

\* A step that claims nothing new and moves no claimed entry keeps the claims
\* distinct.
LEMMA FewerClaims ==
  ASSUME ClaimsDistinct,
         \A t \in Threads, l \in Levels :
           /\ ClaimedIndices(t, l)' \subseteq ClaimedIndices(t, l)
           /\ \A i \in ClaimedIndices(t, l)' : queues'[t][l][i] = queues[t][l][i]
  PROVE  ClaimsDistinct'
BY DEF ClaimsDistinct

\* A thread's held and claimed entries depend on its own state only.
LEMMA OthersKeep ==
  ASSUME NEW u \in Threads, UNCHANGED <<queues[u], current[u], phase[u], iter[u]>>,
         NEW l \in Levels
  PROVE  /\ HeldIndices(u, l)' = HeldIndices(u, l)
         /\ ClaimedIndices(u, l)' = ClaimedIndices(u, l)
         /\ queues'[u][l] = queues[u][l]
BY DEF HeldIndices, ClaimedIndices

\* What is held is claimed.
LEMMA HeldIsClaimed ==
  ASSUME NEW t \in Threads, NEW l \in Levels
  PROVE  HeldIndices(t, l) \subseteq ClaimedIndices(t, l)
BY DEF HeldIndices, ClaimedIndices

\* Adding claims an object at the level of its queue and holds nothing more.
LEMMA AddAccounts ==
  ASSUME IInv, NEW t \in Threads, NEW r \in Requests, Add(t, r)
  PROVE  LocksMatchQueues' /\ ClaimsDistinct'
<1>1. UNCHANGED <<current, phase, iter, locks>>
  BY DEF Add
<1>2. ASSUME NEW u \in Threads, NEW l \in Levels, ~(u = t /\ l = current[t])
      PROVE  queues'[u][l] = queues[u][l]
  BY <1>2 DEF Add, IInv, TypeOK
<1>3. HeldIndices(t, current[t]) = {} /\ ClaimedIndices(t, current[t]) = {}
  BY CurrentBounds DEF Add, HeldIndices, ClaimedIndices, IInv
<1>4. HeldIndices(t, current[t])' = {} /\ ClaimedIndices(t, current[t])' = {}
  BY <1>1, CurrentBounds DEF Add, HeldIndices, ClaimedIndices, IInv
<1>5. \A u \in Threads, l \in Levels :
        /\ HeldIndices(u, l)' = HeldIndices(u, l)
        /\ ClaimedIndices(u, l)' = ClaimedIndices(u, l)
        /\ \A i \in ClaimedIndices(u, l) : queues'[u][l][i] = queues[u][l][i]
  BY <1>1, <1>2, <1>3, <1>4 DEF HeldIndices, ClaimedIndices
<1>. QED  BY <1>1, <1>5, SameAccounts, FewerClaims, HeldIsClaimed DEF IInv

\* Locking starts: the pending entries become claimed, and none of them names
\* an object the thread holds.
LEMMA StartAccounts ==
  ASSUME IInv, NEW t \in Threads, Lock(t) \/ TryLock(t)
  PROVE  LocksMatchQueues' /\ ClaimsDistinct'
<1>1. /\ MayLock(t)
      /\ phase'[t] \in {"acquire", "try"} /\ iter'[t] = 1
      /\ UNCHANGED <<queues, current, locks>>
      /\ \A u \in Threads \ {t} : UNCHANGED <<phase[u], iter[u]>>
  BY DEF Lock, TryLock, Start, IInv, TypeOK
<1>2. phase[t] = "idle" /\ current[t] \in Levels
  BY <1>1 DEF MayLock
<1>3. \A l \in Levels : HeldIndices(t, l)' = HeldIndices(t, l)
  <2>. SUFFICES ASSUME NEW l \in Levels
                PROVE  HeldIndices(t, l)' = HeldIndices(t, l)
    OBVIOUS
  <2>1. \A i \in DOMAIN queues[t][l] : i \in Nat /\ i >= 1
    BY QueueFacts DEF IInv
  <2>. QED  BY <1>1, <1>2, <2>1 DEF HeldIndices
<1>4. LocksMatchQueues'
  BY <1>1, <1>3, OthersKeep, SameAccounts DEF IInv
<1>5. ASSUME NEW l \in Levels
      PROVE  /\ l < current[t] => ClaimedIndices(t, l)' = HeldIndices(t, l)
             /\ l = current[t] => ClaimedIndices(t, l)' = DOMAIN Pending(t)
             /\ l > current[t] => ClaimedIndices(t, l)' = {}
  <2>1. l \in Nat /\ current[t] \in Nat
    BY LevelBounds, CurrentBounds DEF IInv
  <2>. QED  BY <1>1, <1>2, <2>1 DEF HeldIndices, ClaimedIndices
<1>6. ASSUME NEW l \in Levels, l < current[t], NEW i \in HeldIndices(t, l),
             NEW j \in DOMAIN Pending(t)
      PROVE  queues[t][l][i].obj # Pending(t)[j].obj
  <2> DEFINE r == queues[t][l][i]
  <2>1. r \in Requests
    BY QueueFacts DEF HeldIndices, IInv
  <2>2. Holds(t, r.obj, r.mode)
    BY <2>1, RequestFacts DEF Holds
  <2>3. t \in locks[r.obj][r.mode]
    BY <2>1, <2>2, RequestFacts DEF IInv, LocksMatchQueues
  <2>. QED  BY <1>1, <2>1, <2>3, RequestFacts DEF MayLock
<1>7. ASSUME NEW l \in Levels, NEW m \in Levels, l # m,
             NEW i \in ClaimedIndices(t, l)', NEW j \in ClaimedIndices(t, m)'
      PROVE  queues'[t][l][i].obj # queues'[t][m][j].obj
  <2>1. l \in Nat /\ m \in Nat /\ current[t] \in Nat
    BY LevelBounds, CurrentBounds DEF IInv
  <2>2. CASE l < current[t] /\ m < current[t]
    BY <1>1, <1>5, <1>7, <2>2, HeldIsClaimed DEF IInv, ClaimsDistinct
  <2>3. CASE l < current[t] /\ m = current[t]
    BY <1>1, <1>5, <1>6, <2>3
  <2>4. CASE l = current[t] /\ m < current[t]
    BY <1>1, <1>5, <1>6, <2>4
  <2>5. CASE l > current[t] \/ m > current[t]
    BY <1>5, <2>5
  <2>. QED  BY <1>7, <2>1, <2>2, <2>3, <2>4, <2>5
<1>8. ClaimsDistinct'
  BY <1>1, <1>7, OthersKeep DEF IInv, ClaimsDistinct
<1>. QED  BY <1>4, <1>8

\* Unlock starts, try_acquire is refused, a queue becomes the topmost locked
\* one: nothing that is held or claimed changes.
LEMMA ControlAccounts ==
  ASSUME IInv, NEW t \in Threads, Unlock(t) \/ Refused(t) \/ Enter(t)
  PROVE  LocksMatchQueues' /\ ClaimsDistinct'
<1>1. /\ UNCHANGED <<queues, locks>>
      /\ \A u \in Threads \ {t} : UNCHANGED <<phase[u], iter[u], current[u]>>
  BY DEF Unlock, Start, Refused, Enter, IInv, TypeOK
<1>2. \A l \in Levels :
        /\ HeldIndices(t, l)' = HeldIndices(t, l)
        /\ ClaimedIndices(t, l)' = ClaimedIndices(t, l)
  <2>. SUFFICES ASSUME NEW l \in Levels
                PROVE  /\ HeldIndices(t, l)' = HeldIndices(t, l)
                       /\ ClaimedIndices(t, l)' = ClaimedIndices(t, l)
    OBVIOUS
  <2>1. /\ l \in Nat /\ current[t] \in Nat /\ iter[t] \in Nat
        /\ \A i \in DOMAIN queues[t][l] : i \in Nat /\ i >= 1 /\ i <= Len(queues[t][l])
        /\ Len(queues[t][l]) \in Nat
    BY LevelBounds, CurrentBounds, QueueFacts DEF IInv
  <2>2. CASE Unlock(t)
    <3>1. phase[t] = "idle" /\ phase'[t] = "release" /\ iter'[t] = 1
          /\ current'[t] = current[t]
      BY <2>2 DEF Unlock, Start, IInv, TypeOK
    <3>. QED  BY <1>1, <2>1, <3>1 DEF HeldIndices, ClaimedIndices
  <2>3. CASE Refused(t)
    <3>1. phase[t] = "try" /\ phase'[t] = "backout" /\ iter'[t] = iter[t]
          /\ current'[t] = current[t]
      BY <2>3 DEF Refused, IInv, TypeOK
    <3>. QED  BY <1>1, <2>1, <3>1 DEF HeldIndices, ClaimedIndices
  <2>4. CASE Enter(t)
    <3>1. /\ phase[t] \in {"acquire", "try"} /\ phase'[t] = "idle"
          /\ current'[t] = current[t] + 1 /\ iter[t] > Len(Pending(t))
      BY <2>4 DEF Enter, IInv, TypeOK
    <3>. QED  BY <1>1, <2>1, <3>1, SMTT(30) DEF HeldIndices, ClaimedIndices
  <2>. QED  BY <2>2, <2>3, <2>4
<1>3. LocksMatchQueues'
  BY <1>1, <1>2, OthersKeep, SameAccounts DEF IInv
<1>4. ClaimsDistinct'
  BY <1>1, <1>2, OthersKeep, FewerClaims DEF IInv
<1>. QED  BY <1>3, <1>4

\* try_acquire has given everything back, or unlock has: the queue it empties
\* held nothing any more.
LEMMA EmptiedAccounts ==
  ASSUME IInv, NEW t \in Threads, GiveUp(t) \/ Leave(t)
  PROVE  LocksMatchQueues' /\ ClaimsDistinct'
<1>1. /\ UNCHANGED locks
      /\ \A u \in Threads \ {t} : UNCHANGED <<queues[u], phase[u], iter[u], current[u]>>
  BY DEF GiveUp, Leave, IInv, TypeOK
<1>2. \A l \in Levels :
        /\ HeldIndices(t, l)' = HeldIndices(t, l)
        /\ ClaimedIndices(t, l)' \subseteq ClaimedIndices(t, l)
        /\ \A i \in HeldIndices(t, l) \cup ClaimedIndices(t, l)' :
             queues'[t][l][i] = queues[t][l][i]
  <2>. SUFFICES ASSUME NEW l \in Levels
                PROVE  /\ HeldIndices(t, l)' = HeldIndices(t, l)
                       /\ ClaimedIndices(t, l)' \subseteq ClaimedIndices(t, l)
                       /\ \A i \in HeldIndices(t, l) \cup ClaimedIndices(t, l)' :
                            queues'[t][l][i] = queues[t][l][i]
    OBVIOUS
  <2>1. /\ l \in Nat /\ current[t] \in Nat /\ iter[t] \in Nat
        /\ \A i \in DOMAIN queues[t][l] : i \in Nat /\ i >= 1 /\ i <= Len(queues[t][l])
        /\ Len(queues[t][l]) \in Nat
    BY LevelBounds, CurrentBounds, QueueFacts DEF IInv
  <2>2. CASE GiveUp(t)
    <3>1. /\ phase[t] = "backout" /\ iter[t] = 1 /\ phase'[t] = "idle"
          /\ current'[t] = current[t]
          /\ queues'[t][l] = IF l = current[t] THEN << >> ELSE queues[t][l]
      BY <2>2 DEF GiveUp, IInv, TypeOK
    <3>. QED  BY <2>1, <3>1 DEF HeldIndices, ClaimedIndices
  <2>3. CASE Leave(t)
    <3>1. /\ phase[t] = "release" /\ iter[t] > Len(Topmost(t)) /\ phase'[t] = "idle"
          /\ current[t] > 0 /\ current'[t] = current[t] - 1
          /\ queues'[t][l] = IF l = current[t] - 1 THEN << >> ELSE queues[t][l]
      BY <2>3 DEF Leave, IInv, TypeOK, LoopsInRange, LoopInRange
    <3>2. CASE l + 1 = current[t]
      <4>1. HeldIndices(t, l) = {} /\ queues'[t][l] = << >>
        BY <2>1, <3>1, <3>2 DEF HeldIndices
      <4>. QED  BY <4>1 DEF HeldIndices, ClaimedIndices
    <3>3. CASE l + 1 # current[t]
      BY <2>1, <3>1, <3>3 DEF HeldIndices, ClaimedIndices
    <3>. QED  BY <3>2, <3>3
  <2>. QED  BY <2>2, <2>3
<1>3. LocksMatchQueues'
  BY <1>1, <1>2, OthersKeep, SameAccounts DEF IInv
<1>4. ClaimsDistinct'
  BY <1>1, <1>2, OthersKeep, FewerClaims DEF IInv
<1>. QED  BY <1>3, <1>4

\* A lock is taken: the next entry becomes held.
LEMMA TakeAccounts ==
  ASSUME IInv, NEW t \in Threads, TakeNext(t)
  PROVE  LocksMatchQueues' /\ ClaimsDistinct'
<1> DEFINE e == Pending(t)[iter[t]]
<1>1. /\ phase[t] \in {"acquire", "try"}
      /\ iter'[t] = iter[t] + 1
      /\ UNCHANGED <<queues, current, phase>>
      /\ \A u \in Threads \ {t} : UNCHANGED iter[u]
  BY DEF TakeNext, IInv, TypeOK
<1>2. /\ current[t] \in Levels
      /\ iter[t] \in DOMAIN Pending(t) /\ e \in Requests
  BY CurrentBounds, QueueFacts DEF TakeNext, IInv, LoopsInRange, LoopInRange
<1>3. \A o \in Objects, mode \in Modes :
        locks'[o][mode] = IF o = e.obj /\ mode = e.mode
                          THEN locks[o][mode] \cup {t} ELSE locks[o][mode]
  BY <1>2, RequestFacts DEF TakeNext, LockedBy, IInv, TypeOK, RwLocks
<1>4. \A l \in Levels : HeldIndices(t, l)' =
        IF l = current[t] THEN HeldIndices(t, l) \cup {iter[t]} ELSE HeldIndices(t, l)
  <2>. SUFFICES ASSUME NEW l \in Levels
                PROVE  HeldIndices(t, l)' =
                         IF l = current[t] THEN HeldIndices(t, l) \cup {iter[t]}
                                           ELSE HeldIndices(t, l)
    OBVIOUS
  <2>1. /\ l \in Nat /\ current[t] \in Nat /\ iter[t] \in Nat
        /\ \A i \in DOMAIN queues[t][l] : i \in Nat
    BY LevelBounds, CurrentBounds, QueueFacts DEF IInv
  <2>. QED  BY <1>1, <1>2, <2>1 DEF HeldIndices
<1> HIDE DEF e
<1>5. ASSUME NEW o \in Objects, NEW mode \in Modes
      PROVE  Holds(t, o, mode)' <=> Holds(t, o, mode) \/ (o = e.obj /\ mode = e.mode)
  <2>1. e = [obj |-> o, mode |-> mode] <=> o = e.obj /\ mode = e.mode
    BY <1>2, RequestFacts
  <2>2. Holds(t, o, mode)' <=>
          \/ Holds(t, o, mode)
          \/ Pending(t)[iter[t]] = [obj |-> o, mode |-> mode]
    BY <1>1, <1>2, <1>4 DEF Holds
  <2>. QED  BY <2>1, <2>2 DEF e
<1>6. ASSUME NEW o \in Objects, NEW mode \in Modes, NEW u \in Threads \ {t}
      PROVE  Holds(u, o, mode)' <=> Holds(u, o, mode)
  BY <1>1, OthersKeep DEF Holds
<1>7. LocksMatchQueues'
  <2>. SUFFICES ASSUME NEW o \in Objects, NEW u \in Threads, NEW mode \in Modes
                PROVE  u \in locks'[o][mode] <=> Holds(u, o, mode)'
    BY DEF LocksMatchQueues
  <2>1. u \in locks[o][mode] <=> Holds(u, o, mode)
    BY DEF IInv, LocksMatchQueues
  <2>2. CASE u = t
    <3>1. t \in locks'[o][mode] <=>
            t \in locks[o][mode] \/ (o = e.obj /\ mode = e.mode)
      BY <1>3
    <3>2. Holds(t, o, mode)' <=> Holds(t, o, mode) \/ (o = e.obj /\ mode = e.mode)
      BY <1>5
    <3>. QED  BY <2>1, <2>2, <3>1, <3>2
  <2>3. CASE u # t
    <3>1. u \in locks'[o][mode] <=> u \in locks[o][mode]
      <4>1. \/ locks'[o][mode] = locks[o][mode]
            \/ locks'[o][mode] = locks[o][mode] \cup {t}
        BY <1>3
      <4>. QED  BY <2>3, <4>1
    <3>2. Holds(u, o, mode)' <=> Holds(u, o, mode)
      BY <2>3, <1>6
    <3>. QED  BY <2>1, <3>1, <3>2
  <2>. QED  BY <2>2, <2>3
<1>8. ClaimsDistinct'
  <2>1. \A l \in Levels : ClaimedIndices(t, l)' = ClaimedIndices(t, l)
    <3>1. \A l \in Levels : l + 1 = current[t] => l # current[t]
      BY LevelBounds, CurrentBounds DEF IInv
    <3>. QED  BY <1>1, <3>1 DEF ClaimedIndices
  <2>. QED  BY <1>1, <2>1, OthersKeep, FewerClaims DEF IInv
<1>. QED  BY <1>7, <1>8

\* Thread t gives back the lock of entry k of its queue at level m, and
\* nothing else changes but its loop.
GivesBack(t, m, k) ==
  /\ queues' = queues
  /\ \A u \in Threads \ {t} :
       phase'[u] = phase[u] /\ iter'[u] = iter[u] /\ current'[u] = current[u]
  /\ \A o \in Objects, mode \in Modes :
       locks'[o][mode] = IF o = queues[t][m][k].obj /\ mode = queues[t][m][k].mode
                         THEN locks[o][mode] \ {t} ELSE locks[o][mode]
  /\ \A l \in Levels :
       HeldIndices(t, l)' = IF l = m THEN HeldIndices(t, l) \ {k} ELSE HeldIndices(t, l)

\* Since the thread holds no object twice, the entry that is no longer held is
\* the only one that accounted for the lock.
LEMMA UnlockAccounts ==
  ASSUME IInv, NEW t \in Threads, NEW m \in Levels, NEW k \in HeldIndices(t, m),
         GivesBack(t, m, k)
  PROVE  LocksMatchQueues'
<1> DEFINE e == queues[t][m][k]
<1>0. /\ queues' = queues
      /\ \A u \in Threads \ {t} :
           phase'[u] = phase[u] /\ iter'[u] = iter[u] /\ current'[u] = current[u]
      /\ \A l \in Levels :
           HeldIndices(t, l)' = IF l = m THEN HeldIndices(t, l) \ {k} ELSE HeldIndices(t, l)
  BY DEF GivesBack
<1>1. k \in DOMAIN queues[t][m] /\ e \in Requests
  BY QueueFacts DEF HeldIndices, IInv
<1>2. \A o \in Objects, mode \in Modes :
        locks'[o][mode] = IF o = e.obj /\ mode = e.mode
                          THEN locks[o][mode] \ {t} ELSE locks[o][mode]
  BY DEF GivesBack
<1>. HIDE DEF e
<1>3. ASSUME NEW l \in Levels, NEW i \in HeldIndices(t, l), ~(l = m /\ i = k)
      PROVE  queues[t][l][i].obj # e.obj
  <2>1. CASE l # m
    BY <2>1, HeldIsClaimed DEF IInv, ClaimsDistinct, e
  <2>2. CASE l = m
    <3>1. i \in DOMAIN queues[t][m] /\ i # k
      BY <1>3, <2>2 DEF HeldIndices
    <3>2. i \in Nat /\ k \in Nat
      BY <1>1, <3>1, QueueFacts DEF IInv
    <3>3. queues[t][m][i] \in Requests
      BY <3>1, QueueFacts DEF IInv
    <3>4. queues[t][m][i].obj < e.obj \/ e.obj < queues[t][m][i].obj
      BY <1>1, <3>1, <3>2 DEF IInv, QueuesSorted, Sorted, e
    <3>. QED  BY <1>1, <2>2, <3>3, <3>4, RequestFacts
  <2>. QED  BY <2>1, <2>2
<1>4. ASSUME NEW o \in Objects, NEW mode \in Modes
      PROVE  Holds(t, o, mode)' <=> Holds(t, o, mode) /\ ~(o = e.obj /\ mode = e.mode)
  <2>1. CASE o = e.obj /\ mode = e.mode
    <3>1. ASSUME NEW l \in Levels, NEW i \in HeldIndices(t, l)'
          PROVE  queues'[t][l][i] # [obj |-> o, mode |-> mode]
      <4>1. i \in HeldIndices(t, l) /\ ~(l = m /\ i = k)
        BY <1>0, <3>1
      <4>. QED  BY <1>0, <1>3, <2>1, <4>1
    <3>. QED  BY <2>1, <3>1 DEF Holds
  <2>2. CASE ~(o = e.obj /\ mode = e.mode)
    <3>1. e # [obj |-> o, mode |-> mode]
      BY <2>2
    <3>2. ASSUME NEW l \in Levels, NEW i
          PROVE  i \in HeldIndices(t, l)' /\ queues'[t][l][i] = [obj |-> o, mode |-> mode]
                 <=> i \in HeldIndices(t, l) /\ queues[t][l][i] = [obj |-> o, mode |-> mode]
      BY <1>0, <3>1 DEF e
    <3>. QED  BY <2>2, <3>2 DEF Holds
  <2>. QED  BY <2>1, <2>2
<1>5. ASSUME NEW o \in Objects, NEW mode \in Modes, NEW u \in Threads \ {t}
      PROVE  Holds(u, o, mode)' <=> Holds(u, o, mode)
  BY <1>0, OthersKeep DEF Holds
<1>. SUFFICES ASSUME NEW o \in Objects, NEW u \in Threads, NEW mode \in Modes
              PROVE  u \in locks'[o][mode] <=> Holds(u, o, mode)'
  BY DEF LocksMatchQueues
<1>6. u \in locks[o][mode] <=> Holds(u, o, mode)
  BY DEF IInv, LocksMatchQueues
<1>7. CASE u = t
  <2>1. t \in locks'[o][mode] <=>
          t \in locks[o][mode] /\ ~(o = e.obj /\ mode = e.mode)
    <3>1. CASE o = e.obj /\ mode = e.mode
      BY <1>2, <3>1
    <3>2. CASE ~(o = e.obj /\ mode = e.mode)
      BY <1>2, <3>2
    <3>. QED  BY <3>1, <3>2
  <2>. QED  BY <1>4, <1>6, <1>7, <2>1
<1>8. CASE u # t
  <2>1. \/ locks'[o][mode] = locks[o][mode]
        \/ locks'[o][mode] = locks[o][mode] \ {t}
    BY <1>2
  <2>2. u \in locks'[o][mode] <=> u \in locks[o][mode]
    BY <1>8, <2>1
  <2>. QED  BY <1>5, <1>6, <1>8, <2>2
<1>. QED  BY <1>7, <1>8

\* A lock that is given back leaves those the queue still accounts for.
LEMMA GiveBackAccounts ==
  ASSUME IInv, NEW t \in Threads, GiveBackNext(t)
  PROVE  LocksMatchQueues' /\ ClaimsDistinct'
<1>1. /\ phase[t] = "backout"
      /\ iter[t] > 1 /\ iter'[t] = iter[t] - 1
      /\ UNCHANGED <<queues, current, phase>>
      /\ \A u \in Threads \ {t} : UNCHANGED iter[u]
  BY DEF GiveBackNext, IInv, TypeOK
<1>2. /\ current[t] \in Levels
      /\ iter[t] \in Nat /\ current[t] \in Nat
      /\ iter[t] - 1 \in DOMAIN Pending(t)
  BY <1>1, CurrentBounds, QueueFacts DEF IInv, LoopsInRange, LoopInRange
<1>3. iter[t] - 1 \in HeldIndices(t, current[t])
  BY <1>1, <1>2 DEF HeldIndices
<1>4. ASSUME NEW l \in Levels
      PROVE  /\ ClaimedIndices(t, l)' = ClaimedIndices(t, l)
             /\ HeldIndices(t, l)' =
                  IF l = current[t] THEN HeldIndices(t, l) \ {iter[t] - 1}
                                    ELSE HeldIndices(t, l)
  <2>1. l \in Nat /\ \A i \in DOMAIN queues[t][l] : i \in Nat
    BY LevelBounds, QueueFacts DEF IInv
  <2>. QED  BY <1>1, <1>2, <2>1 DEF HeldIndices, ClaimedIndices
<1>5. LocksMatchQueues'
  <2>0. PICK m \in Levels, k \in Int : m = current[t] /\ k = iter[t] - 1
    BY <1>2 DEF IInv, TypeOK
  <2> DEFINE e == queues[t][m][k]
  <2>1. \A o \in Objects, mode \in Modes :
          locks'[o][mode] = IF o = e.obj /\ mode = e.mode
                            THEN locks[o][mode] \ {t} ELSE locks[o][mode]
    <3>1. e \in Requests
      BY <1>2, <2>0, QueueFacts DEF IInv
    <3>. QED  BY <2>0, <3>1, RequestFacts DEF GiveBackNext, UnlockedBy, IInv, TypeOK, RwLocks
  <2>2. \A l \in Levels : HeldIndices(t, l)' =
          IF l = m THEN HeldIndices(t, l) \ {k} ELSE HeldIndices(t, l)
    BY <1>4, <2>0
  <2>3. GivesBack(t, m, k)
    BY <1>1, <2>1, <2>2 DEF GivesBack
  <2>. QED  BY <1>3, <2>0, <2>3, UnlockAccounts
<1>6. ClaimsDistinct'
  BY <1>1, <1>4, OthersKeep, FewerClaims DEF IInv
<1>. QED  BY <1>5, <1>6

\* A lock that is released leaves those the queue still accounts for.
LEMMA ReleaseAccounts ==
  ASSUME IInv, NEW t \in Threads, ReleaseNext(t)
  PROVE  LocksMatchQueues' /\ ClaimsDistinct'
<1>1. /\ phase[t] = "release"
      /\ iter'[t] = iter[t] + 1
      /\ UNCHANGED <<queues, current, phase>>
      /\ \A u \in Threads \ {t} : UNCHANGED iter[u]
  BY DEF ReleaseNext, IInv, TypeOK
<1>2. /\ current[t] - 1 \in Levels
      /\ iter[t] \in Nat /\ current[t] \in Nat
      /\ iter[t] \in DOMAIN Topmost(t)
  BY <1>1, CurrentBounds, QueueFacts DEF ReleaseNext, IInv, LoopsInRange, LoopInRange
<1>3. iter[t] \in HeldIndices(t, current[t] - 1)
  BY <1>1, <1>2 DEF HeldIndices
<1>4. ASSUME NEW l \in Levels
      PROVE  /\ ClaimedIndices(t, l)' \subseteq ClaimedIndices(t, l)
             /\ HeldIndices(t, l)' =
                  IF l = current[t] - 1 THEN HeldIndices(t, l) \ {iter[t]}
                                        ELSE HeldIndices(t, l)
  <2>1. l \in Nat /\ \A i \in DOMAIN queues[t][l] : i \in Nat
    BY LevelBounds, QueueFacts DEF IInv
  <2>. QED  BY <1>1, <1>2, <2>1 DEF HeldIndices, ClaimedIndices
<1>5. LocksMatchQueues'
  <2>0. PICK m \in Levels, k \in Int : m = current[t] - 1 /\ k = iter[t]
    BY <1>2 DEF IInv, TypeOK
  <2> DEFINE e == queues[t][m][k]
  <2>1. \A o \in Objects, mode \in Modes :
          locks'[o][mode] = IF o = e.obj /\ mode = e.mode
                            THEN locks[o][mode] \ {t} ELSE locks[o][mode]
    <3>1. e \in Requests
      BY <1>2, <2>0, QueueFacts DEF IInv
    <3>. QED  BY <2>0, <3>1, RequestFacts DEF ReleaseNext, UnlockedBy, IInv, TypeOK, RwLocks
  <2>2. \A l \in Levels : HeldIndices(t, l)' =
          IF l = m THEN HeldIndices(t, l) \ {k} ELSE HeldIndices(t, l)
    BY <1>4, <2>0
  <2>3. GivesBack(t, m, k)
    BY <1>1, <2>1, <2>2 DEF GivesBack
  <2>. QED  BY <1>3, <2>0, <2>3, UnlockAccounts
<1>6. ClaimsDistinct'
  BY <1>1, <1>4, OthersKeep, FewerClaims DEF IInv
<1>. QED  BY <1>5, <1>6
-----------------------------------------------------------------------------
(***************************************************************************)
(* The inductive invariant.                                                *)
(***************************************************************************)

\* A lock that is taken was available, and giving one back makes room.
LEMMA LockExcludesKept ==
  ASSUME NEW lock \in RwLocks, LockExcludes(lock), NEW t \in Threads, NEW mode \in Modes
  PROVE  /\ Available(lock, mode) => LockExcludes(LockedBy(lock, t, mode))
         /\ LockExcludes(UnlockedBy(lock, t, mode))
<1>1. mode = "Exclusive" \/ mode = "Shared"
  BY DEF Modes
<1>2. Available(lock, mode) => LockExcludes(LockedBy(lock, t, mode))
  BY <1>1 DEF RwLocks, Modes, LockExcludes, Available, LockedBy
<1>3. LockExcludes(UnlockedBy(lock, t, mode))
  BY <1>1 DEF RwLocks, Modes, LockExcludes, UnlockedBy
<1>. QED  BY <1>2, <1>3

\* Every step keeps each lock to one writer or to readers.
LEMMA LockExcludesStep ==
  ASSUME IInv, [Next]_vars
  PROVE  (\A o \in Objects : LockExcludes(locks[o]))'
<1>1. CASE UNCHANGED locks
  BY <1>1 DEF IInv
<1>2. ASSUME NEW t \in Threads, NEW e \in Requests,
             \/ /\ Available(locks[e.obj], e.mode)
                /\ locks' = [locks EXCEPT ![e.obj] = LockedBy(@, t, e.mode)]
             \/ locks' = [locks EXCEPT ![e.obj] = UnlockedBy(@, t, e.mode)]
      PROVE  (\A o \in Objects : LockExcludes(locks[o]))'
  <2>1. e.obj \in Objects /\ e.mode \in Modes
    BY RequestFacts
  <2>2. /\ Available(locks[e.obj], e.mode) =>
             LockExcludes(LockedBy(locks[e.obj], t, e.mode))
        /\ LockExcludes(UnlockedBy(locks[e.obj], t, e.mode))
    BY <2>1, LockExcludesKept DEF IInv, TypeOK
  <2>. QED  BY <1>2, <2>1, <2>2 DEF IInv, TypeOK
<1>3. ASSUME NEW t \in Threads, TakeNext(t)
      PROVE  (\A o \in Objects : LockExcludes(locks[o]))'
  <2>1. Pending(t)[iter[t]] \in Requests
    BY <1>3, CurrentBounds, QueueFacts DEF TakeNext, IInv, LoopsInRange, LoopInRange
  <2>. QED  BY <1>2, <1>3, <2>1 DEF TakeNext, EntryAvailable
<1>4. ASSUME NEW t \in Threads, GiveBackNext(t)
      PROVE  (\A o \in Objects : LockExcludes(locks[o]))'
  <2>1. Pending(t)[iter[t] - 1] \in Requests
    BY <1>4, CurrentBounds, QueueFacts DEF GiveBackNext, IInv, LoopsInRange, LoopInRange
  <2>. QED  BY <1>2, <1>4, <2>1 DEF GiveBackNext
<1>5. ASSUME NEW t \in Threads, ReleaseNext(t)
      PROVE  (\A o \in Objects : LockExcludes(locks[o]))'
  <2>1. Topmost(t)[iter[t]] \in Requests
    BY <1>5, CurrentBounds, QueueFacts DEF ReleaseNext, IInv, LoopsInRange, LoopInRange
  <2>. QED  BY <1>2, <1>5, <2>1 DEF ReleaseNext
<1>. QED
  BY <1>1, <1>3, <1>4, <1>5
     DEF Next, Continue, vars, Add, Lock, TryLock, Unlock, Start, Enter, Refused,
         GiveUp, Leave

\* The invariant holds before anything was added.
LEMMA IInvInit == Init => IInv
<1>. SUFFICES ASSUME Init
              PROVE  IInv
  OBVIOUS
<1>1. TypeOK /\ LoopsInRange
  BY ControlInit
<1>2. \A t \in Threads, l \in Levels : queues[t][l] = << >>
  BY DEF Init
<1>3. QueuesSorted
  BY <1>2, EmptySorted DEF QueuesSorted
<1>4. \A t \in Threads, l \in Levels : HeldIndices(t, l) = {} /\ ClaimedIndices(t, l) = {}
  BY <1>2 DEF HeldIndices, ClaimedIndices
<1>5. ClaimsDistinct
  BY <1>4 DEF ClaimsDistinct
<1>6. LocksMatchQueues
  BY <1>4 DEF LocksMatchQueues, Holds, Init, Unlocked
<1>7. \A o \in Objects : LockExcludes(locks[o])
  BY DEF Init, Unlocked, LockExcludes, Modes
<1>. QED  BY <1>1, <1>3, <1>5, <1>6, <1>7 DEF IInv

\* Every step keeps the invariant.
LEMMA IInvStep ==
  ASSUME IInv, [Next]_vars
  PROVE  IInv'
<1>1. TypeOK' /\ LoopsInRange'
  BY ControlStep DEF IInv
<1>2. QueuesSorted'
  BY SortedStep DEF IInv
<1>3. (\A o \in Objects : LockExcludes(locks[o]))'
  BY LockExcludesStep
<1>4. LocksMatchQueues' /\ ClaimsDistinct'
  <2>1. CASE UNCHANGED vars
    BY <2>1 DEF vars, IInv, LocksMatchQueues, Holds, HeldIndices, ClaimsDistinct,
                ClaimedIndices
  <2>2. CASE \E t \in Threads, r \in Requests : Add(t, r)
    BY <2>2, AddAccounts
  <2>3. CASE \E t \in Threads : Lock(t) \/ TryLock(t)
    BY <2>3, StartAccounts
  <2>4. CASE \E t \in Threads : Unlock(t) \/ Refused(t) \/ Enter(t)
    BY <2>4, ControlAccounts
  <2>5. CASE \E t \in Threads : GiveUp(t) \/ Leave(t)
    BY <2>5, EmptiedAccounts
  <2>6. CASE \E t \in Threads : TakeNext(t)
    BY <2>6, TakeAccounts
  <2>7. CASE \E t \in Threads : GiveBackNext(t)
    BY <2>7, GiveBackAccounts
  <2>8. CASE \E t \in Threads : ReleaseNext(t)
    BY <2>8, ReleaseAccounts
  <2>. QED  BY <2>1, <2>2, <2>3, <2>4, <2>5, <2>6, <2>7, <2>8 DEF Next, Continue
<1>. QED  BY <1>1, <1>2, <1>3, <1>4 DEF IInv

\* The inductive invariant of the sync queues holds: loops in range, queues
\* sorted, no object claimed twice, locks held as the queues say and excluding
\* each other.
THEOREM Invariance == Spec => []IInv
<1>1. Init => IInv
  BY IInvInit
<1>2. IInv /\ [Next]_vars => IInv'
  BY IInvStep
<1>. QED  BY <1>1, <1>2, PTL DEF Spec

\* The state of the queues, the thread-local arrays and the locks is always of
\* its type.
THEOREM TypeCorrect == Spec => []TypeOK
<1>1. IInv => TypeOK
  BY DEF IInv
<1>. QED  BY <1>1, Invariance, PTL

\* Every queue is always strictly sorted by address, at any level, however the
\* objects were added: the order acquire takes locks in.
THEOREM AlwaysSorted == Spec => []QueuesSorted
<1>1. IInv => QueuesSorted
  BY DEF IInv
<1>. QED  BY <1>1, Invariance, PTL

\* No lock is ever lost or given back twice: after any interleaving of locks,
\* refused try_locks and unlocks the locks held are those the queues account for.
THEOREM NoLockLost == Spec => []LocksMatchQueues
<1>1. IInv => LocksMatchQueues
  BY DEF IInv
<1>. QED  BY <1>1, Invariance, PTL

\* A thread is inside a block only with locks it holds.
LEMMA InsideIsHeld ==
  ASSUME IInv, NEW t \in Threads, NEW k \in 0 .. Depth(t) - 1, NEW r \in InsideWith(t, k)
  PROVE  /\ r \in Requests
         /\ t \in locks[r.obj][r.mode]
<1>1. /\ current[t] \in Nat /\ current[t] <= MaxLevel
      /\ k \in Levels
      /\ k + 1 < current[t] \/ (k + 1 = current[t] /\ phase[t] # "release")
  BY LevelBounds, CurrentBounds DEF Depth, IInv
<1>2. PICK i \in DOMAIN queues[t][k] : r = queues[t][k][i]
  BY <1>1, QueueFacts DEF InsideWith, ToSet, IInv
<1>3. i \in HeldIndices(t, k)
  BY <1>1, <1>2 DEF HeldIndices
<1>4. r \in Requests
  BY <1>1, <1>2, QueueFacts DEF IInv
<1>5. Holds(t, r.obj, r.mode)
  BY <1>1, <1>2, <1>3, <1>4, RequestFacts DEF Holds
<1>. QED  BY <1>4, <1>5, RequestFacts DEF IInv, LocksMatchQueues

\* For any number of threads, objects and levels: while a thread is inside a
\* sync block with an object it has exclusively, no other thread is inside one
\* with that object.
THEOREM BlocksExclude == Spec => []MutualExclusion
<1>1. IInv => MutualExclusion
  <2>. SUFFICES ASSUME IInv, NEW t \in Threads, NEW u \in Threads, t # u,
                       NEW k \in 0 .. Depth(t) - 1, NEW l \in 0 .. Depth(u) - 1,
                       NEW r \in InsideWith(t, k), NEW s \in InsideWith(u, l),
                       r.obj = s.obj
                PROVE  r.mode = "Shared" /\ s.mode = "Shared"
    BY DEF MutualExclusion
  <2>1. t \in locks[r.obj][r.mode] /\ u \in locks[r.obj][s.mode]
    BY InsideIsHeld
  <2>2. r.mode \in Modes /\ s.mode \in Modes /\ r.obj \in Objects
    BY InsideIsHeld, RequestFacts
  <2>3. LockExcludes(locks[r.obj])
    BY <2>2 DEF IInv
  <2>. QED  BY <2>1, <2>2, <2>3 DEF LockExcludes, Modes
<1>. QED  BY <1>1, Invariance, PTL
-----------------------------------------------------------------------------
(***************************************************************************)
(* The thread-local array of queues.                                       *)
(***************************************************************************)

\* Strengthened: a loop runs over a queue inside the array.
LevelsInArray ==
  /\ LevelsAllocated
  /\ \A t \in Threads : phase[t] \in {"acquire", "try", "backout"} =>
       current[t] < queueCount[t]

\* An add makes room for the level it is at, and never gives up any.
LEMMA EnsuredEnough ==
  ASSUME TypeOK, LevelsInArray, NEW t \in Threads
  PROVE  /\ EnsuredQueueCount(t) \in Nat
         /\ current[t] < EnsuredQueueCount(t)
         /\ queueCount[t] <= EnsuredQueueCount(t)
<1>1. /\ current[t] \in Nat /\ queueCount[t] \in Nat
      /\ current[t] <= queueCount[t]
      /\ FirstQueueCount \in Nat /\ FirstQueueCount > 0
  BY FirstQueueCountAssumption, MaxLevelAssumption DEF TypeOK, LevelsInArray, LevelsAllocated
<1>. QED  BY <1>1 DEF EnsuredQueueCount

\* Every step keeps the levels in use inside the array of queues.
LEMMA LevelsStep ==
  ASSUME IInv, LevelsInArray, [Next]_vars
  PROVE  LevelsInArray'
<1>0. /\ \A t \in Threads : current[t] \in Nat /\ queueCount[t] \in Nat
      /\ TypeOK
  BY LevelBounds, MaxLevelAssumption DEF IInv, TypeOK
<1>1. CASE UNCHANGED vars
  BY <1>1 DEF vars, LevelsInArray, LevelsAllocated
<1>2. ASSUME NEW t \in Threads, NEW r \in Requests, Add(t, r)
      PROVE  LevelsInArray'
  <2>1. /\ queueCount' = [queueCount EXCEPT ![t] = EnsuredQueueCount(t)]
        /\ current' = current /\ phase' = phase
        /\ current[t] \in Levels
    BY <1>2 DEF Add
  <2>2. \A u \in Threads, l \in Levels :
          u # t \/ l # current[t] => queues'[u][l] = queues[u][l]
    BY <1>0, <1>2 DEF Add, TypeOK
  <2>3. \A u \in Threads : /\ queueCount'[u] \in Nat
                           /\ queueCount[u] <= queueCount'[u]
    BY <1>0, <2>1, EnsuredEnough DEF TypeOK
  <2>4. queueCount'[t] = EnsuredQueueCount(t) /\ current[t] < EnsuredQueueCount(t)
    BY <1>0, <2>1, EnsuredEnough DEF TypeOK
  <2>5. \A u \in Threads : current'[u] <= queueCount'[u]
    BY <1>0, <2>1, <2>3 DEF LevelsInArray, LevelsAllocated
  <2>6. \A u \in Threads, l \in Levels : queues'[u][l] # << >> => l < queueCount'[u]
    <3>. SUFFICES ASSUME NEW u \in Threads, NEW l \in Levels, queues'[u][l] # << >>
                  PROVE  l < queueCount'[u]
      OBVIOUS
    <3>1. l \in Nat /\ queueCount[u] \in Nat /\ queueCount'[u] \in Nat
      BY <1>0, <2>3, LevelBounds
    <3>2. CASE u = t /\ l = current[t]
      BY <2>4, <3>2
    <3>3. CASE u # t \/ l # current[t]
      <4>1. l < queueCount[u]
        BY <2>2, <3>3 DEF LevelsInArray, LevelsAllocated
      <4>. QED  BY <2>3, <3>1, <4>1
    <3>. QED  BY <3>2, <3>3
  <2>7. \A u \in Threads : phase'[u] \in {"acquire", "try", "backout"} =>
          current'[u] < queueCount'[u]
    <3>. SUFFICES ASSUME NEW u \in Threads, phase'[u] \in {"acquire", "try", "backout"}
                  PROVE  current'[u] < queueCount'[u]
      OBVIOUS
    <3>1. current[u] < queueCount[u] /\ current'[u] = current[u]
      BY <2>1 DEF LevelsInArray
    <3>. QED  BY <1>0, <2>3, <3>1
  <2>. QED  BY <2>5, <2>6, <2>7 DEF LevelsInArray, LevelsAllocated
<1>3. ASSUME NEW t \in Threads, Lock(t) \/ TryLock(t) \/ Unlock(t)
      PROVE  LevelsInArray'
  BY <1>0, <1>3 DEF Lock, TryLock, Unlock, MayLock, Start, LevelsInArray,
                    LevelsAllocated, TypeOK
<1>4. ASSUME NEW t \in Threads, TakeNext(t) \/ Refused(t) \/ GiveBackNext(t) \/ ReleaseNext(t)
      PROVE  LevelsInArray'
  BY <1>0, <1>4 DEF TakeNext, Refused, GiveBackNext, ReleaseNext, LevelsInArray,
                    LevelsAllocated, TypeOK
<1>5. ASSUME NEW t \in Threads, Enter(t)
      PROVE  LevelsInArray'
  BY <1>0, <1>5 DEF Enter, LevelsInArray, LevelsAllocated, TypeOK
<1>6. ASSUME NEW t \in Threads, GiveUp(t) \/ Leave(t)
      PROVE  LevelsInArray'
  <2>0. /\ current \in [Threads -> 0 .. MaxLevel] /\ phase \in [Threads -> Phases]
        /\ queues \in [Threads -> [Levels -> Seq(Requests)]]
    BY <1>0 DEF TypeOK
  <2>1. \A u \in Threads, l \in Levels : queues'[u][l] # << >> => queues[u][l] # << >>
    <3>1. PICK m \in Int : queues' = [queues EXCEPT ![t][m] = << >>]
      BY <1>0, <1>6 DEF GiveUp, Leave
    <3>. QED  BY <2>0, <3>1
  <2>2. /\ queueCount' = queueCount
        /\ \A u \in Threads : current'[u] <= current[u]
        /\ \A u \in Threads : u # t => phase'[u] = phase[u] /\ current'[u] = current[u]
        /\ phase'[t] = "idle"
    <3>1. CASE GiveUp(t)
      BY <1>0, <2>0, <3>1 DEF GiveUp
    <3>2. CASE Leave(t)
      <4>1. current' = [current EXCEPT ![t] = @ - 1] /\ phase' = [phase EXCEPT ![t] = "idle"]
        BY <3>2 DEF Leave
      <4>2. \A u \in Threads :
              current'[u] = IF u = t THEN current[u] - 1 ELSE current[u]
        BY <2>0, <4>1
      <4>. QED  BY <1>0, <2>0, <3>2, <4>1, <4>2 DEF Leave
    <3>. QED  BY <1>6, <3>1, <3>2
  <2>3. \A u \in Threads : current'[u] <= queueCount'[u]
    <3>1. \A u \in Threads : current'[u] \in Int
      BY <1>0, <1>6 DEF GiveUp, Leave, TypeOK
    <3>. QED  BY <1>0, <2>2, <3>1 DEF LevelsInArray, LevelsAllocated
  <2>. QED  BY <2>1, <2>2, <2>3 DEF LevelsInArray, LevelsAllocated
<1>. QED  BY <1>1, <1>2, <1>3, <1>4, <1>5, <1>6 DEF Next, Continue

\* For any number of threads, objects and levels: every queue that is added to,
\* locked or unlocked lies inside the thread's array, which grows in time.
THEOREM AlwaysAllocated == Spec => []LevelsAllocated
<1>1. Init => LevelsInArray
  BY DEF Init, LevelsInArray, LevelsAllocated
<1>2. IInv /\ LevelsInArray /\ [Next]_vars => LevelsInArray'
  BY LevelsStep
<1>3. LevelsInArray => LevelsAllocated
  BY DEF LevelsInArray
<1>. QED  BY <1>1, <1>2, <1>3, Invariance, PTL DEF Spec
-----------------------------------------------------------------------------
(***************************************************************************)
(* The queues implement atomic sync blocks.                                *)
(***************************************************************************)

\* The value the refinement gives to the variable of SyncBlocks.
Blocks == [t \in Threads |-> [k \in 1 .. Depth(t) |-> InsideWith(t, k - 1)]]

\* The number of blocks a thread is inside of.
LEMMA DepthBounds ==
  ASSUME IInv, NEW t \in Threads
  PROVE  Depth(t) \in Nat /\ Depth(t) <= current[t] /\ current[t] <= MaxLevel
         /\ current[t] \in Nat
BY LevelBounds, CurrentBounds DEF Depth, IInv, LoopsInRange, LoopInRange, TypeOK

\* A step that keeps the depth of every thread and the queues below it stutters.
LEMMA SameBlocks ==
  ASSUME IInv,
         \A t \in Threads : Depth(t)' = Depth(t),
         \A t \in Threads, l \in Levels :
           l < Depth(t) => queues'[t][l] = queues[t][l]
  PROVE  Blocks' = Blocks
<1>1. ASSUME NEW t \in Threads
      PROVE  [k \in 1 .. Depth(t) |-> InsideWith(t, k - 1)]'
               = [k \in 1 .. Depth(t) |-> InsideWith(t, k - 1)]
  <2>1. ASSUME NEW k \in 1 .. Depth(t)
        PROVE  InsideWith(t, k - 1)' = InsideWith(t, k - 1)
    <3>1. k - 1 \in Levels /\ k - 1 < Depth(t)
      BY DepthBounds, LevelBounds
    <3>2. queues'[t][k - 1] = queues[t][k - 1]
      BY <3>1
    <3>. QED  BY <3>2 DEF InsideWith
  <2>2. Depth(t)' = Depth(t)
    OBVIOUS
  <2>. QED  BY <2>1, <2>2
<1>. QED  BY <1>1 DEF Blocks

\* A function on an initial segment of Nat is the sequence of its values.
LEMMA SeqOfLength ==
  ASSUME NEW S, NEW n \in Nat, NEW f \in [1 .. n -> S]
  PROVE  f \in Seq(S) /\ Len(f) = n
<1>1. f \in Seq(S)
  BY SeqDef
<1>. QED  BY <1>1, LenProperties

\* A sequence that agrees with another but for its last element is its front.
LEMMA FrontIs ==
  ASSUME NEW S, NEW n \in Nat \ {0}, NEW f \in [1 .. n -> S], NEW g \in [1 .. n - 1 -> S],
         \A k \in 1 .. n - 1 : g[k] = f[k]
  PROVE  g = Front(f) /\ f # << >>
<1>1. f \in Seq(S) /\ Len(f) = n /\ g \in Seq(S) /\ Len(g) = n - 1
  BY SeqOfLength
<1>2. /\ SubSeq(f, 1, n - 1) \in Seq(S)
      /\ Len(SubSeq(f, 1, n - 1)) = n - 1
      /\ \A k \in 1 .. n - 1 : SubSeq(f, 1, n - 1)[k] = f[k]
  <2>1. \A k \in 1 .. n - 1 : f[k] \in S
    OBVIOUS
  <2>2. /\ SubSeq(f, 1, n - 1) \in Seq(S)
        /\ Len(SubSeq(f, 1, n - 1)) = IF 1 <= n - 1 THEN (n - 1) - 1 + 1 ELSE 0
        /\ \A k \in 1 .. (n - 1) - 1 + 1 : SubSeq(f, 1, n - 1)[k] = f[1 + k - 1]
    BY <2>1, SubSeqProperties
  <2>. QED  BY <2>2
<1>3. g = SubSeq(f, 1, n - 1)
  BY <1>1, <1>2, SeqEqual
<1>. QED  BY <1>1, <1>3 DEF Front

\* A sequence that agrees with another but for one more element is it with this appended.
LEMMA AppendIs ==
  ASSUME NEW S, NEW n \in Nat, NEW f \in [1 .. n -> S], NEW g \in [1 .. n + 1 -> S],
         \A k \in 1 .. n : g[k] = f[k]
  PROVE  g = Append(f, g[n + 1])
<1>1. f \in Seq(S) /\ Len(f) = n /\ g \in Seq(S) /\ Len(g) = n + 1 /\ g[n + 1] \in S
  BY SeqOfLength
<1> DEFINE a == Append(f, g[n + 1])
<1>2. a \in Seq(S) /\ Len(a) = n + 1 /\ a[n + 1] = g[n + 1] /\ \A k \in 1 .. n : a[k] = f[k]
  BY <1>1, AppendProperties
<1> HIDE DEF a
<1>3. \A k \in 1 .. n + 1 : g[k] = a[k]
  BY <1>2
<1>4. g = a
  BY <1>1, <1>2, <1>3, SeqEqual
<1>. QED  BY <1>4 DEF a

\* The requests of the blocks a thread is inside of.
LEMMA BlocksType ==
  ASSUME IInv, NEW t \in Threads
  PROVE  /\ DOMAIN Blocks[t] = 1 .. Depth(t)
         /\ Blocks[t] \in [1 .. Depth(t) -> SUBSET Requests]
         /\ \A k \in 1 .. Depth(t) : Blocks[t][k] = InsideWith(t, k - 1)
<1>1. \A k \in 1 .. Depth(t) : InsideWith(t, k - 1) \subseteq Requests
  <2>. SUFFICES ASSUME NEW k \in 1 .. Depth(t), NEW r \in InsideWith(t, k - 1)
                PROVE  r \in Requests
    OBVIOUS
  <2>1. k - 1 \in 0 .. Depth(t) - 1
    BY DepthBounds
  <2>. QED  BY <2>1, InsideIsHeld
<1>. QED  BY <1>1 DEF Blocks

\* Leaving a block: the call of cubs_sync_queue_unlock.
LEMMA UnlockLeaves ==
  ASSUME IInv, IInv', NEW t \in Threads, Unlock(t)
  PROVE  Abs!Leave(t)
<1>1. /\ phase[t] = "idle" /\ phase'[t] = "release" /\ current[t] > 0
      /\ current' = current /\ queues' = queues
      /\ \A u \in Threads : u # t => phase'[u] = phase[u]
  BY DEF Unlock, Start, IInv, TypeOK
<1>2. /\ Depth(t)' = Depth(t) - 1 /\ Depth(t) \in Nat \ {0}
      /\ \A u \in Threads : u # t => Depth(u)' = Depth(u)
  BY <1>1, DepthBounds DEF Depth
<1>3. \A u \in Threads : \A k : InsideWith(u, k)' = InsideWith(u, k)
  BY <1>1 DEF InsideWith
<1> DEFINE g == [k \in 1 .. Depth(t) - 1 |-> InsideWith(t, k - 1)]
<1>4. g = Front(Blocks[t]) /\ Blocks[t] # << >>
  <2>1. \A k \in 1 .. Depth(t) - 1 : k \in 1 .. Depth(t)
    BY <1>2
  <2>2. /\ Blocks[t] \in [1 .. Depth(t) -> SUBSET Requests]
        /\ \A k \in 1 .. Depth(t) - 1 : g[k] = Blocks[t][k]
    BY <2>1, BlocksType
  <2>3. g \in [1 .. Depth(t) - 1 -> SUBSET Requests]
    BY <2>1, <2>2
  <2> HIDE DEF g
  <2>. QED  BY <1>2, <2>2, <2>3, FrontIs
<1>5. Blocks' = [Blocks EXCEPT ![t] = Front(@)]
  <2>1. \A u \in Threads : Blocks'[u] = [k \in 1 .. Depth(u)' |-> InsideWith(u, k - 1)]
    BY <1>3 DEF Blocks
  <2>2. Blocks'[t] = Front(Blocks[t])
    BY <1>2, <1>4, <2>1
  <2>3. \A u \in Threads : u # t => Blocks'[u] = Blocks[u]
    BY <1>2, <2>1 DEF Blocks
  <2>. QED  BY <2>2, <2>3 DEF Blocks
<1>6. Front(Blocks[t]) = Abs!Front(Blocks[t])
  BY DEF Front, Abs!Front
<1>. QED  BY <1>4, <1>5, <1>6 DEF Abs!Leave, Blocks

\* What a thread has taken when its loop ends: every entry of its queue.
LEMMA TakenIsHeld ==
  ASSUME IInv, NEW t \in Threads, Enter(t), NEW r \in InsideWith(t, current[t])
  PROVE  r \in Requests /\ t \in locks[r.obj][r.mode]
<1>1. current[t] \in Levels /\ phase[t] \in {"acquire", "try"} /\ iter[t] > Len(Pending(t))
  BY DEF Enter, IInv, LoopsInRange, LoopInRange
<1>2. PICK i \in DOMAIN queues[t][current[t]] : r = queues[t][current[t]][i]
  BY <1>1, QueueFacts DEF InsideWith, ToSet, IInv
<1>3. r \in Requests /\ i < iter[t]
  BY <1>1, <1>2, QueueFacts, CurrentBounds DEF IInv
<1>4. i \in HeldIndices(t, current[t])
  BY <1>1, <1>2, <1>3 DEF HeldIndices
<1>5. Holds(t, r.obj, r.mode)
  BY <1>1, <1>2, <1>3, <1>4, RequestFacts DEF Holds
<1>. QED  BY <1>3, <1>5, RequestFacts DEF IInv, LocksMatchQueues

\* Entering a block: the end of the loop of acquire or try_acquire.
LEMMA EnterEnters ==
  ASSUME IInv, IInv', NEW t \in Threads, Enter(t)
  PROVE  Abs!Enter(t)
<1> DEFINE R == InsideWith(t, current[t])
<1>1. /\ phase[t] \in {"acquire", "try"} /\ phase'[t] = "idle"
      /\ current[t] \in Levels
      /\ current'[t] = current[t] + 1 /\ queues' = queues
      /\ \A u \in Threads : u # t => phase'[u] = phase[u] /\ current'[u] = current[u]
  BY CurrentBounds DEF Enter, IInv, TypeOK, LoopsInRange, LoopInRange
<1>2. /\ Depth(t) = current[t] /\ Depth(t) \in Nat /\ Depth(t)' = Depth(t) + 1
      /\ \A u \in Threads : u # t => Depth(u)' = Depth(u)
  BY <1>1, DepthBounds DEF Depth
<1>3. \A u \in Threads : \A k : InsideWith(u, k)' = InsideWith(u, k)
  BY <1>1 DEF InsideWith
<1>4. R \subseteq Requests /\ \A r \in R : t \in locks[r.obj][r.mode]
  BY TakenIsHeld
<1>5. \A r, s \in R : r.obj = s.obj => r = s
  <2>. SUFFICES ASSUME NEW r \in R, NEW s \in R, r.obj = s.obj
                PROVE  r = s
    OBVIOUS
  <2>1. PICK i \in DOMAIN queues[t][current[t]] : r = queues[t][current[t]][i]
    BY <1>1, QueueFacts DEF InsideWith, ToSet, IInv
  <2>2. PICK j \in DOMAIN queues[t][current[t]] : s = queues[t][current[t]][j]
    BY <1>1, QueueFacts DEF InsideWith, ToSet, IInv
  <2>3. Sorted(queues[t][current[t]])
    BY <1>1 DEF IInv, QueuesSorted
  <2>4. /\ i \in Nat /\ j \in Nat /\ r.obj \in Nat /\ s.obj \in Nat
    BY <1>1, <1>4, <2>1, <2>2, QueueFacts, RequestFacts DEF IInv
  <2>5. i = j
    BY <2>1, <2>2, <2>3, <2>4 DEF Sorted
  <2>. QED  BY <2>1, <2>2, <2>5
<1>6. ASSUME NEW u \in Threads \ {t}, NEW r \in R, NEW k \in DOMAIN Blocks[u], NEW s \in Blocks[u][k]
      PROVE  ~(r.obj = s.obj /\ "Exclusive" \in {r.mode, s.mode})
  <2>1. k \in 1 .. Depth(u) /\ s \in InsideWith(u, k - 1)
    BY <1>6, BlocksType
  <2>2. k - 1 \in 0 .. Depth(u) - 1
    BY <2>1, DepthBounds
  <2>3. s \in Requests /\ u \in locks[s.obj][s.mode]
    BY <2>1, <2>2, InsideIsHeld
  <2>4. /\ LockExcludes(locks[r.obj])
        /\ t \in locks[r.obj][r.mode] /\ r.mode \in Modes /\ s.mode \in Modes
    BY <1>4, <2>3, RequestFacts DEF IInv
  <2>. QED  BY <2>3, <2>4 DEF LockExcludes, Modes
<1> DEFINE g == [k \in 1 .. Depth(t) + 1 |-> InsideWith(t, k - 1)]
<1>7. g = Append(Blocks[t], R)
  <2>1. \A k \in 1 .. Depth(t) : k \in 1 .. Depth(t) + 1
    BY <1>2
  <2>2. /\ Blocks[t] \in [1 .. Depth(t) -> SUBSET Requests]
        /\ \A k \in 1 .. Depth(t) : g[k] = Blocks[t][k]
    BY <2>1, BlocksType
  <2>3. Depth(t) + 1 \in 1 .. Depth(t) + 1 /\ g[Depth(t) + 1] = R
    BY <1>2
  <2>4. \A k \in 1 .. Depth(t) + 1 : k \in 1 .. Depth(t) \/ k = Depth(t) + 1
    BY <1>2
  <2>5. \A k \in 1 .. Depth(t) + 1 : g[k] \in SUBSET Requests
    BY <1>4, <2>2, <2>3, <2>4
  <2>6. g \in [1 .. Depth(t) + 1 -> SUBSET Requests]
    BY <2>5
  <2> HIDE DEF g, R
  <2>. QED  BY <1>2, <2>2, <2>3, <2>6, AppendIs
<1>8. Blocks' = [Blocks EXCEPT ![t] = Append(@, R)]
  <2>1. \A u \in Threads : Blocks'[u] = [k \in 1 .. Depth(u)' |-> InsideWith(u, k - 1)]
    BY <1>3 DEF Blocks
  <2>2. Blocks'[t] = Append(Blocks[t], R)
    BY <1>2, <1>7, <2>1
  <2>3. \A u \in Threads : u # t => Blocks'[u] = Blocks[u]
    BY <1>2, <2>1 DEF Blocks
  <2>. QED  BY <2>2, <2>3 DEF Blocks
<1>9. \A u \in Threads \ {t} : \A r \in R, s \in Abs!Granted(u) : ~Abs!Conflict(r, s)
  BY <1>6 DEF Abs!Granted, Abs!Conflict, Blocks
<1> HIDE DEF R
<1>. QED  BY <1>4, <1>5, <1>8, <1>9 DEF Abs!Enter, Blocks

\* Every other step leaves the blocks as they are: what it changes is the loop
\* of one thread, or a queue that is not below the depth of its thread.
LEMMA QuietSteps ==
  ASSUME IInv, NEW t \in Threads,
         /\ \A u \in Threads : u # t =>
              /\ phase'[u] = phase[u]
              /\ current'[u] = current[u]
              /\ queues'[u] = queues[u]
         /\ Depth(t)' = Depth(t)
         /\ \A l \in Levels : l < Depth(t) => queues'[t][l] = queues[t][l]
  PROVE  Blocks' = Blocks
<1>1. \A u \in Threads : Depth(u)' = Depth(u)
  BY DEF Depth
<1>2. \A u \in Threads, l \in Levels : l < Depth(u) => queues'[u][l] = queues[u][l]
  OBVIOUS
<1>. QED  BY <1>1, <1>2, SameBlocks

\* The queue a step changes is at the level its thread adds to, or the one its
\* unlock has already left.
LEMMA OtherLevelsKept ==
  ASSUME IInv, NEW t \in Threads, NEW m \in Levels, NEW q, m >= Depth(t),
         queues' = [queues EXCEPT ![t][m] = q]
  PROVE  /\ \A u \in Threads : u # t => queues'[u] = queues[u]
         /\ \A l \in Levels : l < Depth(t) => queues'[t][l] = queues[t][l]
<1>1. /\ \A u \in Threads : u # t => queues'[u] = queues[u]
      /\ \A l \in Levels : l # m => queues'[t][l] = queues[t][l]
  BY DEF IInv, TypeOK
<1>2. \A l \in Levels : l < Depth(t) => l # m
  BY LevelBounds, DepthBounds
<1>. QED  BY <1>1, <1>2

\* A step of the queues enters a block, leaves one or changes none.
LEMMA BlocksStep ==
  ASSUME IInv, IInv', [Next]_vars
  PROVE  [Abs!Next]_Blocks
<1>1. CASE UNCHANGED vars
  BY <1>1, SameBlocks DEF vars, Depth
<1>2. CASE Next
  <2>1. PICK t \in Threads :
          (\E r \in Requests : Add(t, r)) \/ Lock(t) \/ TryLock(t) \/ Unlock(t) \/ Continue(t)
    BY <1>2 DEF Next
  <2>2. CASE \E r \in Requests : Add(t, r)
    <3>1. PICK r \in Requests : Add(t, r)
      BY <2>2
    <3>2. /\ current[t] \in Levels /\ phase' = phase /\ current' = current
          /\ \E q : queues' = [queues EXCEPT ![t][current[t]] = q]
      BY <3>1 DEF Add
    <3>3. Depth(t) <= current[t] /\ current[t] >= Depth(t) /\ Depth(t)' = Depth(t)
      BY <3>2, DepthBounds DEF Depth
    <3>4. /\ \A u \in Threads : u # t => queues'[u] = queues[u]
          /\ \A l \in Levels : l < Depth(t) => queues'[t][l] = queues[t][l]
      BY <3>2, <3>3, OtherLevelsKept
    <3>5. \A u \in Threads : phase'[u] = phase[u] /\ current'[u] = current[u]
      BY <3>2
    <3>. QED  BY <3>3, <3>4, <3>5, QuietSteps
  <2>3. CASE Lock(t) \/ TryLock(t) \/ Refused(t)
    <3>1. /\ queues' = queues /\ current' = current
          /\ phase[t] # "release" /\ phase'[t] # "release"
          /\ \A u \in Threads : u # t => phase'[u] = phase[u]
      BY <2>3 DEF Lock, TryLock, Refused, MayLock, Start, IInv, TypeOK
    <3>2. Depth(t)' = Depth(t)
      BY <3>1 DEF Depth
    <3>. QED  BY <3>1, <3>2, QuietSteps
  <2>4. CASE TakeNext(t) \/ GiveBackNext(t) \/ ReleaseNext(t)
    <3>1. queues' = queues /\ current' = current /\ phase' = phase
      <4>1. CASE TakeNext(t)
        BY <4>1 DEF TakeNext
      <4>2. CASE GiveBackNext(t)
        BY <4>2 DEF GiveBackNext
      <4>3. CASE ReleaseNext(t)
        BY <4>3 DEF ReleaseNext
      <4>. QED  BY <2>4, <4>1, <4>2, <4>3
    <3>. QED  BY <3>1, SameBlocks DEF Depth
  <2>5. CASE GiveUp(t)
    <3>1. /\ current[t] \in Levels /\ current' = current
          /\ queues' = [queues EXCEPT ![t][current[t]] = << >>]
          /\ phase[t] # "release" /\ phase'[t] # "release"
          /\ \A u \in Threads : u # t => phase'[u] = phase[u]
      BY <2>5 DEF GiveUp, IInv, TypeOK, LoopsInRange, LoopInRange
    <3>2. Depth(t)' = Depth(t) /\ current[t] >= Depth(t)
      BY <3>1, DepthBounds DEF Depth
    <3>3. /\ \A u \in Threads : u # t => queues'[u] = queues[u]
          /\ \A l \in Levels : l < Depth(t) => queues'[t][l] = queues[t][l]
      BY <3>1, <3>2, OtherLevelsKept
    <3>. QED  BY <3>1, <3>2, <3>3, QuietSteps
  <2>6. CASE Leave(t)
    <3>1. /\ phase[t] = "release" /\ phase'[t] = "idle"
          /\ current[t] > 0 /\ current'[t] = current[t] - 1
          /\ queues' = [queues EXCEPT ![t][current[t] - 1] = << >>]
          /\ \A u \in Threads : u # t => phase'[u] = phase[u] /\ current'[u] = current[u]
      BY <2>6 DEF Leave, IInv, TypeOK, LoopsInRange, LoopInRange
    <3>2. /\ Depth(t)' = Depth(t) /\ current[t] - 1 >= Depth(t)
          /\ current[t] - 1 \in Levels
      BY <3>1, DepthBounds, LevelBounds DEF Depth
    <3>3. /\ \A u \in Threads : u # t => queues'[u] = queues[u]
          /\ \A l \in Levels : l < Depth(t) => queues'[t][l] = queues[t][l]
      BY <3>1, <3>2, OtherLevelsKept
    <3>. QED  BY <3>1, <3>2, <3>3, QuietSteps
  <2>7. CASE Unlock(t)
    BY <2>7, UnlockLeaves DEF Abs!Next
  <2>8. CASE Enter(t)
    BY <2>8, EnterEnters DEF Abs!Next
  <2>. QED  BY <2>1, <2>2, <2>3, <2>4, <2>5, <2>6, <2>7, <2>8 DEF Continue
<1>. QED  BY <1>1, <1>2

\* The queues implement sync blocks that are entered and left in one step each,
\* with everything asked for or nothing, and never with a conflicting request:
\* what a program may assume of cubs_sync_queue_lock, try_lock and unlock.
THEOREM ImplementsBlocks == Spec => ImplementsSyncBlocks
<1>1. Init => Abs!Init
  <2>. SUFFICES ASSUME Init, NEW t \in Threads
                PROVE  [k \in 1 .. Depth(t) |-> InsideWith(t, k - 1)] = << >>
    BY DEF Abs!Init
  <2>1. Depth(t) = 0
    BY DEF Init, Depth
  <2>2. 1 .. 0 = {}
    OBVIOUS
  <2> DEFINE f == [k \in 1 .. 0 |-> InsideWith(t, k - 1)]
  <2>3. f \in Seq(SUBSET Requests) /\ Len(f) = 0
    <3>1. f \in [1 .. 0 -> SUBSET Requests]
      BY <2>2
    <3> HIDE DEF f
    <3>. QED  BY <3>1, SeqOfLength
  <2> HIDE DEF f
  <2>4. f = << >>
    BY <2>3, EmptySeq
  <2>. QED  BY <2>1, <2>4 DEF f
<1>2. IInv /\ IInv' /\ [Next]_vars => [Abs!Next]_Blocks
  BY BlocksStep
<1>3. Blocks' = Blocks => [Abs!Next]_Blocks
  OBVIOUS
<1>. QED  BY <1>1, <1>2, Invariance, PTL DEF Spec, ImplementsSyncBlocks, Abs!Spec, Blocks
-----------------------------------------------------------------------------
(***************************************************************************)
(* No deadlock, as long as the locks are waited for in address order.      *)
(***************************************************************************)

\* The object whose lock a blocked thread waits for.
Awaited(t) == Pending(t)[iter[t]].obj

\* No thread waits for a lock below one it holds: what a program that nests
\* sync blocks has to see to, since nothing orders the levels.
WaitsInOrder ==
  \A t \in Threads : Blocked(t) =>
    \A o \in Objects, mode \in Modes : Holds(t, o, mode) => o < Awaited(t)

\* A thread waits for an object of the program, which another thread holds.
LEMMA AwaitedIsHeld ==
  ASSUME IInv, NEW t \in Threads, Blocked(t)
  PROVE  /\ Awaited(t) \in Objects
         /\ \E u \in Threads, mode \in Modes : Holds(u, Awaited(t), mode)
<1>1. TypeOK
  BY DEF IInv
<1>2. current[t] \in Levels /\ iter[t] \in 1 .. Len(Pending(t))
  BY <1>1, CurrentBounds, QueueFacts DEF Blocked, IInv, LoopsInRange, LoopInRange
<1>3. Awaited(t) \in Objects
  <2>1. Pending(t) \in Seq(Requests)
    BY <1>1, <1>2 DEF TypeOK
  <2>2. Pending(t)[iter[t]] \in Requests
    BY <1>2, <2>1, ElementOfSeq
  <2>. QED  BY <2>2, RequestFacts DEF Awaited
<1>4. locks[Awaited(t)] \in RwLocks
  BY <1>1, <1>3 DEF TypeOK
<1>5. PICK mode \in Modes : locks[Awaited(t)][mode] # {}
  <2>1. \/ locks[Awaited(t)]["Exclusive"] # {}
        \/ locks[Awaited(t)]["Shared"] # {}
    <3> DEFINE lock == locks[Awaited(t)]
               m == Pending(t)[iter[t]].mode
    <3>1. ~Available(lock, m)
      BY DEF Blocked, EntryAvailable, Awaited
    <3> HIDE DEF lock, m
    <3>2. lock["Exclusive"] # {} \/ lock["Shared"] # {}
      BY <3>1 DEF Available
    <3>. QED  BY <3>2 DEF lock
  <2>. QED  BY <2>1 DEF Modes
<1>6. PICK u \in Threads : u \in locks[Awaited(t)][mode]
  BY <1>4, <1>5 DEF RwLocks
<1>. QED  BY <1>3, <1>6 DEF IInv, LocksMatchQueues

\* Of the threads that wait, one that waits for the greatest object waits for
\* a thread that does not wait.
LEMMA OrderedWaitsEnd ==
  ASSUME IInv, WaitsInOrder
  PROVE  NoDeadlock
<1>. SUFFICES ASSUME NEW s \in Threads, Blocked(s)
              PROVE  \E u \in Threads :
                       ~Blocked(u) /\ \E o \in Objects, mode \in Modes : Holds(u, o, mode)
  BY DEF NoDeadlock
<1> DEFINE W == {Awaited(t) : t \in {v \in Threads : Blocked(v)}}
<1>1. W \subseteq Objects /\ W # {}
  BY AwaitedIsHeld
<1>2. IsFiniteSet(W) /\ W \in SUBSET Nat
  BY <1>1, ObjectsAssumption, FS_Subset
<1> HIDE DEF W
<1>3. PICK w \in W : \A a \in W : a <= w
  BY <1>1, <1>2, GreatestOfFinite
<1>4. PICK t \in Threads : Blocked(t) /\ Awaited(t) = w
  BY DEF W
<1>5. PICK u \in Threads, mode \in Modes : Holds(u, w, mode)
  BY <1>4, AwaitedIsHeld
<1>6. w \in Objects /\ w \in Nat
  BY <1>1, <1>2
<1>7. ASSUME Blocked(u)
      PROVE  FALSE
  <2>1. Awaited(u) \in W
    BY <1>7 DEF W
  <2>2. w < Awaited(u)
    BY <1>5, <1>6, <1>7 DEF WaitsInOrder
  <2>3. Awaited(u) <= w /\ Awaited(u) \in Nat
    BY <1>2, <1>3, <2>1
  <2>. QED  BY <1>6, <2>2, <2>3
<1>. QED  BY <1>5, <1>6, <1>7

\* For any number of threads, objects and levels: in every state where the
\* threads wait in order, some thread that holds a lock can go on.
THEOREM DeadlockFreeInOrder == Spec => [](WaitsInOrder => NoDeadlock)
<1>1. IInv => (WaitsInOrder => NoDeadlock)
  BY OrderedWaitsEnd
<1>. QED  BY <1>1, Invariance, PTL

\* Without nesting the sorted queues see to that order.
LEMMA FlatWaitsInOrder ==
  ASSUME IInv, MaxLevel = 1
  PROVE  WaitsInOrder
<1>. SUFFICES ASSUME NEW t \in Threads, Blocked(t),
                     NEW o \in Objects, NEW mode \in Modes, Holds(t, o, mode)
              PROVE  o < Awaited(t)
  BY DEF WaitsInOrder
<1>1. TypeOK /\ current[t] = 0 /\ 0 \in Levels
  BY LevelBounds DEF Blocked, IInv, LoopsInRange, LoopInRange
<1>2. iter[t] \in 1 .. Len(Pending(t))
  BY <1>1, CurrentBounds, QueueFacts DEF Blocked
<1>3. PICK l \in Levels : \E i \in HeldIndices(t, l) :
        queues[t][l][i] = [obj |-> o, mode |-> mode]
  BY DEF Holds
<1>4. l = 0
  BY LevelBounds
<1>5. PICK i \in HeldIndices(t, 0) : queues[t][0][i].obj = o
  BY <1>3, <1>4
<1>6. i < iter[t] /\ i \in DOMAIN queues[t][0]
  BY <1>1 DEF HeldIndices
<1>7. Sorted(queues[t][0])
  BY <1>1 DEF IInv, QueuesSorted
<1>8. iter[t] \in DOMAIN queues[t][0]
  BY <1>1, <1>2, QueueFacts
<1>. QED  BY <1>1, <1>5, <1>6, <1>7, <1>8 DEF Sorted, Awaited

\* Threads that do not nest sync blocks never deadlock, however many they are
\* and whatever they sync on: when one is blocked, another that holds a lock can
\* go on.
THEOREM FlatDeadlockFree == MaxLevel = 1 /\ Spec => []NoDeadlock
<1>1. ASSUME MaxLevel = 1
      PROVE  IInv => NoDeadlock
  BY <1>1, FlatWaitsInOrder, OrderedWaitsEnd
<1>2. CASE MaxLevel = 1
  BY <1>1, <1>2, Invariance, PTL
<1>3. CASE MaxLevel # 1
  BY <1>3
<1>. QED  BY <1>2, <1>3
-----------------------------------------------------------------------------
(***************************************************************************)
(* The buffers of the queues.                                              *)
(***************************************************************************)

\* A buffer has one of the sizes add_sync_object gives it, and room for the
\* queue as long as the queue has no more entries than the largest of them.
RoomInBuffers ==
  \A t \in Threads, l \in Levels :
    /\ capacity[t][l] \in {0, FirstCapacity, 2 * FirstCapacity}
    /\ Len(queues[t][l]) <= 2 * FirstCapacity => Len(queues[t][l]) <= capacity[t][l]

\* An add makes the queue longer by at most one entry.
LEMMA WithEntryLength ==
  ASSUME NEW q \in Seq(Requests), NEW i \in 1 .. Len(q) + 1, NEW r \in Requests
  PROVE  /\ Len(q) \in Nat
         /\ Len(WithEntry(q, i, r)) \in {Len(q), Len(q) + 1}
BY InsertAtShifts, LenProperties DEF WithEntry

\* Every step keeps the entries inside the buffers.
LEMMA RoomStep ==
  ASSUME IInv, RoomInBuffers, [Next]_vars
  PROVE  RoomInBuffers'
<1>0. TypeOK
  BY DEF IInv
<1>1. CASE UNCHANGED <<queues, capacity>>
  BY <1>1 DEF RoomInBuffers
<1>2. ASSUME NEW t \in Threads, NEW m \in Levels,
             queues' = [queues EXCEPT ![t][m] = << >>], capacity' = capacity
      PROVE  RoomInBuffers'
  <2>1. ASSUME NEW u \in Threads, NEW l \in Levels
        PROVE  Len(queues'[u][l]) <= 2 * FirstCapacity =>
                 Len(queues'[u][l]) <= capacity'[u][l]
    <3>1. CASE u = t /\ l = m
      <4>1. queues'[u][l] = << >>
        BY <1>0, <1>2, <3>1 DEF TypeOK
      <4>2. capacity'[u][l] \in Nat
        BY <1>0, <1>2 DEF TypeOK
      <4>. QED  BY <4>1, <4>2
    <3>2. CASE ~(u = t /\ l = m)
      <4>1. queues'[u][l] = queues[u][l]
        BY <1>0, <1>2, <3>2 DEF TypeOK
      <4>. QED  BY <1>2, <4>1 DEF RoomInBuffers
    <3>. QED  BY <3>1, <3>2
  <2>2. \A u \in Threads, l \in Levels :
          capacity'[u][l] \in {0, FirstCapacity, 2 * FirstCapacity}
    BY <1>2 DEF RoomInBuffers
  <2>. QED  BY <2>1, <2>2 DEF RoomInBuffers
<1>3. ASSUME NEW t \in Threads, NEW r \in Requests, Add(t, r)
      PROVE  RoomInBuffers'
  <2> DEFINE m == current[t]
             q == queues[t][m]
             c == capacity[t][m]
  <2>0. m \in Levels /\ q \in Seq(Requests) /\ c \in {0, FirstCapacity, 2 * FirstCapacity}
    BY <1>0, <1>3 DEF Add, TypeOK, RoomInBuffers
  <2>1. PICK i \in 1 .. Len(q) + 1 :
          queues' = [queues EXCEPT ![t][m] = WithEntry(@, i, r)]
    BY <1>3 DEF Add
  <2>2. queues'[t][m] = WithEntry(q, i, r)
    BY <1>0, <2>0, <2>1 DEF TypeOK
  <2>3. capacity'[t][m] = GrownCapacity(Len(q), c)
    BY <1>0, <1>3, <2>0 DEF Add, TypeOK
  <2>4. ASSUME NEW u \in Threads, NEW l \in Levels, ~(u = t /\ l = m)
        PROVE  queues'[u][l] = queues[u][l] /\ capacity'[u][l] = capacity[u][l]
    BY <1>0, <1>3, <2>1, <2>4 DEF Add, TypeOK
  <2>5. Len(q) \in Nat /\ Len(queues'[t][m]) \in {Len(q), Len(q) + 1}
    BY <2>0, <2>2, WithEntryLength
  <2>6. Len(q) <= 2 * FirstCapacity => Len(q) <= c
    BY <2>0 DEF RoomInBuffers
  <2>7. FirstCapacity \in Nat /\ FirstCapacity >= 1
    BY FirstCapacityAssumption
  <2> DEFINE k == Len(queues'[t][m])
             d == capacity'[t][m]
             n == Len(q)
  <2>8. /\ d \in {0, FirstCapacity, 2 * FirstCapacity}
        /\ k <= 2 * FirstCapacity => k <= d
    <3>1. d = IF n + 1 <= c THEN c ELSE IF c = 0 THEN FirstCapacity ELSE 2 * FirstCapacity
      BY <2>3 DEF GrownCapacity
    <3>2. n \in Nat /\ k \in {n, n + 1}
      BY <2>5
    <3>3. n <= 2 * FirstCapacity => n <= c
      BY <2>6
    <3>4. c \in {0, FirstCapacity, 2 * FirstCapacity}
      BY <2>0
    <3> HIDE DEF k, d, n, c, m, q
    <3>5. CASE n + 1 <= c
      BY <2>7, <3>1, <3>2, <3>4, <3>5
    <3>6. CASE ~(n + 1 <= c) /\ c = 0
      BY <2>7, <3>1, <3>2, <3>3, <3>6
    <3>7. CASE ~(n + 1 <= c) /\ c # 0
      BY <2>7, <3>1, <3>2, <3>3, <3>4, <3>7
    <3>. QED  BY <3>5, <3>6, <3>7
  <2>9. ASSUME NEW u \in Threads, NEW l \in Levels
        PROVE  /\ capacity'[u][l] \in {0, FirstCapacity, 2 * FirstCapacity}
               /\ Len(queues'[u][l]) <= 2 * FirstCapacity =>
                    Len(queues'[u][l]) <= capacity'[u][l]
    <3>1. CASE u = t /\ l = m
      BY <2>8, <3>1
    <3>2. CASE ~(u = t /\ l = m)
      BY <2>4, <3>2 DEF RoomInBuffers
    <3>. QED  BY <3>1, <3>2
  <2>. QED  BY <2>9 DEF RoomInBuffers
<1>4. ASSUME NEW t \in Threads, GiveUp(t)
      PROVE  RoomInBuffers'
  <2>1. current[t] \in Levels
    BY <1>4 DEF GiveUp, IInv, LoopsInRange, LoopInRange
  <2>. QED  BY <1>2, <1>4, <2>1 DEF GiveUp
<1>5. ASSUME NEW t \in Threads, Leave(t)
      PROVE  RoomInBuffers'
  <2>1. current[t] - 1 \in Levels
    BY <1>0, <1>5, CurrentBounds DEF Leave, IInv, LoopsInRange, LoopInRange
  <2>. QED  BY <1>2, <1>5, <2>1 DEF Leave
<1>6. ASSUME NEW t \in Threads,
             Lock(t) \/ TryLock(t) \/ Unlock(t) \/ TakeNext(t) \/ Enter(t)
               \/ Refused(t) \/ GiveBackNext(t) \/ ReleaseNext(t)
      PROVE  UNCHANGED <<queues, capacity>>
  <2>1. CASE Lock(t) \/ TryLock(t) \/ Unlock(t)
    BY <2>1 DEF Lock, TryLock, Unlock, Start
  <2>2. CASE TakeNext(t) \/ Enter(t) \/ Refused(t)
    BY <2>2 DEF TakeNext, Enter, Refused
  <2>3. CASE GiveBackNext(t) \/ ReleaseNext(t)
    BY <2>3 DEF GiveBackNext, ReleaseNext
  <2>. QED  BY <1>6, <2>1, <2>2, <2>3
<1>7. CASE UNCHANGED vars
  BY <1>1, <1>7 DEF vars
<1>. QED  BY <1>1, <1>3, <1>4, <1>5, <1>6, <1>7 DEF Next, Continue

\* No store of add_sync_object is out of bounds before a queue has more than
\* twice the entries of its first buffer, whatever the objects are.
THEOREM RoomUpToTwice == Spec => []RoomInBuffers
<1>1. Init => RoomInBuffers
  BY DEF Init, RoomInBuffers
<1>2. IInv /\ RoomInBuffers /\ [Next]_vars => RoomInBuffers'
  BY RoomStep
<1>. QED  BY <1>1, <1>2, Invariance, PTL DEF Spec

\* A sorted queue names every object once.
LEMMA QueueWithinObjects ==
  ASSUME IInv, NEW t \in Threads, NEW l \in Levels
  PROVE  Len(queues[t][l]) <= Cardinality(Objects)
<1> DEFINE q == queues[t][l]
           f == [i \in 1 .. Len(q) |-> q[i].obj]
<1>1. /\ Len(q) \in Nat
      /\ DOMAIN q = 1 .. Len(q)
      /\ \A i \in 1 .. Len(q) : q[i].obj \in Objects /\ q[i].obj \in Nat
  BY QueueFacts, ObjectsAssumption DEF IInv
<1>2. Sorted(q)
  BY DEF IInv, QueuesSorted
<1> HIDE DEF q
<1>3. f \in [1 .. Len(q) -> Objects]
  BY <1>1
<1>4. ASSUME NEW i \in 1 .. Len(q), NEW j \in 1 .. Len(q), i # j
      PROVE  f[i] # f[j]
  <2>1. i < j \/ j < i
    BY <1>1, <1>4
  <2>. QED  BY <1>1, <1>2, <2>1 DEF Sorted
<1>5. f \in Injection(1 .. Len(q), Objects)
  BY <1>3, <1>4 DEF Injection, IsInjective
<1>6. Cardinality(1 .. Len(q)) <= Cardinality(Objects)
  <2> HIDE DEF f
  <2>. QED  BY <1>5, ObjectsAssumption, FS_Injection
<1>7. Cardinality(1 .. Len(q)) = Len(q)
  <2>1. 1 \in Int /\ Len(q) \in Int
    BY <1>1
  <2>2. Cardinality(1 .. Len(q)) = IF 1 > Len(q) THEN 0 ELSE Len(q) - 1 + 1
    BY <2>1, FS_Interval
  <2>. QED  BY <1>1, <2>2
<1>. QED  BY <1>6, <1>7 DEF q

\* A program with no more objects than twice the entries of a first buffer never
\* overruns one, however many threads add them and at whatever levels; the run
\* syncqueue_overrun shows that one object more is too many.
THEOREM AlwaysWithinCapacity ==
  Cardinality(Objects) <= 2 * FirstCapacity /\ Spec => []WithinCapacity
<1>1. ASSUME Cardinality(Objects) <= 2 * FirstCapacity, IInv, RoomInBuffers
      PROVE  WithinCapacity
  <2>. SUFFICES ASSUME NEW t \in Threads, NEW l \in Levels
                PROVE  Len(queues[t][l]) <= capacity[t][l]
    BY DEF WithinCapacity
  <2>1. Len(queues[t][l]) <= Cardinality(Objects) /\ Len(queues[t][l]) \in Nat
    BY <1>1, QueueWithinObjects, QueueFacts DEF IInv
  <2>2. Cardinality(Objects) \in Nat
    BY ObjectsAssumption, FS_CardinalityType
  <2>3. Len(queues[t][l]) <= 2 * FirstCapacity
    BY <1>1, <2>1, <2>2, FirstCapacityAssumption
  <2>. QED  BY <1>1, <2>3 DEF RoomInBuffers
<1>2. CASE Cardinality(Objects) <= 2 * FirstCapacity
  <2>1. IInv /\ RoomInBuffers => WithinCapacity
    BY <1>1, <1>2
  <2>. QED  BY <2>1, Invariance, RoomUpToTwice, PTL
<1>3. CASE ~(Cardinality(Objects) <= 2 * FirstCapacity)
  BY <1>3
<1>. QED  BY <1>2, <1>3
=============================================================================
