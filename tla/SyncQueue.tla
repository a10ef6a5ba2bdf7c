------------------------------ MODULE SyncQueue ------------------------------
(***************************************************************************)
(* The sync queues of src/src/sync/sync_queue.c: how a thread acquires the *)
(* objects of a sync block all together.                                   *)
(*                                                                         *)
(* A thread first ADDS the objects it needs, each with a mode, to the      *)
(* queue at its current level, which keeps them sorted by address and      *)
(* drops duplicates.  It then LOCKS the queue, taking the objects' locks   *)
(* one at a time in that order, or TRIES to, giving back those it got when *)
(* one is refused.  A locked queue is a level of nesting: the next objects *)
(* go to the queue above it.  UNLOCK gives back the objects of the topmost *)
(* locked queue and empties it.                                            *)
(*                                                                         *)
(* Every lock taken and every lock given back is a step of its own, so the *)
(* threads interleave between any two of them.  Adding works on            *)
(* thread-local memory only and is one step.                               *)
(***************************************************************************)
EXTENDS RwLock, Naturals, SequencesExt

CONSTANTS
  Objects,          \* the addresses of the sync objects
  Requests,         \* the objects the program syncs on, each with a mode
  MaxLevel,         \* bound on the depth of nested sync blocks
  FirstCapacity,    \* entries of a queue's first buffer: 64 / 16 bytes
  FirstQueueCount   \* queues of a thread's first array: 64 / 32 bytes

ASSUME ObjectsAssumption == Objects \subseteq Nat /\ IsFiniteSet(Objects)
ASSUME RequestsAssumption == Requests \subseteq [obj : Objects, mode : Modes]
ASSUME MaxLevelAssumption == MaxLevel \in Nat \ {0}
ASSUME FirstCapacityAssumption == FirstCapacity \in Nat \ {0}
ASSUME FirstQueueCountAssumption == FirstQueueCount \in Nat \ {0}

VARIABLES
  queues,      \* queues[t][l]: the entries of thread t's queue at level l
  capacity,    \* capacity[t][l]: the entries that queue's buffer has room for
  queueCount,  \* queueCount[t]: the queues t's thread-local array has room for
  current,     \* current[t]: the level t adds to; the levels below are locked
  phase,       \* phase[t]: the loop t is running, "idle" between calls
  iter,        \* iter[t]: the entry that loop is at
  locks        \* locks[o]: the lock of object o

vars == <<queues, capacity, queueCount, current, phase, iter, locks>>

Levels == 0 .. (MaxLevel - 1)

Phases == {"idle", "acquire", "try", "backout", "release"}

\* The queue thread t adds to and locks, and the one it unlocks.
Pending(t) == queues[t][current[t]]
Topmost(t) == queues[t][current[t] - 1]

\* Every variable has its type; in particular the level a thread adds to stays
\* within the bound on nesting: each lock that advances it is undone by an unlock.
TypeOK ==
  /\ queues \in [Threads -> [Levels -> Seq(Requests)]]
  /\ capacity \in [Threads -> [Levels -> Nat]]
  /\ queueCount \in [Threads -> Nat]
  /\ current \in [Threads -> 0 .. MaxLevel]
  /\ phase \in [Threads -> Phases]
  /\ iter \in [Threads -> Nat \ {0}]
  /\ locks \in [Objects -> RwLocks]

Init ==
  /\ queues = [t \in Threads |-> [l \in Levels |-> << >>]]
  /\ capacity = [t \in Threads |-> [l \in Levels |-> 0]]
  /\ queueCount = [t \in Threads |-> 0]
  /\ current = [t \in Threads |-> 0]
  /\ phase = [t \in Threads |-> "idle"]
  /\ iter = [t \in Threads |-> 1]
  /\ locks = [o \in Objects |-> Unlocked]
-----------------------------------------------------------------------------
(***************************************************************************)
(* Adding an object.                                                       *)
(***************************************************************************)

\* A mutant: grows one level too late.
EnsuredTooLate(t) ==
  IF current[t] <= queueCount[t] THEN queueCount[t]
  ELSE IF queueCount[t] = 0 THEN FirstQueueCount
  ELSE 2 * queueCount[t]

\* queues_ensure_total_capacity: room for the queue at the current level.
EnsuredQueueCount(t) ==
  IF current[t] + 1 <= queueCount[t] THEN queueCount[t]
  ELSE IF queueCount[t] = 0 THEN FirstQueueCount
  ELSE 2 * queueCount[t]

\* A mutant: grows when the buffer has overflowed, not when it is full.
GrownTooLate(len, cap) ==
  IF cap # 0 /\ len <= cap THEN cap
  ELSE IF cap = 0 THEN FirstCapacity
  ELSE 2 * FirstCapacity

\* The growth at the top of add_sync_object.  The new capacity is computed
\* from the first one, whatever the buffer already holds.
GrownCapacity(len, cap) ==
  IF len + 1 <= cap THEN cap
  ELSE IF cap = 0 THEN FirstCapacity
  ELSE 2 * FirstCapacity

\* The search loop stops at the first entry whose address is not below o's.
StopsAt(q, o, i) ==
  /\ i \in 1 .. Len(q) + 1
  /\ \A j \in 1 .. i - 1 : q[j].obj < o
  /\ i <= Len(q) => q[i].obj >= o

\* A mutant: entries stay in the order of the adds.
WithEntryAtEnd(q, i, r) ==
  IF i <= Len(q) /\ q[i].obj = r.obj THEN q ELSE Append(q, r)

\* There it finds the object already queued and returns, or moves the rest up
\* and stores the new entry.
WithEntry(q, i, r) ==
  IF i <= Len(q) /\ q[i].obj = r.obj THEN q ELSE InsertAt(q, i, r)

\* cubs_sync_queue_add_exclusive or cubs_sync_queue_add_shared of r.obj.
Add(t, r) ==
  /\ phase[t] = "idle"
  /\ current[t] \in Levels
  /\ queueCount' = [queueCount EXCEPT ![t] = EnsuredQueueCount(t)]
  /\ capacity' = [capacity EXCEPT ![t][current[t]] =
                    GrownCapacity(Len(Pending(t)), @)]
  /\ \E i \in 1 .. Len(Pending(t)) + 1 :
       /\ StopsAt(Pending(t), r.obj, i)
       /\ queues' = [queues EXCEPT ![t][current[t]] = WithEntry(@, i, r)]
  /\ UNCHANGED <<current, phase, iter, locks>>
-----------------------------------------------------------------------------
(***************************************************************************)
(* Locking the pending queue.                                              *)
(***************************************************************************)

\* What a caller sees to: the array has a queue at the current level (it has
\* added to it before, or to one as deep), and no object of the queue is held
\* by an outer block of the same thread (the TODO of add_sync_object leaves
\* this to the caller).
MayLock(t) ==
  /\ phase[t] = "idle"
  /\ current[t] \in Levels
  /\ current[t] < queueCount[t]
  /\ \A i \in DOMAIN Pending(t), mode \in Modes :
       t \notin locks[Pending(t)[i].obj][mode]

Start(t, loop) ==
  /\ phase' = [phase EXCEPT ![t] = loop]
  /\ iter' = [iter EXCEPT ![t] = 1]
  /\ UNCHANGED <<queues, capacity, queueCount, current, locks>>

Lock(t) == MayLock(t) /\ Start(t, "acquire")

TryLock(t) == MayLock(t) /\ Start(t, "try")

\* The lock of the entry the loop of t is at can be taken now.
EntryAvailable(t) ==
  Available(locks[Pending(t)[iter[t]].obj], Pending(t)[iter[t]].mode)

\* One turn of the loop of acquire or try_acquire that takes the lock.  In
\* acquire it waits until the lock is available.
TakeNext(t) ==
  /\ phase[t] \in {"acquire", "try"}
  /\ iter[t] <= Len(Pending(t))
  /\ EntryAvailable(t)
  /\ LET e == Pending(t)[iter[t]]
     IN  locks' = [locks EXCEPT ![e.obj] = LockedBy(@, t, e.mode)]
  /\ iter' = [iter EXCEPT ![t] = @ + 1]
  /\ UNCHANGED <<queues, capacity, queueCount, current, phase>>

\* A mutant: the loop stops one entry early.
EnterTooEarly(t) ==
  /\ phase[t] \in {"acquire", "try"}
  /\ iter[t] >= Len(Pending(t))
  /\ phase' = [phase EXCEPT ![t] = "idle"]
  /\ iter' = [iter EXCEPT ![t] = 1]
  /\ current' = [current EXCEPT ![t] = @ + 1]
  /\ UNCHANGED <<queues, capacity, queueCount, locks>>

\* The loop has taken every lock: the queue becomes the topmost locked one.
Enter(t) ==
  /\ phase[t] \in {"acquire", "try"}
  /\ iter[t] > Len(Pending(t))
  /\ phase' = [phase EXCEPT ![t] = "idle"]
  /\ iter' = [iter EXCEPT ![t] = 1]
  /\ current' = [current EXCEPT ![t] = @ + 1]
  /\ UNCHANGED <<queues, capacity, queueCount, locks>>

\* A mutant: try_acquire waits for the lock instead.
RefusedNever(t) == phase[t] = "refused" /\ UNCHANGED vars

\* try_acquire is refused a lock and turns to giving back the earlier ones.
Refused(t) ==
  /\ phase[t] = "try"
  /\ iter[t] <= Len(Pending(t))
  /\ ~EntryAvailable(t)
  /\ phase' = [phase EXCEPT ![t] = "backout"]
  /\ UNCHANGED <<queues, capacity, queueCount, current, iter, locks>>

\* One turn of that loop, which runs from the last lock taken to the first.
GiveBackNext(t) ==
  /\ phase[t] = "backout"
  /\ iter[t] > 1
  /\ LET e == Pending(t)[iter[t] - 1]
     IN  locks' = [locks EXCEPT ![e.obj] = UnlockedBy(@, t, e.mode)]
  /\ iter' = [iter EXCEPT ![t] = @ - 1]
  /\ UNCHANGED <<queues, capacity, queueCount, current, phase>>

\* A mutant: the loop that gives back stops before the first entry.
GiveUpTooEarly(t) ==
  /\ phase[t] = "backout"
  /\ iter[t] \in {1, 2}
  /\ phase' = [phase EXCEPT ![t] = "idle"]
  /\ iter' = [iter EXCEPT ![t] = 1]
  /\ queues' = [queues EXCEPT ![t][current[t]] = << >>]
  /\ UNCHANGED <<capacity, queueCount, current, locks>>

\* try_acquire empties the queue and returns false.
GiveUp(t) ==
  /\ phase[t] = "backout"
  /\ iter[t] = 1
  /\ phase' = [phase EXCEPT ![t] = "idle"]
  /\ queues' = [queues EXCEPT ![t][current[t]] = << >>]
  /\ UNCHANGED <<capacity, queueCount, current, iter, locks>>
-----------------------------------------------------------------------------
(***************************************************************************)
(* Unlocking the topmost locked queue.                                     *)
(***************************************************************************)

Unlock(t) ==
  /\ phase[t] = "idle"
  /\ current[t] > 0
  /\ Start(t, "release")

\* A mutant: skips the locks held to read.
ReleaseOnlyExclusive(t) ==
  /\ phase[t] = "release"
  /\ iter[t] <= Len(Topmost(t))
  /\ LET e == Topmost(t)[iter[t]]
     IN  locks' = [locks EXCEPT ![e.obj] = UnlockedBy(@, t, "Exclusive")]
  /\ iter' = [iter EXCEPT ![t] = @ + 1]
  /\ UNCHANGED <<queues, capacity, queueCount, current, phase>>

\* One turn of the loop of release.
ReleaseNext(t) ==
  /\ phase[t] = "release"
  /\ iter[t] <= Len(Topmost(t))
  /\ LET e == Topmost(t)[iter[t]]
     IN  locks' = [locks EXCEPT ![e.obj] = UnlockedBy(@, t, e.mode)]
  /\ iter' = [iter EXCEPT ![t] = @ + 1]
  /\ UNCHANGED <<queues, capacity, queueCount, current, phase>>

\* The rest of cubs_sync_queue_unlock.  What was added above the queue and
\* not locked stays in its queue, for the next block at that level.
Leave(t) ==
  /\ phase[t] = "release"
  /\ iter[t] > Len(Topmost(t))
  /\ phase' = [phase EXCEPT ![t] = "idle"]
  /\ iter' = [iter EXCEPT ![t] = 1]
  /\ queues' = [queues EXCEPT ![t][current[t] - 1] = << >>]
  /\ current' = [current EXCEPT ![t] = @ - 1]
  /\ UNCHANGED <<capacity, queueCount, locks>>
-----------------------------------------------------------------------------
(***************************************************************************)
(* The specification.  Continue(t) is what thread t does inside a call; a  *)
(* thread inside a sync block leaves it after a while; nothing makes a     *)
(* thread start one.                                                       *)
(***************************************************************************)

Continue(t) ==
  \/ TakeNext(t) \/ Enter(t)
  \/ Refused(t) \/ GiveBackNext(t) \/ GiveUp(t)
  \/ ReleaseNext(t) \/ Leave(t)

Next ==
  \E t \in Threads :
    \/ \E r \in Requests : Add(t, r)
    \/ Lock(t)
    \/ TryLock(t)
    \/ Unlock(t)
    \/ Continue(t)

Spec == Init /\ [][Next]_vars

Fairness ==
  \A t \in Threads : WF_vars(Continue(t)) /\ WF_vars(Unlock(t))

FairSpec == Spec /\ Fairness
-----------------------------------------------------------------------------
(***************************************************************************)
(* Properties.                                                             *)
(***************************************************************************)

\* The entries of its queue at level l whose locks thread t holds.
HeldIndices(t, l) ==
  {i \in DOMAIN queues[t][l] :
     \/ l + 1 < current[t]
     \/ l + 1 = current[t] /\ (phase[t] = "release" => i >= iter[t])
     \/ l = current[t] /\ phase[t] \in {"acquire", "try", "backout"} /\ i < iter[t]}

Holds(t, o, mode) ==
  \E l \in Levels : \E i \in HeldIndices(t, l) :
    queues[t][l][i] = [obj |-> o, mode |-> mode]

\* The blocks thread t is inside of: one whose release has begun is left.
Depth(t) == IF phase[t] = "release" THEN current[t] - 1 ELSE current[t]

InsideWith(t, l) == ToSet(queues[t][l])

Sorted(q) == \A i, j \in DOMAIN q : i < j => q[i].obj < q[j].obj

\* Every queue is strictly sorted by address: add_sync_object keeps it so
\* whatever the order of the adds, and drops what is already there.
QueuesSorted ==
  \A t \in Threads, l \in Levels : Sorted(queues[t][l])

\* The locks held in the system are exactly those the queues account for:
\* none is forgotten by a try_lock that backed out or by an unlock, and none
\* is given back that its thread does not hold.
LocksMatchQueues ==
  \A o \in Objects, t \in Threads, mode \in Modes :
    t \in locks[o][mode] <=> Holds(t, o, mode)

\* The entries at level l that are the thread's own until it has given them
\* back: those it holds and those the loop it is in is still to take.
ClaimedIndices(t, l) ==
  {i \in DOMAIN queues[t][l] :
     \/ l + 1 < current[t]
     \/ l + 1 = current[t] /\ (phase[t] = "release" => i >= iter[t])
     \/ l = current[t] /\ phase[t] \in {"acquire", "try", "backout"}}

\* The loop of thread t stays inside the queue it runs over.
LoopInRange(t) ==
  /\ phase[t] = "idle" => iter[t] = 1
  /\ phase[t] \in {"acquire", "try"} =>
       current[t] \in Levels /\ iter[t] <= Len(Pending(t)) + 1
  /\ phase[t] = "backout" => current[t] \in Levels /\ iter[t] <= Len(Pending(t))
  /\ phase[t] = "release" => current[t] > 0 /\ iter[t] <= Len(Topmost(t)) + 1

LoopsInRange == \A t \in Threads : LoopInRange(t)

\* No object is claimed at two levels of one thread.
ClaimsDistinct ==
  \A t \in Threads, l, m \in Levels : l # m =>
    \A i \in ClaimedIndices(t, l), j \in ClaimedIndices(t, m) :
      queues[t][l][i].obj # queues[t][m][j].obj

\* The inductive invariant: mutual exclusion rests on every lock being held as
\* the queues account for it, and that on no thread holding a lock twice.
IInv ==
  /\ TypeOK
  /\ LoopsInRange
  /\ QueuesSorted
  /\ ClaimsDistinct
  /\ LocksMatchQueues
  /\ \A o \in Objects : LockExcludes(locks[o])

\* While a thread is inside a sync block with an object it asked to have
\* exclusively, no other thread is inside one with that object.
MutualExclusion ==
  \A t, u \in Threads : t # u =>
    \A k \in 0 .. Depth(t) - 1, l \in 0 .. Depth(u) - 1 :
      \A r \in InsideWith(t, k), s \in InsideWith(u, l) :
        r.obj = s.obj => r.mode = "Shared" /\ s.mode = "Shared"

\* A thread waits in the blocking acquire loop for a lock it cannot have now.
Blocked(t) ==
  /\ phase[t] = "acquire"
  /\ iter[t] <= Len(Pending(t))
  /\ ~EntryAvailable(t)

\* Not everyone who holds a lock waits for one: when a thread is blocked,
\* another holds a lock and can go on.  The sorted queues ensure it as long
\* as sync blocks are not nested (the test "no deadlocks").
NoDeadlock ==
  (\E t \in Threads : Blocked(t)) =>
    \E u \in Threads :
      ~Blocked(u) /\ \E o \in Objects, mode \in Modes : Holds(u, o, mode)

\* A queue never has more entries than its buffer has room for: the stores of
\* add_sync_object, and the assertion in its shifting loop, stay in bounds.
WithinCapacity ==
  \A t \in Threads, l \in Levels : Len(queues[t][l]) <= capacity[t][l]

\* Whatever a thread adds goes to a queue inside its array, and so does every
\* queue it has locked (the indexing of lines 187, 193, 208, 218 and 227).
LevelsAllocated ==
  \A t \in Threads :
    /\ current[t] <= queueCount[t]
    /\ \A l \in Levels : queues[t][l] # << >> => l < queueCount[t]

\* The implementation of sync blocks: entering is the step that follows the
\* last lock taken, leaving is the call of unlock.
Abs == INSTANCE SyncBlocks WITH
  blocks <- [t \in Threads |-> [k \in 1 .. Depth(t) |-> InsideWith(t, k - 1)]]

ImplementsSyncBlocks == Abs!Spec

\* Calls of try_lock and unlock always return, whatever the others do.
NonBlockingCallsReturn ==
  \A t \in Threads :
    phase[t] \in {"try", "backout", "release"} ~> phase[t] = "idle"

\* The threads that wait for locks are never stuck for good: blocks keep being
\* entered as long as a thread waits to enter one.
SyncBlocksProgress ==
  \/ []<>(\A t \in Threads : phase[t] # "acquire")
  \/ []<><<\E t \in Threads : Enter(t)>>_vars
=============================================================================
