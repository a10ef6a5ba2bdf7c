SPECIFICATION FairSpec
CONSTANTS
  Threads = {t1, t2}
  Objects = {1, 2, 3}
  Requests <- AllRequests
  MaxLevel = 1
  FirstCapacity = 2
  FirstQueueCount = 2
INVARIANTS
  QueuesSorted
  LocksMatchQueues
  NoDeadlock
  WithinCapacity
PROPERTIES
  NonBlockingCallsReturn
  SyncBlocksProgress
