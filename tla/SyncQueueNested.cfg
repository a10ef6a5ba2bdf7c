SPECIFICATION Spec
CONSTANTS
  Threads = {t1, t2}
  Objects = {1, 2}
  Requests <- FewRequests
  MaxLevel = 2
  FirstCapacity = 2
  FirstQueueCount = 1
SYMMETRY Symmetry
INVARIANTS
  IInv
  MutualExclusion
  LevelsAllocated
PROPERTIES
  ImplementsSyncBlocks
\* Threads that nest sync blocks may wait for each other: nothing orders the
\* locks of one level after those of another.
CHECK_DEADLOCK FALSE
