SPECIFICATION Spec
CONSTANTS
  Threads = {t1}
  Objects = {1, 2, 3, 4, 5, 6, 7, 8, 9}
  Requests <- FewRequests
  MaxLevel = 1
  FirstCapacity = 4
  FirstQueueCount = 2
INVARIANTS
  WithinCapacity
