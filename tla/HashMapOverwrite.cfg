SPECIFICATION Spec
CONSTANTS
  Keys = {1, 2}
  Values = {"a", "b"}
  HashOf <- CollidingHashes
  GroupSize = 2
  MaxHeaders = 3
  SizeT = 64
  Reinsert = TRUE
  CloneLimit = 0
INVARIANTS
  OnePairPerKey
