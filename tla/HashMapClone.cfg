SPECIFICATION Spec
CONSTANTS
  Keys = {1, 2, 3, 4}
  Values = {"a", "b"}
  HashOf <- CollidingHashes
  GroupSize = 2
  MaxHeaders = 4
  SizeT = 64
  Reinsert = FALSE
  CloneLimit = 4
INVARIANTS
  FindsWhatIsThere
