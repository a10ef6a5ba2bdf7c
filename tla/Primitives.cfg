SPECIFICATION PrimitivesSpec
CONSTANTS
  Keys = {1, 2, 3, 4}
  Values = {a, b}
  HashOf <- CollidingHashes
  GroupSize = 2
  MaxHeaders = 4
  SizeT = 64
  Reinsert = FALSE
  CloneLimit = 1
  IntMin <- Lowest
  IntMax = 15
  MaxSso = 2
  Chunk = 4
  UserContexts <- HostContexts
  Words = {"a"}
  Names = {1, 2, 3}
  LongNames = {1, 2}
  TypeNames = {1}
  NameHash <- NameHashes
  QualifiedGroupSize = 2
  DefaultElements = 1
  DefaultAllocations = 8
  MaxBytecode = 2
  MaxArgs = 1
SYMMETRY Symmetry
CHECK_DEADLOCK FALSE
INVARIANTS
  TypeOK
  SlotsMatchPairs
  IterationsMirror
  FindsWhatIsThere
  KeysFiled
  IterationComplete
  CloneEqual
  EveryBlockFreedOnce
  TablesFind
  OwnedOnce
  ClonesEqual
  WaysAreGood
  StringsAgree
  ArithmeticExact
  TokensCoverSource
PROPERTIES
  ImplementsOrderedMap
