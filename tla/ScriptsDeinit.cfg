SPECIFICATION Spec
CONSTANTS
  t1 = t1
  t2 = t2
  Threads = {t1, t2}
  Scenarios <- MCScenarios
  StackSlots = 44
  HostSlots = 4
  SizeOf <- Sizes
  MaxFrameLength = 12
  ImmediateBits = 4
  JumpBits = 4
  IntMin <- LowestInt
  IntMax = 4
  MembersOf <- StructMembers
CHECK_DEADLOCK FALSE
PROPERTIES
  DeinitKeepsReferredValues
