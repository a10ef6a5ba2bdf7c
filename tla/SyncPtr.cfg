SPECIFICATION FairSpec
CONSTANTS
  Handles = {h1, h2, h3, h4, h5}
INVARIANTS
  IInv
  HandlesKeepMemory
  UsedAlive
  FreedOnceAtTheEnd
PROPERTIES
  AbandonedIsFreed
\* The last handle gone, nothing is left to happen.
CHECK_DEADLOCK FALSE
