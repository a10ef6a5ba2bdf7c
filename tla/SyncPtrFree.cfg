SPECIFICATION Spec
CONSTANTS
  Handles = {h1, h2, h3}
SYMMETRY Symmetry
INVARIANTS
  WeakFreesAlone
CHECK_DEADLOCK FALSE
