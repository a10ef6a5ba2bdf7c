SPECIFICATION Spec
CONSTANTS
  Threads = {t1, t2}
  Seeds = {0, 1, 2}
INVARIANTS
  OneSeed
