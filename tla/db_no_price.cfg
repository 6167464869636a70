CONSTANTS
  Jobs = {1, 2}
  Pairs = {p1}
  Procs = {w1, w2}
  MaxClock = 1
  MaxDbErrors = 0
  BatchLimit = 2
  MaxCrashes = 0
SPECIFICATION Spec
SYMMETRY Symmetry
INVARIANT DoneHasPrice
