CONSTANTS
  Jobs = {1, 2}
  Pairs = {p1}
  Procs = {w1, w2}
  MaxClock = 2
  MaxDbErrors = 0
  BatchLimit = 1
  MaxCrashes = 0
SPECIFICATION Spec
SYMMETRY Symmetry
INVARIANT QuotesHoldLatest
