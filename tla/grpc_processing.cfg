CONSTANTS
  Jobs = {1, 2}
  Procs = {1, 2}
  Pairs = {p1}
  MaxClock = 1
  MaxDbErrors = 0
  MaxConns = 2
  MaxCrashes = 0
SPECIFICATION Spec
INVARIANT MarkedProcessing
