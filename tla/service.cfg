CONSTANTS
  Jobs = {1, 2}
  Pairs = {p1}
  Procs = {w1, w2}
  MaxClock = 1
  MaxDbErrors = 1
  BatchLimit = 2
  MaxCrashes = 1
  Keys = {k1}
  MaxFaults = 1
  MaxTtls = 1
  MaxApiCrashes = 1
SPECIFICATION ServiceFairSpec
INVARIANT OneResultPerKey
PROPERTIES ImplementsApi EveryRequestSettles
