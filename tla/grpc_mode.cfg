CONSTANTS
  Jobs = {1, 2, 3}
  Procs = {1, 2, 3}
  Pairs = {p1, p2}
  MaxClock = 2
  MaxDbErrors = 1
  MaxConns = 2
  MaxCrashes = 1
SPECIFICATION FairSpec
INVARIANTS TypeOK OwnUpdate
PROPERTIES ImplementsLifecycle EveryJobCompletesOrIsLost
