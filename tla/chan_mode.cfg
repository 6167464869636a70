CONSTANTS
  Jobs = {1, 2, 3}
  Pairs = {p1}
  Procs = {w1, w2}
  MaxClock = 2
  MaxDbErrors = 1
  QueueSize = 1
  MaxExpiries = 1
  MaxCrashes = 1
  MaxPanics = 1
SPECIFICATION FairSpec
INVARIANTS TypeOK DeliveredOnce
PROPERTIES FinishedReadIsFinal DroppedStays ImplementsLifecycle EveryJobCompletesOrIsDropped
