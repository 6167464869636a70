CONSTANTS
  Jobs = {1, 2}
  Pairs = {p1}
  Procs = {w1}
  MaxClock = 1
  MaxDbErrors = 0
  QueueSize = 1
  MaxExpiries = 1
  MaxCrashes = 0
  MaxPanics = 0
SPECIFICATION FairSpec
PROPERTY FetchErrorRecorded
