CONSTANTS
  InitialInterval = 2
  MaxInterval = 10
  Total = 30
  ClientTimeout = 40
  Deadlines = {0, 30, 50}
  Durations = {0, 7, 40}
  Values = {0, 2, 3}
SPECIFICATION FairSpec
INVARIANTS ReturnsInTime PriceIsRatio
PROPERTY FetchReturns
