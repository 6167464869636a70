CONSTANTS
  Jobs = {1, 2, 3}
  Pairs = {p1}
  Procs = {w1, w2}
  MaxClock = 2
  MaxDbErrors = 1
  BatchLimit = 2
  MaxCrashes = 1
SPECIFICATION FairSpec
INVARIANTS TypeOK ClaimExclusive ReadCoherent LastQuoteInHistory DoneThenLastQuote OneHistoryRowPerJob OrphansBounded
PROPERTIES FinishedReadIsFinal OrphanStays ImplementsLifecycle EveryJobCompletesOrIsOrphaned
