CONSTANTS
  Apis = {a1}
  Workers = {w1, w2}
  Migrations = 3
  MaxPings = 2
  MaxRestarts = 1
  MaxErrors = 1
  MaxKills = 1
SPECIFICATION FairSpec
INVARIANTS TypeOK MigratedOnceInOrder ReadySchema FailureClosesAll
PROPERTIES DirtyBlocksStarts EveryStartSettles
