SPECIFICATION FairSpec
CONSTANTS
  p1 = p1
  p2 = p2
  Parts = {p1}
  Gens = {1}
  Aging = {p1}
  OssAtStart = {TRUE, FALSE}
  Migrations = {1}
  MaxCuts = 2
  MaxFaults = 1
  MaxCrashes = 1
INVARIANTS RowsAreDurable
PROPERTIES FileCompletes PartsGetArchived RetiredGetDeleted
CHECK_DEADLOCK FALSE
