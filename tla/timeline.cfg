SPECIFICATION FairSpec
CONSTANTS
  Hosts = {1, 2}
  FirstPrimary = 1
  MaxTime = 2
  PageSize = 2
  LiveLookback = 0
  Budgets <- Either
INVARIANTS SkippedIsHeld
PROPERTIES EventuallyHeld
CHECK_DEADLOCK FALSE
