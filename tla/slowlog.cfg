SPECIFICATION FairSpec
CONSTANTS
  MaxRecords = 3
  Lag = 1
  Lookback = 1
  Replay = 2
  ReplayFloor = 1
  Forward = 3
  ForwardFloor = 1
  PageSize = 1
  MaxPages = 2
  Budget = 1
  Budgets <- Either
INVARIANTS TypeOK SeenIsStored PassedIsStored
PROPERTIES EventuallyStored
CHECK_DEADLOCK FALSE
