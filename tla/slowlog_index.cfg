SPECIFICATION FairSpec
CONSTANTS
  Paths = {1, 2}
  Events = {1, 2}
  Holds <- Overlap
  PageSize = 1
  Batch = 2
  Budgets <- Some
INVARIANTS OneCanonical CountersExact RemovedStaysRemoved
PROPERTIES EventuallyIndexed
CHECK_DEADLOCK FALSE
