SPECIFICATION FairSpec
CONSTANTS
  MaxOrders = 2
  MaxStalls = 1
  MaxHangs = 1
  MaxFreezes = 1
  MaxFaults = 1
  MaxCrashes = 1
INVARIANTS TypeOK FlagMirrorsPause
PROPERTIES PauseEndsOnPurpose CollectionResumes PauseStopsJob StuckJobIsReplaced MaintenanceExpires
CHECK_DEADLOCK FALSE
