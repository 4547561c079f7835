SPECIFICATION Spec
CONSTANTS
  f1 = f1
  f2 = f2
  Files = {f1}
  Successor <- NoSuccessor
  MaxLanes = 1
  Workers = 1
  Breaker = 2
  MaxFaults = 1
  MaxCrashes = 1
  MaxStops = 1
  MaxHides = 1
  MaxSwitches = 1
INVARIANTS TypeOK DoneIsArchived StopsAtFileBoundary SuccessIsDrained
PROPERTIES OriginalHeldUntilArchived ImplementsLedger
