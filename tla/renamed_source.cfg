SPECIFICATION Spec
CONSTANTS
  f1 = f1
  f2 = f2
  Files = {f1, f2}
  Successor <- Renaming
  MaxLanes = 1
  Workers = 1
  Breaker = 2
  MaxFaults = 0
  MaxCrashes = 0
  MaxStops = 0
  MaxHides = 0
  MaxSwitches = 0
INVARIANTS LanesBounded
PROPERTIES ImplementsLedger
