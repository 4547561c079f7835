SPECIFICATION FairSpec
CONSTANTS
  f1 = f1
  f2 = f2
  Files = {f1}
  Successor <- NoSuccessor
  MaxLanes = 1
  Workers = 1
  Breaker = 1
  MaxFaults = 1
  MaxCrashes = 1
  MaxStops = 0
  MaxHides = 1
  MaxSwitches = 1
PROPERTIES EventuallySecured ListedIsCollected
