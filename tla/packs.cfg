SPECIFICATION Spec
CONSTANTS
  p1 = p1
  p2 = p2
  Parts = {p1, p2}
  Gens = {1, 2}
  Aging = {}
  OssAtStart = {FALSE}
  Migrations = {1, 2}
  MaxCuts = 1
  MaxFaults = 0
  MaxCrashes = 1
SYMMETRY Symmetry
INVARIANTS ReferencedObjectsExist
CHECK_DEADLOCK FALSE
