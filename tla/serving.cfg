SPECIFICATION FairSpec
CONSTANTS
  p1 = p1
  p2 = p2
  Paths = {p1}
  Ids = {1, 2}
  Before = {1}
  Budgets <- Either
INVARIANTS HandedOver
PROPERTIES GateIsExact EventuallyServed
CHECK_DEADLOCK FALSE
