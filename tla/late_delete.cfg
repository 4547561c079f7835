SPECIFICATION Spec
CONSTANTS
  p1 = p1
  p2 = p2
  Paths = {p1}
  Ids = {1}
  Before = {1}
  Budgets <- Both
INVARIANTS ReadyIsNotDying
CHECK_DEADLOCK FALSE
