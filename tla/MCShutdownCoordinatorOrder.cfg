SPECIFICATION CoordinatorSpec
CONSTANTS
  d1 = d1
  d2 = d2
  d3 = d3
  Drains = {d1, d2}
  Groups = {1, 2}
INVARIANTS
  AscendingGroups
CHECK_DEADLOCK FALSE
