SPECIFICATION CoordinatorFairSpec
CONSTANTS
  d1 = d1
  d2 = d2
  d3 = d3
  Drains = {d1, d2, d3}
  Groups = {0, 2}
INVARIANTS
  GroupsInTurn
  NoneSkipped
PROPERTIES
  NoLateStart
  ShutdownEnds
CHECK_DEADLOCK FALSE
