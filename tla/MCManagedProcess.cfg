SPECIFICATION FairSpec
CONSTANTS
  k1 = k1
  k2 = k2
  r1 = r1
  r2 = r2
  StopCalls = {k1}
  RestartCalls = {r1}
  MaxSpawns = 2
  Specs <- Mixed
  Unkillable = TRUE
CHECK_DEADLOCK FALSE
INVARIANTS ChildTracked StopHolds
PROPERTIES CallsSettle
