SPECIFICATION FairSpec
CONSTANTS
  k1 = k1
  k2 = k2
  r1 = r1
  r2 = r2
  StopCalls = {}
  RestartCalls = {}
  MaxSpawns = 2
  Specs <- PolledOnly
  Unkillable = FALSE
PROPERTY EveryStartSettles
CHECK_DEADLOCK FALSE
