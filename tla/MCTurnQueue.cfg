SPECIFICATION Spec
CONSTANTS
  s1 = s1
  s2 = s2
  s3 = s3
  u1 = u1
  u2 = u2
  SystemTurns = {s1, s2}
  UserTurns = {u1, u2}
  NoEntry = NoEntry
  StarvationThreshold = 1
  MaxDepth = 2
  Grain = 1
SYMMETRY Symmetry
CHECK_DEADLOCK FALSE
INVARIANTS TurnsAccounted IdleMeansForgotten FreezeOwned FreezeHolds StarvationBound
PROPERTIES FifoWithinTier
