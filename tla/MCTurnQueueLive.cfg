SPECIFICATION FairSpec
CONSTANTS
  s1 = s1
  s2 = s2
  s3 = s3
  u1 = u1
  u2 = u2
  SystemTurns = {s1, s2}
  UserTurns = {u1}
  NoEntry = NoEntry
  StarvationThreshold = 1
  MaxDepth = 1
  Grain = 1
INVARIANT TypeOK
PROPERTY EveryTurnSettles
CHECK_DEADLOCK FALSE
