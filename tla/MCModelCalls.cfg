SPECIFICATION FairSpec
CONSTANTS
  p1 = p1
  p2 = p2
  r1 = r1
  r2 = r2
  r3 = r3
  Calls = {r1, r2}
  Chain <- MCChain
  MaxConcurrent = 1
  MaxRetries = 1
  EmptyRetries = 1
  BaseDelay = 1
  MaxDelay = 2
  Jitter = 1
  MaxBackoff = 1
  RetryAfters = {0}
CHECK_DEADLOCK FALSE
INVARIANTS SlotsConserved
PROPERTIES AbortStops EveryCallSettles
