SPECIFICATION TurnSpec
CONSTANTS
  MaxTurns = 1
  MaxCalls = 2
  MaxBatch = 2
  BatchLimit = 2
  Retries = 0
  InvalidLimit = 0
  Preserve = 2
  Cap = 50
  Events = {e1}
  Notes = {n1}
  Reqs = {r1, r2}
  MaxFaults = 1
  Extras = {}
INVARIANT
  NoRequestForgotten
CHECK_DEADLOCK FALSE
