SPECIFICATION TurnSpec
CONSTANTS
  MaxTurns = 2
  MaxCalls = 3
  MaxBatch = 3
  BatchLimit = 2
  Retries = 0
  InvalidLimit = 0
  Preserve = 2
  Cap = 50
  Events = {e1}
  Notes = {}
  Reqs = {r1}
  MaxFaults = 1
  Extras = {"prose", "leak", "late", "reset", "crash"}
CONSTRAINT
  Sound
CHECK_DEADLOCK FALSE
INVARIANTS HistorySound NothingLeftBehind
PROPERTIES OnceAndNotAborted
