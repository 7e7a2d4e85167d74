SPECIFICATION WorkflowSpec
CONSTANTS
  N = 3
  Defs <- All
  MaxSessions = 2
  Edits = {"pause"}
  MaxOps = 2
  MaxFaults = 1
  MaxInterventions = 2
  MaxTicks = 2
CHECK_DEADLOCK FALSE
INVARIANTS SessionsOwned CompletionSound
PROPERTIES TaskLife
