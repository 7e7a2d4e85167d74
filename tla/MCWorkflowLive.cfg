SPECIFICATION WorkflowFairSpec
CONSTANTS
  N = 2
  Defs <- Pairs
  MaxSessions = 1
  Edits = {}
  MaxOps = 1
  MaxFaults = 1
  MaxInterventions = 2
  MaxTicks = 2
PROPERTIES
  WorkflowSettles
CHECK_DEADLOCK FALSE
