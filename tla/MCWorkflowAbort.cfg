SPECIFICATION WorkflowSpec
CONSTANTS
  N = 3
  Defs <- All
  MaxSessions = 3
  Edits = {}
  MaxOps = 2
  MaxFaults = 0
  MaxInterventions = 2
  MaxTicks = 2
PROPERTIES
  ForwardOnly
CHECK_DEADLOCK FALSE
