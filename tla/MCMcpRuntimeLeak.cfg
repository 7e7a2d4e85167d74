SPECIFICATION Spec
CONSTANTS
  Callers = {"turn", "system"}
  Turns = {"turn"}
  SessionOf <- TwoSessions
  AgentOf <- OneAgent
  Configs <- GlobalOnly
  Pools = 2
  CacheLimit = 1
  MaxChanges <- NoChanges
  MayDie = {}
  MayStop = {}
  None = None
INVARIANT
  EveryPoolOwned
CHECK_DEADLOCK FALSE
