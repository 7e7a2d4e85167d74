SPECIFICATION Spec
CONSTANTS
  Callers = {"turn", "system"}
  Turns = {"turn"}
  SessionOf <- TwoSessions
  AgentOf <- OneAgent
  Configs <- AllConfigs
  Pools = 2
  CacheLimit = 1
  MaxChanges <- FewChanges
  MayDie <- SomeDie
  MayStop <- SomeStop
  None = None
CHECK_DEADLOCK FALSE
INVARIANTS PoolsOwned CatalogsCurrent
