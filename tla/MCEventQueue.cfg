SPECIFICATION FairSpec
CONSTANTS
  MaxEvents = 2
  MaxAttempts = 2
  BatchLimit = 2
  Concurrency = 1
  MaxBatches = 2
  StaleClaim = 1
  BackoffCap = 2
  CronInterval = 2
  MaxUpserts = 1
  MaxCrashes = 2
CHECK_DEADLOCK FALSE
INVARIANTS EventsAccounted
PROPERTIES DoneIsFinal EventSettles
