SPECIFICATION MCSpec
CONSTANTS
  t1 = t1
  t2 = t2
  t3 = t3
  s1 = s1
  s2 = s2
  Timers = {t1, t2}
  Sessions = {s1, s2}
  NoSession = NoSession
  Owner <- OwnerOf
  Anchor <- AnchorOf
  MinDuration = 1
  MaxDuration = 2
  MaxTimeout = 2
  ForceRelease = TRUE
  MaxStarts = 2
  MaxTime = 2
  MaxActive = 2
  e1 = e1
  e2 = e2
  e3 = e3
  e4 = e4
  e5 = e5
  e6 = e6
  e7 = e7
  NoTimer = NoTimer
CHECK_DEADLOCK FALSE
INVARIANTS AtMostOnce NoneForgotten HeadsFound
PROPERTIES CancelHolds ScheduledFires ImplementsTimerSet
