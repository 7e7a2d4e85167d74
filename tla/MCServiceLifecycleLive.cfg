CONSTANTS
  m1 = m1
  m2 = m2
  f1 = f1
  f2 = f2
  f3 = f3
  o1 = o1
  o2 = o2
  Manifests <- MCManifests
  Fetches <- TwoFetches
  Ops <- OneOp
  OpKinds = {"approve", "rotate"}
  Threshold = 2
CHECK_DEADLOCK FALSE
SPECIFICATION LiveSpec
PROPERTY RecoveryNoticed
PROPERTY RequestsEnd
