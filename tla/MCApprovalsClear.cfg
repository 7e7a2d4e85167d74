CONSTANTS
  c1 = c1  c2 = c2  s1 = s1  s2 = s2  t1 = t1
  Calls = {c1, c2}
  Sessions = {s1, s2}
  Tools = {t1}
  SessionOf <- MCSessionOf
  ToolOf <- MCToolOf
  TopLevel <- MCTopLevel
  Reactions = {}
  Commands = {"approve", "clear"}
  BypassUpTo = "caution"
  Risks = {"critical"}
SPECIFICATION LiveSpec
PROPERTY EveryWaitEnds
