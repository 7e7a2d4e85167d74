CONSTANTS
  c1 = c1  c2 = c2  s1 = s1  s2 = s2  t1 = t1
  Calls = {c1, c2}
  Sessions = {s1, s2}
  Tools = {t1}
  SessionOf <- MCSessionOf
  ToolOf <- MCToolOf
  TopLevel <- MCTopLevel
  Reactions = {"once", "deny", "session", "agent"}
  Commands = {"approve", "deny", "clear", "yolo", "cruise", "segment"}
  BypassUpTo = "caution"
  Risks = {"critical", "never"}
  Ops = {1, 2, 3}
  FileTools = {"exec", "write"}
SPECIFICATION MCSpec
SYMMETRY CallSymmetry
INVARIANTS WaitersFollowRows GrantsHold
PROPERTIES ResolvedIsFinal
