--------------------------- MODULE MCMcpRuntime ----------------------------
EXTENDS McpRuntime

\* A user turn of one session and a system turn of another, of one agent; where
\* only per-session servers are configured, of the same session.
TwoSessions == [t \in Configs |->
  [c \in Callers |-> IF c = "turn" \/ t = {"session"} THEN "s1" ELSE "s2"]]
OneAgent == [s \in {"s1", "s2"} |-> "a1"]
AllConfigs == {{"global"}, {"session"}, {"global", "agent"}, {"global", "session"}, {"agent", "session"}}
AgentSession == {{"agent", "session"}}
GlobalOnly == {{"global"}}
GlobalSession == {{"global", "session"}}
FewChanges == [t \in Configs |-> CASE t = {"global"} -> 2 [] t = {"session"} -> 1 [] OTHER -> 0]
SomeDie == {{"agent", "session"}}
SomeStop == {{"global", "agent"}, {"session"}}
NoChanges == [t \in Configs |-> 0]
=============================================================================
