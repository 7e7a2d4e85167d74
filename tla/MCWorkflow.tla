----------------------------- MODULE MCWorkflow -----------------------------
(* Model-checking instances of Workflow: definitions of three tasks.        *)
EXTENDS Workflow

Of(d1, d2, d3) == <<d1, d2, d3>>

\* Two agents and a message behind the first of them, one task at a time.
Capped ==
  [deps |-> Of({}, {}, {1}), kind |-> Of("agent", "agent", "message"),
   behavior |-> Of("continue", "pause", "continue"), tpl |-> {1}, cap |-> 1]

\* A tool, a gate behind it and a transform behind the gate.
Chained ==
  [deps |-> Of({}, {1}, {2}), kind |-> Of("tool", "gate", "transform"),
   behavior |-> Of("pause", "continue", "abort"), tpl |-> {3}, cap |-> 0]

All == {Capped, Chained}

\* A gate or a tool, and an agent behind it.
Pair(k, b) ==
  [deps |-> <<{}, {1}>>, kind |-> <<k, "agent">>, behavior |-> <<b, "continue">>,
   tpl |-> {}, cap |-> 1]

Pairs == {Pair("gate", "continue"), Pair("tool", "abort")}
=============================================================================
