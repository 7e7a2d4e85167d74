---------------------------- MODULE MCAgentTurn -----------------------------
(* Model-checking instances of AgentTurn.                                   *)
EXTENDS AgentTurn

\* What follows the damage of a rare behaviour is not explored.
Sound == taint = {}
=============================================================================
