---------------------------- MODULE MCTurnQueue ----------------------------
(* Model-checking instances of TurnQueue: two system and two user turns.   *)
EXTENDS TurnQueue, TLC

CONSTANTS s1, s2, s3, u1, u2

Symmetry == Permutations({s1, s2}) \cup Permutations({u1, u2})
=============================================================================
