---------------------------- MODULE MCModelCalls ----------------------------
(* Model-checking instances of ModelCalls: a chain of two providers.       *)
EXTENDS ModelCalls, TLC

CONSTANTS p1, p2, r1, r2, r3

MCChain == <<p1, p2>>
OneHop == <<p1>>
Symmetry == Permutations({r1, r2, r3})
=============================================================================
