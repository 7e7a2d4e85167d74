---------------------------- MODULE MCApprovals ----------------------------
(* Two calls of a subagent's session s2, of the same tool, under session s1. *)
EXTENDS Approvals, TLC

CONSTANTS c1, c2, s1, s2, t1

MCSessionOf == [c \in Calls |-> s2]
MCToolOf == [c \in Calls |-> t1]
MCTopLevel == [s \in Sessions |-> s1]
CallSymmetry == Permutations(Calls)
=============================================================================
