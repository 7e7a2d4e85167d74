------------------------------- MODULE MCHitl -------------------------------
(* Model-checking instance of the approvals: the gate and its rows            *)
(* (Approvals), in which an agent's standing grants are a set in memory, and  *)
(* the rewrites of the file those grants are kept in (AgentGrants).  The two  *)
(* share no variable and are checked side by side: in a behaviour one of them *)
(* runs and the other stays as it began.                                      *)
EXTENDS MCApprovals

CONSTANTS Ops,      \* the rewrites
          FileTools \* the tools that are granted in the file

VARIABLES mem, disk, conf, ops, granted, disturbed, rebooted,
          part      \* the one that runs in this behaviour

File == INSTANCE AgentGrants WITH Tools <- FileTools, restarted <- rebooted

file == <<mem, disk, conf, ops, granted, disturbed, rebooted>>

MCInit == Init /\ File!Init /\ part \in {"gate", "file"}

MCNext ==
  /\ \/ part = "gate" /\ Next /\ UNCHANGED file
     \/ part = "file" /\ (File!Next \/ UNCHANGED file) /\ UNCHANGED vars
  /\ UNCHANGED part

MCSpec == MCInit /\ [][MCNext]_<<vars, file, part>>

\* Grants hold: one for a session covers the calls of the tool that wait, and
\* one for the agent is in effect and on disk until it is cleared, across reloads,
\* failed rewrites and a restart (enableAgentTool, React).
GrantsHold == GrantCoversPending /\ File!DiskMatchesGrants /\ File!GrantInEffect
=============================================================================
