---------------------------- MODULE AgentGrants ----------------------------
(***************************************************************************)
(* The standing grants of one agent, given by the reaction "for the agent" *)
(* and taken back by hitl_clear.  They live in three places: agentToolsMem *)
(* in memory, the file z-hitl-agent-tool-auto-approve.json, and the        *)
(* configuration in use, reloaded from all files.  A rewrite of the file   *)
(* loads the configuration, writes, and loads it again; both loads are     *)
(* awaited, and nothing serialises two rewrites.                           *)
(***************************************************************************)
EXTENDS Naturals, FiniteSets

CONSTANTS
  Tools,
  Ops       \* rewrites of the file; each is used once

VARIABLES
  mem,      \* agentToolsMem
  disk,     \* the file
  conf,     \* toolAutoApprove of configRef.current
  ops,      \* the rewrites
  granted,  \* history: the grants given and not cleared since
  disturbed,\* history: two rewrites overlapped, or one failed
  restarted \* the daemon has restarted (at most once)

vars == <<mem, disk, conf, ops, granted, disturbed, restarted>>

Free == [kind |-> "free", tools |-> {}, at |-> "none", snap |-> {}]
Done(op) == [op EXCEPT !.at = "done", !.snap = {}]

Init ==
  /\ mem = {} /\ disk = {} /\ conf = {}
  /\ ops = [o \in Ops |-> Free]
  /\ granted = {}
  /\ disturbed = FALSE
  /\ restarted = FALSE

InFlight == {o \in Ops : ops[o].at \notin {"none", "done"}}

\* shouldAutoApprove, for the agent's grants.
Effective == mem \cup conf

StartOp(o, kind, tools) ==
  /\ ops[o] = Free
  /\ ops' = [ops EXCEPT ![o] = [kind |-> kind, tools |-> tools, at |-> "load", snap |-> {}]]
  /\ disturbed' = (disturbed \/ InFlight # {})

\* Faulty variant: the grant counts once it is on disk.
GrantLater(o, t) ==
  /\ StartOp(o, "persist", {t})
  /\ granted' = granted \cup {t}
  /\ UNCHANGED <<mem, disk, conf, restarted>>

\* enableAgentTool: memory first, then the rewrite.
Grant(o, t) ==
  /\ StartOp(o, "persist", {t})
  /\ mem' = mem \cup {t}
  /\ granted' = granted \cup {t}
  /\ UNCHANGED <<disk, conf, restarted>>

\* hitl_clear, from the point where it loads the configuration.
Clear(o) ==
  /\ StartOp(o, "clear", {})
  /\ UNCHANGED <<mem, disk, conf, granted, restarted>>

\* loadLayeredConfigAsync has read the file; its caller goes on later.
Reads(o) ==
  /\ ops[o].at \in {"load", "reload"}
  /\ ops' = [ops EXCEPT ![o].snap = disk,
                        ![o].at = IF @ = "load" THEN "loaded" ELSE "reloaded"]
  /\ UNCHANGED <<mem, disk, conf, granted, disturbed, restarted>>

\* Faulty variant: the tool is not merged into what the file holds.
WritesOnlyNew(o) ==
  /\ ops[o].at = "loaded"
  /\ disk' = ops[o].tools
  /\ ops' = [ops EXCEPT ![o].at = "reload"]
  /\ UNCHANGED <<mem, conf, granted, disturbed, restarted>>

\* The file is replaced by rename: the map that was read with the tool added,
\* or the map with the agent's list emptied.
Writes(o) ==
  /\ ops[o].at = "loaded"
  /\ disk' = IF ops[o].kind = "persist" THEN ops[o].snap \cup ops[o].tools ELSE {}
  /\ ops' = [ops EXCEPT ![o].at = "reload"]
  /\ UNCHANGED <<mem, conf, granted, disturbed, restarted>>

\* What was read comes into use; hitl_clear then forgets the grants in memory.
Ends(o) ==
  /\ ops[o].at = "reloaded"
  /\ conf' = ops[o].snap
  /\ mem' = IF ops[o].kind = "clear" THEN {} ELSE mem
  /\ granted' = IF ops[o].kind = "clear" THEN {} ELSE granted
  /\ ops' = [ops EXCEPT ![o] = Done(@)]
  /\ UNCHANGED <<disk, disturbed, restarted>>

\* A load or the write throws: enableAgentTool logs it, hitl_clear rejects.
Fails(o) ==
  /\ o \in InFlight
  /\ ops' = [ops EXCEPT ![o] = Done(@)]
  /\ disturbed' = TRUE
  /\ UNCHANGED <<mem, disk, conf, granted, restarted>>

\* Only the file survives.
Restart ==
  /\ ~restarted
  /\ restarted' = TRUE
  /\ mem' = {} /\ conf' = disk /\ granted' = disk
  /\ ops' = [o \in Ops |-> IF o \in InFlight THEN Done(ops[o]) ELSE ops[o]]
  /\ UNCHANGED <<disk, disturbed>>

Next ==
  \/ \E o \in Ops, t \in Tools : Grant(o, t)
  \/ \E o \in Ops : Clear(o)
  \/ \E o \in Ops : Reads(o)
  \/ \E o \in Ops : Writes(o)
  \/ \E o \in Ops : Ends(o)
  \/ \E o \in Ops : Fails(o)
  \/ Restart

Spec == Init /\ [][Next]_vars

-----------------------------------------------------------------------------
(* Properties *)

\* The state is well formed.
TypeOK ==
  /\ mem \subseteq Tools /\ disk \subseteq Tools /\ conf \subseteq Tools
  /\ granted \subseteq Tools
  /\ ops \in [Ops -> [kind : {"free", "persist", "clear"}, tools : SUBSET Tools,
                      at : {"none", "load", "loaded", "reload", "reloaded", "done"},
                      snap : SUBSET Tools]]
  /\ disturbed \in BOOLEAN /\ restarted \in BOOLEAN

\* While rewrites neither overlap nor fail, the file and the configuration hold,
\* whenever none is in flight, exactly the grants given and not cleared since:
\* they survive a restart, and cleared ones do not come back.
DiskMatchesGrants ==
  ~disturbed /\ InFlight = {} => disk = granted /\ conf = granted

\* As long as nobody clears them, grants are in effect from the reaction on,
\* whatever becomes of the file: a reload that read an older file, a rewrite lost
\* to another one or a failed rewrite does not take one back.
GrantInEffect ==
  (\A o \in Ops : ops[o].kind # "clear") => granted \subseteq Effective

\* "so auto-approve state matches disk after a wipe": once a clear has returned
\* and nothing is in flight or was granted since, no grant is left.
ClearIsLasting ==
  InFlight = {} /\ granted = {} => disk = {} /\ Effective = {}

\* The file "holds per-agent hitl.toolAutoApprove after each" grant: with nothing
\* in flight and nothing cleared, every grant is on disk.
GrantsReachDisk ==
  (\A o \in Ops : ops[o].kind # "clear") /\ InFlight = {} => granted \subseteq disk
=============================================================================
