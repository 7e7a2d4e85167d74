----------------------------- MODULE Approvals -----------------------------
(***************************************************************************)
(* Human-in-the-loop approvals of one agent: hitlApprovalGate of the tool  *)
(* loop, the rows of hitl_pending_actions, the in-memory waiters on them,  *)
(* the operator's commands, the reactions on Discord notices, and the      *)
(* standing grants per session (SQLite) and per agent.  How the grants of  *)
(* the agent reach the disk is the subject of AgentGrants; here they are   *)
(* the set in effect, which a clear or a restart may only shrink.          *)
(*                                                                         *)
(* The gate awaits twice: the judge of cruise control, and the resolution  *)
(* of its row.  Everything between two awaits is one action.  Updating a   *)
(* row and waking its waiter are one action too: the waiter goes on in a   *)
(* microtask, before any other event.                                      *)
(***************************************************************************)
EXTENDS Naturals, FiniteSets

CONSTANTS
  Calls,       \* tool calls that reach the gate
  Sessions,    \* the agent's sessions
  Tools,
  SessionOf,   \* Calls -> Sessions
  ToolOf,      \* Calls -> Tools
  TopLevel,    \* Sessions -> Sessions: itself, or the session above a subagent
  Reactions,   \* the reactions the owner uses
  Commands,    \* the operator's commands that occur
  Risks,       \* the tiers a tool may have
  BypassUpTo   \* the agent's configured bypass tier

Tiers == {"safe", "caution", "critical", "never"}
TIER_RANK == [safe |-> 0, caution |-> 1, critical |-> 2, never |-> 3]

ASSUME ApprovalAssumption ==
  /\ SessionOf \in [Calls -> Sessions]
  /\ ToolOf \in [Calls -> Tools]
  /\ TopLevel \in [Sessions -> Sessions]
  /\ \A s \in Sessions : TopLevel[TopLevel[s]] = TopLevel[s]
  /\ Reactions \subseteq {"once", "deny", "session", "agent"}
  /\ Risks \subseteq Tiers
  /\ BypassUpTo \in Tiers

VARIABLES
  tier,     \* the risk tier of each tool, from the configuration
  rows,     \* the call's row in hitl_pending_actions
  due,      \* calls whose row's expires_at has passed
  phase,    \* where the call stands in the tool loop
  path,     \* history: what a call was asked for, then what let it run
  notices,  \* calls with a notice in the Discord registry
  sessAuto, \* hitl_session_tool_auto_approve
  yolo,     \* session_yolo_mode
  cruise,   \* sessions with cruise control (memory)
  agentAuto,\* the agent's grants in effect: agentToolsMem and the configuration
  clearing, \* a hitl_clear awaits the rewrite of the agent's grants
  killed,   \* terminated subagent sessions
  restarted \* the daemon has restarted (at most once)

callVars  == <<rows, due, phase, path, notices>>
grantVars == <<agentAuto, clearing>>
vars == <<tier, callVars, sessAuto, yolo, cruise, grantVars, killed, restarted>>

Init ==
  /\ tier \in [Tools -> Risks]
  /\ rows = [c \in Calls |-> "none"]
  /\ due = {}
  /\ phase = [c \in Calls |-> "idle"]
  /\ path = [c \in Calls |-> "none"]
  /\ notices = {}
  /\ sessAuto = [s \in Sessions |-> {}]
  /\ yolo = {}
  /\ cruise = {}
  /\ agentAuto = {}
  /\ clearing = FALSE
  /\ killed = {}
  /\ restarted = FALSE

-----------------------------------------------------------------------------
(* The store of pending rows and the hub of waiters *)

Pending == {c \in Calls : rows[c] = "pending"}

CallsOf(S) == {c \in Calls : SessionOf[c] \in S}

\* Faulty variant: the update does not look at the row's status.
UpdatedBlindly(S, status) ==
  [c \in Calls |-> IF c \in S /\ rows[c] # "none" THEN status ELSE rows[c]]

\* The update of approve, deny and expireDue: only a row that is still pending.
Updated(S, status) == [c \in Calls |-> IF c \in S \cap Pending THEN status ELSE rows[c]]

\* Faulty variant: only an approval wakes the waiter.
WokenIfApproved(S, status) ==
  [c \in Calls |-> IF c \in S \cap Pending /\ phase[c] = "waiting" /\ status = "approved"
                   THEN "ran" ELSE phase[c]]

\* notifyResolved wakes the waiters of the updated rows.  A row nobody waits on
\* (its turn was aborted, or the daemon restarted) only leaves an entry in
\* resolvedEarly, which no later waitFor asks for.
Woken(S, status) ==
  [c \in Calls |-> IF c \in S \cap Pending /\ phase[c] = "waiting"
                   THEN IF status = "approved" THEN "ran" ELSE "answered"
                   ELSE phase[c]]

WokenPath(S, status) ==
  [c \in Calls |-> IF c \in S \cap Pending /\ phase[c] = "waiting" /\ status = "approved"
                   THEN "row" ELSE path[c]]

Resolve(S, status) ==
  /\ rows' = Updated(S, status)
  /\ phase' = Woken(S, status)
  /\ path' = WokenPath(S, status)

\* expireDue: every row whose expiry has passed, of whatever session.
Expire == Resolve(due, "expired")

-----------------------------------------------------------------------------
(* The gate of one call *)

requiresHumanApproval(t, bypass) == TIER_RANK[t] > TIER_RANK[bypass]

shouldAutoApprove(c) ==
  ToolOf[c] \in sessAuto[SessionOf[c]] \cup sessAuto[TopLevel[SessionOf[c]]]
                \cup agentAuto

Bypass(c) == IF SessionOf[c] \in yolo THEN "never" ELSE BypassUpTo

AutoApproved(c) ==
  /\ requiresHumanApproval(tier[ToolOf[c]], Bypass(c))
  /\ tier[ToolOf[c]] # "never"
  /\ shouldAutoApprove(c)

\* The call passes without being asked about.
Passes(c, review) ==
  /\ ~review
  /\ requiresHumanApproval(tier[ToolOf[c]], Bypass(c)) => AutoApproved(c)

\* Calls of one session go through the gate one at a time.
SessionFree(c) ==
  \A d \in Calls : SessionOf[d] = SessionOf[c] => phase[d] \notin {"judged", "waiting"}

\* The row, the notice, and the wait.
Enqueue(c, why) ==
  /\ rows' = [Updated(due, "expired") EXCEPT ![c] = "pending"]
  /\ phase' = [Woken(due, "expired") EXCEPT ![c] = "waiting"]
  /\ path' = [WokenPath(due, "expired") EXCEPT ![c] = why]
  /\ notices' = notices \cup {c}
  /\ UNCHANGED due

Gate(c, review) ==
  /\ phase[c] = "idle"
  /\ SessionOf[c] \notin killed
  /\ SessionFree(c)
  /\ \/ /\ Passes(c, review)
        /\ rows' = Updated(due, "expired")
        /\ phase' = [Woken(due, "expired") EXCEPT ![c] = "ran"]
        /\ path' = [WokenPath(due, "expired") EXCEPT ![c] =
                      IF AutoApproved(c) THEN "auto"
                      ELSE IF requiresHumanApproval(tier[ToolOf[c]], BypassUpTo)
                      THEN "yolo" ELSE "bypass"]
        /\ UNCHANGED <<due, notices>>
     \/ /\ ~Passes(c, review)
        /\ ~AutoApproved(c) /\ SessionOf[c] \in cruise
        /\ rows' = Updated(due, "expired")
        /\ phase' = [Woken(due, "expired") EXCEPT ![c] = "judged"]
        /\ path' = WokenPath(due, "expired")
        /\ UNCHANGED <<due, notices>>
     \/ /\ ~Passes(c, review)
        /\ AutoApproved(c) \/ SessionOf[c] \notin cruise
        /\ Enqueue(c, IF review THEN "review" ELSE "risk")
  /\ UNCHANGED <<tier, sessAuto, yolo, cruise, grantVars, killed, restarted>>

\* The judge answers, fails or times out (which escalates).
Judge(c, decision) ==
  /\ phase[c] = "judged"
  /\ \/ /\ decision = "approve"
        /\ phase' = [phase EXCEPT ![c] = "ran"]
        /\ path' = [path EXCEPT ![c] = "cruise"]
        /\ UNCHANGED <<rows, due, notices>>
     \/ /\ decision = "deny"
        /\ phase' = [phase EXCEPT ![c] = "answered"]
        /\ UNCHANGED <<rows, due, notices, path>>
     \/ /\ decision = "escalate"
        /\ Enqueue(c, "doubt")
  /\ UNCHANGED <<tier, sessAuto, yolo, cruise, grantVars, killed, restarted>>

\* The interval of a waiting call.
ExpireTick ==
  /\ \E c \in Calls : phase[c] = "waiting"
  /\ due \cap Pending # {}
  /\ Expire
  /\ UNCHANGED <<tier, due, notices, sessAuto, yolo, cruise, grantVars, killed, restarted>>

\* defaultApprovalTimeoutMs passes.
TimePasses(c) ==
  /\ c \in Pending \ due
  /\ due' = due \cup {c}
  /\ UNCHANGED <<tier, rows, phase, path, notices, sessAuto, yolo, cruise, grantVars,
                 killed, restarted>>

-----------------------------------------------------------------------------
(* Aborted turns, killed subagents, new context segments *)

\* An abort under the judge is caught as a failed judge: the row is written and
\* the notice posted, and only then the wait rejects.  The row stays pending.
AbortedRows(S) ==
  [c \in Calls |-> IF c \in CallsOf(S) /\ phase[c] = "judged" THEN "pending" ELSE rows[c]]
AbortedPhase(S) ==
  [c \in Calls |-> IF c \in CallsOf(S) /\ phase[c] \in {"judged", "waiting"}
                   THEN "aborted" ELSE phase[c]]
AbortedNotices(S) == notices \cup {c \in CallsOf(S) : phase[c] = "judged"}

Abort(s) ==
  /\ \E c \in CallsOf({s}) : phase[c] \in {"judged", "waiting"}
  /\ rows' = AbortedRows({s})
  /\ phase' = AbortedPhase({s})
  /\ notices' = AbortedNotices({s})
  /\ UNCHANGED <<tier, due, path, sessAuto, yolo, cruise, grantVars, killed, restarted>>

Children(s) == {k \in Sessions \ {s} : TopLevel[k] = s} \ killed

\* session_context_new and session_context_reset: deny the session's rows, New
\* drops its grants, and both kill its one-shot subagents.
ContextSegment(s, fresh) ==
  LET kids == Children(s)
      mine == CallsOf({s}) \cap Pending
      judged == {c \in CallsOf(kids) : phase[c] = "judged"}
      stopped == {c \in CallsOf(kids) : phase[c] \in {"judged", "waiting"}}
  IN  /\ s \notin killed
      /\ rows' = [c \in Calls |-> IF c \in mine THEN "denied"
                                  ELSE IF c \in judged THEN "pending" ELSE rows[c]]
      /\ phase' = [c \in Calls |-> IF c \in stopped THEN "aborted"
                                   ELSE Woken(mine, "denied")[c]]
      /\ notices' = notices \cup judged
      /\ sessAuto' = [k \in Sessions |-> IF k \in kids \/ (fresh /\ k = s)
                                         THEN {} ELSE sessAuto[k]]
      /\ killed' = killed \cup kids
      /\ UNCHANGED <<tier, due, path, yolo, cruise, grantVars, restarted>>

-----------------------------------------------------------------------------
(* The operator *)

\* hitl_pending_approve, hitl_pending_deny.
Command(c, status) ==
  /\ c \in Pending
  /\ Resolve({c}, status)
  /\ UNCHANGED <<tier, due, notices, sessAuto, yolo, cruise, grantVars, killed, restarted>>

\* Faulty variant: the grant is for future calls only.
SameToolFuture(c, S) == {c}

SameTool(c, S) == {d \in CallsOf(S) : ToolOf[d] = ToolOf[c]}

\* applyKind on a registered notice, however old.
React(c, kind) ==
  /\ c \in notices
  /\ \/ /\ kind = "once"
        /\ Resolve({c}, "approved")
        /\ UNCHANGED <<sessAuto, grantVars>>
     \/ /\ kind = "deny"
        /\ Resolve({c}, "denied")
        /\ UNCHANGED <<sessAuto, grantVars>>
     \/ /\ kind = "session"
        /\ Resolve(SameTool(c, {SessionOf[c]}), "approved")
        /\ sessAuto' = [sessAuto EXCEPT ![SessionOf[c]] = @ \cup {ToolOf[c]}]
        /\ UNCHANGED grantVars
     \/ /\ kind = "agent"
        /\ Resolve(SameTool(c, Sessions), "approved")
        /\ agentAuto' = agentAuto \cup {ToolOf[c]}
        /\ UNCHANGED <<sessAuto, clearing>>
  /\ UNCHANGED <<tier, due, notices, yolo, cruise, killed, restarted>>

\* Faulty variant: resolved rows go too.
ClearedAny(S) == [c \in Calls |-> IF c \in CallsOf(S) /\ rows[c] # "none" THEN "gone" ELSE rows[c]]

\* hitl_clear: the rows go without a word to their waiters.  Unless it is for
\* one session or with no_auto, the grants go too.
Cleared(S) == [c \in Calls |-> IF c \in CallsOf(S) \cap Pending THEN "gone" ELSE rows[c]]

ClearRows(S) ==
  /\ CallsOf(S) \cap Pending # {}
  /\ rows' = Cleared(S)
  /\ UNCHANGED <<tier, due, phase, path, notices, sessAuto, yolo, cruise, grantVars, killed,
                 restarted>>

ClearAll ==
  /\ rows' = Cleared(Sessions)
  /\ sessAuto' = [s \in Sessions |-> {}]
  /\ clearing' = TRUE
  /\ UNCHANGED <<tier, due, phase, path, notices, yolo, cruise, agentAuto, killed, restarted>>

\* The agent's grants go only after the awaited rewrite of the file, which a
\* grant being persisted may undo (AgentGrants).
ClearEnds ==
  /\ clearing
  /\ clearing' = FALSE
  /\ \E kept \in SUBSET agentAuto : agentAuto' = kept
  /\ UNCHANGED <<tier, callVars, sessAuto, yolo, cruise, killed, restarted>>

SetYolo(s, on) ==
  /\ yolo' = IF on THEN yolo \cup {s} ELSE yolo \ {s}
  /\ UNCHANGED <<tier, callVars, sessAuto, cruise, grantVars, killed, restarted>>

SetCruise(s, on) ==
  /\ cruise' = IF on THEN cruise \cup {s} ELSE cruise \ {s}
  /\ UNCHANGED <<tier, callVars, sessAuto, yolo, grantVars, killed, restarted>>

\* Rows, session grants, yolo mode and the agent's grants on disk survive;
\* waiters, notices, cruise control and the rest do not.
Restart ==
  /\ ~restarted
  /\ restarted' = TRUE
  /\ phase' = [c \in Calls |-> IF phase[c] \in {"judged", "waiting"} THEN "lost" ELSE phase[c]]
  /\ notices' = {}
  /\ cruise' = {}
  /\ \E onDisk \in SUBSET agentAuto : agentAuto' = onDisk
  /\ clearing' = FALSE
  /\ UNCHANGED <<tier, rows, due, path, sessAuto, yolo, killed>>

\* The sessions whose modes matter to some call.
Callers == {SessionOf[c] : c \in Calls}

Operate ==
  \/ "approve" \in Commands /\ \E c \in Calls : Command(c, "approved")
  \/ "deny" \in Commands /\ \E c \in Calls : Command(c, "denied")
  \/ "clear" \in Commands /\ \E s \in Sessions : ClearRows({s})
  \/ "clear" \in Commands /\ ClearAll
  \/ "yolo" \in Commands /\ \E s \in Callers, on \in BOOLEAN : SetYolo(s, on)
  \/ "cruise" \in Commands /\ \E s \in Callers, on \in BOOLEAN : SetCruise(s, on)
  \/ "segment" \in Commands /\ \E s \in Sessions, fresh \in BOOLEAN : ContextSegment(s, fresh)

Next ==
  \/ \E c \in Calls, review \in BOOLEAN : Gate(c, review)
  \/ \E c \in Calls, d \in {"approve", "deny", "escalate"} : Judge(c, d)
  \/ \E c \in Calls : TimePasses(c)
  \/ ExpireTick
  \/ \E s \in Sessions : Abort(s)
  \/ ClearEnds
  \/ \E c \in Calls, k \in Reactions : React(c, k)
  \/ Operate
  \/ Restart

\* A judge is bounded by CRUISE_JUDGE_TIMEOUT_MS, time passes, and a waiting
\* call's interval runs every HITL_EXPIRE_POLL_MS.
Fairness ==
  /\ \A c \in Calls : WF_vars(\E d \in {"approve", "deny", "escalate"} : Judge(c, d))
  /\ \A c \in Calls : WF_vars(TimePasses(c))
  /\ WF_vars(ExpireTick)

Spec == Init /\ [][Next]_vars
LiveSpec == Spec /\ Fairness

-----------------------------------------------------------------------------
(* Properties *)

Statuses == {"none", "pending", "approved", "denied", "expired", "gone"}
Phases == {"idle", "judged", "waiting", "ran", "answered", "aborted", "lost"}

\* The state is well formed.
TypeOK ==
  /\ tier \in [Tools -> Risks]
  /\ rows \in [Calls -> Statuses]
  /\ due \subseteq Calls
  /\ phase \in [Calls -> Phases]
  /\ path \in [Calls -> {"none", "bypass", "yolo", "auto", "cruise", "row",
                          "risk", "review", "doubt"}]
  /\ notices \subseteq Calls
  /\ sessAuto \in [Sessions -> SUBSET Tools]
  /\ yolo \subseteq Sessions /\ cruise \subseteq Sessions /\ killed \subseteq Sessions
  /\ agentAuto \subseteq Tools
  /\ clearing \in BOOLEAN /\ restarted \in BOOLEAN

\* The row and the call agree however approvals, denials, expiry, aborts, clears
\* and a restart interleave: a call that ran on its row has an approved row, one
\* whose row was denied or expired never ran, and a call with an approved row
\* was not told it was denied.
RowDecides ==
  \A c \in Calls :
    /\ path[c] = "row" => rows[c] = "approved"
    /\ rows[c] \in {"denied", "expired"} => phase[c] # "ran"
    /\ rows[c] = "approved" => phase[c] # "answered"

\* No wakeup is lost: no call still waits on a row that was approved, denied or
\* expired.
SettledResumes ==
  \A c \in Calls : phase[c] = "waiting" => rows[c] \in {"pending", "gone"}

\* The call that waits and the row it waits on tell the same story, in every
\* order of decisions around the start of the wait (hub and pending stack).
WaitersFollowRows == TypeOK /\ RowDecides /\ SettledResumes

\* A resolved row never changes: neither a late reaction on an old notice, nor
\* expiry, nor a clear reopens or overturns a decision.
ResolvedIsFinal ==
  [][\A c \in Calls : rows[c] \in {"approved", "denied", "expired", "gone"}
                      => rows'[c] = rows[c]]_vars

\* "All pending + future uses of this tool in this session": while a session's
\* grant stands, no call of that session waits because of the same tool's risk,
\* unless its tier is never.  Calls that policy wants reviewed, and calls that
\* were with the judge when the grant was given, do wait.
GrantCoversPending ==
  \A c \in Calls :
    phase[c] = "waiting" /\ rows[c] = "pending" /\ path[c] = "risk"
      /\ ToolOf[c] \in sessAuto[SessionOf[c]]
      => tier[ToolOf[c]] = "never"

\* Every call that waits is resumed, by an operator, an expiry, an abort or a
\* restart, unless its row was cleared.
WaitEnds ==
  \A c \in Calls : phase[c] \in {"judged", "waiting"}
                   ~> (phase[c] \notin {"judged", "waiting"} \/ rows[c] = "gone")

\* The hub's contract, "so the tool loop can resume": every wait ends.
EveryWaitEnds ==
  \A c \in Calls : phase[c] = "waiting" ~> phase[c] # "waiting"
=============================================================================
