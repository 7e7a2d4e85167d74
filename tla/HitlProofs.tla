----------------------------- MODULE HitlProofs -----------------------------
(***************************************************************************)
(* Safety of the approvals for any calls, sessions, tools and commands,    *)
(* and of the rewrites of the grants file for any tools and rewrites.      *)
(***************************************************************************)
EXTENDS MCHitl, TLAPS

\* What the phase of a call says about its row and about what let it run.  A call
\* that has not been asked about has no row; one that waits has a row that is still
\* open, or was cleared; one that ran was let through without a row, or by it.
CallOK(c) ==
  /\ phase[c] \in {"idle", "judged"} => rows[c] = "none" /\ path[c] = "none"
  /\ phase[c] = "waiting" => rows[c] \in {"pending", "gone"} /\ path[c] # "row"
  /\ phase[c] = "ran" => \/ path[c] = "row" /\ rows[c] = "approved"
                         \/ path[c] # "row" /\ rows[c] = "none"
  /\ phase[c] = "answered" => rows[c] \in {"none", "denied", "expired"} /\ path[c] # "row"
  /\ phase[c] \in {"aborted", "lost"} => path[c] # "row"

\* A call that waits for its tool's risk alone is not covered by a grant of its session.
Uncovered(c) ==
  phase[c] = "waiting" /\ rows[c] = "pending" /\ path[c] = "risk" /\ tier[ToolOf[c]] # "never"
    => ToolOf[c] \notin sessAuto[SessionOf[c]]

\* The inductive invariant of the gate.
IInv == TypeOK /\ \A c \in Calls : CallOK(c) /\ Uncovered(c)

-----------------------------------------------------------------------------
(* The store and the hub.                                                  *)

\* Resolving any set of calls keeps each call and its row in step.
LEMMA ResolvedCalls ==
  ASSUME IInv, NEW S, NEW status \in {"approved", "denied", "expired"}
  PROVE  /\ Updated(S, status) \in [Calls -> Statuses]
         /\ Woken(S, status) \in [Calls -> Phases]
         /\ WokenPath(S, status) \in [Calls -> {"none", "bypass", "yolo", "auto", "cruise", "row",
                                               "risk", "review", "doubt"}]
  BY DEF IInv, TypeOK, Updated, Woken, WokenPath, Statuses, Phases

LEMMA ResolvedCall ==
  ASSUME IInv, NEW S, NEW status \in {"approved", "denied", "expired"}, NEW c \in Calls,
         rows'[c] = Updated(S, status)[c], phase'[c] = Woken(S, status)[c],
         path'[c] = WokenPath(S, status)[c]
  PROVE  /\ CallOK(c)'
         /\ \/ rows'[c] = rows[c] /\ phase'[c] = phase[c] /\ path'[c] = path[c]
            \/ c \in S /\ rows[c] = "pending" /\ rows'[c] = status /\ phase'[c] # "waiting"
<1>1. CallOK(c)
  BY DEF IInv
<1> QED
  BY <1>1 DEF CallOK, Updated, Woken, WokenPath, Pending

-----------------------------------------------------------------------------
(* Every step of the gate keeps the invariant.                             *)

LEMMA InitIInv == Init => IInv
<1> SUFFICES ASSUME Init PROVE IInv
  OBVIOUS
<1>1. TypeOK
  BY DEF Init, TypeOK, Statuses, Phases
<1>2. \A c \in Calls : CallOK(c) /\ Uncovered(c)
  BY DEF Init, CallOK, Uncovered
<1> QED
  BY <1>1, <1>2 DEF IInv

\* A step that resolves a set of calls and changes no grant.
LEMMA ResolveStep ==
  ASSUME IInv, NEW S, NEW status \in {"approved", "denied", "expired"}, Resolve(S, status),
         UNCHANGED <<tier, due, notices, sessAuto, yolo, cruise, grantVars, killed, restarted>>
  PROVE  IInv'
<1>1. TypeOK'
  BY ResolvedCalls DEF IInv, TypeOK, Resolve, grantVars
<1>2. ASSUME NEW c \in Calls PROVE CallOK(c)' /\ Uncovered(c)'
  <2>1. /\ rows'[c] = Updated(S, status)[c]
        /\ phase'[c] = Woken(S, status)[c]
        /\ path'[c] = WokenPath(S, status)[c]
    BY DEF Resolve
  <2> QED
    BY <2>1, ResolvedCall DEF IInv, Uncovered
<1> QED
  BY <1>1, <1>2 DEF IInv

LEMMA GateStep ==
  ASSUME IInv, NEW c \in Calls, NEW review \in BOOLEAN, Gate(c, review)
  PROVE  IInv'
<1> DEFINE Why == IF review THEN "review" ELSE "risk"
<1>1. rows[c] = "none" /\ path[c] = "none" /\ phase[c] = "idle"
  BY DEF Gate, IInv, CallOK
<1>2. PICK r \in {"none", "pending"}, p \in {"ran", "judged", "waiting"},
           w \in {"none", "auto", "yolo", "bypass", "review", "risk"} :
        /\ rows' = [Updated(due, "expired") EXCEPT ![c] = r]
        /\ phase' = [Woken(due, "expired") EXCEPT ![c] = p]
        /\ path' = [WokenPath(due, "expired") EXCEPT ![c] = w]
        /\ \/ p = "ran" /\ r = "none"
           \/ p = "judged" /\ r = "none" /\ w = "none"
           \/ p = "waiting" /\ r = "pending"
        /\ w = "risk" => /\ ~Passes(c, review) /\ ~review
                         /\ AutoApproved(c) \/ SessionOf[c] \notin cruise
  <2>1. /\ Updated(due, "expired") = [Updated(due, "expired") EXCEPT ![c] = "none"]
        /\ WokenPath(due, "expired") = [WokenPath(due, "expired") EXCEPT ![c] = "none"]
    BY <1>1 DEF Updated, WokenPath, Pending
  <2> QED
    BY <2>1 DEF Gate, Enqueue
<1>3. due' = due /\ notices' \in {notices, notices \cup {c}}
  BY DEF Gate, Enqueue
<1>4. UNCHANGED <<tier, sessAuto, yolo, cruise, agentAuto, clearing, killed, restarted>>
  BY DEF Gate, grantVars
<1>5. TypeOK'
  <2>1. /\ rows' \in [Calls -> Statuses]
        /\ phase' \in [Calls -> Phases]
        /\ path' \in [Calls -> {"none", "bypass", "yolo", "auto", "cruise", "row",
                                "risk", "review", "doubt"}]
    BY <1>2, ResolvedCalls DEF Statuses, Phases
  <2> QED
    BY <2>1, <1>3, <1>4 DEF IInv, TypeOK
<1>6. ASSUME NEW d \in Calls, d # c PROVE CallOK(d)' /\ Uncovered(d)'
  <2>1. /\ rows'[d] = Updated(due, "expired")[d]
        /\ phase'[d] = Woken(due, "expired")[d]
        /\ path'[d] = WokenPath(due, "expired")[d]
    BY <1>2, <1>6 DEF Updated, Woken, WokenPath
  <2> QED
    BY <2>1, <1>4, ResolvedCall DEF IInv, Uncovered
<1>7. CallOK(c)' /\ Uncovered(c)'
  <2>1. rows'[c] = r /\ phase'[c] = p /\ path'[c] = w
    BY <1>2 DEF Updated, Woken, WokenPath
  <2>2. CallOK(c)'
    BY <2>1, <1>2 DEF CallOK
  <2>3. ASSUME w = "risk", tier[ToolOf[c]] # "never" PROVE ToolOf[c] \notin sessAuto[SessionOf[c]]
    BY <2>3, <1>2 DEF Passes, AutoApproved, shouldAutoApprove
  <2> QED
    BY <2>1, <2>2, <2>3, <1>4 DEF Uncovered
<1> QED
  BY <1>5, <1>6, <1>7 DEF IInv

LEMMA JudgeStep ==
  ASSUME IInv, NEW c \in Calls, NEW decision \in {"approve", "deny", "escalate"},
         Judge(c, decision)
  PROVE  IInv'
<1>1. rows[c] = "none" /\ path[c] = "none" /\ phase[c] = "judged"
  BY DEF Judge, IInv, CallOK
<1>2. UNCHANGED <<tier, sessAuto, yolo, cruise, agentAuto, clearing, killed, restarted>>
  BY DEF Judge, grantVars
<1>3. CASE decision \in {"approve", "deny"}
  <2>1. PICK p \in {"ran", "answered"}, w \in {"cruise", "none"} :
          phase' = [phase EXCEPT ![c] = p] /\ path' = [path EXCEPT ![c] = w]
    <3>1. path = [path EXCEPT ![c] = "none"]
      BY <1>1 DEF IInv, TypeOK
    <3> QED
      BY <3>1, <1>3 DEF Judge
  <2>2. UNCHANGED <<rows, due, notices>>
    BY <1>3 DEF Judge
  <2>3. TypeOK'
    BY <2>1, <2>2, <1>2 DEF IInv, TypeOK, Phases
  <2>4. \A d \in Calls : CallOK(d)' /\ Uncovered(d)'
    BY <2>1, <2>2, <1>1, <1>2 DEF IInv, TypeOK, CallOK, Uncovered
  <2> QED
    BY <2>3, <2>4 DEF IInv
<1>4. CASE decision = "escalate"
  <2>1. /\ rows' = [Updated(due, "expired") EXCEPT ![c] = "pending"]
        /\ phase' = [Woken(due, "expired") EXCEPT ![c] = "waiting"]
        /\ path' = [WokenPath(due, "expired") EXCEPT ![c] = "doubt"]
        /\ notices' = notices \cup {c} /\ due' = due
    BY <1>4 DEF Judge, Enqueue
  <2>2. TypeOK'
    BY <2>1, <1>2, ResolvedCalls DEF IInv, TypeOK, Statuses, Phases
  <2>3. ASSUME NEW d \in Calls, d # c PROVE CallOK(d)' /\ Uncovered(d)'
    <3>1. /\ rows'[d] = Updated(due, "expired")[d]
          /\ phase'[d] = Woken(due, "expired")[d]
          /\ path'[d] = WokenPath(due, "expired")[d]
      BY <2>1, <2>3 DEF Updated, Woken, WokenPath
    <3> QED
      BY <3>1, <1>2, ResolvedCall DEF IInv, Uncovered
  <2>4. CallOK(c)' /\ Uncovered(c)'
    BY <2>1 DEF CallOK, Uncovered, Updated, Woken, WokenPath
  <2> QED
    BY <2>2, <2>3, <2>4 DEF IInv
<1> QED
  BY <1>3, <1>4

LEMMA TimeStep ==
  ASSUME IInv, NEW c \in Calls, TimePasses(c)
  PROVE  IInv'
<1>1. TypeOK'
  BY DEF TimePasses, IInv, TypeOK, grantVars
<1>2. \A d \in Calls : CallOK(d)' /\ Uncovered(d)'
  BY DEF TimePasses, IInv, CallOK, Uncovered
<1> QED
  BY <1>1, <1>2 DEF IInv

LEMMA AbortStep ==
  ASSUME IInv, NEW s \in Sessions, Abort(s)
  PROVE  IInv'
<1>1. TypeOK'
  BY DEF Abort, IInv, TypeOK, grantVars, AbortedRows, AbortedPhase, AbortedNotices, CallsOf,
         Statuses, Phases
<1>2. \A d \in Calls : CallOK(d)' /\ Uncovered(d)'
  BY DEF Abort, IInv, CallOK, Uncovered, AbortedRows, AbortedPhase, CallsOf
<1> QED
  BY <1>1, <1>2 DEF IInv

LEMMA SegmentStep ==
  ASSUME IInv, NEW s \in Sessions, NEW fresh \in BOOLEAN, ContextSegment(s, fresh)
  PROVE  IInv'
<1> DEFINE kids == Children(s)
           mine == CallsOf({s}) \cap Pending
           judged == {c \in CallsOf(kids) : phase[c] = "judged"}
           stopped == {c \in CallsOf(kids) : phase[c] \in {"judged", "waiting"}}
<1>1. /\ rows' = [c \in Calls |-> IF c \in mine THEN "denied"
                                  ELSE IF c \in judged THEN "pending" ELSE rows[c]]
      /\ phase' = [c \in Calls |-> IF c \in stopped THEN "aborted"
                                   ELSE Woken(mine, "denied")[c]]
      /\ notices' = notices \cup judged
      /\ sessAuto' = [k \in Sessions |-> IF k \in kids \/ (fresh /\ k = s)
                                         THEN {} ELSE sessAuto[k]]
      /\ killed' = killed \cup kids
      /\ UNCHANGED <<tier, due, path, yolo, cruise, agentAuto, clearing, restarted>>
  BY DEF ContextSegment, grantVars
<1>2. judged \subseteq Calls /\ kids \subseteq Sessions
  BY DEF CallsOf, Children
<1>3. \A c \in Calls : Woken(mine, "denied")[c]
                       = IF c \in mine /\ phase[c] = "waiting" THEN "answered" ELSE phase[c]
  BY DEF Woken
<1>4. \A c \in mine : rows[c] = "pending" /\ c \notin stopped
  BY DEF Pending, CallsOf, Children
<1>5. TypeOK'
  <2>1. rows' \in [Calls -> Statuses] /\ phase' \in [Calls -> Phases]
    BY <1>1, <1>3 DEF IInv, TypeOK, Statuses, Phases
  <2> HIDE DEF kids, judged
  <2> QED
    BY <1>1, <1>2, <2>1 DEF IInv, TypeOK
<1>6. ASSUME NEW c \in Calls PROVE CallOK(c)' /\ Uncovered(c)'
  <2>1. CallOK(c) /\ Uncovered(c) /\ SessionOf[c] \in Sessions
    BY ApprovalAssumption DEF IInv
  <2>2. /\ c \in mine => rows'[c] = "denied" /\ phase'[c] # "waiting"
                         /\ phase'[c] = IF phase[c] = "waiting" THEN "answered" ELSE phase[c]
        /\ c \in judged => phase[c] = "judged" /\ rows'[c] = "pending" /\ phase'[c] = "aborted"
        /\ c \notin mine \cup judged => rows'[c] = rows[c]
        /\ c \notin mine \cup judged => \/ phase'[c] = phase[c]
                                        \/ phase'[c] = "aborted" /\ phase[c] = "waiting"
        /\ path'[c] = path[c]
    BY <1>1, <1>3, <1>4
  <2>3. c \in mine => rows[c] = "pending"
    BY <1>4
  <2>4. sessAuto'[SessionOf[c]] \subseteq sessAuto[SessionOf[c]]
    BY <1>1, <2>1
  <2> HIDE DEF mine, judged
  <2>5. CallOK(c)'
    BY <2>1, <2>2, <2>3 DEF CallOK
  <2>6. Uncovered(c)'
    BY <2>1, <2>2, <2>3, <2>4, <1>1 DEF Uncovered
  <2> QED
    BY <2>5, <2>6
<1> QED
  BY <1>5, <1>6 DEF IInv

LEMMA ReactStep ==
  ASSUME IInv, NEW c \in Calls, NEW kind \in {"once", "deny", "session", "agent"}, React(c, kind)
  PROVE  IInv'
<1>1. PICK S \in SUBSET Calls, status \in {"approved", "denied"} :
        /\ Resolve(S, status)
        /\ \/ sessAuto' = sessAuto
           \/ /\ sessAuto' = [sessAuto EXCEPT ![SessionOf[c]] = @ \cup {ToolOf[c]}]
              /\ S = SameTool(c, {SessionOf[c]})
        /\ agentAuto' \in {agentAuto, agentAuto \cup {ToolOf[c]}} /\ clearing' = clearing
  <2>1. {c} \in SUBSET Calls /\ \A T : SameTool(c, T) \in SUBSET Calls
    BY DEF SameTool, CallsOf
  <2>2. CASE kind = "once"
    BY <2>1, <2>2 DEF React, grantVars
  <2>3. CASE kind = "deny"
    BY <2>1, <2>3 DEF React, grantVars
  <2>4. CASE kind = "session"
    BY <2>1, <2>4 DEF React, grantVars
  <2>5. CASE kind = "agent"
    BY <2>1, <2>5 DEF React, grantVars
  <2> QED
    BY <2>2, <2>3, <2>4, <2>5
<1>2. UNCHANGED <<tier, due, notices, yolo, cruise, killed, restarted>>
  BY DEF React
<1>3. SessionOf[c] \in Sessions /\ ToolOf[c] \in Tools
  BY ApprovalAssumption
<1>4. TypeOK'
  <2>1. /\ rows' \in [Calls -> Statuses]
        /\ phase' \in [Calls -> Phases]
        /\ path' \in [Calls -> {"none", "bypass", "yolo", "auto", "cruise", "row",
                                "risk", "review", "doubt"}]
    BY <1>1, ResolvedCalls DEF Resolve
  <2>2. sessAuto' \in [Sessions -> SUBSET Tools]
    BY <1>1, <1>3 DEF IInv, TypeOK
  <2> QED
    BY <2>1, <2>2, <1>1, <1>2, <1>3 DEF IInv, TypeOK
<1>5. ASSUME NEW d \in Calls PROVE CallOK(d)' /\ Uncovered(d)'
  <2>1. /\ rows'[d] = Updated(S, status)[d]
        /\ phase'[d] = Woken(S, status)[d]
        /\ path'[d] = WokenPath(S, status)[d]
    BY <1>1 DEF Resolve
  <2>2. /\ CallOK(d)'
        /\ \/ rows'[d] = rows[d] /\ phase'[d] = phase[d] /\ path'[d] = path[d]
           \/ phase'[d] # "waiting"
    BY <2>1, ResolvedCall
  <2>3. Uncovered(d) /\ SessionOf[d] \in Sessions
    BY ApprovalAssumption DEF IInv
  <2>4. CASE sessAuto' = sessAuto
    BY <2>2, <2>3, <2>4, <1>2 DEF Uncovered
  <2>5. CASE /\ sessAuto' = [sessAuto EXCEPT ![SessionOf[c]] = @ \cup {ToolOf[c]}]
             /\ S = SameTool(c, {SessionOf[c]})
    <3>1. CASE SessionOf[d] = SessionOf[c] /\ ToolOf[d] = ToolOf[c]
      <4>1. d \in S
        BY <2>5, <3>1 DEF SameTool, CallsOf
      <4>2. rows'[d] # "pending"
        BY <4>1, <2>1 DEF Updated, Pending
      <4> QED
        BY <2>2, <4>2 DEF Uncovered
    <3>2. CASE ~(SessionOf[d] = SessionOf[c] /\ ToolOf[d] = ToolOf[c])
      <4>1. ToolOf[d] \in sessAuto'[SessionOf[d]] => ToolOf[d] \in sessAuto[SessionOf[d]]
        BY <2>3, <2>5, <3>2 DEF IInv, TypeOK
      <4> QED
        BY <2>2, <2>3, <4>1, <1>2 DEF Uncovered
    <3> QED
      BY <3>1, <3>2
  <2> QED
    BY <2>2, <2>4, <2>5, <1>1
<1> QED
  BY <1>4, <1>5 DEF IInv

LEMMA ClearRowsStep ==
  ASSUME IInv, NEW S, ClearRows(S) \/ (S = Sessions /\ ClearAll)
  PROVE  IInv'
<1>1. /\ rows' = Cleared(S)
      /\ sessAuto' \in {sessAuto, [s \in Sessions |-> {}]}
      /\ clearing' \in {clearing, TRUE}
      /\ UNCHANGED <<tier, due, phase, path, notices, yolo, cruise, agentAuto, killed, restarted>>
  BY DEF ClearRows, ClearAll, grantVars
<1>2. TypeOK'
  BY <1>1 DEF IInv, TypeOK, Cleared, Statuses
<1>3. \A c \in Calls : \/ rows'[c] = rows[c]
                       \/ rows[c] = "pending" /\ rows'[c] = "gone"
  BY <1>1 DEF Cleared, Pending
<1>4. \A c \in Calls : sessAuto'[SessionOf[c]] \subseteq sessAuto[SessionOf[c]]
  BY <1>1, ApprovalAssumption
<1>5. \A c \in Calls : CallOK(c)' /\ Uncovered(c)'
  BY <1>1, <1>3, <1>4 DEF IInv, CallOK, Uncovered
<1> QED
  BY <1>2, <1>5 DEF IInv

\* The steps that change the modes and the agent's grants only.
LEMMA ModeStep ==
  ASSUME IInv,
         \/ ClearEnds
         \/ \E s \in Callers, on \in BOOLEAN : SetYolo(s, on) \/ SetCruise(s, on)
  PROVE  IInv'
<1>1. /\ UNCHANGED <<tier, rows, due, phase, path, notices, sessAuto, killed, restarted>>
      /\ yolo' \subseteq Sessions /\ cruise' \subseteq Sessions
      /\ agentAuto' \subseteq Tools /\ clearing' \in BOOLEAN
  <2>1. Callers \subseteq Sessions
    BY ApprovalAssumption DEF Callers
  <2> QED
    BY <2>1 DEF ClearEnds, SetYolo, SetCruise, IInv, TypeOK, callVars, grantVars
<1>2. TypeOK'
  BY <1>1 DEF IInv, TypeOK
<1>3. \A c \in Calls : CallOK(c)' /\ Uncovered(c)'
  BY <1>1 DEF IInv, CallOK, Uncovered
<1> QED
  BY <1>2, <1>3 DEF IInv

LEMMA RestartStep ==
  ASSUME IInv, Restart
  PROVE  IInv'
<1>1. TypeOK'
  BY DEF Restart, IInv, TypeOK, Phases
<1>2. \A c \in Calls : CallOK(c)' /\ Uncovered(c)'
  BY DEF Restart, IInv, CallOK, Uncovered
<1> QED
  BY <1>1, <1>2 DEF IInv

LEMMA NextIInv ==
  ASSUME IInv, [Next]_vars
  PROVE  IInv'
<1>1. CASE UNCHANGED vars
  <2>1. TypeOK'
    BY <1>1 DEF vars, callVars, grantVars, IInv, TypeOK
  <2>2. \A c \in Calls : CallOK(c)' /\ Uncovered(c)'
    BY <1>1 DEF vars, callVars, grantVars, IInv, CallOK, Uncovered
  <2> QED
    BY <2>1, <2>2 DEF IInv
<1>2. CASE \E c \in Calls, review \in BOOLEAN : Gate(c, review)
  BY <1>2, GateStep
<1>3. CASE \E c \in Calls, d \in {"approve", "deny", "escalate"} : Judge(c, d)
  BY <1>3, JudgeStep
<1>4. CASE \E c \in Calls : TimePasses(c)
  BY <1>4, TimeStep
<1>5. CASE ExpireTick
  BY <1>5, ResolveStep DEF ExpireTick, Expire
<1>6. CASE \E s \in Sessions : Abort(s)
  BY <1>6, AbortStep
<1>7. CASE \E c \in Calls, k \in Reactions : React(c, k)
  <2>1. PICK c \in Calls, k \in Reactions : React(c, k)
    BY <1>7
  <2>2. k \in {"once", "deny", "session", "agent"}
    BY ApprovalAssumption
  <2> QED
    BY <2>1, <2>2, ReactStep
<1>8. CASE Operate
  <2>1. CASE \E c \in Calls, status \in {"approved", "denied"} : Command(c, status)
    BY <2>1, ResolveStep DEF Command
  <2>2. CASE \/ \E s \in Sessions : ClearRows({s})
             \/ ClearAll
    BY <2>2, ClearRowsStep
  <2>3. CASE \E s \in Callers, on \in BOOLEAN : SetYolo(s, on) \/ SetCruise(s, on)
    BY <2>3, ModeStep
  <2>4. CASE \E s \in Sessions, fresh \in BOOLEAN : ContextSegment(s, fresh)
    BY <2>4, SegmentStep
  <2> QED
    BY <1>8, <2>1, <2>2, <2>3, <2>4 DEF Operate
<1>9. CASE ClearEnds
  BY <1>9, ModeStep
<1>10. CASE Restart
  BY <1>10, RestartStep
<1> QED
  BY <1>1, <1>2, <1>3, <1>4, <1>5, <1>6, <1>7, <1>8, <1>9, <1>10 DEF Next

\* No step of the gate touches a row that was decided or cleared.
LEMMA DecidedStays ==
  ASSUME IInv, [Next]_vars, NEW c \in Calls, rows[c] \in {"approved", "denied", "expired", "gone"}
  PROVE  rows'[c] = rows[c]
<1>1. c \notin Pending /\ phase[c] \notin {"idle", "judged"}
  BY DEF Pending, IInv, CallOK
<1>2. \A S : \A status \in {"approved", "denied", "expired"} : Updated(S, status)[c] = rows[c]
  BY <1>1 DEF Updated
<1>3. CASE UNCHANGED vars
  BY <1>3 DEF vars, callVars
<1>4. CASE \E d \in Calls, review \in BOOLEAN : Gate(d, review)
  <2>1. PICK d \in Calls, review \in BOOLEAN : Gate(d, review)
    BY <1>4
  <2>2. d # c
    BY <2>1, <1>1 DEF Gate
  <2> QED
    BY <2>1, <2>2, <1>2 DEF Gate, Enqueue, Updated
<1>5. CASE \E d \in Calls, e \in {"approve", "deny", "escalate"} : Judge(d, e)
  <2>1. PICK d \in Calls, e \in {"approve", "deny", "escalate"} : Judge(d, e)
    BY <1>5
  <2>2. d # c
    BY <2>1, <1>1 DEF Judge
  <2> QED
    BY <2>1, <2>2, <1>2 DEF Judge, Enqueue, Updated
<1>6. CASE (\E d \in Calls : TimePasses(d)) \/ ClearEnds \/ Restart
  BY <1>6 DEF TimePasses, ClearEnds, Restart, callVars
<1>7. CASE ExpireTick
  BY <1>7, <1>2 DEF ExpireTick, Expire, Resolve
<1>8. CASE \E s \in Sessions : Abort(s)
  BY <1>8, <1>1 DEF Abort, AbortedRows
<1>9. CASE \E d \in Calls, k \in Reactions : React(d, k)
  BY <1>9, <1>2 DEF React, Resolve
<1>10. CASE Operate
  <2>1. CASE \E d \in Calls, status \in {"approved", "denied"} : Command(d, status)
    BY <2>1, <1>2 DEF Command, Resolve
  <2>2. CASE \/ \E s \in Sessions : ClearRows({s})
             \/ ClearAll
    BY <2>2, <1>1 DEF ClearRows, ClearAll, Cleared
  <2>3. CASE \E s \in Callers, on \in BOOLEAN : SetYolo(s, on) \/ SetCruise(s, on)
    BY <2>3 DEF SetYolo, SetCruise, callVars
  <2>4. CASE \E s \in Sessions, fresh \in BOOLEAN : ContextSegment(s, fresh)
    BY <2>4, <1>1 DEF ContextSegment
  <2> QED
    BY <1>10, <2>1, <2>2, <2>3, <2>4 DEF Operate
<1> QED
  BY <1>3, <1>4, <1>5, <1>6, <1>7, <1>8, <1>9, <1>10 DEF Next

-----------------------------------------------------------------------------
(* The rewrites of the grants file.                                        *)

\* A rewrite that is in flight is one of the two kinds.
OpsKnown == \A o \in Ops : ops[o].at \notin {"none", "done"} => ops[o].kind \in {"persist", "clear"}

\* Where the file stands while one rewrite is in flight and nothing disturbed it.
AsFarAs(op) ==
  /\ op.kind = "persist" /\ op.at \in {"load", "loaded"} => granted = disk \cup op.tools
  /\ op.kind = "persist" /\ op.at \in {"reload", "reloaded"} => granted = disk
  /\ op.kind = "clear" /\ op.at \in {"reload", "reloaded"} => disk = {}
  /\ op.at \in {"loaded", "reloaded"} => op.snap = disk

\* While nothing is disturbed at most one rewrite is in flight, the file is as far
\* as it, and between rewrites the three copies agree.
Steady ==
  /\ \A o, q \in File!InFlight : o = q
  /\ \A o \in File!InFlight : AsFarAs(ops[o])
  /\ File!InFlight = {} => disk = granted /\ conf = granted

\* Until the first clear, a grant that memory does not hold is in the file, in the
\* configuration, and in what any rewrite has read and may still use.
Kept(t) ==
  /\ t \in disk /\ t \in conf
  /\ \A o \in Ops : ops[o].at \in {"loaded", "reloaded"} => t \in ops[o].snap

NoClear == \A o \in Ops : ops[o].kind # "clear"

\* The inductive invariant of the file.
FileInv ==
  /\ File!TypeOK
  /\ OpsKnown
  /\ ~disturbed => Steady
  /\ NoClear => \A t \in granted \ mem : Kept(t)

Rewrite == [kind : {"free", "persist", "clear"}, tools : SUBSET FileTools,
            at : {"none", "load", "loaded", "reload", "reloaded", "done"},
            snap : SUBSET FileTools]

LEMMA FileInit == File!Init => FileInv
<1> SUFFICES ASSUME File!Init PROVE FileInv
  OBVIOUS
<1>1. /\ File!Free \in Rewrite
      /\ File!Free.kind = "free" /\ File!Free.at = "none"
  BY DEF File!Free, Rewrite
<1>2. \A o \in Ops : ops[o] = File!Free
  BY DEF File!Init
<1>3. File!TypeOK
  BY <1>1 DEF File!Init, File!TypeOK, Rewrite
<1>4. File!InFlight = {} /\ OpsKnown
  BY <1>1, <1>2 DEF File!InFlight, OpsKnown
<1> QED
  BY <1>3, <1>4 DEF FileInv, Steady, File!Init

\* Rewriting the record of one operation.
LEMMA OneRewrite ==
  ASSUME FileInv, NEW o \in Ops, NEW v \in Rewrite, ops' = [ops EXCEPT ![o] = v]
  PROVE  /\ ops' \in [Ops -> Rewrite]
         /\ ops'[o] = v
         /\ \A q \in Ops : q # o => ops'[q] = ops[q]
  BY DEF FileInv, File!TypeOK, Rewrite

\* The start of a rewrite, which for a grant puts the tool into memory.
LEMMA StartStep ==
  ASSUME FileInv, NEW o \in Ops, NEW kind \in {"persist", "clear"}, NEW tools \in SUBSET FileTools,
         File!StartOp(o, kind, tools), kind = "clear" => tools = {},
         mem' = mem \cup tools, granted' = granted \cup tools, UNCHANGED <<disk, conf, rebooted>>
  PROVE  FileInv'
<1> DEFINE v == [kind |-> kind, tools |-> tools, at |-> "load", snap |-> {}]
<1>1. v \in Rewrite /\ v.kind = kind /\ v.tools = tools /\ v.at = "load"
  BY DEF Rewrite
<1>2. ops' = [ops EXCEPT ![o] = v] /\ disturbed' = (disturbed \/ File!InFlight # {})
  BY DEF File!StartOp
<1>3. ops[o].kind = "free" /\ ops[o].at = "none"
  BY DEF File!StartOp, File!Free
<1> HIDE DEF v
<1>4. /\ ops' \in [Ops -> Rewrite] /\ ops'[o] = v
      /\ \A q \in Ops : q # o => ops'[q] = ops[q]
  BY <1>1, <1>2, OneRewrite
<1>5. File!TypeOK'
  BY <1>2, <1>4 DEF FileInv, File!TypeOK, Rewrite
<1>6. OpsKnown'
  BY <1>1, <1>4 DEF FileInv, OpsKnown
<1>7. ASSUME ~disturbed' PROVE Steady'
  <2>1. File!InFlight = {} /\ disk = granted
    BY <1>2, <1>7 DEF FileInv, Steady
  <2>2. \A q \in File!InFlight' : q = o
    BY <1>4, <2>1 DEF File!InFlight
  <2>3. o \in File!InFlight'
    BY <1>1, <1>4 DEF File!InFlight
  <2>4. AsFarAs(ops[o])'
    BY <1>1, <1>4, <2>1 DEF AsFarAs
  <2> QED
    BY <2>2, <2>3, <2>4 DEF Steady
<1>8. ASSUME NoClear', NEW t \in granted' \ mem' PROVE Kept(t)'
  <2>1. NoClear
    BY <1>8, <1>3, <1>4 DEF NoClear
  <2>2. Kept(t)
    BY <2>1, <1>8 DEF FileInv
  <2> QED
    BY <2>2, <1>1, <1>4 DEF Kept
<1> QED
  BY <1>5, <1>6, <1>7, <1>8 DEF FileInv

\* A step of one rewrite that is in flight: it keeps its kind and its tools.
LEMMA Forward ==
  ASSUME FileInv, NEW o \in Ops, o \in File!InFlight,
         NEW a \in {"loaded", "reload", "reloaded", "done"}, NEW snap \in SUBSET FileTools,
         ops' = [ops EXCEPT ![o] = [ops[o] EXCEPT !.at = a, !.snap = snap]]
  PROVE  /\ ops' \in [Ops -> Rewrite]
         /\ ops'[o].kind = ops[o].kind /\ ops'[o].tools = ops[o].tools
         /\ ops'[o].at = a /\ ops'[o].snap = snap
         /\ \A q \in Ops : q # o => ops'[q] = ops[q]
         /\ ops[o].kind \in {"persist", "clear"}
         /\ OpsKnown'
         /\ NoClear' => NoClear
         /\ File!InFlight' = IF a = "done" THEN File!InFlight \ {o} ELSE File!InFlight
<1> DEFINE v == [ops[o] EXCEPT !.at = a, !.snap = snap]
<1>1. ops[o] \in Rewrite
  BY DEF FileInv, File!TypeOK, Rewrite
<1>2. /\ v \in Rewrite /\ v.kind = ops[o].kind /\ v.tools = ops[o].tools
      /\ v.at = a /\ v.snap = snap
  BY <1>1 DEF Rewrite
<1>3. ops' = [ops EXCEPT ![o] = v]
  OBVIOUS
<1> HIDE DEF v
<1>4. /\ ops' \in [Ops -> Rewrite] /\ ops'[o] = v
      /\ \A q \in Ops : q # o => ops'[q] = ops[q]
  BY <1>2, <1>3, OneRewrite
<1>5. ops[o].kind \in {"persist", "clear"}
  BY DEF FileInv, OpsKnown, File!InFlight
<1>6. OpsKnown'
  BY <1>2, <1>4, <1>5 DEF FileInv, OpsKnown
<1>7. NoClear' => NoClear
  BY <1>2, <1>4 DEF NoClear
<1>8. File!InFlight' = IF a = "done" THEN File!InFlight \ {o} ELSE File!InFlight
  BY <1>2, <1>4 DEF File!InFlight
<1> QED
  BY <1>2, <1>4, <1>5, <1>6, <1>7, <1>8

LEMMA ReadsStep ==
  ASSUME FileInv, NEW o \in Ops, File!Reads(o)
  PROVE  FileInv'
<1> DEFINE a == IF ops[o].at = "load" THEN "loaded" ELSE "reloaded"
<1>1. o \in File!InFlight /\ disk \in SUBSET FileTools
  BY DEF File!Reads, File!InFlight, FileInv, File!TypeOK
<1>2. ops' = [ops EXCEPT ![o] = [ops[o] EXCEPT !.at = a, !.snap = disk]]
  BY DEF File!Reads, FileInv, File!TypeOK
<1>3. UNCHANGED <<mem, disk, conf, granted, disturbed, rebooted>> /\ ops[o].at \in {"load", "reload"}
  BY DEF File!Reads
<1>4. a \in {"loaded", "reloaded"} /\ (a = "loaded" <=> ops[o].at = "load")
  BY <1>3
<1> HIDE DEF a
<1>5. /\ ops' \in [Ops -> Rewrite]
      /\ ops'[o].kind = ops[o].kind /\ ops'[o].tools = ops[o].tools
      /\ ops'[o].at = a /\ ops'[o].snap = disk
      /\ \A q \in Ops : q # o => ops'[q] = ops[q]
      /\ OpsKnown' /\ (NoClear' => NoClear)
      /\ File!InFlight' = File!InFlight
  BY <1>1, <1>2, <1>4, Forward
<1>6. File!TypeOK'
  BY <1>3, <1>5 DEF FileInv, File!TypeOK, Rewrite
<1>7. ASSUME ~disturbed' PROVE Steady'
  <2>1. Steady
    BY <1>3, <1>7 DEF FileInv
  <2>2. \A q \in File!InFlight : q = o
    BY <2>1, <1>1 DEF Steady
  <2>3. AsFarAs(ops[o])
    BY <2>1, <1>1 DEF Steady
  <2>4. AsFarAs(ops[o])'
    BY <2>3, <1>3, <1>4, <1>5 DEF AsFarAs
  <2> QED
    BY <2>2, <2>4, <1>1, <1>5 DEF Steady
<1>8. ASSUME NoClear', NEW t \in granted' \ mem' PROVE Kept(t)'
  <2>1. Kept(t)
    BY <1>8, <1>5, <1>3 DEF FileInv
  <2> QED
    BY <2>1, <1>3, <1>5 DEF Kept
<1> QED
  BY <1>5, <1>6, <1>7, <1>8 DEF FileInv

LEMMA WritesStep ==
  ASSUME FileInv, NEW o \in Ops, File!Writes(o)
  PROVE  FileInv'
<1>1. /\ o \in File!InFlight /\ ops[o].at = "loaded"
      /\ ops[o].snap \in SUBSET FileTools /\ ops[o].tools \in SUBSET FileTools
  BY DEF File!Writes, File!InFlight, FileInv, File!TypeOK
<1>2. ops' = [ops EXCEPT ![o] = [ops[o] EXCEPT !.at = "reload", !.snap = ops[o].snap]]
  <2>1. ops[o] \in Rewrite
    BY DEF FileInv, File!TypeOK, Rewrite
  <2>2. [ops[o] EXCEPT !.at = "reload"] = [ops[o] EXCEPT !.at = "reload", !.snap = ops[o].snap]
    BY <2>1 DEF Rewrite
  <2> QED
    BY <2>2 DEF File!Writes, FileInv, File!TypeOK
<1>3. /\ UNCHANGED <<mem, conf, granted, disturbed, rebooted>>
      /\ disk' = IF ops[o].kind = "persist" THEN ops[o].snap \cup ops[o].tools ELSE {}
  BY DEF File!Writes
<1>5. /\ ops' \in [Ops -> Rewrite]
      /\ ops'[o].kind = ops[o].kind /\ ops'[o].tools = ops[o].tools
      /\ ops'[o].at = "reload" /\ ops'[o].snap = ops[o].snap
      /\ \A q \in Ops : q # o => ops'[q] = ops[q]
      /\ ops[o].kind \in {"persist", "clear"}
      /\ OpsKnown' /\ (NoClear' => NoClear)
      /\ File!InFlight' = File!InFlight
  <2> DEFINE snap == ops[o].snap
             a == "reload"
  <2>1. /\ a \in {"loaded", "reload", "reloaded", "done"} /\ a # "done"
        /\ snap \in SUBSET FileTools
        /\ ops' = [ops EXCEPT ![o] = [ops[o] EXCEPT !.at = a, !.snap = snap]]
    BY <1>1, <1>2
  <2> HIDE DEF snap, a
  <2>2. /\ ops' \in [Ops -> Rewrite]
        /\ ops'[o].kind = ops[o].kind /\ ops'[o].tools = ops[o].tools
        /\ ops'[o].at = a /\ ops'[o].snap = snap
        /\ \A q \in Ops : q # o => ops'[q] = ops[q]
        /\ ops[o].kind \in {"persist", "clear"}
        /\ OpsKnown' /\ (NoClear' => NoClear)
        /\ File!InFlight' = File!InFlight
    BY <1>1, <2>1, Forward
  <2> QED
    BY <2>2 DEF snap, a
<1>6. File!TypeOK'
  BY <1>1, <1>3, <1>5 DEF FileInv, File!TypeOK, Rewrite
<1>7. ASSUME ~disturbed' PROVE Steady'
  <2>1. Steady
    BY <1>3, <1>7 DEF FileInv
  <2>2. \A q \in File!InFlight : q = o
    BY <2>1, <1>1 DEF Steady
  <2>3. AsFarAs(ops[o])
    BY <2>1, <1>1 DEF Steady
  <2>4. AsFarAs(ops[o])'
    BY <2>3, <1>1, <1>3, <1>5 DEF AsFarAs
  <2> QED
    BY <2>2, <2>4, <1>1, <1>5 DEF Steady
<1>8. ASSUME NoClear', NEW t \in granted' \ mem' PROVE Kept(t)'
  <2>1. Kept(t) /\ ops[o].kind = "persist"
    BY <1>8, <1>5, <1>3 DEF FileInv, NoClear
  <2> QED
    BY <2>1, <1>1, <1>3, <1>5 DEF Kept
<1> QED
  BY <1>5, <1>6, <1>7, <1>8 DEF FileInv

LEMMA EndsStep ==
  ASSUME FileInv, NEW o \in Ops, File!Ends(o)
  PROVE  FileInv'
<1>1. o \in File!InFlight /\ ops[o].at = "reloaded" /\ ops[o].snap \in SUBSET FileTools
  BY DEF File!Ends, File!InFlight, FileInv, File!TypeOK
<1>2. ops' = [ops EXCEPT ![o] = [ops[o] EXCEPT !.at = "done", !.snap = {}]]
  BY DEF File!Ends, File!Done
<1>3. /\ UNCHANGED <<disk, disturbed, rebooted>> /\ conf' = ops[o].snap
      /\ mem' = IF ops[o].kind = "clear" THEN {} ELSE mem
      /\ granted' = IF ops[o].kind = "clear" THEN {} ELSE granted
  BY DEF File!Ends
<1>5. /\ ops' \in [Ops -> Rewrite]
      /\ ops'[o].kind = ops[o].kind /\ ops'[o].tools = ops[o].tools
      /\ ops'[o].at = "done" /\ ops'[o].snap = {}
      /\ \A q \in Ops : q # o => ops'[q] = ops[q]
      /\ ops[o].kind \in {"persist", "clear"}
      /\ OpsKnown' /\ (NoClear' => NoClear)
      /\ File!InFlight' = File!InFlight \ {o}
  <2>1. {} \in SUBSET FileTools /\ "done" \in {"loaded", "reload", "reloaded", "done"}
    OBVIOUS
  <2> QED
    BY <1>1, <1>2, <2>1, Forward
<1>6. File!TypeOK'
  BY <1>1, <1>3, <1>5 DEF FileInv, File!TypeOK, Rewrite
<1>7. ASSUME ~disturbed' PROVE Steady'
  <2>1. Steady
    BY <1>3, <1>7 DEF FileInv
  <2>2. \A q \in File!InFlight : q = o
    BY <2>1, <1>1 DEF Steady
  <2>3. AsFarAs(ops[o])
    BY <2>1, <1>1 DEF Steady
  <2>4. File!InFlight' = {}
    BY <2>2, <1>5
  <2>5. disk' = granted' /\ conf' = granted'
    BY <2>3, <1>1, <1>3, <1>5 DEF AsFarAs
  <2> QED
    BY <2>4, <2>5 DEF Steady
<1>8. ASSUME NoClear', NEW t \in granted' \ mem' PROVE Kept(t)'
  <2>1. ops[o].kind # "clear"
    BY <1>8, <1>5 DEF NoClear
  <2>2. Kept(t)
    BY <2>1, <1>8, <1>5, <1>3 DEF FileInv
  <2> QED
    BY <2>2, <1>1, <1>3, <1>5 DEF Kept
<1> QED
  BY <1>5, <1>6, <1>7, <1>8 DEF FileInv

LEMMA FailsStep ==
  ASSUME FileInv, NEW o \in Ops, File!Fails(o)
  PROVE  FileInv'
<1>1. o \in File!InFlight /\ {} \in SUBSET FileTools /\ "done" \in {"loaded", "reload", "reloaded", "done"}
  BY DEF File!Fails
<1>2. ops' = [ops EXCEPT ![o] = [ops[o] EXCEPT !.at = "done", !.snap = {}]]
  BY DEF File!Fails, File!Done
<1>3. UNCHANGED <<mem, disk, conf, granted, rebooted>> /\ disturbed' = TRUE
  BY DEF File!Fails
<1>4. /\ ops' \in [Ops -> Rewrite]
      /\ ops'[o].at = "done"
      /\ \A q \in Ops : q # o => ops'[q] = ops[q]
      /\ OpsKnown' /\ (NoClear' => NoClear)
  BY <1>1, <1>2, Forward
<1>5. File!TypeOK'
  BY <1>3, <1>4 DEF FileInv, File!TypeOK, Rewrite
<1>6. ASSUME NoClear', NEW t \in granted' \ mem' PROVE Kept(t)'
  <2>1. Kept(t)
    BY <1>6, <1>3, <1>4 DEF FileInv
  <2> QED
    BY <2>1, <1>3, <1>4 DEF Kept
<1> QED
  BY <1>3, <1>4, <1>5, <1>6 DEF FileInv

LEMMA FileRestartStep ==
  ASSUME FileInv, File!Restart
  PROVE  FileInv'
<1>1. /\ mem' = {} /\ conf' = disk /\ granted' = disk /\ rebooted' = TRUE
      /\ UNCHANGED <<disk, disturbed>>
  BY DEF File!Restart
<1>2. ASSUME NEW o \in Ops
      PROVE  ops'[o] \in Rewrite /\ ops'[o].kind = ops[o].kind /\ ops'[o].at \in {"none", "done"}
  <2>1. ops[o] \in Rewrite
    BY DEF FileInv, File!TypeOK, Rewrite
  <2>2. CASE o \in File!InFlight
    <3>1. ops'[o] = [ops[o] EXCEPT !.at = "done", !.snap = {}]
      BY <2>2 DEF File!Restart, File!Done
    <3> QED
      BY <3>1, <2>1 DEF Rewrite
  <2>3. CASE o \notin File!InFlight
    <3>1. ops'[o] = ops[o]
      BY <2>3 DEF File!Restart
    <3> QED
      BY <3>1, <2>1, <2>3 DEF File!InFlight
  <2> QED
    BY <2>2, <2>3
<1>3. ops' \in [Ops -> Rewrite]
  BY <1>2 DEF File!Restart
<1>4. File!TypeOK'
  BY <1>1, <1>3 DEF FileInv, File!TypeOK, Rewrite
<1>5. OpsKnown' /\ File!InFlight' = {}
  BY <1>2 DEF OpsKnown, File!InFlight
<1>6. Steady'
  BY <1>1, <1>5 DEF Steady
<1>7. \A t \in granted' \ mem' : Kept(t)'
  BY <1>1, <1>2 DEF Kept
<1> QED
  BY <1>4, <1>5, <1>6, <1>7 DEF FileInv

LEMMA FileNext ==
  ASSUME FileInv, File!Next \/ UNCHANGED file
  PROVE  FileInv'
<1>1. CASE \E o \in Ops, t \in FileTools : File!Grant(o, t)
  <2>1. PICK o \in Ops, t \in FileTools : File!Grant(o, t)
    BY <1>1
  <2>2. /\ File!StartOp(o, "persist", {t}) /\ {t} \in SUBSET FileTools
        /\ mem' = mem \cup {t} /\ granted' = granted \cup {t}
        /\ UNCHANGED <<disk, conf, rebooted>>
    BY <2>1 DEF File!Grant
  <2> QED
    BY <2>2, StartStep
<1>2. CASE \E o \in Ops : File!Clear(o)
  <2>1. PICK o \in Ops : File!Clear(o)
    BY <1>2
  <2>2. /\ File!StartOp(o, "clear", {}) /\ {} \in SUBSET FileTools
        /\ mem' = mem \cup {} /\ granted' = granted \cup {}
        /\ UNCHANGED <<disk, conf, rebooted>>
    BY <2>1 DEF File!Clear
  <2> QED
    BY <2>2, StartStep
<1>3. CASE UNCHANGED file
  <2>1. File!TypeOK' /\ OpsKnown' /\ (Steady => Steady') /\ (NoClear' => NoClear)
    BY <1>3 DEF file, FileInv, File!TypeOK, OpsKnown, Steady, AsFarAs, NoClear, File!InFlight
  <2>2. \A t \in FileTools : Kept(t) => Kept(t)'
    BY <1>3 DEF file, Kept
  <2> QED
    BY <1>3, <2>1, <2>2 DEF file, FileInv, File!TypeOK
<1> QED
  BY <1>1, <1>2, <1>3, ReadsStep, WritesStep, EndsStep, FailsStep, FileRestartStep DEF File!Next

-----------------------------------------------------------------------------
(* The theorems.                                                           *)

LEMMA Invariance == MCSpec => [](IInv /\ FileInv)
<1>1. MCInit => IInv /\ FileInv
  BY InitIInv, FileInit DEF MCInit
<1>2. ASSUME IInv /\ FileInv, [MCNext]_<<vars, file, part>> PROVE (IInv /\ FileInv)'
  <2>1. [Next]_vars /\ (File!Next \/ UNCHANGED file)
    BY <1>2 DEF MCNext
  <2> QED
    BY <1>2, <2>1, NextIInv, FileNext
<1> QED
  BY <1>1, <1>2, PTL DEF MCSpec

\* However approvals, denials, expiry, aborts, killed subagents, clears and a restart
\* of the daemon interleave, the call that waits and the row it waits on tell the
\* same story: for any calls, sessions, tools and commands.
THEOREM WaitersFollow == MCSpec => []WaitersFollowRows
<1>1. IInv => WaitersFollowRows
  BY DEF IInv, CallOK, WaitersFollowRows, RowDecides, SettledResumes, TypeOK, Phases
<1> QED
  BY <1>1, Invariance, PTL

\* A decided row never changes again, whatever late reaction, expiry or clear comes.
THEOREM DecisionsAreFinal == MCSpec => ResolvedIsFinal
<1>1. ASSUME IInv /\ FileInv, [MCNext]_<<vars, file, part>>
      PROVE  [\A c \in Calls : rows[c] \in {"approved", "denied", "expired", "gone"}
                               => rows'[c] = rows[c]]_vars
  <2>1. [Next]_vars
    BY <1>1 DEF MCNext
  <2> QED
    BY <1>1, <2>1, DecidedStays
<1> QED
  BY <1>1, Invariance, PTL DEF MCSpec, ResolvedIsFinal

\* Grants hold, for any number of tools and of overlapping rewrites of the file: a
\* session's grant leaves no call of its tool waiting, the file matches the grants
\* while nothing disturbs a rewrite, and what was granted stays in effect until a clear.
THEOREM GrantsStand == MCSpec => []GrantsHold
<1>1. IInv => GrantCoversPending
  BY DEF IInv, Uncovered, GrantCoversPending
<1>2. FileInv => File!DiskMatchesGrants
  BY DEF FileInv, Steady, File!DiskMatchesGrants
<1>3. FileInv => File!GrantInEffect
  BY DEF FileInv, NoClear, Kept, File!GrantInEffect, File!Effective
<1> QED
  BY <1>1, <1>2, <1>3, Invariance, PTL DEF GrantsHold

=============================================================================
