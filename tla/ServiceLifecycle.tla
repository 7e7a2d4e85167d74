------------------------- MODULE ServiceLifecycle --------------------------
(***************************************************************************)
(* One service of the managed or the external tier: its entry in the       *)
(* ServiceRegistry, the fetch of its manifest, the operator's approval,    *)
(* revocation and key rotation, and the tools the ServiceToolRegistry      *)
(* holds for it.  A manifest stands for its fingerprint: two manifests     *)
(* differ in it, and in the names of their tools.                          *)
(*                                                                         *)
(* What follows an await is an action of its own: a fetch returns to       *)
(* whatever entry the registry holds by then, and an approval goes on      *)
(* after the key was generated and delivered.                              *)
(***************************************************************************)
EXTENDS Naturals, FiniteSets

CONSTANTS
  Manifests,
  Fetches,    \* manifest fetches; each is used once
  Ops,        \* service.approve and service.rotate-key requests; each used once
  OpKinds,    \* the requests that occur
  Threshold   \* unhealthyThreshold of the health poller

None  == "none"    \* no manifest, no fingerprint
Empty == "empty"   \* the fingerprint "" of an approval without a manifest

ASSUME ServiceAssumption ==
  /\ Threshold \in Nat \ {0}
  /\ None \notin Manifests /\ Empty \notin Manifests
  /\ OpKinds \subseteq {"approve", "rotate"}
  /\ IsFiniteSet(Ops)

VARIABLES
  tier,     \* "managed" or "external"
  up,       \* the service's process serves
  live,     \* the manifest it serves
  entry,    \* its ServiceEntry
  fetch,    \* the manifest fetches
  poll,     \* the health poller's state (external tier)
  approval, \* its row in service_approvals
  tools,    \* manifests whose tools are in the tool registry
  op,       \* the operator's requests
  dbKey,    \* the key of service_keys, 0 for none
  svcKey,   \* the identity the service has stored
  shown,    \* history: manifests approved by a command since the last revocation
  raced,    \* history: the entry or the approval changed under an approval
  late,     \* history: a fetch returned to an entry other than its own
  told,     \* history: the operator was handed a key to deliver
  crossed   \* history: an approval generated a key under a rotation

envVars == <<tier, up, live>>
keyVars == <<dbKey, svcKey, told, crossed>>
vars == <<envVars, entry, fetch, poll, approval, tools, op, keyVars, shown, raced, late>>

NoEntry == [there |-> FALSE, manifest |-> None, healthy |-> FALSE, status |-> None, by |-> None]
NewEntry(f) == [there |-> TRUE, manifest |-> None, healthy |-> TRUE, status |-> "pending", by |-> f]
Unused == [kind |-> None, at |-> "free", fp |-> None, key |-> 0, token |-> 0]

Init ==
  /\ tier \in {"managed", "external"}
  /\ up = FALSE /\ live = None
  /\ entry = NoEntry
  /\ fetch = [f \in Fetches |-> [at |-> "free", got |-> None]]
  /\ poll = [state |-> "unknown", failures |-> 0]
  /\ approval = [status |-> None, fp |-> None]
  /\ tools = {}
  /\ op = [o \in Ops |-> Unused]
  /\ dbKey = 0 /\ svcKey = 0
  /\ shown = {} /\ raced = FALSE /\ late = FALSE /\ told = FALSE /\ crossed = FALSE

Rotating == {o \in Ops : op[o].kind = "rotate" /\ op[o].at \in {"keygen", "deliver"}}
Approving == {o \in Ops : op[o].kind = "approve" /\ op[o].at \in {"keygen", "deliver", "finish"}}

-----------------------------------------------------------------------------
(* Registration and the manifest *)

\* The entry is registered and its manifest requested.
RegisterAndFetch(f) ==
  /\ fetch[f].at = "free"
  /\ fetch' = [fetch EXCEPT ![f].at = "sent"]
  /\ entry' = NewEntry(f)
  /\ raced' = (raced \/ Approving # {})

\* process-started.  After a crash the entry is still there: register throws,
\* and onProcessStarted ends without a fetch.
ProcessStarted(m) ==
  /\ tier = "managed" /\ ~up
  /\ up' = TRUE /\ live' = m
  /\ IF entry.there
     THEN UNCHANGED <<entry, fetch, raced>>
     ELSE \E f \in Fetches : RegisterAndFetch(f)
  /\ UNCHANGED <<tier, poll, approval, tools, op, keyVars, shown, late>>

\* The process exits or fails: neither event reaches the lifecycle manager.
ProcessCrashed ==
  /\ tier = "managed" /\ up
  /\ up' = FALSE
  /\ UNCHANGED <<tier, live, entry, fetch, poll, approval, tools, op, keyVars, shown, raced,
                 late>>

\* Faulty variant: a stop leaves the tools registered.
StopKeepsTools ==
  /\ tier = "managed" /\ entry.there
  /\ up' = FALSE
  /\ entry' = NoEntry
  /\ raced' = (raced \/ Approving # {})
  /\ UNCHANGED <<tier, live, fetch, poll, approval, tools, op, keyVars, shown, late>>

\* process-stopped, when the process is dead for good or was stopped.
ProcessStopped ==
  /\ tier = "managed" /\ entry.there
  /\ up' = FALSE
  /\ tools' = {}
  /\ entry' = NoEntry
  /\ raced' = (raced \/ Approving # {})
  /\ UNCHANGED <<tier, live, fetch, poll, approval, op, keyVars, shown, late>>

\* An external service comes up or goes down on its own.
ExternalUp(m) ==
  /\ tier = "external" /\ ~up
  /\ up' = TRUE /\ live' = m
  /\ UNCHANGED <<tier, entry, fetch, poll, approval, tools, op, keyVars, shown, raced, late>>

ExternalDown ==
  /\ tier = "external" /\ up
  /\ up' = FALSE
  /\ UNCHANGED <<tier, live, entry, fetch, poll, approval, tools, op, keyVars, shown, raced,
                 late>>

\* A health check that succeeded.  On the change to healthy the service is
\* deregistered, if it was registered, and registered afresh.
CheckPassed ==
  /\ tier = "external" /\ up
  /\ poll' = [state |-> "healthy", failures |-> 0]
  /\ IF poll.state = "healthy"
     THEN UNCHANGED <<entry, fetch, tools, raced>>
     ELSE /\ tools' = {}
          /\ \E f \in Fetches : RegisterAndFetch(f)
  /\ UNCHANGED <<envVars, approval, op, keyVars, shown, late>>

\* Faulty variant: a failed check forgets the registry.
CheckFailedQuietly ==
  /\ tier = "external"
  /\ LET n == poll.failures + 1
         falls == n >= Threshold /\ poll.state = "healthy"
     IN  /\ poll' = [state |-> IF falls THEN "unhealthy" ELSE poll.state,
                     failures |-> IF n > Threshold THEN Threshold ELSE n]
         /\ tools' = IF falls THEN {} ELSE tools
  /\ UNCHANGED <<envVars, entry, fetch, approval, op, keyVars, shown, raced, late>>

\* A health check that failed, also by a lost or slow answer.  A service that
\* was never healthy stays unknown.
CheckFailed ==
  /\ tier = "external"
  /\ LET n == poll.failures + 1
         falls == n >= Threshold /\ poll.state = "healthy"
     IN  /\ poll' = [state |-> IF falls THEN "unhealthy" ELSE poll.state,
                     failures |-> IF n > Threshold THEN Threshold ELSE n]
         /\ entry' = IF falls /\ entry.there THEN [entry EXCEPT !.healthy = FALSE] ELSE entry
         /\ tools' = IF falls THEN {} ELSE tools
  /\ UNCHANGED <<envVars, fetch, approval, op, keyVars, shown, raced, late>>

\* The service answers the fetch with the manifest it serves now, or the fetch
\* fails (HTTP error, invalid manifest, timeout, a second network error).
FetchAnswered(f, ok) ==
  /\ fetch[f].at = "sent"
  /\ ok => up
  /\ fetch' = [fetch EXCEPT ![f] = [at |-> "answered", got |-> IF ok THEN live ELSE None]]
  /\ UNCHANGED <<envVars, entry, poll, approval, tools, op, keyVars, shown, raced, late>>

\* Faulty variant: an approval of any manifest will do.
MatchesAny(m) == approval.fp # None

\* The fingerprint of the manifest is the approved one.
Matches(m) == approval.fp = m

\* storeManifest and checkApprovalAndRegisterTools, on the entry of that moment.
FetchReturns(f) ==
  LET m == fetch[f].got IN
  /\ fetch[f].at = "answered"
  /\ fetch' = [fetch EXCEPT ![f].at = "done"]
  /\ late' = (late \/ (m # None /\ entry.there /\ entry.by # f))
  /\ raced' = (raced \/ (m # None /\ entry.there /\ m # entry.manifest /\ Approving # {}))
  /\ IF m = None \/ ~entry.there
     THEN UNCHANGED <<entry, approval, tools>>
     ELSE LET seen == [entry EXCEPT !.manifest = m] IN
          \/ /\ approval.status = None
             /\ approval' = [status |-> "pending", fp |-> None]
             /\ entry' = [seen EXCEPT !.status = "pending"]
             /\ UNCHANGED tools
          \/ /\ approval.status = "revoked"
             /\ entry' = [seen EXCEPT !.status = "revoked"]
             /\ UNCHANGED <<approval, tools>>
          \/ /\ approval.status = "approved" /\ Matches(m)
             /\ entry' = [seen EXCEPT !.status = "approved"]
             /\ tools' = tools \cup {m}
             /\ UNCHANGED approval
          \/ /\ approval.status = "approved" /\ ~Matches(m)
             /\ entry' = [seen EXCEPT !.status = "pending-reapproval"]
             /\ UNCHANGED <<approval, tools>>
          \/ /\ approval.status = "pending"
             /\ entry' = seen
             /\ UNCHANGED <<approval, tools>>
  /\ UNCHANGED <<envVars, poll, op, keyVars, shown>>

-----------------------------------------------------------------------------
(* The operator *)

NextKey == Cardinality({o \in Ops : op[o].key # 0}) + 1

\* service.approve up to its first await.
Approve(o) ==
  /\ "approve" \in OpKinds
  /\ op[o].at = "free"
  /\ entry.there /\ entry.manifest # None
  /\ op' = [op EXCEPT ![o] = [Unused EXCEPT !.kind = "approve", !.at = "keygen",
                                            !.fp = entry.manifest]]
  /\ shown' = shown \cup {entry.manifest}
  /\ UNCHANGED <<envVars, entry, fetch, poll, approval, tools, keyVars, raced, late>>

\* onServiceApproved, and the upsert that follows it when the service has a key.
Approved(fp, key) ==
  /\ approval' = [status |-> "approved",
                  fp |-> IF key # 0 THEN fp
                         ELSE IF entry.manifest = None THEN Empty ELSE entry.manifest]
  /\ entry' = IF entry.there THEN [entry EXCEPT !.status = "approved"] ELSE entry
  /\ tools' = IF entry.manifest = None THEN tools ELSE tools \cup {entry.manifest}

\* generateIdentity inserts the key, which fails when there is one.  An external
\* service has no provision secret: its operator is handed the key at once.
KeyGenerated(o) ==
  /\ op[o].kind = "approve" /\ op[o].at = "keygen"
  /\ \/ /\ dbKey # 0
        /\ op' = [op EXCEPT ![o].at = "error"]
        /\ UNCHANGED <<dbKey, told, crossed, entry, approval, tools>>
     \/ /\ dbKey = 0 /\ tier = "managed"
        /\ dbKey' = NextKey
        /\ crossed' = (crossed \/ Rotating # {})
        /\ op' = [op EXCEPT ![o].at = "deliver", ![o].key = NextKey]
        /\ UNCHANGED <<told, entry, approval, tools>>
     \/ /\ dbKey = 0 /\ tier = "external"
        /\ dbKey' = NextKey
        /\ crossed' = (crossed \/ Rotating # {})
        /\ told' = TRUE
        /\ op' = [op EXCEPT ![o].at = "done", ![o].key = NextKey]
        /\ Approved(op[o].fp, NextKey)
  /\ UNCHANGED <<envVars, fetch, poll, svcKey, shown, raced, late>>

\* Faulty variant: a delivery fails unnoticed.
DeliveredQuietly(o, ok) ==
  /\ op[o].at = "deliver"
  /\ svcKey' = IF ok THEN op[o].key ELSE svcKey
  /\ op' = [op EXCEPT ![o].at = "finish"]
  /\ UNCHANGED <<envVars, entry, fetch, poll, approval, tools, dbKey, told, crossed, shown, raced,
                 late>>

\* The service accepts a rotated identity if its token opens with the one it holds.
Accepts(o) == up /\ (op[o].kind = "rotate" => op[o].token = svcKey)

\* The identity reaches the service and the answer comes back, or not both.
Delivered(o, ok) ==
  /\ op[o].at = "deliver"
  /\ ok => Accepts(o)
  /\ \/ Accepts(o) /\ svcKey' = op[o].key
     \/ ~ok /\ UNCHANGED svcKey
  /\ told' = (told \/ ~ok)
  /\ op' = [op EXCEPT ![o].at = "finish"]
  /\ UNCHANGED <<envVars, entry, fetch, poll, approval, tools, dbKey, crossed, shown, raced, late>>

\* The rest of service.approve; that of service.rotate-key rewrites the approval
\* with the status and the fingerprint it has.
Finish(o) ==
  /\ op[o].at = "finish"
  /\ op' = [op EXCEPT ![o].at = "done"]
  /\ IF op[o].kind = "approve" THEN Approved(op[o].fp, dbKey)
                               ELSE UNCHANGED <<approval, entry, tools>>
  /\ UNCHANGED <<envVars, fetch, poll, keyVars, shown, raced, late>>

\* service.rotate-key: the token is minted for the stored key, then that key is
\* replaced, then the new one delivered.
Rotate(o) ==
  /\ "rotate" \in OpKinds
  /\ op[o].at = "free"
  /\ entry.there /\ dbKey # 0
  /\ op' = [op EXCEPT ![o] = [Unused EXCEPT !.kind = "rotate", !.at = "keygen",
                                            !.token = dbKey]]
  /\ UNCHANGED <<envVars, entry, fetch, poll, approval, tools, keyVars, shown, raced, late>>

KeyRotated(o) ==
  /\ op[o].kind = "rotate" /\ op[o].at = "keygen"
  /\ dbKey' = IF dbKey = 0 THEN 0 ELSE NextKey
  /\ op' = [op EXCEPT ![o].at = "deliver", ![o].key = NextKey]
  /\ UNCHANGED <<envVars, entry, fetch, poll, approval, tools, svcKey, told, crossed, shown,
                 raced, late>>

\* service.revoke: the key, the tools, the approval and the entry's status.
Revoke ==
  /\ approval.status # "revoked"
  /\ dbKey' = 0
  /\ tools' = {}
  /\ approval' = [approval EXCEPT !.status = "revoked"]
  /\ entry' = IF entry.there THEN [entry EXCEPT !.status = "revoked"] ELSE entry
  /\ shown' = {}
  /\ raced' = (raced \/ Approving # {})
  /\ UNCHANGED <<envVars, fetch, poll, op, svcKey, told, crossed, late>>

\* The daemon restarts: the database and an external service stay.
Restart ==
  /\ entry.there
  /\ entry' = NoEntry
  /\ tools' = {}
  /\ up' = (up /\ tier = "external")
  /\ poll' = [state |-> "unknown", failures |-> 0]
  /\ fetch' = [f \in Fetches |-> IF fetch[f].at = "free" THEN fetch[f]
                                 ELSE [at |-> "done", got |-> None]]
  /\ op' = [o \in Ops |-> IF op[o].at \in {"free", "error", "done"} THEN op[o]
                          ELSE [op[o] EXCEPT !.at = "done"]]
  \* a key generated and not delivered is lost with the process
  /\ told' = (told \/ \E o \in Ops : op[o].at = "deliver")
  /\ UNCHANGED <<tier, live, approval, dbKey, svcKey, crossed, shown, raced, late>>

Next ==
  \/ \E m \in Manifests : ProcessStarted(m)
  \/ ProcessCrashed
  \/ ProcessStopped
  \/ \E m \in Manifests : ExternalUp(m)
  \/ ExternalDown
  \/ CheckPassed
  \/ CheckFailed
  \/ \E f \in Fetches, ok \in BOOLEAN : FetchAnswered(f, ok)
  \/ \E f \in Fetches : FetchReturns(f)
  \/ \E o \in Ops : Approve(o)
  \/ \E o \in Ops : KeyGenerated(o)
  \/ \E o \in Ops, ok \in BOOLEAN : Delivered(o, ok)
  \/ \E o \in Ops : Finish(o)
  \/ \E o \in Ops : Rotate(o)
  \/ \E o \in Ops : KeyRotated(o)
  \/ Revoke
  \/ Restart

\* Fetches and deliveries end by themselves or by a timeout, continuations run,
\* and the poller keeps checking.
Fairness ==
  /\ \A f \in Fetches : WF_vars(\E ok \in BOOLEAN : FetchAnswered(f, ok))
  /\ \A f \in Fetches : WF_vars(FetchReturns(f))
  /\ \A o \in Ops : WF_vars(KeyGenerated(o)) /\ WF_vars(KeyRotated(o)) /\ WF_vars(Finish(o))
  /\ \A o \in Ops : WF_vars(\E ok \in BOOLEAN : Delivered(o, ok))
  /\ WF_vars(CheckPassed)

Spec == Init /\ [][Next]_vars
LiveSpec == Spec /\ Fairness

-----------------------------------------------------------------------------
(* Properties *)

Statuses == {None, "pending", "approved", "pending-reapproval", "revoked"}

\* The state is well formed.
TypeOK ==
  /\ tier \in {"managed", "external"} /\ up \in BOOLEAN
  /\ live \in Manifests \cup {None}
  /\ entry \in [there : BOOLEAN, manifest : Manifests \cup {None}, healthy : BOOLEAN,
                status : Statuses, by : Fetches \cup {None}]
  /\ fetch \in [Fetches -> [at : {"free", "sent", "answered", "done"},
                            got : Manifests \cup {None}]]
  /\ poll \in [state : {"unknown", "healthy", "unhealthy"}, failures : 0..Threshold]
  /\ approval \in [status : Statuses, fp : Manifests \cup {None, Empty}]
  /\ tools \subseteq Manifests
  /\ dbKey \in Nat /\ svcKey \in Nat
  /\ shown \subseteq Manifests
  /\ raced \in BOOLEAN /\ late \in BOOLEAN /\ told \in BOOLEAN /\ crossed \in BOOLEAN

\* Tools need an entry and an approval in force: nothing that returns late, a
\* fetch or an approval, leaves tools of a service that was deregistered or
\* revoked meanwhile.
ToolsAreBacked ==
  tools # {} => entry.there /\ approval.status = "approved"

\* "Prevents a service from silently adding new tools": the tools of a service
\* come from manifests an operator approved and did not revoke since, through
\* restarts, changed manifests and late fetches, as long as nothing changed
\* while an approval was in progress.
ToolsWereApproved == ~raced => tools \subseteq shown

\* The same without the exception.
OnlyApprovedTools == tools \subseteq shown

\* A service that waits for re-approval has no tools, as long as no fetch
\* returned to an entry other than its own and no approval was overtaken.
ReapprovalSuspends ==
  ~late /\ ~raced /\ entry.status = "pending-reapproval" => tools = {}

\* "If the fingerprint doesn't match the stored approval, the service enters
\* pending-reapproval and its tools are suspended": without the exception.
AlwaysSuspended == entry.status = "pending-reapproval" => tools = {}

InProgress == {o \in Ops : op[o].at \in {"keygen", "deliver", "finish"}}

\* The daemon and the service agree on the key whenever no request is in
\* progress, however rotations overlap and deliveries fail, unless the operator
\* was handed a key, an approval was overtaken, or a service was revoked and
\* approved anew under a rotation: calls do not fail unannounced.
KeysAgree ==
  InProgress = {} /\ dbKey # 0 /\ ~told /\ ~raced /\ ~crossed => svcKey = dbKey

\* The same without the last exception: the two requests write the stored key in
\* one order and may deliver in the other.
KeysAgreeAcross ==
  InProgress = {} /\ dbKey # 0 /\ ~told /\ ~raced => svcKey = dbKey

\* The registry follows the poller: the entry of an external service is healthy
\* exactly while the poller says so.
HealthIsPolled ==
  tier = "external" /\ entry.there => (entry.healthy <=> poll.state = "healthy")

\* A service has no tools nobody approved, or that outlive its entry, approval or
\* manifest, although fetches and approvals return late.
ToolsSound == TypeOK /\ ToolsAreBacked /\ ToolsWereApproved /\ ReapprovalSuspends

\* What the daemon believes of a service is so: the key the service accepts, and
\* the health its poller last saw.
ViewsAgree == KeysAgree /\ HealthIsPolled

\* A manifest the process of a managed service serves is the one of its entry,
\* once no fetch is in progress.
ManifestFollowsProcess ==
  tier = "managed" /\ up /\ entry.manifest # None
    /\ (\A f \in Fetches : fetch[f].at \notin {"sent", "answered"})
    => entry.manifest = live

\* "Tools suspended until operator re-approves": service.approve succeeds for a
\* service that waits for re-approval, with no other request in progress.
ReapprovalSucceeds ==
  [][\A o \in Ops :
       InProgress = {o} /\ op[o].kind = "approve" /\ entry.status = "pending-reapproval"
         => op'[o].at # "error"]_vars

\* An external service that stays up has a healthy entry again and again,
\* whatever checks fail in between (as long as the fetches of the instance last).
RecoveryNoticed ==
  (<>[](tier = "external" /\ up /\ \E f \in Fetches : fetch[f].at = "free"))
    => []<>(entry.there /\ entry.healthy)

\* Every request of the operator comes to an end.
RequestsEnd ==
  \A o \in Ops : op[o].at \in {"keygen", "deliver", "finish"} ~> op[o].at \in {"done", "error"}
=============================================================================
