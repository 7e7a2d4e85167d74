---------------------------- MODULE ServiceProofs ----------------------------
(***************************************************************************)
(* Safety of a service's lifecycle for any manifests, any fetches, any     *)
(* finite number of overlapping requests and any threshold of the poller.  *)
(***************************************************************************)
EXTENDS ServiceLifecycle, FiniteSetTheorems, TLAPS

Entries == [there : BOOLEAN, manifest : Manifests \cup {None}, healthy : BOOLEAN,
            status : Statuses, by : Fetches \cup {None}]

FetchStates == [at : {"free", "sent", "answered", "done"}, got : Manifests \cup {None}]

Approvals == [status : Statuses, fp : Manifests \cup {None, Empty}]

Failures == 0..Threshold
Polls == [state : {"unknown", "healthy", "unhealthy"}, failures : Failures]

\* TypeOK, with its sets of records named.
Typed ==
  /\ tier \in {"managed", "external"} /\ up \in BOOLEAN
  /\ live \in Manifests \cup {None}
  /\ entry \in Entries
  /\ fetch \in [Fetches -> FetchStates]
  /\ poll \in Polls
  /\ approval \in Approvals
  /\ tools \subseteq Manifests
  /\ dbKey \in Nat /\ svcKey \in Nat
  /\ shown \subseteq Manifests
  /\ raced \in BOOLEAN /\ late \in BOOLEAN /\ told \in BOOLEAN /\ crossed \in BOOLEAN

\* The requests are not part of TypeOK.
Requests == [kind : {None, "approve", "rotate"},
             at : {"free", "keygen", "deliver", "finish", "error", "done"},
             fp : Manifests \cup {None}, key : Nat, token : Nat]

\* An entry that is there was registered with a fetch; one that is not is empty.
EntryOK ==
  /\ entry.there => entry.by \in Fetches
  /\ ~entry.there => entry = NoEntry

\* Until the entry's own fetch has returned nothing is known of its manifest, and
\* no tools are left of the entry before it.
FreshEntry ==
  ~late /\ entry.there /\ fetch[entry.by].at # "done" => entry.manifest = None /\ tools = {}

\* What an approval in progress was shown is what the entry still says.
ApprovalsCurrent ==
  ~raced => /\ \A o \in Approving : /\ entry.there /\ op[o].fp \in Manifests
                                    /\ op[o].fp = entry.manifest /\ op[o].fp \in shown
            /\ approval.status = "approved" => approval.fp \in shown

\* A request without a key is before its key generation or has failed there, and
\* keys are numbered in the order they are generated.
Keyed == {o \in Ops : op[o].key # 0}
Newest == Cardinality(Keyed)

KeysNumbered ==
  /\ dbKey <= Newest /\ svcKey <= Newest
  /\ \A o \in Ops : /\ op[o].at \in {"free", "keygen"} => op[o].key = 0
                    /\ op[o].key <= Newest /\ op[o].token <= Newest
                    /\ dbKey # 0 => op[o].key <= dbKey
                    /\ op[o].at = "free" => op[o] = Unused
                    /\ op[o].at = "deliver" => /\ op[o].kind \in {"approve", "rotate"}
                                               /\ op[o].key # 0 /\ op[o].token < op[o].key

\* While an approval delivers its key, the service holds an older one, and a rotation
\* minted its token for that key or a later one: it cannot be accepted before.
ApprovalFirst(o) ==
  /\ svcKey < op[o].key /\ dbKey # 0
  /\ \A q \in Rotating : op[o].key <= op[q].token
  /\ \A q \in Ops : op[q].kind = "approve" /\ op[q].at = "deliver" => q = o

\* The service holds the stored key, or a request that delivers it is on its way.
KeyOnItsWay ==
  dbKey # 0 => svcKey = dbKey \/ \E o \in Ops : op[o].at = "deliver" /\ op[o].key = dbKey

KeysInOrder ==
  ~told /\ ~raced /\ ~crossed =>
    /\ KeyOnItsWay
    /\ \A o \in Ops : op[o].kind = "approve" /\ op[o].at = "deliver" => ApprovalFirst(o)

\* The inductive invariant.
ToolsInv == ToolsAreBacked /\ ToolsWereApproved /\ ReapprovalSuspends
            /\ EntryOK /\ FreshEntry /\ ApprovalsCurrent
KeysInv == KeysNumbered /\ KeysInOrder
IInv == Typed /\ op \in [Ops -> Requests] /\ ToolsInv /\ KeysInv /\ HealthIsPolled

-----------------------------------------------------------------------------
(* Type correctness.                                                       *)

OpsOK == op \in [Ops -> Requests]

LEMMA TypedOK == Typed => TypeOK
  BY DEF Typed, TypeOK, Entries, FetchStates, Polls, Failures, Approvals

LEMMA FailureFacts ==
  /\ 0 \in Failures
  /\ \A n \in Failures : (IF n + 1 > Threshold THEN Threshold ELSE n + 1) \in Failures
  BY ServiceAssumption DEF Failures

\* The records the actions build.
LEMMA RecordFacts ==
  /\ NoEntry \in Entries /\ ~NoEntry.there /\ NoEntry.manifest = None /\ NoEntry.status = None
  /\ \A f \in Fetches : /\ NewEntry(f) \in Entries /\ NewEntry(f).there /\ NewEntry(f).healthy
                        /\ NewEntry(f).manifest = None /\ NewEntry(f).status = "pending"
                        /\ NewEntry(f).by = f
  /\ Unused \in Requests /\ Unused.key = 0 /\ Unused.at = "free" /\ Unused.kind = None
  /\ Unused.token = 0
  BY DEF NoEntry, NewEntry, Unused, Entries, Requests, Statuses

LEMMA EntryFacts ==
  ASSUME entry \in Entries
  PROVE  /\ entry.there \in BOOLEAN /\ entry.manifest \in Manifests \cup {None}
         /\ [entry EXCEPT !.healthy = FALSE] \in Entries
         /\ [entry EXCEPT !.healthy = FALSE].there = entry.there
         /\ [entry EXCEPT !.healthy = FALSE].healthy = FALSE
         /\ [entry EXCEPT !.healthy = FALSE].manifest = entry.manifest
         /\ [entry EXCEPT !.healthy = FALSE].status = entry.status
         /\ [entry EXCEPT !.healthy = FALSE].by = entry.by
  BY DEF Entries

\* The entry with another status.
LEMMA StatusFacts ==
  ASSUME entry \in Entries, NEW st \in Statuses
  PROVE  /\ [entry EXCEPT !.status = st] \in Entries
         /\ [entry EXCEPT !.status = st].there = entry.there
         /\ [entry EXCEPT !.status = st].healthy = entry.healthy
         /\ [entry EXCEPT !.status = st].manifest = entry.manifest
         /\ [entry EXCEPT !.status = st].status = st
         /\ [entry EXCEPT !.status = st].by = entry.by
  BY DEF Entries

\* One request changes.
LEMMA OneOp ==
  ASSUME OpsOK, NEW o \in Ops, NEW v \in Requests, op' = [op EXCEPT ![o] = v]
  PROVE  /\ OpsOK' /\ op'[o] = v
         /\ \A q \in Ops : q # o => op'[q] = op[q]
  BY DEF OpsOK

\* A request goes on, and keeps what it was made with.
LEMMA OpMoves ==
  ASSUME OpsOK, NEW o \in Ops, NEW k \in Nat,
         NEW a \in {"deliver", "finish", "error", "done"},
         op' = [op EXCEPT ![o] = [op[o] EXCEPT !.at = a, !.key = k]]
  PROVE  /\ OpsOK' /\ op'[o].at = a /\ op'[o].key = k
         /\ op'[o].kind = op[o].kind /\ op'[o].fp = op[o].fp /\ op'[o].token = op[o].token
         /\ \A q \in Ops : q # o => op'[q] = op[q]
<1> DEFINE v == [op[o] EXCEPT !.at = a, !.key = k]
<1>1. op[o] \in Requests
  BY DEF OpsOK
<1>2. /\ v \in Requests /\ v.at = a /\ v.key = k
      /\ v.kind = op[o].kind /\ v.fp = op[o].fp /\ v.token = op[o].token
  BY <1>1 DEF Requests
<1> HIDE DEF v
<1>3. op' = [op EXCEPT ![o] = v]
  BY DEF v
<1> QED
  BY <1>2, <1>3, OneOp

\* The number of the next key.
LEMMA NextKeyFacts ==
  ASSUME OpsOK
  PROVE  IsFiniteSet(Keyed) /\ Newest \in Nat /\ NextKey = Newest + 1
<1>1. IsFiniteSet(Keyed)
  BY ServiceAssumption, FS_Subset DEF Keyed
<1> QED
  BY <1>1, FS_CardinalityType DEF Newest, NextKey, Keyed

-----------------------------------------------------------------------------
(* What carries over when a step leaves a part of the state alone.         *)

LEMMA InitIInv == Init => IInv
<1> SUFFICES ASSUME Init PROVE IInv
  OBVIOUS
<1>1. \A o \in Ops : op[o] = Unused
  BY DEF Init
<1>2. Typed
  BY RecordFacts, FailureFacts DEF Typed, Init, Polls, FetchStates, Approvals, Statuses
<1>3. op \in [Ops -> Requests]
  BY RecordFacts DEF Init
<1>4. Approving = {}
  BY <1>1, RecordFacts DEF Approving
<1>5. ToolsInv
  BY <1>4, RecordFacts DEF Init, ToolsInv, ToolsAreBacked, ToolsWereApproved, ReapprovalSuspends,
     EntryOK, FreshEntry, ApprovalsCurrent, None
<1>6. KeysInv
  <2>1. Keyed = {} /\ Newest = 0
    BY <1>1, RecordFacts, FS_EmptySet DEF Keyed, Newest
  <2>2. KeysNumbered
    BY <1>1, <2>1, RecordFacts DEF KeysNumbered, Init
  <2>3. KeysInOrder
    BY <1>1, RecordFacts DEF KeysInOrder, KeyOnItsWay, Init
  <2> QED
    BY <2>2, <2>3 DEF KeysInv
<1>7. HealthIsPolled
  BY RecordFacts DEF HealthIsPolled, Init
<1> QED
  BY <1>2, <1>3, <1>5, <1>6, <1>7 DEF IInv

LEMMA KeysFrame ==
  ASSUME KeysInv, UNCHANGED <<op, dbKey, svcKey, told, crossed>>, raced => raced'
  PROVE  KeysInv'
<1>1. KeysNumbered'
  BY DEF KeysInv, KeysNumbered, Newest, Keyed
<1>2. KeyOnItsWay => KeyOnItsWay'
  BY DEF KeyOnItsWay
<1>3. \A o \in Ops : ApprovalFirst(o) => ApprovalFirst(o)'
  BY DEF ApprovalFirst, Rotating
<1>4. KeysInOrder'
  BY <1>2, <1>3 DEF KeysInv, KeysInOrder
<1> QED
  BY <1>1, <1>4 DEF KeysInv

\* The step changes neither the entry nor the approval nor the tools, no fetch ends,
\* and no approval begins.
LEMMA ToolsFrame ==
  ASSUME ToolsInv, UNCHANGED <<entry, approval, tools, shown, raced, late>>,
         entry.there => entry.by \in Fetches,
         \A g \in Fetches : fetch'[g].at = "done" <=> fetch[g].at = "done",
         \A o \in Ops : o \in Approving' => o \in Approving /\ op'[o].fp = op[o].fp
  PROVE  ToolsInv'
<1>1. ToolsAreBacked' /\ ToolsWereApproved' /\ ReapprovalSuspends' /\ EntryOK' /\ FreshEntry'
  BY DEF ToolsInv, ToolsAreBacked, ToolsWereApproved, ReapprovalSuspends, EntryOK, FreshEntry
<1>2. ApprovalsCurrent'
  <2>1. Approving' \subseteq Ops
    BY DEF Approving
  <2> QED
    BY <2>1 DEF ToolsInv, ApprovalsCurrent
<1> QED
  BY <1>1, <1>2 DEF ToolsInv

LEMMA HealthFrame ==
  ASSUME HealthIsPolled, UNCHANGED <<tier, poll>>,
         entry'.there = entry.there, entry'.healthy = entry.healthy
  PROVE  HealthIsPolled'
  BY DEF HealthIsPolled

-----------------------------------------------------------------------------
(* The service, its process and the poller.                                *)

LEMMA EnvStep ==
  ASSUME IInv,
         \/ ProcessCrashed \/ ExternalDown
         \/ \E m \in Manifests : ExternalUp(m)
         \/ \E f \in Fetches, ok \in BOOLEAN : FetchAnswered(f, ok)
         \/ UNCHANGED vars
  PROVE  IInv'
<1>1. /\ UNCHANGED <<tier, entry, poll, approval, tools, op, dbKey, svcKey, told, crossed,
                     shown, raced, late>>
      /\ up' \in BOOLEAN /\ live' \in Manifests \cup {None}
      /\ \/ fetch' = fetch
         \/ \E f \in Fetches, g \in Manifests \cup {None} :
              /\ fetch[f].at = "sent"
              /\ fetch' = [fetch EXCEPT ![f] = [at |-> "answered", got |-> g]]
  BY DEF IInv, Typed, ProcessCrashed, ExternalDown, ExternalUp, FetchAnswered, envVars, keyVars,
     vars
<1>2. /\ fetch' \in [Fetches -> FetchStates]
      /\ \A g \in Fetches : fetch'[g].at = "done" <=> fetch[g].at = "done"
  BY <1>1 DEF Typed, IInv, FetchStates
<1>3. Typed'
  BY <1>1, <1>2 DEF Typed, IInv
<1>4. op' \in [Ops -> Requests] /\ Approving' = Approving
  BY <1>1 DEF IInv, Approving
<1>5. ToolsInv'
  BY <1>1, <1>2, <1>4, ToolsFrame DEF IInv, ToolsInv, EntryOK
<1>6. KeysInv' /\ HealthIsPolled'
  BY <1>1, KeysFrame, HealthFrame DEF IInv
<1> QED
  BY <1>3, <1>4, <1>5, <1>6 DEF IInv

\* A fresh entry takes the place of no entry, or of one whose tools go with it.
LEMMA RegisterStep ==
  ASSUME IInv, NEW f \in Fetches, RegisterAndFetch(f),
         tools' = {}, UNCHANGED <<tier, approval, op, dbKey, svcKey, told, crossed, shown, late>>,
         up' \in BOOLEAN, live' \in Manifests \cup {None}, poll' \in Polls,
         tier = "external" => poll'.state = "healthy"
  PROVE  IInv'
<1>1. /\ entry' = NewEntry(f) /\ fetch[f].at = "free" /\ raced' = (raced \/ Approving # {})
      /\ fetch' = [fetch EXCEPT ![f] = [fetch[f] EXCEPT !.at = "sent"]]
  BY DEF RegisterAndFetch, IInv, Typed
<1>2. fetch' \in [Fetches -> FetchStates]
  BY <1>1 DEF Typed, IInv, FetchStates
<1>3. Typed'
  BY <1>1, <1>2, RecordFacts DEF Typed, IInv
<1>4. op' \in [Ops -> Requests] /\ Approving' = Approving
  BY DEF IInv, Approving
<1>5. ToolsInv'
  <2>1. EntryOK' /\ FreshEntry'
    BY <1>1, RecordFacts DEF EntryOK, FreshEntry
  <2>2. ApprovalsCurrent'
    BY <1>1, <1>4 DEF IInv, ToolsInv, ApprovalsCurrent
  <2> QED
    BY <2>1, <2>2 DEF ToolsInv, ToolsAreBacked, ToolsWereApproved, ReapprovalSuspends
<1>6. KeysInv'
  BY <1>1, KeysFrame DEF IInv
<1>7. HealthIsPolled'
  BY <1>1, RecordFacts DEF HealthIsPolled
<1> QED
  BY <1>3, <1>4, <1>5, <1>6, <1>7 DEF IInv

LEMMA StartedStep ==
  ASSUME IInv, NEW m \in Manifests, ProcessStarted(m)
  PROVE  IInv'
<1>1. /\ tier = "managed" /\ up' = TRUE /\ live' = m
      /\ UNCHANGED <<tier, poll, approval, tools, op, dbKey, svcKey, told, crossed, shown, late>>
  BY DEF ProcessStarted, keyVars
<1>2. CASE entry.there
  <2>1. UNCHANGED <<entry, fetch, raced>>
    BY <1>2 DEF ProcessStarted
  <2>2. Typed'
    BY <1>1, <2>1 DEF Typed, IInv
  <2>3. op' \in [Ops -> Requests] /\ Approving' = Approving
    BY <1>1 DEF IInv, Approving
  <2>4. ToolsInv'
    BY <1>1, <2>1, <2>3, ToolsFrame DEF IInv, ToolsInv, EntryOK
  <2>5. KeysInv' /\ HealthIsPolled'
    BY <1>1, <2>1, KeysFrame, HealthFrame DEF IInv
  <2> QED
    BY <2>2, <2>3, <2>4, <2>5 DEF IInv
<1>3. CASE ~entry.there
  <2>1. PICK f \in Fetches : RegisterAndFetch(f)
    BY <1>3 DEF ProcessStarted
  <2>2. tools' = {}
    BY <1>1, <1>3 DEF IInv, ToolsInv, ToolsAreBacked
  <2>3. up' \in BOOLEAN /\ live' \in Manifests \cup {None} /\ poll' \in Polls
    BY <1>1 DEF Typed, IInv
  <2> QED
    BY <1>1, <2>1, <2>2, <2>3, RegisterStep
<1> QED
  BY <1>2, <1>3

LEMMA PassedStep ==
  ASSUME IInv, CheckPassed
  PROVE  IInv'
<1>1. /\ tier = "external" /\ poll' = [state |-> "healthy", failures |-> 0]
      /\ UNCHANGED <<tier, up, live, approval, op, dbKey, svcKey, told, crossed, shown, late>>
  BY DEF CheckPassed, envVars, keyVars
<1>2. poll' \in Polls /\ poll'.state = "healthy"
  BY <1>1, FailureFacts DEF Polls
<1>3. CASE poll.state = "healthy"
  <2>1. UNCHANGED <<entry, fetch, tools, raced>>
    BY <1>3 DEF CheckPassed
  <2>2. Typed'
    BY <1>1, <1>2, <2>1 DEF Typed, IInv
  <2>3. op' \in [Ops -> Requests] /\ Approving' = Approving
    BY <1>1 DEF IInv, Approving
  <2>4. ToolsInv'
    BY <1>1, <2>1, <2>3, ToolsFrame DEF IInv, ToolsInv, EntryOK
  <2>5. KeysInv' /\ HealthIsPolled'
    BY <1>1, <1>2, <1>3, <2>1, KeysFrame DEF IInv, HealthIsPolled
  <2> QED
    BY <2>2, <2>3, <2>4, <2>5 DEF IInv
<1>4. CASE poll.state # "healthy"
  <2>1. PICK f \in Fetches : RegisterAndFetch(f)
    BY <1>4 DEF CheckPassed
  <2>2. tools' = {}
    BY <1>4 DEF CheckPassed
  <2>3. up' \in BOOLEAN /\ live' \in Manifests \cup {None}
    BY <1>1 DEF Typed, IInv
  <2> QED
    BY <1>1, <1>2, <2>1, <2>2, <2>3, RegisterStep
<1> QED
  BY <1>3, <1>4

LEMMA StoppedStep ==
  ASSUME IInv, ProcessStopped
  PROVE  IInv'
<1>1. /\ up' = FALSE /\ tools' = {} /\ entry' = NoEntry /\ raced' = (raced \/ Approving # {})
      /\ UNCHANGED <<tier, live, fetch, poll, approval, op, dbKey, svcKey, told, crossed, shown, late>>
  BY DEF ProcessStopped, keyVars
<1>2. Typed'
  BY <1>1, RecordFacts DEF Typed, IInv
<1>3. op' \in [Ops -> Requests] /\ Approving' = Approving
  BY <1>1 DEF IInv, Approving
<1>4. ToolsInv'
  <2>1. EntryOK' /\ FreshEntry'
    BY <1>1, RecordFacts DEF EntryOK, FreshEntry
  <2>2. ApprovalsCurrent'
    BY <1>1, <1>3 DEF IInv, ToolsInv, ApprovalsCurrent
  <2> QED
    BY <1>1, <2>1, <2>2 DEF ToolsInv, ToolsAreBacked, ToolsWereApproved, ReapprovalSuspends
<1>5. KeysInv' /\ HealthIsPolled'
  BY <1>1, RecordFacts, KeysFrame DEF IInv, HealthIsPolled
<1> QED
  BY <1>2, <1>3, <1>4, <1>5 DEF IInv

LEMMA FailedStep ==
  ASSUME IInv, CheckFailed
  PROVE  IInv'
<1> DEFINE n == poll.failures + 1
           falls == n >= Threshold /\ poll.state = "healthy"
           count == IF n > Threshold THEN Threshold ELSE n
<1>1. /\ tier = "external"
      /\ poll' = [state |-> IF falls THEN "unhealthy" ELSE poll.state, failures |-> count]
      /\ entry' = IF falls /\ entry.there THEN [entry EXCEPT !.healthy = FALSE] ELSE entry
      /\ tools' = IF falls THEN {} ELSE tools
      /\ UNCHANGED <<tier, up, live, fetch, approval, op, dbKey, svcKey, told, crossed, shown,
                     raced, late>>
  BY DEF CheckFailed, envVars, keyVars
<1>2. count \in Failures /\ poll.state \in {"unknown", "healthy", "unhealthy"}
  BY FailureFacts DEF Typed, IInv, Polls
<1> HIDE DEF n, count
<1>3. poll' \in Polls /\ poll'.state = IF falls THEN "unhealthy" ELSE poll.state
  BY <1>1, <1>2 DEF Polls
<1> HIDE DEF falls
<1>4. /\ entry' \in Entries /\ entry'.there = entry.there /\ entry'.manifest = entry.manifest
      /\ entry'.status = entry.status /\ entry'.by = entry.by
      /\ entry'.healthy = IF falls /\ entry.there THEN FALSE ELSE entry.healthy
      /\ ~entry.there => entry' = entry
  BY <1>1, EntryFacts DEF Typed, IInv
<1>5. Typed'
  BY <1>1, <1>3, <1>4 DEF Typed, IInv
<1>6. op' \in [Ops -> Requests] /\ Approving' = Approving
  BY <1>1 DEF IInv, Approving
<1>7. ToolsInv'
  BY <1>1, <1>4, <1>6 DEF IInv, ToolsInv, ToolsAreBacked, ToolsWereApproved, ReapprovalSuspends,
     EntryOK, FreshEntry, ApprovalsCurrent
<1>8. KeysInv'
  BY <1>1, KeysFrame DEF IInv
<1>9. HealthIsPolled'
  <2>1. falls => poll.state = "healthy"
    BY DEF falls
  <2> QED
    BY <1>1, <1>3, <1>4, <2>1 DEF IInv, HealthIsPolled
<1> QED
  BY <1>5, <1>6, <1>7, <1>8, <1>9 DEF IInv

LEMMA ReturnsStep ==
  ASSUME IInv, NEW f \in Fetches, FetchReturns(f)
  PROVE  IInv'
<1> DEFINE m == fetch[f].got
           seen == [entry EXCEPT !.manifest = m]
<1>1. /\ fetch[f].at = "answered"
      /\ late' = (late \/ (m # None /\ entry.there /\ entry.by # f))
      /\ raced' = (raced \/ (m # None /\ entry.there /\ m # entry.manifest /\ Approving # {}))
      /\ UNCHANGED <<tier, up, live, poll, op, dbKey, svcKey, told, crossed, shown>>
  BY DEF FetchReturns, envVars, keyVars
<1>2. /\ fetch' \in [Fetches -> FetchStates] /\ fetch'[f].at = "done"
      /\ \A g \in Fetches : g # f => fetch'[g] = fetch[g]
  <2>1. fetch' = [fetch EXCEPT ![f] = [fetch[f] EXCEPT !.at = "done"]]
    BY DEF Typed, IInv, FetchReturns
  <2> QED
    BY <2>1 DEF Typed, IInv, FetchStates
<1>3. m \in Manifests \cup {None}
  BY DEF Typed, IInv, FetchStates
<1>4. op' \in [Ops -> Requests] /\ Approving' = Approving
  BY <1>1 DEF IInv, Approving
<1>5. KeysInv'
  BY <1>1, KeysFrame DEF IInv
<1>6. CASE m = None \/ ~entry.there
  <2>1. UNCHANGED <<entry, approval, tools, raced, late>>
    BY <1>1, <1>6 DEF Typed, IInv, FetchReturns
  <2>2. Typed' /\ HealthIsPolled'
    BY <1>1, <1>2, <2>1, HealthFrame DEF Typed, IInv
  <2>3. ToolsInv'
    <3>1. FreshEntry'
      BY <1>2, <2>1 DEF IInv, ToolsInv, FreshEntry, EntryOK
    <3> QED
      BY <1>1, <1>4, <2>1, <3>1 DEF IInv, ToolsInv, ToolsAreBacked, ToolsWereApproved, ReapprovalSuspends,
         EntryOK, ApprovalsCurrent
  <2> QED
    BY <1>4, <1>5, <2>2, <2>3 DEF IInv
<1>7. CASE m # None /\ entry.there
  <2>1. PICK st \in Statuses :
          /\ entry' = [seen EXCEPT !.status = st]
          /\ approval' \in Approvals
          /\ \/ /\ approval.status = None /\ st = "pending" /\ tools' = tools
                /\ approval'.status = "pending"
             \/ /\ approval.status # "approved" /\ approval' = approval /\ tools' = tools
                /\ st \in {"revoked", entry.status}
             \/ /\ approval.status = "approved" /\ approval' = approval /\ approval.fp = m
                /\ st = "approved" /\ tools' = tools \cup {m}
             \/ /\ approval.status = "approved" /\ approval' = approval /\ approval.fp # m
                /\ st = "pending-reapproval" /\ tools' = tools
    <3>1. approval \in Approvals /\ entry.status \in Statuses
      BY DEF Typed, IInv, Entries
    <3>2. [status |-> "pending", fp |-> None] \in Approvals
      BY DEF Approvals, Statuses
    <3>3. seen = [seen EXCEPT !.status = entry.status]
      BY DEF Typed, IInv, Entries
    <3> HIDE DEF seen, m
    <3>4. CASE approval.status = None
      BY <1>7, <3>2, <3>4 DEF FetchReturns, m, seen, Statuses, None
    <3>5. CASE approval.status = "revoked"
      BY <1>7, <3>1, <3>5 DEF FetchReturns, m, seen, Statuses, None
    <3>6. CASE approval.status = "approved"
      BY <1>7, <3>1, <3>6 DEF FetchReturns, Matches, m, seen, Statuses, None
    <3>7. CASE approval.status = "pending"
      BY <1>7, <3>1, <3>3, <3>7 DEF FetchReturns, m, seen, Statuses, None
    <3>8. CASE approval.status = "pending-reapproval"
      BY <1>7, <3>8 DEF FetchReturns, m, None
    <3> QED
      BY <3>1, <3>4, <3>5, <3>6, <3>7, <3>8 DEF Approvals, Statuses
  <2>2. /\ entry' \in Entries /\ entry'.there = entry.there /\ entry'.healthy = entry.healthy
        /\ entry'.manifest = m /\ entry'.status = st /\ entry'.by = entry.by
    BY <1>3, <2>1 DEF Typed, IInv, Entries
  <2>3. m \in Manifests
    BY <1>3, <1>7
  <2> HIDE DEF m
  <2>4. Typed' /\ HealthIsPolled'
    BY <1>1, <1>2, <2>1, <2>2, <2>3, HealthFrame DEF Typed, IInv
  <2>5. ToolsAreBacked' /\ EntryOK'
    BY <1>7, <2>1, <2>2 DEF IInv, ToolsInv, ToolsAreBacked, EntryOK, None
  <2>6. ToolsWereApproved'
    BY <1>1, <2>1 DEF IInv, ToolsInv, ToolsWereApproved, ApprovalsCurrent
  <2>7. FreshEntry'
    BY <1>1, <1>2, <1>7, <2>2 DEF IInv, ToolsInv, FreshEntry, EntryOK
  <2>8. ASSUME ~late', ~raced', st = "pending-reapproval" PROVE tools' = {}
    <3>1. ~late /\ ~raced /\ entry.by = f
      BY <1>1, <1>7, <2>8 
    <3>2. tools = {}
      BY <1>1, <1>7, <3>1 DEF IInv, ToolsInv, FreshEntry
    <3> QED
      BY <2>1, <2>8, <3>2
  <2>9. ApprovalsCurrent'
    <3>1. ASSUME ~raced' PROVE ~raced /\ (Approving # {} => m = entry.manifest)
      BY <1>1, <1>7, <3>1
    <3> QED
      BY <1>1, <1>4, <2>1, <2>2, <3>1 DEF IInv, ToolsInv, ApprovalsCurrent
  <2> QED
    BY <1>4, <1>5, <2>2, <2>4, <2>5, <2>6, <2>7, <2>8, <2>9 DEF IInv, ToolsInv, ReapprovalSuspends
<1> QED
  BY <1>6, <1>7

-----------------------------------------------------------------------------
(* The requests: the entry, the approval and the tools.                    *)

\* A request takes a step that is none of the tools' business.
LEMMA QuietStep ==
  ASSUME IInv, UNCHANGED <<tier, up, live, entry, fetch, poll, approval, tools, shown, raced, late>>,
         dbKey' \in Nat, svcKey' \in Nat, told' \in BOOLEAN, crossed' \in BOOLEAN,
         \A q \in Ops : q \in Approving' => q \in Approving /\ op'[q].fp = op[q].fp
  PROVE  Typed' /\ ToolsInv' /\ HealthIsPolled'
<1>1. Typed' /\ HealthIsPolled'
  BY HealthFrame DEF IInv, Typed
<1>2. ToolsInv'
  BY ToolsFrame DEF IInv, ToolsInv, EntryOK
<1> QED
  BY <1>1, <1>2

\* An approval ends: its manifest is the entry's unless something came between.
LEMMA ApprovedStep ==
  ASSUME IInv, NEW o \in Ops, o \in Approving, NEW k \in Nat, Approved(op[o].fp, k),
         UNCHANGED <<tier, up, live, fetch, poll, shown, raced, late>>,
         dbKey' \in Nat, svcKey' \in Nat, told' \in BOOLEAN, crossed' \in BOOLEAN,
         \A q \in Ops : q \in Approving' => q \in Approving /\ op'[q].fp = op[q].fp
  PROVE  Typed' /\ ToolsInv' /\ HealthIsPolled'
<1>1. /\ entry' \in Entries /\ entry'.there = entry.there /\ entry'.healthy = entry.healthy
      /\ entry'.manifest = entry.manifest /\ entry'.by = entry.by
      /\ entry.there => entry'.status = "approved"
      /\ ~entry.there => entry' = entry
  <2>1. "approved" \in Statuses
    BY DEF Statuses
  <2> QED
    BY <2>1, StatusFacts DEF Approved, IInv, Typed
<1>2. op[o].fp \in Manifests \cup {None} /\ entry.manifest \in Manifests \cup {None}
  BY EntryFacts DEF IInv, Typed, Requests
<1>3. /\ approval' \in Approvals /\ approval'.status = "approved"
      /\ approval'.fp \in {op[o].fp, entry.manifest, Empty}
      /\ entry.manifest # None => approval'.fp \in {op[o].fp, entry.manifest}
  BY <1>2 DEF Approved, Approvals, Statuses
<1>4. tools' = IF entry.manifest = None THEN tools ELSE tools \cup {entry.manifest}
  BY DEF Approved
<1>5. Typed' /\ HealthIsPolled'
  BY <1>1, <1>2, <1>3, <1>4, HealthFrame DEF IInv, Typed
<1>6. entry.manifest # None => entry.there
  BY RecordFacts DEF IInv, ToolsInv, EntryOK
<1>7. ~raced => /\ entry.there /\ entry.manifest \in Manifests
                /\ op[o].fp = entry.manifest /\ entry.manifest \in shown
  BY DEF IInv, ToolsInv, ApprovalsCurrent
<1>8. EntryOK' /\ ToolsAreBacked' /\ ToolsWereApproved'
  BY <1>1, <1>3, <1>4, <1>6, <1>7 DEF IInv, ToolsInv, EntryOK, ToolsAreBacked, ToolsWereApproved
<1>9. ReapprovalSuspends'
  BY <1>1, <1>7 DEF ReapprovalSuspends
<1>10. FreshEntry'
  BY <1>1, <1>4 DEF IInv, ToolsInv, FreshEntry
<1>11. ApprovalsCurrent'
  <2>1. Approving' \subseteq Ops
    BY DEF Approving
  <2>2. None \notin Manifests
    BY ServiceAssumption
  <2> QED
    BY <1>1, <1>3, <1>7, <2>1, <2>2 DEF IInv, ToolsInv, ApprovalsCurrent
<1> QED
  BY <1>5, <1>8, <1>9, <1>10, <1>11 DEF ToolsInv

-----------------------------------------------------------------------------
(* The requests: the keys.                                                 *)

\* A request is made.
LEMMA MadeKeys ==
  ASSUME IInv, NEW o \in Ops, op[o].at = "free", NEW v \in Requests, op' = [op EXCEPT ![o] = v],
         v.at = "keygen", v.key = 0, v.token \in {0, dbKey},
         v.kind = "rotate" => v.token = dbKey /\ dbKey # 0,
         UNCHANGED <<dbKey, svcKey, told, crossed, raced>>
  PROVE  KeysInv'
<1>1. /\ OpsOK' /\ op'[o] = v
      /\ \A q \in Ops : q # o => op'[q] = op[q]
  BY OneOp DEF IInv, OpsOK
<1>2. op[o].key = 0
  BY DEF IInv, KeysInv, KeysNumbered
<1>3. Newest' = Newest /\ Newest \in Nat
  <2>1. Keyed' = Keyed
    BY <1>1, <1>2 DEF Keyed
  <2> QED
    BY <2>1, NextKeyFacts DEF Newest, IInv, OpsOK
<1>4. KeysNumbered'
  BY <1>1, <1>3 DEF IInv, Typed, KeysInv, KeysNumbered, Requests
<1>5. KeyOnItsWay => KeyOnItsWay'
  BY <1>1 DEF KeyOnItsWay
<1>6. ASSUME NEW q \in Ops, op'[q].kind = "approve", op'[q].at = "deliver", ApprovalFirst(q)
      PROVE  ApprovalFirst(q)'
  <2>1. q # o
    BY <1>1, <1>6
  <2>2. op'[q] = op[q] /\ op[q].key <= dbKey
    BY <1>1, <2>1, <1>6 DEF IInv, KeysInv, KeysNumbered, ApprovalFirst
  <2>3. \A r \in Rotating' : op'[q].key <= op'[r].token
    BY <1>1, <1>6, <2>2 DEF ApprovalFirst, Rotating
  <2> QED
    BY <1>1, <1>6, <2>2, <2>3 DEF ApprovalFirst
<1>7. KeysInOrder'
  BY <1>1, <1>5, <1>6 DEF IInv, KeysInv, KeysInOrder
<1> QED
  BY <1>4, <1>7 DEF KeysInv

\* A request goes on without a key being generated or accepted.
LEMMA MovedKeys ==
  ASSUME IInv, NEW o \in Ops, NEW k \in Nat, k = op[o].key,
         NEW a \in {"deliver", "finish", "error", "done"}, a # "deliver",
         op' = [op EXCEPT ![o] = [op[o] EXCEPT !.at = a, !.key = k]],
         op[o].at # "deliver",
         UNCHANGED <<dbKey, svcKey, told, crossed, raced>>
  PROVE  KeysInv'
<1>2. /\ OpsOK' /\ op'[o].at = a /\ op'[o].key = k
      /\ op'[o].kind = op[o].kind /\ op'[o].token = op[o].token
      /\ \A q \in Ops : q # o => op'[q] = op[q]
  BY OpMoves DEF IInv, OpsOK
<1>3. Newest' = Newest
  <2>1. Keyed' = Keyed
    BY <1>2 DEF Keyed
  <2> QED
    BY <2>1 DEF Newest
<1>4. KeysNumbered'
  BY <1>2, <1>3 DEF IInv, KeysInv, KeysNumbered
<1>5. KeyOnItsWay => KeyOnItsWay'
  BY <1>2 DEF KeyOnItsWay
<1>6. ASSUME NEW q \in Ops, op'[q].kind = "approve", op'[q].at = "deliver", ApprovalFirst(q)
      PROVE  ApprovalFirst(q)'
  <2>1. op'[q] = op[q]
    BY <1>2, <1>6
  <2>2. \A r \in Rotating' : r \in Rotating /\ op'[r].token = op[r].token
    BY <1>2 DEF Rotating
  <2> QED
    BY <1>2, <1>6, <2>1, <2>2 DEF ApprovalFirst
<1>7. KeysInOrder'
  BY <1>2, <1>5, <1>6 DEF IInv, KeysInv, KeysInOrder
<1> QED
  BY <1>4, <1>7 DEF KeysInv

\* A key is generated: by an approval, whose key is the first one after none, or by
\* a rotation, whose token is older.
LEMMA GeneratedKeys ==
  ASSUME IInv, NEW o \in Ops, op[o].at = "keygen", NEW k \in Nat, k = NextKey,
         NEW a \in {"deliver", "finish", "error", "done"}, a \in {"deliver", "done"},
         op' = [op EXCEPT ![o] = [op[o] EXCEPT !.at = a, !.key = k]],
         op[o].kind \in {"approve", "rotate"},
         \/ op[o].kind = "approve" /\ dbKey = 0 /\ dbKey' = k
         \/ op[o].kind = "rotate" /\ dbKey' = IF dbKey = 0 THEN 0 ELSE k,
         a = "done" => told',
         op[o].kind = "approve" => crossed' = (crossed \/ Rotating # {}),
         crossed => crossed', told => told', UNCHANGED <<svcKey, raced>>
  PROVE  KeysInv'
<1>1. Newest \in Nat /\ k = Newest + 1
  BY NextKeyFacts DEF IInv, OpsOK
<1>2. /\ OpsOK' /\ op'[o].at = a /\ op'[o].key = k
      /\ op'[o].kind = op[o].kind /\ op'[o].token = op[o].token
      /\ \A q \in Ops : q # o => op'[q] = op[q]
  BY OpMoves DEF IInv, OpsOK
<1>3. op[o].key = 0 /\ op[o].token <= Newest /\ op[o].token \in Nat
  BY DEF IInv, KeysInv, KeysNumbered, Requests
<1>4. Newest' = k
  <2>1. Keyed' = Keyed \cup {o} /\ o \notin Keyed
    BY <1>1, <1>2, <1>3 DEF Keyed
  <2> QED
    BY <1>1, <2>1, NextKeyFacts, FS_AddElement DEF Newest, IInv, OpsOK
<1>5. \A q \in Ops : op[q].key \in Nat /\ op[q].token \in Nat
                     /\ op[q].key < k /\ op[q].token < k
  BY <1>1 DEF IInv, KeysInv, KeysNumbered, Requests
<1>6. svcKey < k /\ dbKey < k /\ svcKey \in Nat /\ dbKey \in Nat
  BY <1>1 DEF IInv, KeysInv, KeysNumbered, Typed
<1>7. dbKey' \in {0, k}
  OBVIOUS
<1>8. KeysNumbered'
  BY <1>1, <1>2, <1>3, <1>4, <1>5, <1>6, <1>7 DEF IInv, KeysInv, KeysNumbered
<1>9. ASSUME ~told', ~raced', ~crossed' PROVE KeyOnItsWay'
  BY <1>2, <1>7, <1>9 DEF KeyOnItsWay
<1>10. ASSUME ~told', ~raced', ~crossed', NEW q \in Ops, op'[q].kind = "approve", op'[q].at = "deliver"
       PROVE  ApprovalFirst(q)'
  <2>1. ~told /\ ~raced /\ ~crossed
    BY <1>10
  <2>2. \A r \in Ops : op[r].kind = "approve" /\ op[r].at = "deliver" => ApprovalFirst(r)
    BY <2>1 DEF IInv, KeysInv, KeysInOrder
  <2>3. CASE q = o
    <3>1. op[o].kind = "approve" /\ dbKey = 0 /\ dbKey' = k /\ k # 0
      <4>1. op[o].kind = "approve"
        BY <1>2, <1>10, <2>3
      <4>2. k # 0
        BY <1>1
      <4> QED
        BY <4>1, <4>2
    <3>4. Rotating = {}
      BY <1>10, <3>1
    <3>2. Rotating' = {}
      BY <1>2, <3>1, <3>4 DEF Rotating
    <3>3. \A r \in Ops : op'[r].kind = "approve" /\ op'[r].at = "deliver" => r = o
      BY <1>2, <2>2, <3>1 DEF ApprovalFirst
    <3> QED
      BY <1>2, <1>6, <2>3, <3>1, <3>2, <3>3 DEF ApprovalFirst
  <2>4. CASE q # o
    <3>1. op'[q] = op[q] /\ ApprovalFirst(q)
      BY <1>2, <1>10, <2>2, <2>4
    <3>2. dbKey # 0 /\ op[o].kind = "rotate"
      BY <3>1 DEF ApprovalFirst
    <3>3. dbKey' = k /\ k # 0
      BY <1>1, <3>2
    <3>4. \A r \in Rotating' : r \in Rotating /\ op'[r].token = op[r].token
      BY <1>2, <3>2 DEF Rotating
    <3> QED
      BY <1>2, <3>1, <3>2, <3>3, <3>4 DEF ApprovalFirst
  <2> QED
    BY <2>3, <2>4
<1>11. KeysInOrder'
  BY <1>9, <1>10 DEF KeysInOrder
<1> QED
  BY <1>8, <1>11 DEF KeysInv

\* A key reaches the service, or does not and the operator is told.
LEMMA DeliveredKeys ==
  ASSUME IInv, NEW o \in Ops, NEW ok \in BOOLEAN, Delivered(o, ok)
  PROVE  KeysInv'
<1> DEFINE k == op[o].key
           a == "finish"
<1>1. /\ k \in Nat /\ op' = [op EXCEPT ![o] = [op[o] EXCEPT !.at = a, !.key = k]]
      /\ a \in {"deliver", "finish", "error", "done"} /\ a \notin {"deliver", "free", "keygen"}
  <2>1. op[o] \in Requests
    BY DEF IInv
  <2>2. [op[o] EXCEPT !.at = "finish"] = [op[o] EXCEPT !.at = "finish", !.key = op[o].key]
    BY <2>1 DEF Requests
  <2> QED
    BY <2>1, <2>2 DEF Delivered, IInv, Requests
<1>2. /\ op[o].at = "deliver" /\ (ok => Accepts(o)) /\ told' = (told \/ ~ok)
      /\ (Accepts(o) /\ svcKey' = k) \/ (~ok /\ svcKey' = svcKey)
      /\ UNCHANGED <<dbKey, crossed, raced>>
  BY DEF Delivered
<1> HIDE DEF k, a
<1>3. /\ OpsOK' /\ op'[o].at = a /\ op'[o].key = k
      /\ op'[o].kind = op[o].kind /\ op'[o].token = op[o].token
      /\ \A q \in Ops : q # o => op'[q] = op[q]
  BY <1>1, OpMoves DEF IInv, OpsOK
<1>4. Newest' = Newest
  <2>1. Keyed' = Keyed
    BY <1>3 DEF Keyed, k
  <2> QED
    BY <2>1 DEF Newest
<1>5. /\ k # 0 /\ op[o].token < k /\ k <= Newest /\ (dbKey # 0 => k <= dbKey)
      /\ op[o].kind \in {"approve", "rotate"}
      /\ op[o].token \in Nat /\ dbKey \in Nat /\ svcKey \in Nat
  BY <1>2 DEF IInv, KeysInv, KeysNumbered, Typed, Requests, k
<1>6. KeysNumbered'
  BY <1>1, <1>2, <1>3, <1>4, <1>5 DEF IInv, KeysInv, KeysNumbered, k
<1>7. ASSUME ~told', ~raced', ~crossed' PROVE KeyOnItsWay' /\ \A q \in Ops :
        op'[q].kind = "approve" /\ op'[q].at = "deliver" => ApprovalFirst(q)'
  <2>1. /\ ~told /\ ~raced /\ ~crossed /\ svcKey' = k /\ Accepts(o)
        /\ KeyOnItsWay
        /\ \A q \in Ops : op[q].kind = "approve" /\ op[q].at = "deliver" => ApprovalFirst(q)
    BY <1>2, <1>7 DEF IInv, KeysInv, KeysInOrder
  <2>2. ASSUME dbKey # 0, k # dbKey PROVE svcKey # dbKey
    <3>1. CASE op[o].kind = "approve"
      <4>1. svcKey < k
        BY <1>2, <2>1, <3>1 DEF ApprovalFirst, k
      <4> QED
        BY <1>1, <1>5, <2>2, <4>1
    <3>2. CASE op[o].kind = "rotate"
      <4>1. svcKey = op[o].token
        BY <2>1, <3>2 DEF Accepts
      <4> QED
        BY <1>1, <1>5, <2>2, <4>1
    <3> QED
      BY <1>5, <3>1, <3>2
  <2>3. KeyOnItsWay'
    BY <1>2, <1>3, <2>1, <2>2 DEF KeyOnItsWay, k
  <2>4. ASSUME NEW q \in Ops, op'[q].kind = "approve", op'[q].at = "deliver"
        PROVE  FALSE
    <3>1. q # o /\ op'[q] = op[q]
      BY <1>1, <1>3, <2>4
    <3>2. ApprovalFirst(q)
      BY <2>1, <2>4, <3>1
    <3>3. op[o].kind = "rotate" /\ o \in Rotating
      BY <1>2, <1>5, <3>1, <3>2 DEF ApprovalFirst, Rotating
    <3>4. svcKey < op[q].key /\ op[q].key <= op[o].token /\ op[q].key \in Nat
      BY <3>2, <3>3 DEF ApprovalFirst, IInv, Requests
    <3> QED
      BY <1>5, <2>1, <3>3, <3>4 DEF Accepts
  <2> QED
    BY <2>3, <2>4
<1>8. KeysInOrder'
  BY <1>7 DEF KeysInOrder
<1> QED
  BY <1>6, <1>8 DEF KeysInv

-----------------------------------------------------------------------------
(* The operator's requests, step by step.                                  *)

LEMMA ApproveStep ==
  ASSUME IInv, NEW o \in Ops, Approve(o)
  PROVE  IInv'
<1> DEFINE m == entry.manifest
           v == [Unused EXCEPT !.kind = "approve", !.at = "keygen", !.fp = m]
<1>1. /\ op[o].at = "free" /\ entry.there /\ m # None
      /\ op' = [op EXCEPT ![o] = v] /\ shown' = shown \cup {m}
      /\ UNCHANGED <<tier, up, live, entry, fetch, poll, approval, tools, dbKey, svcKey, told,
                     crossed, raced, late>>
  BY DEF Approve, envVars, keyVars
<1>2. m \in Manifests
  BY <1>1, EntryFacts DEF IInv, Typed
<1>3. /\ v \in Requests /\ v.kind = "approve" /\ v.at = "keygen" /\ v.fp = m
      /\ v.key = 0 /\ v.token = 0
  BY <1>2 DEF Unused, Requests
<1> HIDE DEF v
<1>4. /\ OpsOK' /\ op'[o] = v
      /\ \A q \in Ops : q # o => op'[q] = op[q]
  BY <1>1, <1>3, OneOp DEF IInv, OpsOK
<1>5. Typed' /\ HealthIsPolled'
  BY <1>1, <1>2, HealthFrame DEF IInv, Typed
<1>6. KeysInv'
  BY <1>1, <1>3, MadeKeys DEF IInv
<1>7. ToolsInv'
  <2>1. \A q \in Approving' : q = o \/ (q \in Approving /\ op'[q] = op[q])
    BY <1>4 DEF Approving
  <2>2. ApprovalsCurrent'
    BY <1>1, <1>2, <1>3, <1>4, <2>1 DEF IInv, ToolsInv, ApprovalsCurrent
  <2> QED
    BY <1>1, <2>2 DEF IInv, ToolsInv, ToolsAreBacked, ToolsWereApproved, ReapprovalSuspends, EntryOK,
       FreshEntry
<1> QED
  BY <1>4, <1>5, <1>6, <1>7 DEF IInv, OpsOK

LEMMA RotateStep ==
  ASSUME IInv, NEW o \in Ops, Rotate(o)
  PROVE  IInv'
<1> DEFINE v == [Unused EXCEPT !.kind = "rotate", !.at = "keygen", !.token = dbKey]
<1>1. /\ op[o].at = "free" /\ dbKey # 0 /\ op' = [op EXCEPT ![o] = v]
      /\ UNCHANGED <<tier, up, live, entry, fetch, poll, approval, tools, dbKey, svcKey, told,
                     crossed, shown, raced, late>>
  BY DEF Rotate, envVars, keyVars
<1>2. /\ v \in Requests /\ v.kind = "rotate" /\ v.at = "keygen" /\ v.key = 0 /\ v.token = dbKey
  BY DEF Unused, Requests, IInv, Typed
<1> HIDE DEF v
<1>3. /\ OpsOK' /\ op'[o] = v
      /\ \A q \in Ops : q # o => op'[q] = op[q]
  BY <1>1, <1>2, OneOp DEF IInv, OpsOK
<1>4. \A q \in Ops : q \in Approving' => q \in Approving /\ op'[q].fp = op[q].fp
  BY <1>2, <1>3 DEF Approving
<1>5. Typed' /\ ToolsInv' /\ HealthIsPolled'
  BY <1>1, <1>4, QuietStep DEF IInv, Typed
<1>6. KeysInv'
  BY <1>1, <1>2, MadeKeys DEF IInv
<1> QED
  BY <1>3, <1>5, <1>6 DEF IInv, OpsOK

\* Writing a request's place alone leaves its key.
LEMMA SameKey ==
  ASSUME IInv, NEW o \in Ops, NEW a
  PROVE  /\ op[o].key \in Nat
         /\ [op EXCEPT ![o].at = a]
              = [op EXCEPT ![o] = [op[o] EXCEPT !.at = a, !.key = op[o].key]]
<1>1. op[o] \in Requests
  BY DEF IInv
<1>2. [op[o] EXCEPT !.at = a] = [op[o] EXCEPT !.at = a, !.key = op[o].key]
  BY <1>1 DEF Requests
<1> QED
  BY <1>1, <1>2 DEF Requests

\* A request that has gone on is no longer among the approvals, or is as it was.
LEMMA StillApproving ==
  ASSUME IInv, NEW o \in Ops, NEW k \in Nat, NEW a \in {"deliver", "finish", "error", "done"},
         op' = [op EXCEPT ![o] = [op[o] EXCEPT !.at = a, !.key = k]],
         op[o].at \in {"keygen", "deliver", "finish"}
  PROVE  /\ OpsOK'
         /\ \A q \in Ops : q \in Approving' => q \in Approving /\ op'[q].fp = op[q].fp
<1>1. /\ OpsOK' /\ op'[o].at = a /\ op'[o].key = k
      /\ op'[o].kind = op[o].kind /\ op'[o].fp = op[o].fp
      /\ \A q \in Ops : q # o => op'[q] = op[q]
  BY OpMoves DEF IInv, OpsOK
<1> QED
  BY <1>1 DEF Approving

LEMMA GeneratedStep ==
  ASSUME IInv, NEW o \in Ops, KeyGenerated(o)
  PROVE  IInv'
<1>1. /\ op[o].kind = "approve" /\ op[o].at = "keygen"
      /\ UNCHANGED <<tier, up, live, fetch, poll, svcKey, shown, raced, late>>
  BY DEF KeyGenerated, envVars
<1>2. o \in Approving
  BY <1>1 DEF Approving
<1>3. CASE dbKey # 0
  <2> DEFINE k == op[o].key
             a == "error"
  <2>1. UNCHANGED <<dbKey, told, crossed, entry, approval, tools>>
    BY <1>3 DEF KeyGenerated
  <2>2. /\ k \in Nat /\ k = op[o].key /\ a \in {"deliver", "finish", "error", "done"}
        /\ a # "deliver" /\ op' = [op EXCEPT ![o] = [op[o] EXCEPT !.at = a, !.key = k]]
    BY <1>3, SameKey DEF KeyGenerated
  <2> HIDE DEF k, a
  <2>3. /\ OpsOK'
        /\ \A q \in Ops : q \in Approving' => q \in Approving /\ op'[q].fp = op[q].fp
    BY <1>1, <2>2, StillApproving
  <2>4. Typed' /\ ToolsInv' /\ HealthIsPolled'
    BY <1>1, <2>1, <2>3, QuietStep DEF IInv, Typed
  <2>5. KeysInv'
    BY <1>1, <2>1, <2>2, MovedKeys
  <2> QED
    BY <2>3, <2>4, <2>5 DEF IInv, OpsOK
<1>4. CASE dbKey = 0
  <2> DEFINE k == NextKey
             a == IF tier = "managed" THEN "deliver" ELSE "done"
  <2>1. /\ dbKey' = k /\ crossed' = (crossed \/ Rotating # {})
        /\ told' = (told \/ tier = "external")
        /\ tier = "managed" => UNCHANGED <<entry, approval, tools>>
        /\ tier = "external" => Approved(op[o].fp, k)
    BY <1>4 DEF KeyGenerated, IInv, Typed
  <2>2. /\ k \in Nat /\ k = NextKey /\ a \in {"deliver", "finish", "error", "done"}
        /\ a \in {"deliver", "done"} /\ (a = "done" => tier = "external")
    BY NextKeyFacts DEF IInv, OpsOK, Typed
  <2>3. op' = [op EXCEPT ![o] = [op[o] EXCEPT !.at = a, !.key = k]]
    BY <1>4 DEF KeyGenerated, IInv, Typed
  <2> HIDE DEF k, a
  <2>4. /\ OpsOK'
        /\ \A q \in Ops : q \in Approving' => q \in Approving /\ op'[q].fp = op[q].fp
    BY <1>1, <2>2, <2>3, StillApproving
  <2>5. KeysInv'
    BY <1>1, <1>4, <2>1, <2>2, <2>3, GeneratedKeys
  <2>6. /\ dbKey' \in Nat /\ svcKey' \in Nat /\ told' \in BOOLEAN /\ crossed' \in BOOLEAN
        /\ tier \in {"managed", "external"}
    BY <1>1, <2>1, <2>2 DEF IInv, Typed
  <2>7. Typed' /\ ToolsInv' /\ HealthIsPolled'
    <3>1. CASE tier = "managed"
      BY <1>1, <2>1, <2>4, <2>6, <3>1, QuietStep
    <3>2. CASE tier = "external"
      BY <1>1, <1>2, <2>1, <2>2, <2>4, <2>6, <3>2, ApprovedStep
    <3> QED
      BY <2>6, <3>1, <3>2
  <2> QED
    BY <2>4, <2>5, <2>7 DEF IInv, OpsOK
<1> QED
  BY <1>3, <1>4

LEMMA DeliveredStep ==
  ASSUME IInv, NEW o \in Ops, NEW ok \in BOOLEAN, Delivered(o, ok)
  PROVE  IInv'
<1> DEFINE k == op[o].key
           a == "finish"
<1>1. /\ op[o].at = "deliver"
      /\ UNCHANGED <<tier, up, live, entry, fetch, poll, approval, tools, dbKey, crossed, shown, raced,
                     late>>
      /\ svcKey' \in Nat /\ told' \in BOOLEAN
  BY SameKey DEF Delivered, envVars, IInv, Typed
<1>2. /\ k \in Nat /\ a \in {"deliver", "finish", "error", "done"}
      /\ op' = [op EXCEPT ![o] = [op[o] EXCEPT !.at = a, !.key = k]]
  BY SameKey DEF Delivered
<1> HIDE DEF k, a
<1>3. /\ OpsOK'
      /\ \A q \in Ops : q \in Approving' => q \in Approving /\ op'[q].fp = op[q].fp
  BY <1>1, <1>2, StillApproving
<1>4. Typed' /\ ToolsInv' /\ HealthIsPolled'
  BY <1>1, <1>3, QuietStep DEF IInv, Typed
<1> QED
  BY <1>3, <1>4, DeliveredKeys DEF IInv, OpsOK

LEMMA FinishStep ==
  ASSUME IInv, NEW o \in Ops, Finish(o)
  PROVE  IInv'
<1> DEFINE k == op[o].key
           a == "done"
<1>1. /\ op[o].at = "finish"
      /\ UNCHANGED <<tier, up, live, fetch, poll, dbKey, svcKey, told, crossed, shown, raced, late>>
      /\ op[o].kind = "approve" => Approved(op[o].fp, dbKey)
      /\ op[o].kind # "approve" => UNCHANGED <<approval, entry, tools>>
  BY DEF Finish, envVars, keyVars
<1>2. /\ k \in Nat /\ k = op[o].key /\ a \in {"deliver", "finish", "error", "done"}
      /\ a # "deliver" /\ op' = [op EXCEPT ![o] = [op[o] EXCEPT !.at = a, !.key = k]]
  BY SameKey DEF Finish
<1> HIDE DEF k, a
<1>3. /\ OpsOK'
      /\ \A q \in Ops : q \in Approving' => q \in Approving /\ op'[q].fp = op[q].fp
  BY <1>1, <1>2, StillApproving
<1>4. KeysInv'
  BY <1>1, <1>2, MovedKeys
<1>5. dbKey \in Nat /\ dbKey' \in Nat /\ svcKey' \in Nat /\ told' \in BOOLEAN /\ crossed' \in BOOLEAN
  BY <1>1 DEF IInv, Typed
<1>6. Typed' /\ ToolsInv' /\ HealthIsPolled'
  <2>1. CASE op[o].kind = "approve"
    <3>1. o \in Approving
      BY <1>1, <2>1 DEF Approving
    <3> QED
      BY <1>1, <1>3, <1>5, <2>1, <3>1, ApprovedStep
  <2>2. CASE op[o].kind # "approve"
    BY <1>1, <1>3, <1>5, <2>2, QuietStep
  <2> QED
    BY <2>1, <2>2
<1> QED
  BY <1>3, <1>4, <1>6 DEF IInv, OpsOK

LEMMA RotatedStep ==
  ASSUME IInv, NEW o \in Ops, KeyRotated(o)
  PROVE  IInv'
<1> DEFINE k == NextKey
           a == "deliver"
<1>1. /\ op[o].kind = "rotate" /\ op[o].at = "keygen"
      /\ UNCHANGED <<tier, up, live, entry, fetch, poll, approval, tools, svcKey, told, crossed,
                     shown, raced, late>>
      /\ dbKey' = IF dbKey = 0 THEN 0 ELSE k
  BY DEF KeyRotated, envVars
<1>2. /\ k \in Nat /\ k = NextKey /\ a \in {"deliver", "finish", "error", "done"}
      /\ a \in {"deliver", "done"} /\ a # "done"
  BY NextKeyFacts DEF IInv, OpsOK
<1>3. op' = [op EXCEPT ![o] = [op[o] EXCEPT !.at = a, !.key = k]]
  BY DEF KeyRotated, IInv
<1> HIDE DEF k, a
<1>4. /\ OpsOK'
      /\ \A q \in Ops : q \in Approving' => q \in Approving /\ op'[q].fp = op[q].fp
  BY <1>1, <1>2, <1>3, StillApproving
<1>5. KeysInv'
  BY <1>1, <1>2, <1>3, GeneratedKeys
<1>6. Typed' /\ ToolsInv' /\ HealthIsPolled'
  BY <1>1, <1>2, <1>4, QuietStep DEF IInv, Typed
<1> QED
  BY <1>4, <1>5, <1>6 DEF IInv, OpsOK

LEMMA RevokeStep ==
  ASSUME IInv, Revoke
  PROVE  IInv'
<1>1. /\ dbKey' = 0 /\ tools' = {} /\ shown' = {} /\ raced' = (raced \/ Approving # {})
      /\ approval' = [approval EXCEPT !.status = "revoked"]
      /\ entry' = IF entry.there THEN [entry EXCEPT !.status = "revoked"] ELSE entry
      /\ UNCHANGED <<tier, up, live, fetch, poll, op, svcKey, told, crossed, late>>
  BY DEF Revoke, envVars
<1>2. approval' \in Approvals /\ approval'.status = "revoked"
  BY <1>1 DEF IInv, Typed, Approvals, Statuses
<1>3. /\ entry' \in Entries /\ entry'.there = entry.there /\ entry'.healthy = entry.healthy
      /\ entry'.manifest = entry.manifest /\ entry'.by = entry.by
      /\ ~entry.there => entry' = entry
  <2>1. "revoked" \in Statuses
    BY DEF Statuses
  <2> QED
    BY <1>1, <2>1, StatusFacts DEF IInv, Typed
<1>4. Typed' /\ HealthIsPolled'
  BY <1>1, <1>2, <1>3, HealthFrame DEF IInv, Typed
<1>5. op' \in [Ops -> Requests] /\ Approving' = Approving
  BY <1>1 DEF IInv, Approving
<1>6. ToolsInv'
  BY <1>1, <1>2, <1>3, <1>5 DEF IInv, ToolsInv, ToolsAreBacked, ToolsWereApproved, ReapprovalSuspends,
     EntryOK, FreshEntry, ApprovalsCurrent
<1>7. KeysNumbered'
  <2>1. Newest' = Newest /\ 0 <= Newest
    BY <1>1, NextKeyFacts DEF Newest, Keyed, IInv, OpsOK
  <2> QED
    BY <1>1, <2>1 DEF IInv, KeysInv, KeysNumbered
<1>8. ASSUME ~raced', NEW o \in Ops, op'[o].kind = "approve", op'[o].at = "deliver" PROVE FALSE
  BY <1>1, <1>8 DEF Approving
<1>9. KeysInOrder'
  BY <1>1, <1>8 DEF KeysInOrder, KeyOnItsWay
<1> QED
  BY <1>4, <1>5, <1>6, <1>7, <1>9 DEF IInv, KeysInv

LEMMA RestartStep ==
  ASSUME IInv, Restart
  PROVE  IInv'
<1>1. /\ entry' = NoEntry /\ tools' = {} /\ up' \in BOOLEAN
      /\ poll' = [state |-> "unknown", failures |-> 0]
      /\ fetch' = [f \in Fetches |-> IF fetch[f].at = "free" THEN fetch[f]
                                     ELSE [at |-> "done", got |-> None]]
      /\ told' = (told \/ \E o \in Ops : op[o].at = "deliver")
      /\ UNCHANGED <<tier, live, approval, dbKey, svcKey, crossed, shown, raced, late>>
  BY DEF Restart
<1>2. poll' \in Polls /\ fetch' \in [Fetches -> FetchStates]
  BY <1>1, FailureFacts DEF IInv, Typed, Polls, FetchStates
<1>3. Typed'
  BY <1>1, <1>2, RecordFacts DEF IInv, Typed
<1>4. ASSUME NEW o \in Ops
      PROVE  /\ op'[o] \in Requests /\ op'[o].key = op[o].key /\ op'[o].token = op[o].token
             /\ op'[o].at \in {"free", "error", "done"}
             /\ op'[o].at = "free" => op'[o] = op[o]
  <2>1. op[o] \in Requests
    BY DEF IInv
  <2>2. op'[o] = IF op[o].at \in {"free", "error", "done"} THEN op[o]
                 ELSE [op[o] EXCEPT !.at = "done"]
    BY DEF Restart
  <2> QED
    BY <2>1, <2>2 DEF Requests
<1>5. op' \in [Ops -> Requests]
  BY <1>4 DEF Restart
<1>6. ToolsInv'
  <2>1. Approving' = {}
    BY <1>4 DEF Approving
  <2>2. EntryOK' /\ FreshEntry'
    BY <1>1, RecordFacts DEF EntryOK, FreshEntry
  <2>3. ApprovalsCurrent'
    BY <1>1, <2>1 DEF IInv, ToolsInv, ApprovalsCurrent
  <2> QED
    BY <1>1, <2>2, <2>3 DEF ToolsInv, ToolsAreBacked, ToolsWereApproved, ReapprovalSuspends
<1>7. KeysNumbered'
  <2>1. Newest' = Newest
    <3>1. Keyed' = Keyed
      BY <1>4 DEF Keyed
    <3> QED
      BY <3>1 DEF Newest
  <2> QED
    BY <1>1, <1>4, <2>1 DEF IInv, KeysInv, KeysNumbered
<1>8. KeysInOrder'
  <2>1. ASSUME ~told', ~raced', ~crossed' PROVE KeyOnItsWay'
    BY <1>1, <2>1 DEF IInv, KeysInv, KeysInOrder, KeyOnItsWay
  <2> QED
    BY <1>4, <2>1 DEF KeysInOrder
<1>9. HealthIsPolled'
  BY <1>1, RecordFacts DEF HealthIsPolled
<1> QED
  BY <1>3, <1>5, <1>6, <1>7, <1>8, <1>9 DEF IInv, KeysInv

LEMMA NextIInv ==
  ASSUME IInv, [Next]_vars
  PROVE  IInv'
  BY EnvStep, StartedStep, StoppedStep, PassedStep, FailedStep, ReturnsStep, ApproveStep, RotateStep,
     GeneratedStep, DeliveredStep, FinishStep, RotatedStep, RevokeStep, RestartStep DEF Next

-----------------------------------------------------------------------------
(* The theorems.                                                           *)

\* The inductive invariant holds always.
THEOREM ServiceInvariance == Spec => []IInv
  BY InitIInv, NextIInv, PTL DEF Spec

\* For any manifests and any overlap of fetches, approvals, revocations, crashes,
\* health checks and restarts, a service has no tools without an entry and an approval
\* in force, none an operator did not approve, and none while it waits for
\* re-approval, up to the races the properties name.
THEOREM ToolsAreSound == Spec => []ToolsSound
<1>1. IInv => ToolsSound
  BY TypedOK DEF IInv, ToolsInv, ToolsSound
<1> QED
  BY <1>1, ServiceInvariance, PTL

\* However many approvals and rotations overlap and whichever deliveries fail or are
\* lost, the service and the daemon agree on the key once no request is in progress,
\* up to the races KeysAgree names, and the entry shows the health the poller last saw.
THEOREM ViewsDoAgree == Spec => []ViewsAgree
<1>1. IInv => KeysAgree
  BY DEF IInv, KeysInv, KeysInOrder, KeyOnItsWay, KeysAgree, InProgress
<1>2. IInv => HealthIsPolled
  BY DEF IInv
<1> QED
  BY <1>1, <1>2, ServiceInvariance, PTL DEF ViewsAgree

=============================================================================
