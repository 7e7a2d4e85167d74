----------------------------- MODULE TurnQueue -----------------------------
(***************************************************************************)
(* The tiered turn queue of one session                                    *)
(* (packages/daemon/src/sessions/session-turn-queue.ts), the operator      *)
(* operations that edit it (session_queue and session_kill in              *)
(* control/integration-ops.ts) and the one caller that freezes it, the     *)
(* mid-turn context compaction of sessions/tool-loop.ts.                   *)
(*                                                                         *)
(* TieredTurnQueue keeps a Map from session ids to SessionQueue records    *)
(* and no operation reads two entries of it, so one session is modelled.   *)
(* Everything between two awaits is one step of Node's event loop, hence   *)
(* one action; a turn's execute() is a step of its own for every await.    *)
(***************************************************************************)
EXTENDS Integers, Sequences

CONSTANTS
  SystemTurns,          \* turns enqueued with priority "system"
  UserTurns,            \* turns enqueued with priority "user"
  NoEntry,              \* runningEntry === undefined
  StarvationThreshold,  \* starvationThreshold (2 in the daemon)
  MaxDepth,             \* maxDepth of a tier (6 in the daemon)
  Grain                 \* wire indexes are multiples of 1/Grain: 1 for whole
                        \* numbers, 2 when a client may send 1.5

Turns == SystemTurns \cup UserTurns

ASSUME TurnsAssumption ==
  /\ SystemTurns \cap UserTurns = {}
  /\ NoEntry \notin Turns

ASSUME BoundsAssumption ==
  /\ StarvationThreshold \in Nat
  /\ MaxDepth \in Nat \ {0}
  /\ Grain \in Nat \ {0}

VARIABLES
  sq,          \* the SessionQueue record; sq.live: it is in the Map
  blocked,     \* the session is in the `blocked` set
  exec,        \* execute() of each turn
  promise,     \* the promise enqueue() returned for each turn
  dequeued,    \* QueueEntry.dequeued: the onDequeued hook has fired
  compaction,  \* drainDeferredCompaction in each turn, and what its call of
               \* beginTurnQueueBlock did
  strayed,     \* history: a turn that did not own the slot took a block
  silent,      \* history: turns made to wait without an onQueued hook
  bypassed     \* history: system turns started in a row past a waiting user turn

vars == <<sq, blocked, exec, promise, dequeued, compaction, strayed, silent,
          bypassed>>

-----------------------------------------------------------------------------
(* The SessionQueue record and the synchronous helpers on it.              *)

NoSession == [live |-> FALSE, high |-> <<>>, normal |-> <<>>,
              runningEntry |-> NoEntry, consecutiveHighTurns |-> 0]

GetOrCreate(q) == [q EXCEPT !.live = TRUE]

Running(q) == q.runningEntry # NoEntry

Empty(q) == q.high = <<>> /\ q.normal = <<>>

Contents(s) == {s[i] : i \in 1 .. Len(s)}

Queued == Contents(sq.high) \cup Contents(sq.normal)

\* Faulty variant: the record is never removed from the Map.
CleanupNever(q) == q

Cleanup(q) == IF ~Running(q) /\ Empty(q) THEN NoSession ELSE q

\* Faulty variant: the user tier is served one system turn too late.
PicksNormalLate(q) ==
  /\ q.normal # <<>>
  /\ q.high = <<>> \/ q.consecutiveHighTurns > StarvationThreshold

\* pickNext serves the user tier when it is its turn by anti-starvation, or
\* when the system tier has nothing.
PicksNormal(q) ==
  /\ q.normal # <<>>
  /\ q.high = <<>> \/ q.consecutiveHighTurns >= StarvationThreshold

PickNext(q) ==
  IF PicksNormal(q)
  THEN [q EXCEPT !.runningEntry = Head(q.normal),
                 !.normal = Tail(q.normal),
                 !.consecutiveHighTurns = 0]
  ELSE [q EXCEPT !.runningEntry = Head(q.high),
                 !.high = Tail(q.high),
                 !.consecutiveHighTurns = q.consecutiveHighTurns + 1]

\* Faulty variant: the freeze is not looked at.
PumpUnfrozen(q, block) ==
  IF Running(q) THEN q ELSE IF Empty(q) THEN Cleanup(q) ELSE PickNext(q)

Pump(q, block) ==
  IF block \/ Running(q) THEN q ELSE IF Empty(q) THEN Cleanup(q) ELSE PickNext(q)

\* forceReleaseRunning and turn end both clear the slot the same way.
Released(q) == [q EXCEPT !.runningEntry = NoEntry]

\* What a pump leaves behind, from the record q it ran on to the record p it
\* produced: the turn it started is executing and out of the queue.
Started(q, p) == IF Running(p) /\ ~Running(q) THEN {p.runningEntry} ELSE {}

StartTurns(S) ==
  exec' = [t \in Turns |-> IF t \in S THEN "running" ELSE exec[t]]

CountBypass(q, p) ==
  bypassed' = IF p.normal = <<>> \/ Started(q, p) \cap UserTurns # {} THEN 0
              ELSE IF Started(q, p) # {} THEN bypassed + 1 ELSE bypassed

-----------------------------------------------------------------------------
(* enqueue.                                                                *)

TierOf(t) == IF t \in SystemTurns THEN sq.high ELSE sq.normal

\* Faulty variants: a full tier takes one more; a new turn jumps the queue.
HasRoomOffByOne(t) == Len(TierOf(t)) <= MaxDepth

\* Faulty variant: an entry goes to the front of its tier.
PushEntryFront(q, t) ==
  IF t \in SystemTurns THEN [q EXCEPT !.high = <<t>> \o q.high]
                       ELSE [q EXCEPT !.normal = <<t>> \o q.normal]

HasRoom(t) == Len(TierOf(t)) < MaxDepth

PushEntry(q, t) ==
  IF t \in SystemTurns THEN [q EXCEPT !.high = Append(q.high, t)]
                       ELSE [q EXCEPT !.normal = Append(q.normal, t)]

EnqueueRefused(t) ==
  /\ promise[t] = "none"
  /\ ~HasRoom(t)
  /\ sq' = GetOrCreate(sq)
  /\ promise' = [promise EXCEPT ![t] = "full"]
  /\ UNCHANGED <<blocked, exec, dequeued, compaction, strayed, silent, bypassed>>

Enqueue(t) ==
  LET q == PushEntry(GetOrCreate(sq), t)
      p == Pump(q, blocked)
  IN /\ promise[t] = "none"
     /\ HasRoom(t)
     /\ sq' = p
     /\ promise' = [promise EXCEPT ![t] = "pending"]
     /\ silent' = IF Running(q) \/ Running(p) THEN silent ELSE silent \cup {t}
     /\ StartTurns(Started(q, p))
     /\ dequeued' = [u \in Turns |-> dequeued[u] \/ u \in Started(q, p)]
     /\ CountBypass(q, p)
     /\ UNCHANGED <<blocked, compaction, strayed>>

-----------------------------------------------------------------------------
(* The turn itself: execute(), its settlement and the finally handler.     *)

\* A compaction in progress: beginTurnQueueBlock returned true to the turn that
\* owned the slot, true to a turn that did not, or false.
Holding == {"own", "other"}

Compacting == Holding \cup {"unheld"}

\* execute() resolves or rejects and so does the caller's promise; once
\* force-released, that is already settled and the second answer is ignored.
ExecSettles(t) ==
  /\ exec[t] = "running"
  /\ compaction[t] \notin Compacting
  /\ exec' = [exec EXCEPT ![t] = "settled"]
  /\ promise' = [promise EXCEPT ![t] = IF @ = "pending" THEN "settled" ELSE @]
  /\ UNCHANGED <<sq, blocked, dequeued, compaction, strayed, silent, bypassed>>

\* Faulty variant: any turn that ends releases the slot.
OwnsSlotUnchecked(t) == TRUE

\* current.runningEntry === next
OwnsSlot(t) == sq.runningEntry = t

\* The finally handler of the turn that owns the slot: it unfreezes the
\* session, clears the slot and pumps.
TurnEnd(t) ==
  LET q == Released(sq)
      p == Pump(q, FALSE)
  IN /\ exec[t] = "settled"
     /\ OwnsSlot(t)
     /\ sq' = p
     /\ blocked' = FALSE
     /\ exec' = [u \in Turns |-> IF u = t THEN "done"
                                 ELSE IF u \in Started(q, p) THEN "running"
                                 ELSE exec[u]]
     /\ dequeued' = [u \in Turns |-> dequeued[u] \/ u \in Started(q, p)]
     /\ compaction' = [compaction EXCEPT ![t] = "none"]
     /\ CountBypass(q, p)
     /\ UNCHANGED <<promise, strayed, silent>>

\* The finally handler of a turn that was force-released: it only logs.
TurnEndStale(t) ==
  /\ exec[t] = "settled"
  /\ ~OwnsSlot(t)
  /\ exec' = [exec EXCEPT ![t] = "done"]
  /\ compaction' = [compaction EXCEPT ![t] = "none"]
  /\ UNCHANGED <<sq, blocked, promise, dequeued, strayed, silent, bypassed>>

\* drainDeferredCompaction: freeze the queue, then rewrite the transcript.
\* beginTurnQueueBlock is keyed by session, not by turn: it succeeds whenever
\* some turn is running and no block is active.  One compaction per turn.
BeginCompaction(t) ==
  /\ exec[t] = "running"
  /\ compaction[t] = "none"
  /\ compaction' = [compaction EXCEPT ![t] =
                      IF ~Running(sq) \/ blocked THEN "unheld"
                      ELSE IF sq.runningEntry = t THEN "own" ELSE "other"]
  /\ strayed' = (strayed \/ compaction'[t] = "other")
  /\ blocked' = (blocked \/ Running(sq))
  /\ UNCHANGED <<sq, exec, promise, dequeued, silent, bypassed>>

\* Faulty variant: a turn that lost the slot does not lift its block.
UnfreezesOwnerOnly(t) ==
  compaction[t] \in Holding /\ blocked /\ sq.runningEntry = t

Unfreezes(t) == compaction[t] \in Holding /\ blocked

\* The rewrite settles; the finally clause calls endTurnQueueBlock when the
\* begin call returned true, and that pumps when there was a block to delete.
EndCompaction(t) ==
  LET p == IF Unfreezes(t) THEN Pump(sq, FALSE) ELSE sq
  IN /\ exec[t] = "running"
     /\ compaction[t] \in Compacting
     /\ compaction' = [compaction EXCEPT ![t] = "over"]
     /\ blocked' = (blocked /\ ~Unfreezes(t))
     /\ sq' = p
     /\ StartTurns(Started(sq, p))
     /\ dequeued' = [u \in Turns |-> dequeued[u] \/ u \in Started(sq, p)]
     /\ CountBypass(sq, p)
     /\ UNCHANGED <<promise, strayed, silent>>

-----------------------------------------------------------------------------
(* Operator operations: release, remove, clear, kill.                      *)

\* Faulty variant: only queued turns are told they were dropped.
SettleQueued(S) ==
  promise' = [t \in Turns |-> IF t \in S \cap Queued /\ promise[t] = "pending"
                              THEN "dropped" ELSE promise[t]]

Settle(S) ==
  promise' = [t \in Turns |-> IF t \in S /\ promise[t] = "pending"
                              THEN "dropped" ELSE promise[t]]

\* A removal operation leaves the record q behind and drops the turns of S.
Drop(q, S) ==
  /\ sq.live
  /\ sq' = Cleanup(q)
  /\ Settle(S)
  /\ dequeued' = [t \in Turns |-> dequeued[t] \/ t \in S]
  /\ bypassed' = IF q.normal = <<>> THEN 0 ELSE bypassed
  /\ UNCHANGED <<blocked, exec, compaction, strayed, silent>>

\* Array.prototype.filter((_, i) => i < start || i > end) on 0-based places,
\* with start and end in units of 1/Grain.
CeilDiv(n) == (n + Grain - 1) \div Grain

\* Faulty variant: the last place of the range is kept.
CutOutShort(s, start, end) ==
  IF CeilDiv(start) >= Len(s) \/ start > end THEN s
  ELSE SubSeq(s, 1, CeilDiv(start)) \o SubSeq(s, (end \div Grain) + 1, Len(s))

CutOut(s, start, end) ==
  LET keepFirst == CeilDiv(start)
      dropLast  == end \div Grain
  IN IF keepFirst > dropLast \/ keepFirst >= Len(s) THEN s
     ELSE SubSeq(s, 1, keepFirst) \o SubSeq(s, dropLast + 2, Len(s))

\* Array.prototype.slice(start, end + 1), which truncates its arguments.
Slice(s, start, end) ==
  {s[i] : i \in {j \in 1 .. Len(s) :
                   start \div Grain <= j - 1 /\ j - 1 <= end \div Grain}}

\* Whole-number places of a combined listing that fall in one tier.
CutPlaces(s, first, last) ==
  IF first > last \/ first >= Len(s) \/ last < 0 THEN s
  ELSE SubSeq(s, 1, IF first < 0 THEN 0 ELSE first) \o SubSeq(s, last + 2, Len(s))

Places == 0 .. Grain * (2 * MaxDepth - 1)

\* session_queue remove by index, range or count with a priority.
RemoveByRange(start, end) ==
  \/ Drop([sq EXCEPT !.high = CutOut(sq.high, start, end)],
          Slice(sq.high, start, end))
  \/ Drop([sq EXCEPT !.normal = CutOut(sq.normal, start, end)],
          Slice(sq.normal, start, end))

\* The same without one: places in the listing high followed by normal, whose
\* slice is removed from both tiers by id.
RemoveByRangeAll(start, end) ==
  LET first == start \div Grain
      last  == end \div Grain
      shift == Len(sq.high)
  IN Drop([sq EXCEPT !.high   = CutPlaces(sq.high, first, last),
                     !.normal = CutPlaces(sq.normal, first - shift, last - shift)],
          Slice(sq.high \o sq.normal, start, end))

RemoveAt(s, i) == SubSeq(s, 1, i - 1) \o SubSeq(s, i + 1, Len(s))

\* removeById with one id; a list of ids is its ids one after the other.
RemoveById ==
  \/ \E i \in 1 .. Len(sq.high) :
       Drop([sq EXCEPT !.high = RemoveAt(sq.high, i)], {sq.high[i]})
  \/ \E i \in 1 .. Len(sq.normal) :
       Drop([sq EXCEPT !.normal = RemoveAt(sq.normal, i)], {sq.normal[i]})

Clear ==
  \/ Drop([sq EXCEPT !.high = <<>>], Contents(sq.high))
  \/ Drop([sq EXCEPT !.normal = <<>>], Contents(sq.normal))
  \/ Drop([sq EXCEPT !.high = <<>>, !.normal = <<>>], Queued)

\* The wedged turn's promise is rejected and the queue moves on; a block, if
\* there is one, is kept, so the pump does nothing until it is released.
ForceReleaseRunning ==
  LET q == Released(sq)
      p == Pump(q, blocked)
  IN /\ Running(sq)
     /\ sq' = p
     /\ Settle({sq.runningEntry})
     /\ StartTurns(Started(q, p))
     /\ dequeued' = [u \in Turns |-> dequeued[u] \/ u \in Started(q, p)]
     /\ CountBypass(q, p)
     /\ UNCHANGED <<blocked, compaction, strayed, silent>>

\* session_kill: clear(), then forceReleaseRunning(), in one step.
SessionKill ==
  LET q == [sq EXCEPT !.high = <<>>, !.normal = <<>>]
  IN /\ Running(sq)
     /\ sq' = Pump(Released(q), blocked)
     /\ Settle(Queued \cup {sq.runningEntry})
     /\ dequeued' = [t \in Turns |-> dequeued[t] \/ t \in Queued]
     /\ bypassed' = 0
     /\ UNCHANGED <<blocked, exec, compaction, strayed, silent>>

-----------------------------------------------------------------------------
Init ==
  /\ sq = NoSession
  /\ blocked = FALSE
  /\ exec = [t \in Turns |-> "idle"]
  /\ promise = [t \in Turns |-> "none"]
  /\ dequeued = [t \in Turns |-> FALSE]
  /\ compaction = [t \in Turns |-> "none"]
  /\ strayed = FALSE
  /\ silent = {}
  /\ bypassed = 0

TurnStep(t) ==
  \/ ExecSettles(t)
  \/ TurnEnd(t)
  \/ TurnEndStale(t)
  \/ EndCompaction(t)

Next ==
  \/ \E t \in Turns : Enqueue(t) \/ EnqueueRefused(t)
  \/ \E t \in Turns : TurnStep(t) \/ BeginCompaction(t)
  \/ \E start, end \in Places : RemoveByRange(start, end)
  \/ \E start, end \in Places : RemoveByRangeAll(start, end)
  \/ RemoveById
  \/ Clear
  \/ ForceReleaseRunning
  \/ SessionKill

Spec == Init /\ [][Next]_vars

\* The event loop runs what is ready, and every execute() and every rewrite it
\* awaits settles; nothing is assumed of the operator or of new arrivals.
Fairness == \A t \in Turns : WF_vars(TurnStep(t))

FairSpec == Spec /\ Fairness
-----------------------------------------------------------------------------
(* Properties.                                                             *)

ExecStates == {"idle", "running", "settled", "done"}

Outcomes == {"none", "pending", "settled", "dropped", "full"}

\* Type correctness of the SessionQueue record, including the depth limit that
\* enqueue() enforces on each tier.
TypeOK ==
  /\ sq \in [live : BOOLEAN, high : Seq(SystemTurns), normal : Seq(UserTurns),
             runningEntry : Turns \cup {NoEntry}, consecutiveHighTurns : Nat]
  /\ Len(sq.high) <= MaxDepth /\ Len(sq.normal) <= MaxDepth
  /\ blocked \in BOOLEAN
  /\ exec \in [Turns -> ExecStates]
  /\ promise \in [Turns -> Outcomes]
  /\ dequeued \in [Turns -> BOOLEAN]
  /\ compaction \in [Turns -> Compacting \cup {"none", "over"}]
  /\ strayed \in BOOLEAN
  /\ silent \subseteq Turns
  /\ bypassed \in Nat

\* One turn at a time: a turn whose execute() is in flight without owning the
\* running slot was force-released and its caller already told so, and the slot
\* is never held by a turn that is over (pump's identity guard).
SlotExclusive ==
  /\ \A t \in Turns : exec[t] = "running" /\ sq.runningEntry # t
                        => promise[t] = "dropped"
  /\ \A t \in Turns : sq.runningEntry = t => exec[t] \in {"running", "settled"}

\* A turn whose caller is still waiting is either in its tier or in the running
\* slot: no interleaving of removals, releases and turn ends loses one.
NoTurnLost ==
  \A t \in Turns : promise[t] = "pending" => t \in Queued \/ t = sq.runningEntry

\* A queued turn has not run, has not been reported dropped and still owes its
\* onDequeued hook; no turn is queued twice.
QueuedIsPending ==
  /\ \A t \in Queued : promise[t] = "pending" /\ ~dequeued[t] /\ exec[t] = "idle"
  /\ \A i, j \in 1 .. Len(sq.high) : sq.high[i] = sq.high[j] => i = j
  /\ \A i, j \in 1 .. Len(sq.normal) : sq.normal[i] = sq.normal[j] => i = j

\* Every turn is accounted for, whatever is enqueued, removed, released or ended
\* in whatever order: one turn owns the slot, a turn whose caller waits is queued
\* or in the slot, and a queued turn has neither run nor been reported dropped.
TurnsAccounted == SlotExclusive /\ NoTurnLost /\ QueuedIsPending

\* No lost wake-up and no leaked record: a session that runs nothing and is not
\* frozen has no backlog and has been removed from the Map by cleanup().
IdleMeansForgotten == ~Running(sq) /\ ~blocked => sq = NoSession

\* A frozen session is always going to be thawed: the block belongs to a turn
\* that is still inside its rewrite and will call endTurnQueueBlock.
FreezeOwned ==
  blocked => \E t \in Turns : exec[t] = "running" /\ compaction[t] \in Holding

\* A rewrite that froze the queue from the running slot keeps it frozen until
\* it ends, even when the operator force-releases its turn: no other turn gets
\* the slot.  The comment on beginTurnQueueBlock says so of every block.
OwnerKeepsFreeze ==
  \A t \in Turns : compaction[t] = "own" => blocked /\ sq.runningEntry \in {t, NoEntry}

\* It is so as long as no force-released turn has taken a block of its own.
FreezeHolds == ~strayed => OwnerKeepsFreeze

\* Anti-starvation: while a user turn waits, at most StarvationThreshold system
\* turns start in a row.
StarvationBound == bypassed <= StarvationThreshold

\* First in, first out within a tier: nobody gets ahead of a turn that goes on
\* waiting, be it in the queue or into the running slot.
Ahead(s, t, u) == \E i, j \in 1 .. Len(s) : i < j /\ s[i] = t /\ s[j] = u

Starts(t) == exec[t] = "idle" /\ exec'[t] = "running"

NoOvertaking(s, next, tier) ==
  \A t \in Contents(s) \cap Contents(next), u \in tier :
    Ahead(next, u, t) \/ Starts(u) => Ahead(s, u, t)

FifoWithinTier ==
  [][/\ NoOvertaking(sq.high, sq'.high, SystemTurns)
     /\ NoOvertaking(sq.normal, sq'.normal, UserTurns)]_vars

\* Every caller of enqueue() gets an answer, provided turns and rewrites end.
EveryTurnSettles ==
  \A t \in Turns : promise[t] = "pending" ~> promise[t] # "pending"

\* What the comment on drainDeferredCompaction promises: no turn starts while
\* another turn is rewriting the transcript.
NoStartMidRewrite ==
  [][\A t \in Turns : Starts(t) =>
       \A u \in Turns : compaction'[u] \notin Compacting]_vars

\* What TurnQueueEntryHooks promises: a turn that waits because the session is
\* busy has been announced through onQueued.
WaitersAnnounced == silent = {}
=============================================================================
