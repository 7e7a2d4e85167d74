----------------------------- MODULE AgentTurn ------------------------------
(* The turns of one session: executeSessionAgentTurn, the tool loop, the    *)
(* model client's message list, the transcript, and the channels through    *)
(* which others reach a running turn: abort, steers and parked compactions  *)
(* (packages/daemon/src/sessions, control/integration-ops.ts).              *)
(*                                                                          *)
(* A callback runs to its next await without interruption. At pc     *)
(* "top", "drain", "call" and "break" the loop has nothing to wait for, and *)
(* nothing else steps (EventLoopFree). At every other pc the turn awaits.   *)
EXTENDS Transcript

CONSTANTS
  MaxTurns,       \* bound: turns of the session
  MaxCalls,       \* bound: tool calls the model makes, over all turns
  MaxBatch,       \* bound: calls in one model response
  BatchLimit,     \* maxToolsPerBatch
  Retries,        \* STRUCTURED_OUTPUT_MAX_RETRIES
  InvalidLimit,   \* MAX_CONSECUTIVE_INVALID_TOOL_CALLS
  Preserve,       \* preserveRecentMessages
  Cap,            \* rows that a load of the transcript returns at most
  Events,         \* in-turn events: steers with an onDropped fallback
  Notes,          \* steers of the session_steer operation, without one
  Reqs,           \* session_compact requests
  MaxFaults,      \* bound: crashes, and compaction passes that go on unattended
  Extras          \* the rarer behaviours that an instance includes

Ids == 1..MaxCalls
Steers == Events \union Notes

\* prose: the prose budget trips. leak: a thinking block arrives as a tool call.
\* late: a compaction outlives its wait. reset: the operator wipes the transcript.
Rare == {"prose", "leak", "late", "reset", "crash"}

ASSUME AgentTurnAssumption ==
  /\ {MaxTurns, MaxCalls, MaxBatch, BatchLimit} \subseteq Nat \ {0}
  /\ {Retries, InvalidLimit, Preserve, Cap, MaxFaults} \subseteq Nat
  /\ Events \intersect Notes = {}
  /\ Extras \subseteq Rare

VARIABLES
  tx,        \* the transcript rows of the session's context segment
  mem,       \* messages of the model client of the running turn
  pc,        \* where the turn awaits
  then,      \* where the loop goes on after a deferred compaction
  todo,      \* calls of the batch that are not dispatched yet
  used,      \* calls made so far
  invalid, attempt,   \* consecutiveInvalidToolCalls, structuredOutputAttempt
  steered,   \* RunawayBreaker.steeredOnce
  aborted,   \* the abort signal of the turn's scope
  run,       \* status of the turn's tool_runs row
  turn, faults,
  channel,   \* the steer channel's queue
  steer,     \* what became of every steer
  gate,      \* the compaction gate's queue
  req,       \* what became of every compaction request
  pass,      \* the transcript that the awaited compaction pass has read
  late,      \* compaction passes that nobody awaits any more
  taint      \* behaviours that have already damaged the transcript

loop == <<then, todo, used, invalid, attempt, steered, aborted, run>>
chan == <<channel, steer, gate, req>>
turnVars == <<tx, mem, pc, loop, turn, faults, chan, pass, late, taint>>

EventLoopFree == pc \notin {"top", "drain", "call", "break"}

\* The abort scope, the steer channel and the gate exist from the end of setup on.
Open == pc \notin {"idle", "setup", "queued"}

TurnInit ==
  /\ tx = <<>> /\ mem = <<>> /\ pc = "idle" /\ then = "none"
  /\ todo = {} /\ used = 0 /\ invalid = 0 /\ attempt = 0
  /\ steered = FALSE /\ aborted = FALSE
  /\ run = "none" /\ turn = 0 /\ faults = 0
  /\ channel = {} /\ steer = [s \in Steers |-> "none"]
  /\ gate = <<>> /\ req = [r \in Reqs |-> "none"]
  /\ pass = <<>> /\ late = {} /\ taint = {}

\* A row that is pushed to the model client and appended to the transcript.
Both(rows) == mem' = mem \o rows /\ tx' = appendAll(tx, rows)

-----------------------------------------------------------------------------
(* Begin and end of a turn                                                  *)

\* The user's row is appended and the history is loaded before the first await.
BeginTurn ==
  /\ pc = "idle" /\ turn < MaxTurns
  /\ turn' = turn + 1
  /\ tx' = append(tx, User)
  /\ mem' = Loaded(tx', Cap)
  /\ pc' = "setup"
  /\ UNCHANGED <<loop, faults, chan, pass, late, taint>>

\* resolveMcpContext answers: the scope, the tool run, the channel and the gate are set up.
SetupDone ==
  /\ pc = "setup"
  /\ pc' = "top" /\ run' = "running"
  /\ invalid' = 0 /\ attempt' = 0 /\ steered' = FALSE /\ aborted' = FALSE
  /\ UNCHANGED <<tx, mem, then, todo, used, turn, faults, chan, pass, late, taint>>

\* resolveMcpContext throws.
SetupFails ==
  /\ pc = "setup"
  /\ pc' = "idle" /\ mem' = <<>>
  /\ UNCHANGED <<tx, loop, turn, faults, chan, pass, late, taint>>

Dropped(s) == IF s \in Events THEN "fallback" ELSE "lost"

\* Faulty variant: events left in the channel are dropped without their fallback.
unregisterChannelQuietly ==
  /\ channel' = {}
  /\ UNCHANGED steer

\* unregister of the channel: undrained events take their fallback.
unregisterChannel ==
  /\ channel' = {}
  /\ steer' = [s \in Steers |-> IF s \in channel THEN Dropped(s) ELSE steer[s]]

\* unregister of the gate: its requests fall back to the turn queue.
unregisterGate ==
  /\ gate' = <<>>
  /\ req' = [r \in Reqs |-> IF r \in Range(gate) THEN "queued" ELSE req[r]]

\* The turn is over: its signal, its model client and its batch are gone.
Leave(status) ==
  /\ unregisterChannel /\ unregisterGate
  /\ run' = status
  /\ pc' = "idle" /\ mem' = <<>> /\ todo' = {}
  /\ then' = "none"
  /\ aborted' = FALSE /\ invalid' = 0 /\ attempt' = 0 /\ steered' = FALSE

\* An error or the abort unwinds the loop.
Throw ==
  /\ Leave("failed")
  /\ UNCHANGED <<tx, used, turn, faults, taint>>

\* Faulty variant: the abort signal is not looked at.
assertNothing == TRUE

assertNotAborted == ~aborted

-----------------------------------------------------------------------------
(* Compaction                                                               *)

drainGate == gate' = <<>>

\* Of the parked requests that drain() hands over, the first runs and the rest is dropped.
StartDeferred ==
  /\ gate # <<>>
  /\ req' = [r \in Reqs |-> CASE r = Head(gate) -> "running"
                              [] r \in Range(Tail(gate)) -> "forgotten"
                              [] OTHER -> req[r]]
  /\ drainGate
  /\ pass' = tx /\ pc' = "compact"
  /\ UNCHANGED <<tx, mem, loop, turn, faults, channel, steer, late, taint>>

\* A reload loses the acknowledgement of a call that the transcript keeps open.
Reopened(rows) == IF Unanswered(rows) # {} THEN {"leak"} ELSE {}

\* A pass answers: it rewrites the transcript it has read and reloads the model client.
Rewrite ==
  IF Shrinks(pass, Preserve)
  THEN /\ tx' = Compacted(pass, Preserve)
       /\ mem' = Loaded(tx', Cap)
       /\ taint' = IF then = "end" THEN taint ELSE taint \union Reopened(pass)
  ELSE UNCHANGED <<tx, mem, taint>>

SettleRequest(r, status) == req' = [req EXCEPT ![r] = status]

DeferredDone ==
  /\ pc = "compact"
  /\ \E r \in Reqs : /\ req[r] = "running"
                     /\ \/ Rewrite /\ SettleRequest(r, "done")
                        \/ SettleRequest(r, "failed") /\ UNCHANGED <<tx, mem, taint>>
  /\ pc' = "drain" /\ pass' = <<>>
  /\ UNCHANGED <<loop, turn, faults, channel, steer, gate, late>>

\* The threshold compaction inside complete() answers or fails.
GuardDone ==
  /\ pc = "guard"
  /\ Rewrite \/ UNCHANGED <<tx, mem, taint>>
  /\ pc' = "model" /\ pass' = <<>>
  /\ UNCHANGED <<loop, turn, faults, chan, late>>

\* Its pass goes on behind the turn's back.
Unattended ==
  /\ "late" \in Extras /\ faults < MaxFaults
  /\ faults' = faults + 1
  /\ late' = late \union {[snap |-> pass, turn |-> turn]}
  /\ pass' = <<>>

GuardTimesOut ==
  /\ pc = "guard"
  /\ Unattended
  /\ pc' = "model"
  /\ UNCHANGED <<tx, mem, loop, turn, chan, taint>>

\* The race with the abort is lost by complete(), whose pass goes on.
GuardAborted ==
  /\ pc = "guard" /\ aborted
  /\ Unattended
  /\ Leave("failed")
  /\ UNCHANGED <<tx, used, turn, taint>>

\* An unattended pass rewrites the transcript, whoever has written to it since.
LateDone(p) ==
  /\ p \in late /\ EventLoopFree
  /\ late' = late \ {p}
  /\ IF Shrinks(p.snap, Preserve)
     THEN /\ tx' = Compacted(p.snap, Preserve)
          /\ mem' = IF p.turn = turn /\ Open THEN Loaded(tx', Cap) ELSE mem
          /\ taint' = taint \union Reopened(p.snap)
                       \union IF tx = p.snap /\ pass = <<>> THEN {} ELSE {"late"}
     ELSE UNCHANGED <<tx, mem, taint>>
  /\ UNCHANGED <<pc, loop, turn, faults, chan, pass>>

\* A request that the gate rejected, or that found no gate, runs as a turn of its own.
BeginQueued(r) ==
  /\ pc = "idle" /\ req[r] = "queued"
  /\ SettleRequest(r, "running")
  /\ pass' = tx /\ pc' = "queued"
  /\ UNCHANGED <<tx, mem, loop, turn, faults, channel, steer, gate, late, taint>>

QueuedDone ==
  /\ pc = "queued"
  /\ \E r \in Reqs : /\ req[r] = "running"
                     /\ \/ SettleRequest(r, "done") /\ tx' = IF Shrinks(pass, Preserve)
                                                      THEN Compacted(pass, Preserve) ELSE tx
                        \/ SettleRequest(r, "failed") /\ UNCHANGED tx
  /\ pc' = "idle" /\ pass' = <<>>
  /\ UNCHANGED <<mem, loop, turn, faults, channel, steer, gate, late, taint>>

-----------------------------------------------------------------------------
(* One round of the loop                                                    *)

Top ==
  /\ pc = "top"
  /\ \/ aborted /\ Throw /\ UNCHANGED <<pass, late>>
     \/ /\ assertNotAborted /\ pc' = "drain" /\ then' = "model"
        /\ UNCHANGED <<tx, mem, todo, used, invalid, attempt, steered, aborted, run,
                       turn, faults, chan, pass, late, taint>>

\* complete() compacts first when the context is nearly full.
Complete ==
  /\ then = "model"
  /\ \/ pc' = "guard" /\ pass' = tx
     \/ pc' = "model" /\ UNCHANGED pass
  /\ then' = "none"
  /\ UNCHANGED <<tx, mem, todo, used, invalid, attempt, steered, aborted, run, turn, faults,
                 chan, late, taint>>

NextRound ==
  /\ then = "top" /\ pc' = "top" /\ then' = "none"
  /\ UNCHANGED <<tx, mem, todo, used, invalid, attempt, steered, aborted, run, turn, faults,
                 chan, pass, late, taint>>

Finish ==
  /\ then = "end"
  /\ Leave("completed")
  /\ UNCHANGED <<tx, used, turn, faults, pass, late, taint>>

\* drainDeferredCompaction, until the gate is empty; then the loop goes on.
Drain ==
  /\ pc = "drain"
  /\ \/ StartDeferred
     \/ gate = <<>> /\ (Complete \/ NextRound \/ Finish)

\* The loop is left by break: the post-loop drain comes next.
BreakLoop == pc' = "drain" /\ then' = "end" /\ todo' = {}

\* The model's last words. An empty response leaves no row in the transcript.
RepliesText ==
  /\ pc = "model"
  /\ mem' = Append(mem, Say)
  /\ tx' = append(tx, Say) \/ UNCHANGED tx
  /\ invalid' = 0 /\ attempt' = 0
  /\ BreakLoop
  /\ UNCHANGED <<used, steered, aborted, run, turn, faults, chan, pass, late, taint>>

\* The retry budget of structured output.
Exhausted(n) == n > Retries

\* The response does not fit the schema: the transcript keeps it, the model sees a correction.
RepliesMisfit ==
  /\ pc = "model"
  /\ attempt' = attempt + 1
  /\ IF Exhausted(attempt')
     THEN BreakLoop /\ tx' = append(tx, Say) /\ UNCHANGED mem
     ELSE /\ pc' = "top" /\ mem' = Append(mem, User)
          /\ tx' = appendAll(tx, <<Say, User>>)
          /\ UNCHANGED <<then, todo>>
  /\ UNCHANGED <<used, invalid, steered, aborted, run, turn, faults, chan, pass,
                 late, taint>>

RequestFails ==
  /\ pc = "model"
  /\ Throw
  /\ UNCHANGED <<pass, late>>

\* RunawayBreaker.trip: steer once, cancel after that.
tripVerdict == IF steered THEN "cancel" ELSE "steer"

Verdicts(trips) == IF trips THEN {"ok", tripVerdict} ELSE {"ok"}

\* A response with tool calls: its row, then the prose budget, then the batch limit.
RepliesCalls(n) ==
  LET ids == used + 1 .. used + n
      asked == <<Ask(ids)>>
  IN
  /\ pc = "model" /\ used + n <= MaxCalls
  /\ used' = used + n
  /\ \E v \in Verdicts("prose" \in Extras) :
       /\ steered' = (steered \/ v # "ok")
       /\ taint' = IF v = "steer" THEN taint \union {"prose"} ELSE taint
       /\ LET head == IF v = "steer" THEN asked \o <<User>> ELSE asked IN
          CASE v = "cancel" -> Both(asked \o Answers(ids)) /\ BreakLoop
            [] v # "cancel" /\ n > BatchLimit ->
                 Both(head \o Answers(ids)) /\ pc' = "top" /\ UNCHANGED <<then, todo>>
            [] OTHER -> Both(head) /\ pc' = "call" /\ todo' = ids /\ UNCHANGED then
  /\ UNCHANGED <<invalid, attempt, aborted, run, turn, faults, chan, pass, late>>

-----------------------------------------------------------------------------
(* One call of the batch                                                    *)

Current == CHOOSE i \in todo : \A j \in todo : i <= j
Rest == todo \ {Current}

\* The call is settled; the batch goes on with the next one, or is complete.
NextCall == todo' = Rest /\ pc' = IF Rest = {} THEN "break" ELSE "call"

\* A result or an error for a call that resets the count of invalid calls.
Answered ==
  /\ Both(<<Answer(Current)>>)
  /\ invalid' = 0
  /\ NextCall
  /\ UNCHANGED <<then, used, attempt, steered, aborted, run, turn, faults, chan, pass,
                 late, taint>>

Dispatching == pc = "call" /\ assertNotAborted

\* assertNotAborted at the head of processSingleToolCall.
CallAborted ==
  /\ pc = "call" /\ aborted
  /\ Throw
  /\ UNCHANGED <<pass, late>>

\* An invalid name, a call that policy denies, or one that needs a missing review system.
CallRefused == Dispatching /\ Answered

\* Acknowledged to the model only: the transcript keeps the call open.
CallLeaked ==
  /\ Dispatching /\ "leak" \in Extras
  /\ mem' = Append(mem, Answer(Current))
  /\ invalid' = 0
  /\ NextCall
  /\ UNCHANGED <<tx, then, used, attempt, steered, aborted, run, turn, faults, chan,
                 pass, late, taint>>

\* An unknown tool, arguments that do not parse, or that the schema rejects.
CallInvalid ==
  /\ Dispatching
  /\ Both(<<Answer(Current)>>)
  /\ invalid' = invalid + 1
  /\ IF invalid' > InvalidLimit THEN BreakLoop ELSE NextCall /\ UNCHANGED then
  /\ UNCHANGED <<used, attempt, steered, aborted, run, turn, faults, chan, pass, late,
                 taint>>

\* A near miss of the structured-output tool is charged to its retry budget.
CallNearMiss ==
  /\ Dispatching
  /\ Both(<<Answer(Current)>>)
  /\ attempt' = attempt + 1
  /\ IF Exhausted(attempt') THEN BreakLoop ELSE NextCall /\ UNCHANGED then
  /\ UNCHANGED <<used, invalid, steered, aborted, run, turn, faults, chan, pass, late,
                 taint>>

\* Arguments cut off at the output limit: the batch is answered and the turn fails.
CallTruncated ==
  /\ Dispatching
  /\ tx' = appendAll(tx, Answers(todo))
  /\ Leave("failed")
  /\ UNCHANGED <<used, turn, faults, pass, late, taint>>

\* The call is valid and allowed: the system gates are awaited.
CallGoes ==
  /\ Dispatching
  /\ pc' = "pre"
  /\ UNCHANGED <<tx, mem, loop, turn, faults, chan, pass, late, taint>>

PreGated == pc = "pre" /\ Answered

NeedsApproval ==
  /\ pc = "pre"
  /\ pc' = "wait"
  /\ UNCHANGED <<tx, mem, loop, turn, faults, chan, pass, late, taint>>

CallDenied == pc = "wait" /\ Answered

\* The breaker trips on the call: the batch is answered, then the model is steered or
\* the turn is canceled. The hook comes before the last look at the abort signal.
CallPrevented ==
  LET v == tripVerdict IN
  /\ pc \in {"pre", "wait"}
  /\ steered' = TRUE
  /\ IF v = "steer"
     THEN /\ Both(Answers(todo) \o <<User>>)
          /\ pc' = "break" /\ todo' = {} /\ UNCHANGED then
     ELSE Both(Answers(todo)) /\ BreakLoop
  /\ UNCHANGED <<used, invalid, attempt, aborted, run, turn, faults, chan, pass, late,
                 taint>>

\* No approval is needed, or it was granted.
CallStarts ==
  /\ pc \in {"pre", "wait"} /\ assertNotAborted
  /\ pc' = "exec"
  /\ UNCHANGED <<tx, mem, then, todo, used, invalid, attempt, steered, aborted, run, turn,
                 faults, chan, pass, late, taint>>

\* The races with the signal, and assertNotAborted before the execution.
AbortNoticed ==
  /\ pc \in {"pre", "wait", "exec", "model"} /\ aborted
  /\ Throw
  /\ UNCHANGED <<pass, late>>

\* An error or the timeout.
ExecFails == pc = "exec" /\ Answered

ExecDone ==
  /\ pc = "exec"
  /\ pc' = "post"
  /\ UNCHANGED <<tx, mem, loop, turn, faults, chan, pass, late, taint>>

PostDone == pc = "post" /\ Answered

\* Faulty variant: the channel is read and not emptied.
peekSteers == UNCHANGED channel

drainSteers == channel' = {}

\* End of the batch: the steers are injected, then parked compactions run.
Break ==
  LET rows == [k \in 1..Cardinality(channel) |-> User] IN
  /\ pc = "break"
  /\ Both(rows)
  /\ drainSteers
  /\ steer' = [s \in Steers |-> IF s \in channel THEN "injected" ELSE steer[s]]
  /\ pc' = "drain" /\ then' = "top"
  /\ UNCHANGED <<todo, used, invalid, attempt, steered, aborted, run, turn, faults,
                 gate, req, pass, late, taint>>

-----------------------------------------------------------------------------
(* The others                                                               *)

\* requestSessionTurnAbort: without a scope there is nothing to abort.
Abort ==
  /\ EventLoopFree /\ Open /\ ~aborted
  /\ aborted' = TRUE
  /\ UNCHANGED <<tx, mem, pc, then, todo, used, invalid, attempt, steered, run, turn,
                 faults, chan, pass, late, taint>>

\* Faulty variant: a steer goes into the history at once.
pushSteerAtOnce(s) ==
  /\ EventLoopFree /\ steer[s] = "none"
  /\ steer' = [steer EXCEPT ![s] = "fallback"]
  /\ tx' = append(tx, User)
  /\ UNCHANGED <<mem, pc, loop, turn, faults, channel, gate, req, pass, late, taint>>

\* deliverInTurnEvent and session_steer.
pushSteer(s) ==
  /\ EventLoopFree /\ steer[s] = "none"
  /\ IF Open
     THEN channel' = channel \union {s} /\ steer' = [steer EXCEPT ![s] = "queued"]
     ELSE steer' = [steer EXCEPT ![s] = "fallback"] /\ UNCHANGED channel
  /\ UNCHANGED <<tx, mem, pc, loop, turn, faults, gate, req, pass, late, taint>>

\* session_compact.
pushCompactionRequest(r) ==
  /\ EventLoopFree /\ req[r] = "none"
  /\ IF Open THEN gate' = Append(gate, r) /\ SettleRequest(r, "parked")
     ELSE SettleRequest(r, "queued") /\ UNCHANGED gate
  /\ UNCHANGED <<tx, mem, pc, loop, turn, faults, channel, steer, pass, late, taint>>

\* session_context_reset wipes the segment; a turn that runs goes on with it.
ContextReset ==
  /\ EventLoopFree /\ "reset" \in Extras /\ faults < MaxFaults
  /\ faults' = faults + 1
  /\ tx' = <<>>
  /\ taint' = IF pc = "idle" THEN taint ELSE taint \union {"reset"}
  /\ UNCHANGED <<mem, pc, loop, turn, chan, pass, late>>

\* Faulty variant: runs cut off by a crash are not looked at.
markNothing == UNCHANGED run

markAllRunningFailed == run' = IF run = "running" THEN "failed" ELSE run

\* The daemon dies and boots: what is in memory is gone, markAllRunningFailed.
Crash ==
  /\ "crash" \in Extras /\ faults < MaxFaults
  /\ faults' = faults + 1
  /\ pc' = "idle" /\ mem' = <<>> /\ todo' = {} /\ then' = "none" /\ pass' = <<>> /\ late' = {}
  /\ aborted' = FALSE /\ invalid' = 0 /\ attempt' = 0 /\ steered' = FALSE
  /\ markAllRunningFailed
  /\ channel' = {} /\ gate' = <<>>
  /\ steer' = [s \in Steers |-> IF steer[s] = "queued" THEN "lost" ELSE steer[s]]
  /\ req' = [r \in Reqs |-> IF req[r] \in {"parked", "queued", "running"} THEN "lost"
                            ELSE req[r]]
  /\ UNCHANGED <<tx, used, turn, taint>>

Model == RepliesText \/ RepliesMisfit \/ RequestFails \/ \E n \in 1..MaxBatch : RepliesCalls(n)

Dispatch ==
  \/ CallAborted \/ CallRefused \/ CallLeaked \/ CallInvalid \/ CallNearMiss \/ CallTruncated
  \/ CallGoes

Gates == PreGated \/ NeedsApproval \/ CallDenied \/ CallPrevented \/ CallStarts

Compaction == DeferredDone \/ GuardDone \/ GuardTimesOut \/ GuardAborted \/ QueuedDone

Progress ==
  \/ SetupDone \/ SetupFails \/ Top \/ Drain \/ Model \/ Dispatch \/ Gates \/ AbortNoticed
  \/ ExecFails \/ ExecDone \/ PostDone \/ Break \/ Compaction

TurnNext ==
  \/ BeginTurn \/ Progress
  \/ \E r \in Reqs : BeginQueued(r) \/ pushCompactionRequest(r)
  \/ \E p \in late : LateDone(p)
  \/ \E s \in Steers : pushSteer(s)
  \/ Abort \/ ContextReset \/ Crash

TurnSpec == TurnInit /\ [][TurnNext]_turnVars

\* What the loop awaits answers in the end (every wait has a timeout or an abort), the
\* turn queue serves its entries, and an unattended pass ends.
TurnFairSpec ==
  /\ TurnSpec
  /\ WF_turnVars(Progress)
  /\ \A r \in Reqs : WF_turnVars(BeginQueued(r))

-----------------------------------------------------------------------------
(* Properties                                                               *)

Settled == {"done", "failed", "lost"}

\* The types of the variables.
TurnTypeOK ==
  /\ tx \in Seq(RowType(Ids)) /\ mem \in Seq(RowType(Ids)) /\ pass \in Seq(RowType(Ids))
  /\ pc \in {"idle", "setup", "top", "drain", "compact", "guard", "model", "call", "pre", "wait",
             "exec", "post", "break", "queued"}
  /\ then \in {"none", "model", "top", "end"}
  /\ todo \subseteq Ids /\ used \in 0..MaxCalls
  /\ invalid \in 0..InvalidLimit + 1 /\ attempt \in 0..Retries + 1
  /\ steered \in BOOLEAN /\ aborted \in BOOLEAN
  /\ run \in {"none", "running", "completed", "failed"}
  /\ turn \in 0..MaxTurns /\ faults \in 0..MaxFaults
  /\ channel \subseteq Steers
  /\ steer \in [Steers -> {"none", "queued", "injected", "fallback", "lost"}]
  /\ gate \in Seq(Reqs)
  /\ req \in [Reqs -> Settled \union {"none", "parked", "queued", "running", "forgotten"}]
  /\ late \subseteq [snap : Seq(RowType(Ids)), turn : 1..MaxTurns]
  /\ taint \subseteq Rare

\* Whatever was aborted, crashed, denied, steered or compacted before, the messages sent to
\* the provider answer every tool call right behind it and hold no stray result, unless one
\* of the behaviours in taint has come first.
RequestsWellFormed == pc \in {"setup", "model"} /\ taint = {} => WellFormed(mem)

\* No row is written while a compaction that will replace the transcript is awaited, so that
\* nothing is deleted that the summary has not seen.
PassIsCurrent == pc \in {"compact", "guard", "queued"} /\ taint = {} => pass = tx

\* An in-turn event waits in the channel of a running turn; otherwise it was injected, took
\* its fallback, or died with the daemon.
EventAccounted ==
  \A s \in Events : /\ steer[s] = "queued" <=> s \in channel
                    /\ s \in channel => Open
                    /\ steer[s] = "lost" => faults > 0

\* An event is delivered by one path only.
DeliveredOnce ==
  [][\A s \in Events : steer[s] \in {"injected", "fallback"} => steer'[s] = steer[s]]_turnVars

\* No turn leaves its tool run behind as running, not even one that died with the daemon.
RunIsSettled == pc \in {"idle", "queued"} => run # "running"

\* Once the signal is set, no tool of the turn starts.
AbortStopsTools == [][pc # "exec" /\ pc' = "exec" => ~aborted]_turnVars

\* The histories of a session stay usable, whatever is aborted, denied, steered,
\* compacted or crashed in between: requests are well formed, and no compaction
\* replaces rows it has not read.
HistorySound == TurnTypeOK /\ RequestsWellFormed /\ PassIsCurrent

\* A turn leaves nothing behind when it ends, fails, is aborted or dies: no event
\* in a channel nobody drains, no tool run that says it is running.
NothingLeftBehind == EventAccounted /\ RunIsSettled

\* Steps a turn never takes: to deliver an event a second time, by injection and
\* by its fallback, or to start a tool after its abort.
OnceAndNotAborted == DeliveredOnce /\ AbortStopsTools

\* A turn comes to its end, whatever the model answers within its calls.
TurnEnds == pc # "idle" ~> pc = "idle"

\* A compaction request is settled or dropped by the drain: none stays in the gate.
ParkedIsDrained == \A r \in Reqs : req[r] = "parked" ~> req[r] \in Settled \union {"forgotten"}

\* What the comment on drainDeferredCompaction promises: each parked request runs.
NoRequestForgotten == \A r \in Reqs : req[r] # "forgotten"

\* What the comment on the top of the round promises: the calls that the model has seen
\* answered are the calls that the transcript has answered.
HistoriesAgree ==
  pc = "top" /\ taint = {} =>
    {mem[i].id : i \in DOMAIN mem} = {tx[i].id : i \in DOMAIN tx}

\* What the batch-limit comment and docs/shared.md promise, the prose steer included.
AlwaysWellFormed == pc = "model" => WellFormed(mem)

\* A compaction deletes no row that it has not read.
NothingUnreadDropped ==
  [][\A p \in late : p \notin late' /\ tx' # tx =>
       Len(tx) <= Len(p.snap) /\ tx = SubSeq(p.snap, 1, Len(tx))]_turnVars
=============================================================================
