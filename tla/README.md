# Shoggoth: a TLA+ model of the daemon's coordination logic

Shoggoth is a daemon that hosts language-model agents: it queues and runs model
turns for sessions, supervises child processes, fires deferred timers, runs
workflows, asks a human for approval of tool calls, talks to MCP servers and to
Discord, and is steered through a control socket.  It is one Node.js process.
Everything between two `await`s is atomic; what is hard about it is what happens
*at* the awaits: a turn that settles after the operator released it, a child that
dies between two health probes, a daemon that crashes between marking a row and
acting on it.  This project models that part of the code in TLA+, checks it with
TLC and proves the central invariants with TLAPS.

All paths below are relative to `src/packages/` unless they begin with `docs/` or
`plans/`.

## 1. Inventory

| Component | State | Operations | Interacts with | What is hard | What makes it correct |
|---|---|---|---|---|---|
| Session turn queue (`daemon/src/sessions/session-turn-queue.ts`) | per session two FIFO tiers, the running entry, a starvation counter; a set of frozen sessions | enqueue, pump, remove by range or id, clear, force-release, freeze and thaw | called by every inbound message and by the control plane; the tool loop freezes it while it compacts the transcript; turn ends flush timers and notifications | a released turn goes on in the background and settles late; freezes are keyed by session, not by owner | one owner of the slot, no turn lost, FIFO within a tier, bounded starvation, a freeze is kept and always lifted |
| Managed process (`procman/src/managed-process.ts`) | state, child handle, timers, stop promise, restart budget | start, stop, kill, restart, exit, health probes, restart timer | process manager, service lifecycle, control plane | events of a dead child, probes, timers and overlapping calls arrive in any order | a live child is never lost, a stopped process stays stopped, calls return |
| Process manager (`procman/src/process-manager.ts`) | map of processes | start, stop, stopAll in dependency order, stopByOwner | service lifecycle, shutdown | processes started while stopAll awaits | nothing alive is deregistered |
| Timer scheduler (`daemon/src/timers/`) | `timers` table, pending buffer, heap, one `setTimeout` | schedule, flush, cancel, tick, restore, shutdown | timer tool, turn queue (flush at turn end), session kill (anchored timers) | deliveries are whole model turns, awaited inside loops; crash and restart | at most once, never forgotten, a cancelled timer is silent |
| Timer heap (`daemon/src/timers/timer-heap.ts`) | array and index map | insert, extractMin, removeById, peek | timer scheduler | index upkeep when swapping and removing | behaves as a set with a minimum |
| Shutdown coordinator (`daemon/src/shutdown.ts`) | registry of drains, phase, deadline | registerDrain, unregister, requestShutdown | every component registers a drain | parallel drains that hang, a common deadline | groups in turn, nothing skipped in time, always ends |
| Workflow orchestrator (`workflow/src/`, `daemon/src/workflow-adapters.ts`) | task graph and task states, JSON file per workflow, polling timer, task sessions | start, tick (poll, fail, spawn, save), pause, resume, abort, retry, edit, retention, stop, resume after restart | subagent sessions, message tools, control plane | every tick awaits spawns, calls and writes while operators act, and a second loop may start | a settled task stays settled, no session without its task, the cap holds, a restart resumes what was saved |
| Human-in-the-loop approvals (`daemon/src/hitl/`, the gate in `sessions/tool-loop.ts`, `platform-discord` reactions) | `hitl_pending_actions` rows, in-memory waiters, grants per session and per agent | gate, judge, approve, deny, expire, clear, yolo and cruise mode, reactions | tool loop, Discord, control plane, layered configuration | the row and the waiter are settled by different parties; the grants file is rewritten by overlapping reads and writes | every waiter is told what the row says, no decision is overturned, a grant covers what it promises |
| Event queue, heartbeat and cron (`daemon/src/events/`) | `events` rows with claims and attempts, `event_processing_done`, cron rows | emit, claim, handle, complete, fail, dead-letter, cron tick, reconcile at boot | cron, heartbeat | a crash between any two statements, overlapping batches | no event is completed unhandled, handled twice without a crash, or lost |
| Completion notifications (`daemon/src/exec/`, `session-send-notify-scheduler.ts`) | rows and in-memory handles | register, complete, deliver, restore | turn queue | as for timers | at most once, none forgotten |
| Service lifecycle and approvals (`daemon/src/service-lifecycle.ts` and neighbours) | registry, approval rows, keys, health pollers, tool registry | start, stop, fetch manifest, approve, rotate key, revoke, health checks | process manager, tool registry, operator | late manifest answers, requests that overlap, deliveries that fail | tools only of approved manifests, both sides hold the same key |
| Model resilience and failover (`models/src/resilience/`, `models/src/failover.ts`, `tool-failover.ts`) | per provider slots, waiters, back-off and cool-down | acquire, release, cool down, retry, retry of empty answers, fail over, abort | session turns | slots handed on while a cool-down begins, nested retries, aborts at every await | no slot lost or held twice, no waiter forgotten, an aborted call stops |
| MCP server pool (`daemon/src/mcp/`, `session-mcp-runtime.ts`) | connections by scope, cached contexts, catalogs, idle timers, breakers | resolve, connect, refresh, call, evict, shut down | tool loop, sessions | notifications during a connect, eviction during a resolution | every pool has an owner that closes it, no closed pool is served, the catalog is the server's |
| Subagents (`daemon/src/subagent/`) | session rows, inactivity timers, claims | spawn, touch, kill, reconcile at boot | sessions, timers, workflows | kill racing expiry, restart | a killed subagent stays dead |
| Tool loop, session turns and their side channels (`daemon/src/sessions/tool-loop.ts`, `session-agent-turn.ts`, `session-tool-loop-model-client.ts`, `steer-channel.ts`, `compaction-gate.ts`, `session-turn-abort.ts`) | transcript rows, the model client's messages, steer channel, compaction gate, abort scope, tool runs | begin, model call, dispatch of a batch, gates, execute, steer, compact, abort, end | turn queue, approvals, MCP pools, model calls | two copies of the history, compactions that outlive their wait, aborts at every await, crash | requests stay well-formed, a compaction reads what it replaces, events are delivered once, nothing is left behind |
| MCP/ACP transports, Discord, presentation and messaging, session store, control plane, authentication and policy, acpx supervisor, configuration, plugins and skills, memory, media, retention, database, command line, canvas and demo services | rows, files, connections | | | mostly sequential or pure input/output | see section 7 |

`PROJECT.json` lists the same components with their files and status, and under
`hazards` the lines at which each of the hard behaviours bites.

## 2. Modules

| Module | Models | State and actions |
|---|---|---|
| `TurnQueue` | `session-turn-queue.ts`; `session_queue_manage` and `session_kill` in `control/integration-ops.ts`; `drainDeferredCompaction` in `sessions/tool-loop.ts` | `sq` is the `SessionQueue` record, `blocked` the freeze, `exec` each turn's `execute()`, `promise` what its caller was told. `Enqueue`, `EnqueueRefused`, `ExecSettles`, `TurnEnd` (the finally handler of the slot's owner), `TurnEndStale` (of anybody else), `BeginCompaction`, `EndCompaction`, `RemoveByRange`, `RemoveByRangeAll`, `RemoveById`, `Clear`, `ForceReleaseRunning`, `SessionKill`. `Pump`, `PickNext` and `Cleanup` are operators on the record, applied inside the action whose handler calls them |
| `ManagedProcess` | `managed-process.ts`, `types.ts`, start and stop of `process-manager.ts`, `procman_stop`/`procman_restart` | `mp` is the object (with its `spec`, chosen in `Init`), `proc` the children as the operating system sees them, `call` each stop or restart call by the await it stands at. One action per event handler, timer and await: `Spawned`, `SpawnError`, `Close`, `Attempt`, `ProbeSucceeds`, `ProbeFails`, `RestartFires`, `CallStop`, `PreStopEnds`, `GraceExpires`, `SafetyExpires`, `StopReturns`, ... `Quiet` keeps timers, requests and child events from interleaving with microtasks |
| `TimerScheduler` | `timer-scheduler.ts`, `timer-delivery.ts`, `builtin-handlers/timer-handler.ts`, the boot and shutdown order of `index.ts`, `SessionManager.kill` | `row`/`fireAt` are the table, `pending`, `heap`, `timeout`, `rows` and `flight` the memory that a crash loses. `Schedule`, `Cancel`, `Kill`, `TurnBegins`, `TurnEnds` (with the flush), `Release`, `Tick`, `DeliveryEnds` (which resumes the loop that awaited the delivery), `Boot`, `Install` (with `restore()`), `Shutdown`, `Withdraw`, `Exit` (a crash or the end of a shutdown), `Advance` |
| `TimerSet` | what `TimerScheduler` relies on: a set of timers from which one of the earliest can be taken | abstract specification |
| `TimerHeap` | `timer-heap.ts`, array slot by array slot (`BubbleUp` and `SinkDown` recurse) | refines `TimerSet` |
| `ShutdownCoordinator` | `shutdown.ts` | `RegisterDrain`, `Unregister`, `RequestShutdown`, `BeginDraining`, `StartGroup`, `DrainEnds`, `DrainExpires`, `DeadlinePasses`, `TimerFires`, `EndDraining`, `FinishShutdown` |
| `Workflow` | `workflow/src/` (`orchestrator.ts`, `control.ts`, `state.ts`, `server.ts`, `graph.ts`, `retention.ts`) and `workflow-adapters.ts` | `task` is the task list, `proc` the passes over it that may be in progress (server start, the ticks of two polling loops, one control operation) by the await they stand at, `handle` and `stray` the polling timers, `sess` the task sessions, `disk` the state file with what a torn or overlapping write leaves, `overtaken` a history (section 2, below). `TickFires`, `Dispatch` and what follows each await (`CallReturns`, `SpawnReturns`, `NotifyReturns`, `SaveBegins`, `SaveEnds`, `PostReturns`), `Abort`, `SetPaused`, `Retry`, `Edit`, `Retention`, `StopAll`, `Exit`, `WorkflowCrash`, `Resume` |
| `Transcript` | the two representations of a conversation: `transcript-store.ts`, `transcript-to-chat.ts`, `transcript-compact.ts`, `models/src/compaction.ts` | operators on sequences of rows: `append` with its repair of unanswered calls, `Compacted`, `trimOrphanedToolResults`, and `WellFormed`, what a provider demands of a history |
| `AgentTurn` | `executeSessionAgentTurn`, `runToolLoop`, `processSingleToolCall`, the model client's compaction, the steer channel, the compaction gate, the abort scope, the tool-run rows | `tx` is the transcript table, `mem` the model client's messages, `pc` the await at which the turn stands. One action per outcome of an await: model answers (text, calls, misfit, failure), every verdict on a call (refused, leaked, invalid, near miss, truncated, gated, denied, prevented, executed), aborts, the three ways a compaction ends, `pushSteer`, `pushCompactionRequest`, `ContextReset`, `Crash` |
| `Approvals` | `hitlApprovalGate`, `hitl-resolution-hub.ts`, `hitl-pending-stack.ts`, `pending-actions-store.ts`, `approval-gate.ts`, `cruise-control.ts`, `reaction-handler.ts`, the hitl operations of the control plane | `rows`, `phase` and `path` per call, `notices`, the grants in effect. `Gate`, `Judge`, `Expire`, `Command`, `React`, `Abort`, `ContextSegment`, `ClearRows`/`ClearAll`/`ClearEnds` (an operation with awaits), `SetYolo`, `SetCruise`, `Restart` |
| `AgentGrants` | `hitl-auto-approve-persisting.ts`, `hitl-agent-tool-auto-persist.ts` | the grants of an agent in memory, on disk and in the configuration in use; a rewrite is three steps, and nothing serialises two of them |
| `ServiceLifecycle` | `service-lifecycle.ts`, `service-registry.ts`, `manifest-fetcher.ts`, `service-ops.ts`, `service-key-store.ts`, `service-approval-store.ts`, `external-service-health-poller.ts` | one service of either tier: `entry`, `fetch` (the manifest fetches in flight), `poll`, `approval`, `tools`, `op` (the operator's requests by their await), the key on both sides |
| `McpRuntime` | `session-mcp-runtime.ts`, `mcp-server-pool.ts`, `session-mcp-tool-context.ts`, the retry in `tool-loop-mcp.ts` | `pool` by key and generation, `glob`, `agent`, `entry` (what the runtime refers to and caches), `conn` (connects under way), `armed` (idle timers), `call` (resolutions by their await), `down` (shutdown) |
| `ModelCalls` | `resilience/gate.ts`, `provider-manager.ts`, `backoff.ts`, `resilient-fetch.ts`, `failover.ts`, `tool-failover.ts`, the empty-answer retry of `openai-compatible.ts` and the forced request of `structured-output-follow-up.ts` | `call` by its await, `mgr` per provider (slots, waiters, back-off, cool-down). `ReadText` is a text where structured output was asked for: the same hop goes through the gate once more. Time is relative |
| `EventQueue` | `events-queue.ts`, `heartbeat-consumer.ts`, `cron-scheduler.ts`, `boot-reconciliation.ts`, the intervals of `index.ts` | `row` and `done` are the tables, `work` what the running daemon does with a row. Every SQL statement is an action, only the claim of a batch is a transaction |
| `SessionProofs`, `TimerProofs`, `DaemonProofs`, `HitlProofs`, `ServiceProofs`, `ModelCallsProofs`, `ProcessProofs`, `McpProofs` | the theorems of section 5 | each extends the module it is about (`HitlProofs` the composition `MCHitl`, `SessionProofs` two: `TurnQueue` and `AgentTurn`, `DaemonProofs` three: `EventQueue`, `ShutdownCoordinator` and `Workflow`) and states its inductive invariant before the proofs |
| `MC*` | instances for TLC. `MCTimers` and `MCHitl` hold two specifications without a common variable (`TimerScheduler` and `TimerHeap`; `Approvals` and `AgentGrants`), and `part` picks the one that runs in a behaviour | |

Definitions commented "Faulty variant" are never used by a specification.  Each is a
plausible mistake in the code; putting it in the place of the definition below it
makes the property named in `PROJECT.json` under `mutants` fail, which shows that the
property depends on the code.  A property that is a conjunction has one for each part
that could fail on its own.

Abstractions common to all modules: Node's event loop makes the code between two
awaits one action; messages, labels, output and log lines are left out; SQLite
statements are synchronous and so part of their action (`EventQueue`, which asks what a
crash between two statements leaves, is the exception).

* `TurnQueue` has one session: no operation reads two entries of the map.  `Grain`
  is the denominator of the indexes that arrive over the control socket, which the
  code checks to be finite and at least 1 but not to be whole.
* `ManagedProcess` counts every `start()` and its child with one number.  A child
  may exit with code 0, exit with another code, or be killed by a signal, in which
  case `exitCode` stays `null`.  The three polling health checks are one.
* `TimerScheduler` keeps one `now` per loop, as the code does, and lets entries due
  at the same instant leave the heap in either order; `TimerHeap` shows the heap does
  no more than that.
* `Workflow`: polls and kills have synchronous bodies, so a tick pauses only at spawns,
  tool and message calls, notifications, writes and posts.  `Abort` and `Retry` may come at
  any moment, as in the code (`control.ts:99`, `:287`): while a tick awaits a spawn or a call,
  and while the last tick of a stopped loop is still in flight, which gives the workflow a
  second loop.  What the tick finds when the await is over it writes over the task
  (`orchestrator.ts:979-993`) without looking at it again.  The history variable `overtaken`
  collects the tasks to which that may have happened: those whose own spawn or call was awaited
  in a step that changed what had been checked for it, its status, a dependency's, or the room
  under the limit.  It restricts no action and is never reset.  The properties say that the
  harm stays with these tasks (section 6 has what befalls them), and `OvertakenByOperator`
  that there are none before the first control operation.  `Spread`
  is the least closed set of dependents, which is what the code's work list arrives at.
  A kill that throws is no case of its own: the adapter aborts the turn before it kills the
  row, and the end of the turn kills the row again (`workflow-adapters.ts:437`, `:344`).
* `AgentTurn`: a row is its role, its id and the calls it makes.  `Extras` names the rarer
  behaviours an instance includes, and `taint` records that one of those which section 6
  describes has happened: the properties are claimed up to that point.
* `Approvals` has one agent and its sessions; risk tiers are chosen per tool.
* `ServiceLifecycle`: a manifest stands for its fingerprint.  `raced`, `late`, `told`
  and `crossed` record that an approval was overtaken, that a fetch returned to a later entry,
  that the operator was handed a key to deliver by hand, and that an approval generated a key
  under a rotation.
* `McpRuntime`: the tool catalog of a server is a version number.  `doubled` and `raced`
  record the two overlaps of section 6.
* `EventQueue`: `orphans` are the rows whose claim a crash cut off.

## 3. Runs

State counts are distinct states.

| Run | Instance | Shows |
|---|---|---|
| `turn_queue` | two system and two user turns, depth 2, threshold 1, symmetry; 223,262 | `TurnsAccounted`, `IdleMeansForgotten`, `FreezeOwned`, `FreezeHolds`, `StarvationBound`, `FifoWithinTier` under every interleaving of arrivals, turn ends, freezes and operator requests |
| `turn_queue_live` | three turns, depth 1, fairness; 23,754 | `TypeOK` at the depth limit; every promise of `enqueue()` settles |
| `managed_process` | six process specifications, two spawns, a stop and a restart call, signals that may be refused, fairness; 88,814 | `ChildTracked`, `StopHolds`, `CallsSettle`. Section 6 says what the exceptions in the three are about |
| `timers` | two timers of a session, one anchored to another session, two starts, fairness; beside it seven heap entries, two due together; 266,297 | `AtMostOnce`, `NoneForgotten`, `HeadsFound`, `CancelHolds`, `ScheduledFires`, `ImplementsTimerSet` |
| `shutdown` | three drains, groups 0 and 2 or none, fairness; 98,987 | `GroupsInTurn`, `NoneSkipped`, `NoLateStart`, `ShutdownEnds` |
| `workflow` | two definitions of three tasks, two sessions, the ticks of two polling loops, two control operations or one and a crash, stop or failed write, at any moment; 1,855,663 | `SessionsOwned`, `CompletionSound`, `TaskLife` |
| `agent_turn` | two turns, three calls in batches of up to three (limit two), an in-turn event, a compaction request, one fault; 2,096,681 | `HistorySound`, `NothingLeftBehind`, `OnceAndNotAborted` |
| `approvals` | two calls of a subagent's session, every reaction and command, two risk tiers above the bypass, one restart, symmetry; beside it three rewrites of the grants file; 1,044,576 | `WaitersFollowRows`, `GrantsHold`, `ResolvedIsFinal` |
| `service_lifecycle` | one service of either tier, two manifests, three fetches, two requests, symmetry; 1,121,802 | `ToolsSound`, `ViewsAgree` |
| `mcp_runtime` | five configurations of scopes, a user and a system turn, two pools per key, cache of one; 1,348,215 | `PoolsOwned`, `CatalogsCurrent` |
| `model_calls` | two calls, two providers with one slot, one retry each way, a forced request after any text, fairness; 660,369 | `SlotsConserved`, `AbortStops`, `EveryCallSettles` |
| `event_queue` | two rows, two overlapping batches, two crashes, a cron job, fairness; 349,811 | `EventsAccounted`, `DoneIsFinal`, `EventSettles` |

Properties that are conjunctions, with what each part says:

| Property | Parts |
|---|---|
| `TurnsAccounted` | `SlotExclusive` (a turn in the slot is executing, and no other holds it), `NoTurnLost` (a waiting turn is in a tier and its promise is open), `QueuedIsPending` (no settled promise is still queued) |
| `ChildTracked` | `TracksLiveChild` (the object's handle is the live child, while it is `Undisturbed`), `RunningHasChild` |
| `StopHolds` | `StoppedForGood` (a process stopped with success is not alive; undisturbed, and unless a stop reported a failed kill before), `RestartPending` (a restart timer never survives a stop) |
| `CallsSettle` | `CallsReturn` (stop and restart return), `StartSettles` (so does `start()`) |
| `HeadsFound` | `HeadIsArmed`, `IndexIsExact`, `HeapOrder` |
| `SessionsOwned` | `NoOrphanSession`, `ConcurrencyCapHolds` (both for the tasks not overtaken), `OvertakenByOperator` (without a control operation that is all of them) |
| `CompletionSound` | `CompletedIsSettled`, `BlockedHasCause`, `CompletedIsNotResumed` (for the tasks not overtaken), `TemplateAppliedOnce` (for all) |
| `TaskLife` | `TerminalIsFinal` ("forward-only", `docs/workflow.md:34`), `StartsAfterItsDependencies`, both for the tasks not overtaken |
| `HistorySound` | `RequestsWellFormed` (every call answered right behind it, no stray result), `PassIsCurrent` (a compaction replaces only what it read) |
| `NothingLeftBehind` | `EventAccounted`, `RunIsSettled` |
| `OnceAndNotAborted` | `DeliveredOnce`, `AbortStopsTools` |
| `WaitersFollowRows` | `RowDecides`, `SettledResumes` |
| `GrantsHold` | `GrantCoversPending`, `DiskMatchesGrants`, `GrantInEffect` |
| `ToolsSound` | `ToolsAreBacked`, `ToolsWereApproved`, `ReapprovalSuspends` |
| `ViewsAgree` | `KeysAgree`, `HealthIsPolled` |
| `PoolsOwned` | `NoPoolLeaks`, `NoClosedPoolServed`, `RearmedReconnect` |
| `CatalogsCurrent` | `CacheCurrent`, `ChangesSeen` |
| `SlotsConserved` | `SlotsExact`, `NoLostWakeup`, `SendBudget` (a hop makes at most `maxRetries + 1` requests for each answer it may ask for: the first, one for each empty answer, one forced after a text) |
| `EventsAccounted` | `CompletedWasHandled`, `RepeatsNeedCrash`, `ClaimsHeld`, `DeadAfterMax`, `CronFires` |

Four more configurations check liveness on smaller instances and hold:
`MCWorkflowLive` (`WorkflowSettles`), `MCAgentTurnLive` (`TurnEnds`, `ParkedIsDrained`),
`MCApprovalsLive` (`WaitEnds`) and `MCServiceLifecycleLive` (`RecoveryNoticed`,
`RequestsEnd`); run them with `tlc -config <cfg> <module>`.

Bounds, and why they are enough for the question (section 5 has the properties that are
proved as well, for which the instance only matters to find a mistake early):

* Turn queue: a stale turn, a slot owner and a waiter in each tier need four turns;
  with threshold 1 the counter is at, below and above its limit.
* Managed process: two spawns are a start and a restart, so a child and the timer or
  the probes of its predecessor coexist.  `maxRetries` 1 and 2 and `retries` 1 and 2 put
  both counters at and below their limit.
* Timers: two timers give an earlier and a later head, a tie, and two overlapping
  ticks; two starts give one restore with rows to find.  The bound on the clock only
  stops time.  Seven heap entries fill three levels, the least in which the entry that
  fills a gap may have to rise.  The `result` variable records what each call returned.
* Shutdown: with three drains two share a group while the third is in another, or
  an implicit group collides with an explicit one.
* Workflow: each of the two definitions mixes kinds of tasks and failure behaviours;
  two sessions let a task be retried while its first session still ends; two ticks are
  the last one of a stopped loop and the first one of the loop a retry has started.
  `MaxOps` = 2 is an abort and the retry after it; `MaxInterventions` bounds operations and
  faults together.  The properties without the exception for `overtaken` need fewer or the
  same: all of them fail within two operations and three sessions (section 6), so the
  bounds do reach the overlaps the exception is about.
* Agent turn: three calls in batches of three exceed the batch limit of two and leave a
  second turn to read what the first one left; a compaction that preserves two rows cuts
  a batch in the middle.  States in which `taint` is set are checked, but not continued from.
* Approvals: two calls of one tool are the least that a session's grant may cover; the
  session is a subagent's, so its notices go to the session above.
* Services: three fetches are two of one run of the process and one of the next; two
  requests overlap in every pair of kinds.
* MCP: two pools of a key are the old one and its successor; two callers join, race or
  follow each other's connects; a cache of one entry evicts.
* Model calls: two calls compete for one slot of each of two providers.  `BaseDelay`,
  `MaxDelay` and `MaxBackoff` make the delay reach its cap.  One retry of each kind gives a hop
  up to six requests, two for each of an empty, a text and a forced answer.  Three calls were checked once
  without the liveness properties.
* Events: two rows and two attempts give retries behind a dead letter; two crashes allow
  a crash in the repair of a crash.  Three rows were checked once without liveness.

Deadlock is not checked where the model may end: all turns done, all spawns, fetches or
requests used, the daemon down for the last time or shut down.  The heap never ends.

## 4. Fairness

* Turn queue: weak fairness of each turn's own steps.  The code awaits `execute()` and
  the compaction with no timeout, so "turns and rewrites end" is an assumption about the
  model provider, and the only one; nothing is assumed of arrivals or the operator.
* Managed process: weak fairness of timers, of the end of probes and pre-stop
  commands (both have timeouts) and of the resumption of awaiting calls.  Children may
  ignore every signal and never exit.
* Timers: timeouts expire, turns and deliveries end (they are turns of the turn queue),
  time passes, a shutdown in progress exits (it has a deadline) and a daemon that is down
  is started again by its supervisor while `MaxStarts` allows.
* Shutdown: the coordinator's steps and the deadline timer; nothing of the drains.
* Workflow: awaited calls and writes return, polling timers fire, the runtime limit of a
  task passes, a daemon that is down comes back.  Nothing makes a task's turn end: the
  limit does.
* Agent turn: what the turn awaits answers, because every await is bounded by a timeout or
  a provider's, and the turn queue serves a queued compaction.
* Approvals: the judge answers (it has a timeout), time passes, and the expiry interval
  fires.  Nothing is assumed of the operator.
* Services: fetches and deliveries end (both have timeouts), requests go on, a service
  that is up answers a health check in the end.
* Model calls: time passes and each call takes its next step: `fetch` settles every
  request and body, at the latest through the timeouts of the HTTP client.
* Events: time passes, the heartbeat fires, workers go on, handlers settle, and a daemon
  that died is started again.

## 5. Theorems

All are proved for every value of the constants: any number of turns, timers, drains, rows,
calls, sessions, requests, pools, tasks, crashes and restarts; where a theorem needs a
constant to have a value (`Grain = 1`) it says so.  The assumptions are
the ones the modules name, and TLC evaluates them on every run: limits are natural numbers
and a concurrency or a threshold is not 0 (`TurnsAssumption`, `BoundsAssumption`, `AgentTurnAssumption`,
`GroupsAssumption`, `EventQueueAssumption`, `ModelCallsAssumption`, `ServiceAssumption`,
`McpAssumption`, `WorkflowAssumption`), the graph of a definition has no cycle, the two kinds
of turns differ, the requests to a service are finitely many, a call has a session and a tool
(`ApprovalAssumption`), stop and restart calls are different calls and a watched output is
captured (`SpecAssumption`).  `PowersAssumption` and the last line of `ModelCallsAssumption`
say that powers of two are natural numbers, which is arithmetic that the provers cannot derive
without induction; nothing about the code depends on them.

**`SessionProofs`**, the turn queue: `TypeCorrect`, `NoStarvation`, `NoLostWakeup`, `NoOrphanFreeze`,
`FreezeIsKept`.  The inductive invariant has three parts.
`SlotInv`: the record is well formed, the tiers are within `MaxDepth`, an idle unfrozen
session has no record, and, because the bound on overtaking is not inductive by itself,
`Bounded` ties it to the code's own counter: while a user turn waits, the turns that
passed it are no more than `consecutiveHighTurns`, and `pickNext` compares exactly that
with the threshold.  `TurnInv`: types.  `FreezeInv`: only executing turns rewrite, a frozen session has such
a turn, a block taken by a turn without the slot sets `strayed`, and until then the
freeze belongs to one rewrite whose turn is in the slot or was released from it.
`PumpStep` and `FreezeStep` carry the argument for all actions; each action has its lemma.

`TurnsAreAccounted` (`TurnsAccounted`), `NoTurnIsLost` (its first two parts) and `FifoHolds`
(`FifoWithinTier`) rest on a second invariant, `AInv`.  It says of every turn where it may be
when its execute(), its promise and its hook are at given points (`TurnOK`), and that no
tier repeats a turn: without that, removing a turn or serving the head would leave a second
copy behind.  Every operation on a tier is reduced to three facts about sequences:
`TailThins` (the head goes, and it stood ahead of all others), `AppendOrder` (a push is
behind all others) and `SpliceCuts` (gluing around a gap drops exactly the gap); from the
last follow the cuts of the operator's removals, the listing of both tiers included
(`ListingSlice`).  `PumpServes` says what a pump does, `PumpAccounts` and `DropAccounts` that
the two kinds of step keep the accounts, `PumpFifo` and `ThinFifo` that they overtake nobody.
`TurnsAreAccounted` is stated for `Grain = 1`; with fractional places `QueuedIsPending` is false
(section 6), and the other two theorems hold for every `Grain`.

**`SessionProofs`**, the turns: `TurnHistorySound` (`HistorySound`), `TurnLeavesNothingBehind`
(`NothingLeftBehind`) and `TurnOnceAndNotAborted` (`OnceAndNotAborted`), for any number of
turns, calls, batch sizes, retries, steers, requests, faults and preserved rows.  The last two
follow from `LoopInv`: the types, where the loop stands and what it holds there (`ControlInv`),
and what became of each event.  `LoopStep`, `SidesStep` and `RowsStep` carry it step by step;
`SideSteps` sorts the steps into those that leave the channels alone, those that unregister
them and the few that handle an entry.
`HistorySound` adds `HistoryInv`, which holds until one of the behaviours in `taint` comes
first.  `WellFormed` is not inductive: in the middle of a batch no history is.  `Neat` is what
every history keeps: no call is asked for or answered twice (`AskedOnce`, `AnsweredOnce`), a
result belongs to the batch right in front of it (`Owned`), and a batch is answered in full
before anything else follows (`ClosedBefore`).  Its only open calls are then the ones
`repairOrphaned` finds, and without them it is well formed (`NeatIsWellFormed`).  `Linked` ties
the two histories: the calls the model's messages leave open are those of the batch not yet
dispatched, and the transcript keeps these open too, perhaps others as well, since a leaked
call is answered in memory only.  `AddResults`, `AddRow` and `CompactedFacts` say what may be
written behind a neat history and that a summary with a trimmed tail is one; `BothAnswers`,
`BothAskAnswers`, `BothUsers` and their like do so for rows that go to both.
`TurnHistorySound` has a hypothesis, `[](Len(tx) <= Cap)`: the transcript never outgrows one
load of it, 2,000 rows in the code.  Beyond that a load returns the oldest rows only, whose last
batch may be cut off in the middle (section 6); the runs stay below the bound as well.

**`TimerProofs`**: `DeliveredAtMostOnce`, `NeverForgotten`, `CancellationHolds`, from
`TimerInvariance`.  The invariant says that the pending buffer, the heap and the rows
restore() still holds are disjoint (`Apart`), that nothing in them has been delivered
(`Unspent`: `fireTimer` marks the row before it delivers, and only unmarked rows are
read by the next restore), and that a timer cancelled for good is in none of them
(`Silenced`).  At-most-once is not inductive without `Apart`: a timer in two structures
would be delivered from both.  `HeadIsWatched` (`TypeOK` and `HeadIsArmed`, the scheduler's
part of `HeadsFound`) adds `HInv`: what is in flight has been counted (`FlightSpent`), so that
restore() cannot take over the delivery of a tick and leave the heap with neither a tick nor a
timeout.  `HeadsExist` gives a set of entries its head, from the well-foundedness of the
natural numbers; `RescheduleArms` says what reschedule() arms, also when the delay is too long
for `setTimeout`.

**`DaemonProofs`**, the shutdown: `GroupsNeverOverlap`, `NothingSkipped`, `NothingLate`, from
`ShutdownInvariance`: what runs belongs to the current group (`CurrentOK`), every planned
drain outside the waiting groups has been started (`PlanOK`), a drain is given up only
when `timedOut` is set (`DeadlineOK`), and the end is reached only with nothing under way
(`PhaseOK`).

**`DaemonProofs`**, the event queue: `AccountsHold` (`EventsAccounted`), `RecordedForGood`
(`DoneIsFinal`), from `EventInvariance`.  For each row `HeldBy` says who is responsible for
it: a row is in processing exactly while a worker or a crash holds it, never both.
`HandledOK` bounds the ends of its handler: an end that is not recorded yet is the one the
worker has just seen, or owed to a crash, and a worker past the look-up of
`event_processing_done` has found nothing there.  That an event is handled twice only after a
crash is not inductive without it, since the count alone does not say that nobody else is
handling the row.  `AttemptsOK` ties the column to the failures seen, `CronOK` a due job to
its firings, and `PoolOK` bounds the workers of a batch.

**`DaemonProofs`**, the workflows: `WorkflowSessionsOwned` (`SessionsOwned`),
`WorkflowCompletionSound` (`CompletionSound`) and `WorkflowTaskLife` (`TaskLife`), from
`WorkflowInvariance`, for any number of tasks and any definitions, sessions, polling loops,
control operations, stops, crashes and failed writes, where the run has two definitions of
three tasks.  They have no hypothesis but the specification: operations come at any moment.
The invariant has six parts besides the types.  `ListsOK` says the same of every list of tasks:
the one in memory, the snapshots being written and the one in the file.  The last is needed
because a resume takes the file for the truth, so the cap, the causes of blocked tasks and the
count of template applications must hold of it at any time; each is said up to the tasks
overtaken.  `LoopOK` says that before the first control operation an armed timer and a pass
over the tasks exclude each other and that one pass runs at a time; this is what makes
`OvertakenByOperator` hold, and afterwards nothing of it is left.  `PassesOK` carries
what a pass found before an await to its end: the task still pending, its dependencies done,
the cap not reached, or else the task is in `overtaken` by now.  `OwnedOK` and `SettledOK` are
the properties, the first after retention too.  `FileOK` says that the statuses in the file
are those in memory unless a save is still to come or writes have overlapped; a completing tick
needs that the snapshot just written was settled already.  `OvertakenSound` is where the history
enters: a step either leaves alone what an awaiting pass has found or records its task.  What a
step does to the tasks is mostly `Settles`: tasks settle, none starts, and a task is blocked only
behind a failed one.  It holds of polls, limits, failures, aborts and blocked marks, each proved
once (`TickSettles`) and composed (`SettlesOn`).  `SpreadClosed` and `SpreadCaused` are the two
facts about transitive dependents: with the first a retry leaves no task blocked behind one it
resets, with the second every mark has its cause.

**`HitlProofs`**: `WaitersFollow` (`WaitersFollowRows`), `DecisionsAreFinal`
(`ResolvedIsFinal`) and `GrantsStand` (`GrantsHold`).  `CallOK` says for each phase of a call
what its row may be and what let it run; `Uncovered` that no call waits for its tool's risk
while its session's grant covers the tool.  For the grants file `Steady` describes each
rewrite by its step while none has been disturbed, and `Kept` a granted tool that no rewrite
in progress will drop.  The approvals and the file have no common variable; the theorems are
about the composition that the run checks.

**`ServiceProofs`**: `ToolsAreSound` (`ToolsSound`) and `ViewsDoAgree` (`ViewsAgree`), from
`ServiceInvariance`.  The tools need `FreshEntry` (until the fetch an entry was registered
with has returned, nothing is left of the entry before it) and `ApprovalsCurrent` (an
approval in progress was shown what the entry still says).  The keys need an order:
`KeysNumbered` numbers them as they are generated, `KeyOnItsWay` says that the stored key is
the service's or is being delivered, and `ApprovalFirst` that a service holds an older key
while an approval delivers, so that no rotation minted before can be accepted.  The attempt
to prove `KeysAgree` as it stood failed at `ApprovalFirst`, and TLC found the behaviour with
three requests: section 6, `KeysAgreeAcross`.  The property now names that exception.

**`ModelCallsProofs`**: `SlotsAreConserved` (`SlotsConserved`) and `AbortsHold`
(`AbortStops`), from `CallsInvariance`.  `SlotsOK` equates a provider's counter with the
calls in flight, `QueueOK` its queue with the calls that wait: each once, and only while
every slot is held.  The bound on requests counts `Rounds`, the answers asked for before the
present one: the empty ones, and the text that a forced request follows.  It is not inductive:
`BudgetOK` adds that a call that is still to make a request has one left.  The steps are sorted by what they do to a provider:
`QuietStep` nothing, `TakeStep` a slot is taken, `JoinStep` the queue grows, `ReleaseStep` a
slot is given back or passed to the head of the queue; `DelayBounded` and `BackoffBounded` are
the facts about the back-off.  `AbortsHold` needs the invariant as well: it is the queue that
says the call woken by another's release is one that waits.

**`ProcessProofs`**: `ChildIsTracked` (`ChildTracked`) and `StopsHold` (`StopHolds`), from
`ProcessInvariance`: any set of specifications, any number of stop and restart calls and of
spawns, where the run has one of each call and two spawns.  `Numbered`, `Begun`, `ChildKnown`
and `StopsKnown` hold of every object; `Tracked` and `Held` of one that is undisturbed.
`Tracked` says that only the object's child may be unfinished, and that there is one `stop()`
body at a time, between whose steps no restart timer exists and the child stays the captured
one or none.  That is what the close event needs: either the body waits for this child and
finalizes, or there is none and a restart may be scheduled.  `Held` says that a resolved
promise without a failed kill means the end; for the restart timer it needs the converse too,
that a failed kill is still on its way to some caller (`StopsKnown`).  The steps are sorted
into those of the object alone (`ObjectStep`, `StartStep`), spawns (`SpawnStep`), and the
stop() body going on or ending (`StopGoesOn`, `StopEnds`).  Two attempts failed for a reason.
With a polled process that has a pre-stop command, a probe that fails during the command turns
"stopping" into "failed" and the child's end restarts the process (section 6,
`NeverOrphans`); with two stop calls a refused one makes the second succeed.
`Undisturbed` and `NoneRefused` now name these exceptions.

**`McpProofs`**: `PoolsAreOwned` (`PoolsOwned`) and `CatalogsAreCurrent` (`CatalogsCurrent`),
from `Invariance`, for any number of sessions, agents, callers, pools and cached contexts where
the run has the few of section 4.  `McpAssumption` says that there is a name
for a pool, that the cache holds at least one context, and that the keys of the scopes are
apart, as the code's separate maps are.  `PoolsOwned` is not inductive: a pool and the
variables that name it change at different times.  `Joined` says that the connect the callers
of a key join is the one under way, `Single` that a second connect of the global pool exists
only once the history has recorded that two overlapped, and `UpAndOwned` that the pools which
are up are exactly those the runtime's variables name, the agent pool of a caller at its last
await included.  `DeadAreClosed` says that a pool a caller found dead stays closed: its name
is not given out again while the caller remembers it.
`CatalogsCurrent` adds `Current`: what is cached, or will be when a connect returns, embeds
pools that are up and, while it counts as fresh, the catalogs they have.  The first part ends
with the shutdown, the second also once an agent's pool has gone under a session that had
taken it, as the properties themselves say.  The steps are sorted by what they touch:
`CallStep` a caller alone, `JoinStep` and `StartStep` the connects, `PoolStep` a pool,
`ConnectOver` the return of a connect; the evictions of the global, an agent's and a session's
pool share `EvictStep`.  Making room at the limit needs a fact of its own, that the session
dropped is never the one just cached (`SessionUpDoes`).  The order of the cache is a function
of places for the sake of these proofs: filtering a sequence is a recursive definition, which
the provers do not see through.

Only model-checked: all liveness properties, the recursive heap operations and
the refinement of `TimerSet` (both are outside what the prover handles); the array heap's
half of `HeadsFound`; what befalls overtaken tasks, of which there are
counterexamples only (section 6); the turns of a session whose
transcript is longer than one load of it, which no run reaches either.

## 6. Where the code and its documentation differ

Each of these configurations has one property, taken from a comment or a document, and TLC
finds a counterexample (`tlc -config <cfg> <module>`):

| Configuration | Property | What happens | What is said |
|---|---|---|---|
| `MCManagedProcessHang` | `EveryStartSettles` | `_onExit` clears all timers (`managed-process.ts:437`), the next health attempt among them, so `start()` never settles if the child dies between two probes | `managed-process.ts:599` says the promise fails |
| `MCShutdownCoordinatorOrder` | `AscendingGroups` | groups run in the order of registration (`shutdown.ts:139`) | `shutdown.ts:15`: "ascending numeric order" |
| `MCWorkflowAbort` | `ForwardOnly` | an abort while a tick awaits `spawn()`: the task, failed by then, goes back to in progress (`orchestrator.ts:979`) | `docs/workflow.md:34`: "forward-only" |
| `MCAgentTurnProse` | `AlwaysWellFormed` | the steer of the prose budget is pushed between a response's calls and their results (`tool-loop.ts:1526`) | `tool-loop.ts:1604`, `docs/shared.md:321` |
| `MCAgentTurnDrain` | `NoRequestForgotten` | `drain()` empties the gate and only its first entry is run (`tool-loop.ts:1237`); the promise of a second one never settles | `tool-loop.ts:1228`: "runs each at this logical break" |
| `MCApprovalsClear` | `EveryWaitEnds` | `hitl_clear` deletes the rows that calls wait on and wakes nobody (`integration-ops.ts:1508`) | `hitl-resolution-hub.ts:2`: "so the tool loop can resume" |
| `MCMcpRuntimeLeak` | `EveryPoolOwned` | two resolutions after an eviction each connect the global pool, and the second replaces the first (`session-mcp-runtime.ts:274`) | `docs/mcp-pool-scope.md` |

Further properties that fail, stated in the modules.  The instance is the module's listed
one except where it says otherwise:

| Module, property | What happens | What is said |
|---|---|---|
| `TurnQueue`, `NoStartMidRewrite` | after a force-release the compaction runs without a freeze (`tool-loop.ts:1241`), and a queued turn starts | `tool-loop.ts:1229`: queued turns "can never start against a mid-rewrite transcript" |
| `TurnQueue`, `OwnerKeepsFreeze` (three system turns) | blocks are keyed by session: a released turn's `endTurnQueueBlock` lifts another turn's block (`session-turn-queue.ts:116`) | `:102` "each block is ended exactly once by its owner" |
| `TurnQueue`, `QueuedIsPending` (`Grain = 2`) | for an index such as 1.5 `slice` rejects an entry that `filter` keeps (`session-turn-queue.ts:216`), and the turn runs although its caller was told it was dropped | `:39` `onDequeued` "fires exactly once when the entry leaves the queue" |
| `TurnQueue`, `WaitersAnnounced` | after a release under a freeze an entry waits without `onQueued` (`session-turn-queue.ts:153`) | `:38` "fires when the entry is enqueued while the session is busy" |
| `ManagedProcess`, `StaysStopped` (`Specs <- Captured`) | a stop between exit and close finalizes; the close event then restarts the process (`managed-process.ts:440`) | `:187` "Resolves when dead" |
| `ManagedProcess`, `StaysStopped` (two stop calls) | after a failed stop every later `stop()` returns the old promise (`managed-process.ts:190`) and the running process is deregistered | `:316`, and `process-manager.ts:53` "remains registered" |
| `ManagedProcess`, `NeverOrphans` (`Specs <- PolledPreStop`) | the last probe fails during the pre-stop command and overwrites "stopping" (`managed-process.ts:628`); the child's exit restarts the process, and the stop then finalizes and forgets the new child | `:187` "Resolves when dead" |
| `ManagedProcess`, `CleanExitStays` (`Specs <- Unexpected`) | `on-unexpected-exit` restarts after code 0 too (`managed-process.ts:468`) | `:461` "any exit that is not a clean exit (code 0)" |
| `ManagedProcess`, `KillFailsOnlyAlive` | a child killed by a signal has no exit code, so stop() waits for it again and reports a failed kill (`managed-process.ts:199`) | `:126` |
| `ManagedProcess`, `FailsFromStarting` | the restart timer's catch sets `failed` over `dead` or `exited` (`managed-process.ts:529`) | `:167` "only touch the state if 'close' has not already advanced the state machine" |
| `ManagedProcess`, `SpawnsAfterExit` (two restart calls) | both calls spawn and the first child is left unmanaged (`managed-process.ts:321`) | `:326` "only called after the old child has exited" |
| `ManagedProcess`, `ResolvesForLiving` | a probe answered after the child's death resolves `start()` (`managed-process.ts:610`) | `:600` "callers are never told a dead process is healthy" |
| `TimerScheduler`, `NoneLost` | rows are marked before the delivery (`timer-scheduler.ts:215`), so a crash loses the timer | `plans/done/2026-04-03_utility-builtins/README.md:268`: "no timers lost" |
| `TimerScheduler`, `ArmedForHead` (`MaxTimeout` below `MaxDuration`) | a delay above 2^31 - 1 ms makes `setTimeout` expire at once, over and over (`timer-scheduler.ts:239`) | the plan's README, line 244: "zero wasted work" |
| `TimerScheduler`, `CancelledIsSilent` | a timer cancelled while `restore()` holds its row is fired all the same (`timer-scheduler.ts:188`) | `docs/daemon.md:389` |
| `TimerScheduler`, `AnchoredIsSilent` | sessions killed at boot before the scheduler exists leave their anchored timers (`session-manager.ts:253`) | `docs/tools/builtin-timer.md:22` |
| `ShutdownCoordinator`, `ImplicitRunsAlone` | implicit numbers collide with explicit groups (`shutdown.ts:72`) | `shutdown.ts:17` "a unique implicit group" |
| `Workflow`, `SettledForAll` (`MCWorkflowAbort`) | the same abort (`control.ts:99`): the spawn it overtook gives the completed workflow a task in progress and a session at work, which no tick polls any more (`orchestrator.ts:979-993`) | `control.ts:96` "Kill all active subagents, mark all non-terminal tasks as failed" |
| `Workflow`, `OwnedByAll` (`MCWorkflowAbort`) | a retry after that abort resets the task and starts a loop (`control.ts:287`), whose spawn for the task and the first loop's both return: one of the two sessions has no task (`orchestrator.ts:979`) | |
| `Workflow`, `CapForAll` (`MCWorkflowAbort`; it takes three sessions) | two polling loops, the old one's last tick still awaiting a spawn (`orchestrator.ts:440`), each count the tasks in progress before their own spawn (`orchestrator.ts:786`) | `orchestrator.ts:784` "Concurrency cap" |
| `Workflow`, `DependenciesFirst` (`MCWorkflowAbort`) | a retry resets a dependency while the spawn or the call of the task behind it is awaited (`control.ts:287`); the task starts or is done with its dependency pending | `orchestrator.ts:792` "All deps must be done" |
| `Workflow`, `BlockedHasCause` and `CompletedIsNotResumed` without `overtaken` (`MCWorkflowAbort`) | the outcome of the overtaken spawn lifts the failure that blocked the tasks behind it; the file saved afterwards has a task in progress, which the next start of the daemon resumes | |
| `Workflow`, `StartReturns` (`MCWorkflowLive`) | a spawn that fails inside `start()` tells the parent session, which waits for its turn, which waits for `start()` (`orchestrator.ts:1013`) | `orchestrator.ts:260` "Returns the workflow ID" |
| `AgentTurn`, `HistoriesAgree` | a leaked thinking block is answered in memory only (`tool-loop.ts:697`) | `tool-loop.ts:1332` "consistent with the DB transcript" |
| `AgentTurn`, `NothingUnreadDropped` | an unattended compaction deletes rows it never read (`session-tool-loop-model-client.ts:267`) | `:250` |
| `AgentGrants`, `ClearIsLasting`, `GrantsReachDisk` | rewrites that overlap undo each other (`hitl-agent-tool-auto-persist.ts:66`) | `hitl-auto-approve.ts:15` |
| `ServiceLifecycle`, `ReapprovalSucceeds` | `generateIdentity` fails on the key of the first approval (`service-key-store.ts:29`), so a changed manifest cannot be approved | `docs/services.md:107` |
| `ServiceLifecycle`, `ManifestFollowsProcess` | after an automatic restart the manifest is not fetched again | `docs/services.md` |
| `ServiceLifecycle`, `OnlyApprovedTools` | a revocation while an approval generates its key is undone by the approval | `docs/services.md` |
| `ServiceLifecycle`, `AlwaysSuspended` | a fetch of an earlier run returns to the entry of the next | `docs/services.md` |
| `ServiceLifecycle`, `KeysAgreeAcross` (three requests, one manifest, one fetch) | a rotation that has its token is overtaken by a revocation and a new approval: the approval stores a key, the rotation replaces it and is accepted, and the approval's delivery then overwrites the service's key (`service-ops.ts:519`) | `docs/services.md:170`; found while proving `KeysAgree`, which two requests cannot break |
| `McpRuntime`, `NeverServesClosed` | an agent's pool is evicted while a session that took it connects | `docs/mcp-pool-scope.md` |
| `McpRuntime`, `CacheComplete` | a reconnect of the global pool does not age contexts cached while it was away | `docs/mcp-pool-scope.md` |
| `McpRuntime`, `LastTurnArms` | a turn's end arms the global timer while another session's turn runs (`session-mcp-runtime.ts:795`) | `docs/mcp-pool-scope.md:138` |
| `McpRuntime`, `NothingLeftUp` | a connect in flight at shutdown installs a pool nobody closes | |
| `ModelCalls`, `SentOutsideCooldown` | a waiter that `release()` resumes sends without looking at the cool-down that began meanwhile (`provider-manager.ts:110`) | `docs/models.md:305`: "wait for cooldown, then acquire a concurrency slot" |
| `ModelCalls`, `RetryAfterHonoured` (`RetryAfters = {4}`) | the header is not in the error the gate reads (`gate.ts:152`) | `docs/models.md:323` |
| `ModelCalls`, `WireBounded` | the slot is released when the headers arrive, before the body is read (`resilient-fetch.ts:65`) | `docs/models.md:329` |
| `ModelCalls`, `AbortEndsSleep` | the signal is not passed to the sleeps of the gate (`gate.ts:82`) | `failover.ts:25` |
| `EventQueue`, `AtLeastOnce` | a claim younger than the limit at boot stays in processing for good (`boot-reconciliation.ts:20`) | `docs/daemon.md:402`: "at-least-once", "restart safety" |
| `EventQueue`, `CronFiresOnce` | a crash between the event and the update of the job fires it twice (`cron-scheduler.ts:116`) | `:67` "Fires due cron jobs once each" |

The workflow rows have one cause: `guardedTransition` and `createTickLock`
(`workflow/src/hardening.ts:34`, `:46`) would refuse the late write and the second tick, but nothing
calls them.  Replace the property in `MCWorkflowAbort.cfg` by the one named to see each.

Some properties make an exception for behaviour in which the code fails, and are silent about
that half of their hazard; the tables above report it, and so do the notes of the hazards in
`PROJECT.json`:

| Property | Silent about | Reported as |
|---|---|---|
| `ChildTracked`, `StopHolds` | a close event that comes late (captured output) or after a `restart()`, and a probe that fails during a pre-stop command: `Undisturbed` | `StaysStopped`, `NeverOrphans`, `SpawnsAfterExit` |
| `CallsSettle` | `start()` of a polled process whose next probe is cleared (`managed-process.ts:437`) | `EveryStartSettles` |
| `CancelHolds` | a cancel while `restore()` holds the row | `CancelledIsSilent` |
| `SessionsOwned`, `CompletionSound`, `TaskLife` | tasks whose own spawn or call was overtaken | `ForwardOnly` and the workflow rows |
| `HistorySound` | everything after a compaction that outlived its wait has replaced rows it had not read: `taint` | `NothingUnreadDropped` |
| `GrantsHold` | the grants file once two rewrites overlap or one fails; the grants in memory are still covered | `ClearIsLasting`, `GrantsReachDisk` |
| `ToolsSound` | whether a changed manifest can be approved again, which the key of the first approval prevents | `ReapprovalSucceeds` |
| `ViewsAgree` | whether the tools of an external service follow its health: an approval registers the tools of an unhealthy one | the notes below |
| `CatalogsCurrent` | a `list_changed` before its server is registered, until the next fetch: `missed` | the notes below |

Noted while reading, and part of the models where they concern their state: an abort during a
guarded compaction is not deferred to its end, and one during the set-up of a turn has no scope
to reach; `session_context_reset` acts under a running turn; an abort while the judge decides
escalates the call; batches over the limit never reach the circuit breaker; `session_steer`
reports `injected` for a steer that the end of the turn drops; a compaction that preserves no
rows keeps all of them; a load of the transcript returns its oldest 2,000 rows; a rotated key
replaces the old one before it is delivered (`docs/services.md:170`); the approval of an unhealthy
service registers its tools; `process-failed` is not wired to the services; a dead MCP server
is not connected again before its pool is idle; a `list_changed` before the registration of its
server is dropped (`mcp-server-pool.ts:253`); a call in flight when its pool lapsed is sent again
(`tool-loop-mcp.ts:173`); the store of failed providers is never written; and the default event
handlers push into a buffer that a restart empties.

## 7. Not modelled

The components in the last row of section 1 are left out: they keep no shared state across
an await (authentication, policy, configuration, skills), do input and output (media,
memory, retention, presentation, command line), or follow a protocol that is not part of
the repository (Discord's gateway).  The parts of the control plane, the session manager and
`index.ts` that touch a modelled component are actions of its module.  They are most of the
lines of the repository: the slash commands and the platform of Discord, the provider
adapters' encodings, the tools' wrappers around system calls and the dispatch of the control
socket are translations of one format into another.

Of the modelled components these parts are left out: `stopAll` and `stopByOwner` of the
process manager; tool refresh, statistics and minimal-context turns of the tool loop; the
system-context buffer; dispatch of tool calls to services; the rate window of the model
gate, which only status operations read.

## 8. Plan

Done: the modules of section 2 and the theorems of section 5.  Next, in order of importance:

1. `Notifies`, after `TimerScheduler`: the completion notifications, with the same abstract
   specification of at-most-once delivery.
2. `ProcessManager`: several abstract processes with dependencies, stopAll and stopByOwner.
3. `Subagents`: inactivity timers, kill and reconciliation at boot, over `TurnQueue`.
4. The MCP and ACP transports: requests matched to answers over pipes and HTTP.
