------------------------------ MODULE Workflow ------------------------------
(* One workflow of the daemon: the Orchestrator's tick cycle, its polling   *)
(* loop, the task sessions it spawns, the ControlPlane's operations, the    *)
(* state file and WorkflowServer's start, stop and resume                   *)
(* (packages/workflow/src, packages/daemon/src/workflow-adapters.ts).       *)
(*                                                                          *)
(* JavaScript runs a callback to its next real await without interruption.  *)
(* poll() and kill() have synchronous bodies, so a tick is interrupted only *)
(* where it awaits a spawn, a tool or message call, a notification, the     *)
(* state file or a status post: those are the values of pc. A tick at       *)
(* "loop" is running, and nothing else may step (EventLoopFree).            *)
(*                                                                          *)
(* Nothing keeps a control operation, or a second polling loop that a retry *)
(* has started, from settling a task while a tick awaits its spawn or its   *)
(* call; the outcome is then written over it.  The history variable         *)
(* overtaken records the tasks this has happened to: the properties say     *)
(* that what goes wrong then stays with these tasks.                        *)
EXTENDS Integers, FiniteSets, FiniteSetsExt

CONSTANTS
  N,            \* number of tasks, numbered in list order
  Defs,         \* workflow definitions: deps, kind, behavior, tpl, cap
  MaxSessions,  \* bound: sessions ever spawned
  Edits,        \* failure behaviours that edit may set
  MaxOps,       \* bound: control-plane operations
  MaxFaults,    \* bound: stops, crashes and failed writes
  MaxInterventions, \* bound: both together
  MaxTicks      \* bound: ticks of the polling loops that overlap

Tasks == 1..N
Sessions == 1..MaxSessions

Start == 0               \* server.start()'s own pass over the tasks
Ticks == 1..MaxTicks     \* ticks of the polling loops
Control == MaxTicks + 1  \* the control-plane operation being served
Procs == {Start, Control} \union Ticks

Statuses == {"pending", "in_progress", "done", "failed", "skipped"}
Behaviors == {"abort", "pause", "continue"}

DefType ==
  [deps : [Tasks -> SUBSET Tasks],
   kind : [Tasks -> {"agent", "tool", "message", "gate", "transform"}],
   behavior : [Tasks -> Behaviors],
   tpl : SUBSET Tasks,
   cap : Nat]

\* validateGraph and detectCycles: a task depends on tasks of the list, without cycles.
Acyclic(d) ==
  \E rank \in [Tasks -> Tasks] : \A t \in Tasks : \A u \in d.deps[t] : rank[u] < rank[t]

ASSUME WorkflowAssumption ==
  /\ N \in Nat \ {0}
  /\ MaxSessions \in Nat \ {0} /\ MaxOps \in Nat /\ MaxFaults \in Nat
  /\ MaxInterventions \in Nat /\ MaxTicks \in Nat \ {0}
  /\ Edits \subseteq Behaviors
  /\ Defs \subseteq DefType
  /\ \A d \in Defs : Acyclic(d)

VARIABLES
  def,        \* the definition; edit changes its failure behaviours
  task,       \* TaskState of every task
  completed, paused, applied,   \* the orchestrator's flags and templateApplied
  handle,     \* pollingTimer: null, or a timer that is armed or has fired
  stray,      \* armed timers that pollingTimer no longer refers to
  proc,       \* where each tick, start() and the control operation await
  disk,       \* the state file; clash: its last writes overlapped
  server,     \* life of the server
  caller,     \* whether the turn slot of the replyTo session is taken
  sess,       \* session rows, their turns and the completion map
  ops, faults,
  overtaken   \* history: tasks whose awaited spawn or call was overtaken

workflow == <<def, task, completed, paused, applied, handle, stray, proc, disk,
          server, caller, sess, ops, faults>>
recorded == <<workflow, overtaken>>

-----------------------------------------------------------------------------
(* Tasks                                                                    *)

FreshTask ==
  [status |-> "pending", key |-> 0, err |-> "none", handled |-> FALSE,
   old |-> FALSE, out |-> 0]

TaskType ==
  [status : Statuses, key : 0..MaxSessions,
   err : {"none", "other", "blocked", "aborted"}, handled : BOOLEAN,
   old : BOOLEAN, out : 0..(MaxFaults + 1)]

isTerminal(status) == status \in {"done", "failed", "skipped"}

With(T, status) == {t \in Tasks : T[t].status = status}
AllTerminal(T) == \A t \in Tasks : isTerminal(T[t].status)

\* Fail the tasks of S with an error of the given kind.
Failing(T, S, e) ==
  [t \in Tasks |-> IF t \in S THEN [T[t] EXCEPT !.status = "failed", !.err = e] ELSE T[t]]

\* The tasks of Within reached from Seeds along dependency edges through Within.
ClosedIn(C, Within) == \A u \in Within : def.deps[u] \intersect C # {} => u \in C
Spread(Seeds, Within) ==
  {t \in Within \ Seeds :
    \A C \in SUBSET Tasks : Seeds \subseteq C /\ ClosedIn(C, Within) => t \in C}

\* Faulty variant: only the direct dependents are followed.
getDirectDependents(t) == {u \in Tasks : t \in def.deps[u]}

getTransitiveDependents(t) == Spread({t}, Tasks)

\* Faulty variant: a task that has settled is marked as well.
MarkedRegardless(T) == Failing(T, Spread(With(T, "failed"), Tasks), "blocked")

\* markBlockedTasks over computeBlockedAndSkipped: the failed tasks spread first.
Marked(T) ==
  LET blocked == Spread(With(T, "failed"), With(T, "pending"))
      skipped == Spread(With(T, "skipped"), With(T, "pending") \ blocked)
  IN  [t \in Tasks |->
        IF t \in skipped THEN [T[t] EXCEPT !.status = "skipped"]
        ELSE Failing(T, blocked, "blocked")[t]]

-----------------------------------------------------------------------------
(* Sessions: the spawn, poll and kill adapters                              *)

NoSession == [row |-> "none", turn |-> "none", result |-> "none", task |-> 0]

SessionType ==
  [row : {"none", "active", "terminated"}, turn : {"none", "running", "ended", "dead"},
   result : {"none", "ok", "bad"}, task : 0..N]

Gone(s) == [s EXCEPT !.row = "terminated", !.turn = "dead", !.result = "none"]

\* Faulty variant: an abort leaves the session of the task alone.
killNothing(S, keys) == S

\* The orchestrator kills the sessions of tasks it has settled: the turn is aborted,
\* and nobody reads what it still reports.
kill(S, keys) == [s \in Sessions |-> IF s \in keys THEN Gone(S[s]) ELSE S[s]]

\* What the poll adapter answers for a session. A poll that throws fails its
\* task and kills its session, as does the poll of a session killed from outside.
poll(s) ==
  CASE sess[s].result = "ok" -> "done"
    [] sess[s].result = "bad" -> "failed"
    [] sess[s].result = "none" /\ sess[s].row = "terminated" -> "failed"
    [] OTHER -> "running"

\* The turn ends; the adapter records the completion, then kills the session.
\* "bad": the turn threw, reported ERROR:TASK_FAILED or broke its contract.
TurnEnds(s) ==
  /\ sess[s].turn = "running"
  /\ \E r \in {"ok", "bad"} :
       sess' = [sess EXCEPT ![s].row = "terminated", ![s].turn = "ended", ![s].result = r]
  /\ UNCHANGED <<def, task, completed, paused, applied, handle, stray, proc, disk, server,
                 caller, ops, faults>>

\* Somebody kills the task's session through the session commands.
KilledOutside(s) ==
  /\ sess[s].row = "active"
  /\ sess' = [sess EXCEPT ![s].row = "terminated"]
  /\ UNCHANGED <<def, task, completed, paused, applied, handle, stray, proc, disk, server,
                 caller, ops, faults>>

\* The runtime limit of a started task passes.
LimitPasses(t) ==
  /\ task[t].status = "in_progress" /\ ~task[t].old
  /\ task' = [task EXCEPT ![t].old = TRUE]
  /\ UNCHANGED <<def, completed, paused, applied, handle, stray, proc, disk, server,
                 caller, sess, ops, faults>>

-----------------------------------------------------------------------------
(* The polling loop                                                         *)

Idle == [pc |-> "idle", at |-> 0, snap |-> [t \in Tasks |-> FreshTask]]

OpsLeft == ops < MaxOps /\ ops + faults < MaxInterventions
FaultsLeft == faults < MaxFaults /\ ops + faults < MaxInterventions

EventLoopFree == \A k \in Procs : proc[k].pc # "loop"
Alive == server \in {"starting", "up", "stopping", "lost"}

scheduleNext(h, n) ==
  /\ handle' = "armed"
  /\ stray' = IF h = "armed" THEN n + 1 ELSE n

stopPolling == handle' = "null" /\ UNCHANGED stray

\* The tick is over; the loop goes on unless stopPolling() has cleared the timer.
TickEnds(k) ==
  /\ proc' = [proc EXCEPT ![k] = Idle]
  /\ IF k \in Ticks /\ handle # "null" THEN scheduleNext(handle, stray)
     ELSE UNCHANGED <<handle, stray>>

\* pollInProgress and enforceRuntimeLimits.
Polled(T) ==
  [t \in Tasks |->
    IF T[t].status # "in_progress" THEN T[t]
    ELSE CASE poll(T[t].key) = "done" -> [T[t] EXCEPT !.status = "done"]
           [] poll(T[t].key) = "failed" \/ T[t].old ->
                [T[t] EXCEPT !.status = "failed", !.err = "other"]
           [] OTHER -> T[t]]

\* handleFailures: in list order up to the first task whose behaviour is abort.
newlyFailed(T) == {t \in With(T, "failed") : ~T[t].handled /\ T[t].err = "other"}
Aborting(T) == {t \in newlyFailed(T) : def.behavior[t] = "abort"}
HandledNow(T) == {t \in newlyFailed(T) : \A a \in Aborting(T) : t <= a}
Pausing(T) == \E t \in HandledNow(T) : def.behavior[t] = "pause"
Handled(T) ==
  LET H == [t \in Tasks |-> [T[t] EXCEPT !.handled = @ \/ t \in HandledNow(T)]]
  IN  IF Aborting(T) = {} THEN H
      ELSE Failing(H, With(H, "pending") \union With(H, "in_progress"), "aborted")

\* The synchronous part of a tick, up to its first task to dispatch.
TickBegins(k) ==
  LET T == Polled(task)
      A == Handled(T)
  IN  /\ task' = Marked(A)
      /\ sess' = kill(sess, {task[t].key :
                               t \in With(task, "in_progress") \ With(A, "in_progress")})
      /\ paused' = (paused \/ Pausing(T))
      /\ proc' = [proc EXCEPT ![k].pc = "loop", ![k].at = IF paused' THEN N + 1 ELSE 1]

\* A timer of the loop fires. A tick of a completed workflow does nothing, and the
\* loop goes on only if another timer has been armed since.
TickFires(k) ==
  /\ EventLoopFree /\ Alive
  /\ proc[k].pc = "idle" /\ \A j \in 1..(k - 1) : proc[j].pc # "idle"
  /\ handle = "armed" \/ stray > 0
  /\ LET own == stray = 0
         h == IF own THEN "fired" ELSE handle
         n == IF own THEN stray ELSE stray - 1
     IN  IF completed
         THEN /\ UNCHANGED <<task, sess, paused, proc>>
              /\ IF h = "null" THEN handle' = h /\ stray' = n ELSE scheduleNext(h, n)
         ELSE TickBegins(k) /\ handle' = h /\ stray' = n
  /\ UNCHANGED <<def, completed, applied, disk, server, caller, ops, faults>>

-----------------------------------------------------------------------------
(* spawnReadyTasks: one step per task dispatched                            *)

\* Faulty variant: a failed dependency counts as met.
ReadyOnceSettled(t) ==
  task[t].status = "pending" /\ \A u \in def.deps[t] : isTerminal(task[u].status)

Ready(t) == task[t].status = "pending" /\ def.deps[t] \subseteq With(task, "done")

\* Faulty variant: one more task than the limit may run.
AtCapTooLate == def.cap > 0 /\ Cardinality(With(task, "in_progress")) > def.cap

AtCap == def.cap > 0 /\ Cardinality(With(task, "in_progress")) >= def.cap

Dispatchable(k) == IF AtCap THEN {} ELSE {t \in proc[k].at..N : Ready(t)}

\* Go on with the loop behind task t.
Onward(k, t) == proc' = [proc EXCEPT ![k].pc = "loop", ![k].at = t + 1]

\* A gate passes, fails, or is false: then everything behind it is skipped.
DispatchGate(k, t) ==
  /\ def.kind[t] = "gate"
  /\ \/ task' = [task EXCEPT ![t].status = "done"]
     \/ task' = Failing(task, {t}, "other")
     \/ task' = [u \in Tasks |->
          IF u = t THEN [task[u] EXCEPT !.status = "done"]
          ELSE IF u \in getTransitiveDependents(t) /\ task[u].status = "pending"
            THEN [task[u] EXCEPT !.status = "skipped"]
            ELSE task[u]]
  /\ Onward(k, t)

DispatchTransform(k, t) ==
  /\ def.kind[t] = "transform"
  /\ task' = [task EXCEPT ![t].status = "done"]
  /\ Onward(k, t)

\* The task stays pending while its call or its spawn is awaited.
DispatchAwaited(k, t) ==
  /\ def.kind[t] \in {"tool", "message", "agent"}
  /\ proc' = [proc EXCEPT ![k].pc = IF def.kind[t] = "agent" THEN "spawn" ELSE "call", ![k].at = t]
  /\ UNCHANGED task

Dispatch(k) ==
  /\ proc[k].pc = "loop"
  /\ Dispatchable(k) # {}
  /\ LET t == Min(Dispatchable(k)) IN
       DispatchGate(k, t) \/ DispatchTransform(k, t) \/ DispatchAwaited(k, t)
  /\ UNCHANGED <<def, completed, paused, applied, handle, stray, disk, server, caller, sess,
                 ops, faults>>

\* The tool or the message call returns. The message poster swallows its errors.
CallReturns(k) ==
  /\ EventLoopFree
  /\ proc[k].pc = "call"
  /\ LET t == proc[k].at IN
       /\ \/ task' = [task EXCEPT ![t].status = "done"]
          \/ def.kind[t] = "tool" /\ task' = Failing(task, {t}, "other")
       /\ Onward(k, t)
  /\ UNCHANGED <<def, completed, paused, applied, handle, stray, disk, server, caller, sess,
                 ops, faults>>

FreeSessions == {s \in Sessions : sess[s] = NoSession}

\* spawn() resolves: the session's row exists and its turn has been fired off.
SpawnReturns(k) ==
  /\ EventLoopFree
  /\ proc[k].pc = "spawn" /\ FreeSessions # {}
  /\ LET t == proc[k].at
         s == Min(FreeSessions)
     IN  /\ sess' = [sess EXCEPT ![s] =
                         [row |-> "active", turn |-> "running", result |-> "none", task |-> t]]
         /\ task' = [task EXCEPT ![t].status = "in_progress", ![t].key = s, ![t].old = FALSE]
         /\ Onward(k, t)
  /\ UNCHANGED <<def, completed, paused, applied, handle, stray, disk, server, caller, ops,
                 faults>>

\* spawn() rejects: the workflow pauses and the parent is told, which waits for
\* a turn of the replyTo session.
SpawnFails(k) ==
  /\ EventLoopFree
  /\ proc[k].pc = "spawn"
  /\ task' = Failing(task, {proc[k].at}, "other")
  /\ paused' = TRUE
  /\ proc' = [proc EXCEPT ![k].pc = "notify", ![k].at = N + 1]
  /\ UNCHANGED <<def, completed, applied, handle, stray, disk, server, caller, sess, ops,
                 faults>>

NotifyReturns(k) ==
  /\ EventLoopFree
  /\ proc[k].pc = "notify" /\ caller = "free"
  /\ proc' = [proc EXCEPT ![k].pc = "loop"]
  /\ UNCHANGED <<def, task, completed, paused, applied, handle, stray, disk, server, caller,
                 sess, ops, faults>>

-----------------------------------------------------------------------------
(* Saving and completing                                                    *)

\* Faulty variant: the set of applied templates is not looked at.
ToApplyAgain == With(task, "done") \intersect def.tpl

\* Done tasks whose output template is still to be applied.
ToApply == {t \in With(task, "done") \intersect def.tpl : t \notin applied}

\* The loop is over: templates are applied (by a tick), then saveWorkflow begins.
LoopEnds(k) ==
  /\ proc[k].pc = "loop" /\ Dispatchable(k) = {}
  /\ LET now == IF k = Start THEN {} ELSE ToApply IN
       /\ task' = [t \in Tasks |-> [task[t] EXCEPT !.out = IF t \in now THEN @ + 1 ELSE @]]
       /\ applied' = applied \union now
  /\ proc' = [proc EXCEPT ![k].pc = "save", ![k].at = N + 1]
  /\ UNCHANGED <<def, completed, paused, handle, stray, disk, server, caller, sess, ops,
                 faults>>

NoFile == [state |-> "absent", clash |-> FALSE, task |-> [t \in Tasks |-> FreshTask]]

Writing == {k \in Procs : proc[k].pc = "write"}

\* mkdir has returned: the tasks are serialised and the file is truncated.
SaveBegins(k) ==
  /\ EventLoopFree
  /\ proc[k].pc = "save"
  /\ proc' = [proc EXCEPT ![k].pc = "write", ![k].snap = task]
  /\ disk' = [NoFile EXCEPT !.state = "torn", !.clash = Writing # {}]
  /\ UNCHANGED <<def, task, completed, paused, applied, handle, stray, server, caller, sess,
                 ops, faults>>

\* What the file holds when k's write ends; overlapping writes may garble it.
Written(k) ==
  IF Writing # {k} THEN {disk}
  ELSE {[disk EXCEPT !.state = "ok", !.task = proc[k].snap]} \union
       (IF disk.clash THEN {disk} ELSE {})

\* checkCompletion, behind a tick's save.
CheckCompletion(k) ==
  IF ~paused /\ AllTerminal(task) /\ ~completed
  THEN /\ completed' = TRUE
       /\ stopPolling
       /\ sess' = kill(sess, {task[t].key : t \in Tasks})
       /\ proc' = [proc EXCEPT ![k] = [Idle EXCEPT !.pc = "post"]]
  ELSE TickEnds(k) /\ UNCHANGED <<completed, sess>>

SaveEnds(k) ==
  /\ EventLoopFree
  /\ proc[k].pc = "write"
  /\ disk' \in Written(k)
  /\ \/ k \in Ticks /\ CheckCompletion(k)
     \/ k = Control /\ TickEnds(k) /\ UNCHANGED <<completed, sess>>
     \/ /\ k = Start
        /\ proc' = [proc EXCEPT ![k] =
             IF @.at = 0 THEN [Idle EXCEPT !.pc = "loop", !.at = 1]
             ELSE [Idle EXCEPT !.pc = "post"]]
        /\ UNCHANGED <<handle, stray, completed, sess>>
  /\ UNCHANGED <<def, task, paused, applied, server, caller, ops, faults>>

\* The write fails and leaves a truncated file: the tick, the operation or start() throws.
SaveFails(k) ==
  /\ EventLoopFree
  /\ proc[k].pc = "write" /\ FaultsLeft
  /\ faults' = faults + 1
  /\ UNCHANGED disk
  /\ TickEnds(k)
  /\ server' = IF k = Start THEN "lost" ELSE server
  /\ caller' = IF k = Start THEN "free" ELSE caller
  /\ UNCHANGED <<def, task, completed, paused, applied, sess, ops>>

\* The status posts return: start() begins the polling loop, a tick is over.
PostReturns(k) ==
  /\ EventLoopFree
  /\ proc[k].pc = "post"
  /\ IF k = Start
     THEN /\ server' = "up" /\ caller' = "free"
          /\ proc' = [proc EXCEPT ![k] = Idle]
          /\ scheduleNext(handle, stray)
     ELSE TickEnds(k) /\ UNCHANGED <<server, caller>>
  /\ UNCHANGED <<def, task, completed, paused, applied, disk, sess, ops, faults>>

-----------------------------------------------------------------------------
(* ControlPlane: one operation is served at a time (bound)                  *)

Operation ==
  /\ EventLoopFree /\ server = "up"
  /\ proc[Control].pc = "idle" /\ OpsLeft
  /\ ops' = ops + 1
  /\ proc' = [proc EXCEPT ![Control].pc = "save", ![Control].at = 1]
  /\ UNCHANGED <<applied, disk, server, caller, faults>>

InFlight == {k \in Ticks : proc[k].pc # "idle"}

\* A tick that awaits a call or a spawn will overwrite the task aborted here.
Abort ==
  /\ Operation
  /\ sess' = kill(sess, {task[t].key : t \in Tasks})
  /\ task' = Failing(task, {t \in Tasks : ~isTerminal(task[t].status)}, "aborted")
  /\ stopPolling
  /\ completed' = TRUE
  /\ UNCHANGED <<def, paused>>

SetPaused(v) ==
  /\ Operation
  /\ paused # v /\ paused' = v
  /\ UNCHANGED <<def, task, completed, handle, stray, sess>>

Edit(t, b) ==
  /\ Operation
  /\ task[t].status # "in_progress" /\ def.behavior[t] # b
  /\ def' = [def EXCEPT !.behavior[t] = b]
  /\ UNCHANGED <<task, completed, paused, handle, stray, sess>>

\* A tick still in flight after polling was stopped will arm a second timer; one
\* that awaits a task behind t starts it on a dependency reset here.
Retry(t, cascade) ==
  LET resets == {t} \union {u \in getTransitiveDependents(t) :
                   task[u].status = "failed" \/ (cascade /\ task[u].status = "done")}
  IN  /\ Operation
      /\ task[t].status \in {"failed", "done"}
      /\ task' = [u \in Tasks |-> IF u \in resets THEN FreshTask ELSE task[u]]
      /\ paused' = FALSE
      /\ completed' = FALSE
      /\ IF handle = "null" THEN scheduleNext(handle, stray) ELSE UNCHANGED <<handle, stray>>
      /\ UNCHANGED <<def, sess>>

isPaused(T) ==
  With(T, "in_progress") = {} /\ With(T, "pending") # {}

\* retention: an old file of a finished or seemingly paused workflow is deleted
\* and the orchestrator forgotten.
Retention ==
  /\ EventLoopFree /\ server = "up" /\ OpsLeft /\ disk.state = "ok"
  /\ (\A t \in Tasks : disk.task[t].status \in {"done", "failed"}) \/ isPaused(disk.task)
  /\ disk' = NoFile
  /\ stopPolling
  /\ server' = "lost"
  /\ ops' = ops + 1
  /\ UNCHANGED <<def, task, completed, paused, applied, proc, caller, sess, faults>>

\* The replyTo session calls wait: its turn is taken until the tasks are terminal
\* or the wait times out.
WaitCalled ==
  /\ EventLoopFree /\ server = "up" /\ caller = "free" /\ OpsLeft
  /\ caller' = "wait" /\ ops' = ops + 1
  /\ UNCHANGED <<def, task, completed, paused, applied, handle, stray, proc, disk, server,
                 sess, faults>>

WaitReturns ==
  /\ caller = "wait"
  /\ caller' = "free"
  /\ UNCHANGED <<def, task, completed, paused, applied, handle, stray, proc, disk, server,
                 sess, ops, faults>>

-----------------------------------------------------------------------------
(* WorkflowServer: stop, crash, resume                                      *)

StopAll ==
  /\ EventLoopFree /\ server = "up" /\ FaultsLeft
  /\ server' = "stopping" /\ faults' = faults + 1
  /\ stopPolling
  /\ UNCHANGED <<def, task, completed, paused, applied, proc, disk, caller, sess, ops>>

\* The process is gone: rows and the file stay, turns and the completion map do not.
ProcessGone ==
  /\ server' = "down"
  /\ task' = [t \in Tasks |-> FreshTask]
  /\ completed' = FALSE /\ paused' = FALSE /\ applied' = {}
  /\ handle' = "null" /\ stray' = 0
  /\ proc' = [k \in Procs |-> Idle]
  /\ caller' = "free"
  /\ sess' = [s \in Sessions |->
       IF sess[s] = NoSession THEN NoSession
       ELSE [sess[s] EXCEPT !.turn = "dead", !.result = "none"]]
  /\ UNCHANGED <<def, disk, ops>>

\* stopAll has drained the ticks and the process exits.
Exit ==
  /\ EventLoopFree /\ server = "stopping"
  /\ InFlight = {} /\ stray = 0
  /\ ProcessGone
  /\ UNCHANGED faults

WorkflowCrash ==
  /\ Alive /\ server # "lost" /\ FaultsLeft
  /\ faults' = faults + 1
  /\ ProcessGone

\* Faulty variant: a workflow with skipped tasks counts as unfinished.
ResumableIfSkipped ==
  disk.state = "ok" /\ \E t \in Tasks : disk.task[t].status \notin {"done", "failed"}

Resumable == disk.state = "ok" /\ ~AllTerminal(disk.task)

Resume ==
  /\ server = "down" /\ Resumable
  /\ server' = "up"
  /\ task' = disk.task
  /\ scheduleNext(handle, stray)
  /\ UNCHANGED <<def, completed, paused, applied, proc, disk, caller, sess, ops, faults>>

-----------------------------------------------------------------------------
WorkflowInit ==
  /\ def \in Defs
  /\ task = [t \in Tasks |-> FreshTask]
  /\ completed = FALSE /\ paused = FALSE /\ applied = {}
  /\ handle = "null" /\ stray = 0
  /\ proc = [k \in Procs |-> IF k = Start THEN [Idle EXCEPT !.pc = "save"] ELSE Idle]
  /\ disk = NoFile
  /\ server = "starting"
  /\ caller \in {"start", "free"}
  /\ sess = [s \in Sessions |-> NoSession]
  /\ ops = 0 /\ faults = 0
  /\ overtaken = {}

\* The steps of one pass over the tasks.
ProcStep(k) ==
  \/ Dispatch(k) \/ LoopEnds(k) \/ CallReturns(k) \/ SpawnReturns(k) \/ SpawnFails(k)
  \/ NotifyReturns(k) \/ SaveBegins(k) \/ SaveEnds(k) \/ PostReturns(k)

Environment ==
  \/ \E s \in Sessions : EventLoopFree /\ (TurnEnds(s) \/ KilledOutside(s))
  \/ \E t \in Tasks : LimitPasses(t)
  \/ \E k \in Procs : SaveFails(k)
  \/ WaitCalled \/ WaitReturns

Operator ==
  \/ Abort \/ Retention
  \/ \E v \in BOOLEAN : SetPaused(v)
  \/ \E t \in Tasks : \/ \E b \in Edits : Edit(t, b)
                      \/ \E c \in BOOLEAN : Retry(t, c)

WorkflowStep ==
  \/ \E k \in Procs : ProcStep(k)
  \/ \E k \in Ticks : TickFires(k)
  \/ Environment
  \/ Operator
  \/ StopAll \/ Exit \/ WorkflowCrash \/ Resume

Awaits(k, t) == proc[k].pc \in {"call", "spawn"} /\ proc[k].at = t

\* What the check for task t was about, before its spawn or its call was awaited, is
\* changed in this step: its status, that of a dependency, or the room under the limit.
Disturbed(t) ==
  \/ \E u \in def.deps[t] \union {t} : task'[u].status # task[u].status
  \/ def.cap > 0 /\ ~(With(task', "in_progress") \subseteq With(task, "in_progress"))

Overtaken ==
  {t \in Tasks : Disturbed(t) /\ \E k \in Procs : Awaits(k, t) /\ proc'[k] = proc[k]}

WorkflowNext == WorkflowStep /\ overtaken' = overtaken \union Overtaken

WorkflowSpec == WorkflowInit /\ [][WorkflowNext]_recorded

\* Timers fire, an awaited call or write returns when nothing else is left to run, a
\* wait ends, a started task runs into its limit and a stopped daemon exits and
\* comes back. Nothing makes a turn end.
WorkflowFairSpec ==
  /\ WorkflowSpec
  /\ WF_workflow(\E k \in Procs : ProcStep(k))
  /\ WF_workflow(\E k \in Ticks : TickFires(k))
  /\ WF_workflow(\E t \in Tasks : LimitPasses(t))
  /\ WF_workflow(WaitReturns \/ Exit \/ Resume)

-----------------------------------------------------------------------------
(* Properties                                                               *)

WorkflowTypeOK ==
  /\ def \in DefType
  /\ task \in [Tasks -> TaskType]
  /\ completed \in BOOLEAN /\ paused \in BOOLEAN /\ applied \subseteq Tasks
  /\ handle \in {"null", "armed", "fired"} /\ stray \in Nat
  /\ \A k \in Procs :
       /\ proc[k].pc \in {"idle", "loop", "call", "spawn", "notify", "save", "write", "post"}
       /\ proc[k].at \in 0..(N + 1)
       /\ proc[k].snap \in [Tasks -> TaskType]
  /\ disk.state \in {"absent", "ok", "torn"} /\ disk.clash \in BOOLEAN
  /\ disk.task \in [Tasks -> TaskType]
  /\ server \in {"starting", "up", "stopping", "down", "lost"}
  /\ caller \in {"start", "wait", "free"}
  /\ sess \in [Sessions -> SessionType]
  /\ ops \in 0..MaxOps /\ faults \in 0..MaxFaults
  /\ overtaken \subseteq Tasks

\* Sessions that work in this process.
Working == {s \in Sessions : sess[s].row = "active" /\ sess[s].turn = "running"}

\* Every session at work was spawned for a task that is in progress with it: polling,
\* limits, aborts, completion and retries never drop a session that still runs
\* (orchestrator.ts:979, control.ts:99), unless its spawn was overtaken.
NoOrphanSession ==
  server # "lost" =>
    \A s \in Working :
      \/ sess[s].task \in overtaken
      \/ task[sess[s].task].status = "in_progress" /\ task[sess[s].task].key = s

\* No more tasks are in progress than the workflow's concurrency allows, although
\* the count is taken before the spawn is awaited (orchestrator.ts:787): only tasks
\* that were overtaken come on top.
ConcurrencyCapHolds ==
  def.cap > 0 => Cardinality(With(task, "in_progress") \ overtaken) <= def.cap

\* The polling loop and start() never overtake themselves, across their timers,
\* failed saves and restarts of the daemon: it takes an operation of the control
\* plane (orchestrator.ts:412, 440, control.ts:99, 326).
OvertakenByOperator == ops = 0 => overtaken = {}

\* A completed workflow has only terminal tasks and no session at work, whether a
\* tick completed it or an operator aborted it (orchestrator.ts:1026, control.ts:99):
\* what an abort overtakes is all that may still come to life.
CompletedIsSettled ==
  completed => /\ \A t \in Tasks \ overtaken : isTerminal(task[t].status)
               /\ \A s \in Working : sess[s].task \in overtaken

\* A task is marked "blocked: dependency failed" only while one of its dependencies
\* is failed: a retry of the dependency resets it too (orchestrator.ts:754, control.ts:277).
\* The outcome of a spawn that was overtaken may lift the cause.
BlockedHasCause ==
  \A t \in With(task, "failed") \ overtaken :
    task[t].err = "blocked" => def.deps[t] \intersect (With(task, "failed") \union overtaken) # {}

\* Once nothing of it is under way, a completed workflow's file has no unfinished task
\* that the next start of the daemon would resume, but those overtaken, unless two
\* writes overlapped (orchestrator.ts:381, state.ts:83).
CompletedIsNotResumed ==
  completed /\ ~disk.clash /\ (\A k \in Procs : proc[k].pc \in {"idle", "post"}) =>
    ~Resumable \/ \A t \in Tasks \ overtaken : isTerminal(disk.task[t].status)

\* Without a restart of the daemon an output template is applied once to an output
\* (orchestrator.ts:193, 376).
TemplateAppliedOnce ==
  faults = 0 => \A t \in Tasks : task[t].out <= 1

\* Tasks and sessions agree while spawns and kills are awaited: no session works
\* for a task that is not in progress, and the cap on them holds; what breaks this
\* is an operation that overtakes a spawn, and then for the tasks overtaken only.
SessionsOwned ==
  /\ WorkflowTypeOK
  /\ NoOrphanSession /\ ConcurrencyCapHolds /\ OvertakenByOperator

\* What a settled workflow leaves behind is final: its tasks and sessions, the
\* causes of blocked tasks, the templates applied to outputs, and the state file
\* that the next start of the daemon reads.
CompletionSound ==
  /\ CompletedIsSettled /\ BlockedHasCause
  /\ CompletedIsNotResumed /\ TemplateAppliedOnce

Processing == server \in {"up", "stopping"} /\ server' \in {"up", "stopping"}

\* A terminal task keeps its status or is reset by a retry.
Final(t) ==
  isTerminal(task[t].status) => task'[t].status = task[t].status \/ task'[t] = FreshTask

\* A settled task stays settled until it is retried, whatever is in flight when it
\* settles, unless its own spawn or call was overtaken (orchestrator.ts:895, 979).
TerminalIsFinal == [][Processing => \A t \in Tasks \ overtaken : Final(t)]_recorded

\* A task starts, or is done, only in a state in which all its dependencies are done,
\* although the check is made before the call or the spawn is awaited
\* (orchestrator.ts:794, 979), unless that wait was overtaken.
StartsAfterItsDependencies ==
  [][Processing =>
      \A t \in With(task, "pending") \ overtaken :
        task'[t].status \in {"in_progress", "done"} => def.deps[t] \subseteq With(task, "done")
  ]_recorded

\* The life of a task: it starts after its dependencies, and once terminal it
\* stays so unless it is retried.
TaskLife == TerminalIsFinal /\ StartsAfterItsDependencies

\* A running workflow completes or pauses, also across crashes, slow tasks, killed
\* sessions and restarts of its loop; it may otherwise only be pruned or have lost
\* its file (orchestrator.ts:412, server.ts:50).
WorkflowSettles ==
  (server = "up") ~> (completed \/ paused \/ server = "lost" \/ (server = "down" /\ ~Resumable))

\* start() returns the workflow id to its caller (orchestrator.ts:262).
StartReturns == (server = "starting") ~> (server # "starting")

-----------------------------------------------------------------------------
(* What the documentation says and the code does not keep: the statements   *)
(* above without the exception for what was overtaken.                      *)

\* "Status transitions are forward-only. Terminal states cannot transition to anything
\* else (except via explicit retry reset)" (docs/workflow.md:34).
ForwardOnly == [][Processing => \A t \in Tasks : Final(t)]_recorded

\* Every session at work belongs to a task in progress.
OwnedByAll ==
  server # "lost" =>
    \A s \in Working : \E t \in Tasks : task[t].status = "in_progress" /\ task[t].key = s

\* The workflow's concurrency is a limit on its tasks in progress.
CapForAll ==
  def.cap > 0 => Cardinality(With(task, "in_progress")) <= def.cap

\* Completed means settled for every task.
SettledForAll == completed => AllTerminal(task) /\ Working = {}

\* No task starts before its dependencies are done.
DependenciesFirst ==
  [][Processing =>
      \A t \in With(task, "pending") :
        task'[t].status \in {"in_progress", "done"} => def.deps[t] \subseteq With(task, "done")
  ]_recorded

=============================================================================
