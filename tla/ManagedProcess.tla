--------------------------- MODULE ManagedProcess ---------------------------
(***************************************************************************)
(* One managed process (packages/procman/src/managed-process.ts) and its   *)
(* registration in the ProcessManager (process-manager.ts): start, restart *)
(* policy, health checks, graceful stop, and the operator operations       *)
(* procman_stop and procman_restart of control/integration-ops.ts.         *)
(*                                                                         *)
(* The object is the record mp; every call of start() spawns one child, so *)
(* children and start() calls share the numbers 1 .. MaxSpawns.  What runs *)
(* between two turns of the event loop (microtasks, nextTick) is kept from *)
(* interleaving with timers, child events and requests by Quiet.           *)
(***************************************************************************)
EXTENDS Integers, FiniteSets

CONSTANTS
  StopCalls,      \* calls of ProcessManager.stop
  RestartCalls,   \* calls of ManagedProcess.restart
  MaxSpawns,      \* bound: calls of start() in a behaviour
  Specs,          \* the process specifications under study
  Unkillable      \* signals may be refused (a child of another user)

\* What matters of a ProcessSpec: restart.mode and maxRetries, health.kind (all
\* kinds that probe are "poll") and retries, whether shutdown.preStop is there,
\* and whether stdio is captured, so that 'close' comes some time after 'exit'.
ProcessSpec ==
  [mode : {"never", "on-failure", "on-unexpected-exit", "always"}, maxRetries : Nat,
   health : {"none", "stdout-match", "poll"}, retries : Nat \ {0},
   preStop : BOOLEAN, piped : BOOLEAN]

ASSUME SpecAssumption ==
  /\ StopCalls \cap RestartCalls = {}
  /\ MaxSpawns \in Nat /\ Unkillable \in BOOLEAN
  /\ Specs \subseteq ProcessSpec
  /\ \A s \in Specs : s.health = "stdout-match" => s.piped

VARIABLES
  mp,          \* the ManagedProcess object
  proc,        \* each child as the operating system and its handle see it
  closed,      \* children whose 'close' event has been emitted
  deaf,        \* children whose listeners _spawn removed
  starting,    \* each start() call
  byTimer,     \* start() calls made by the restart timer
  call,        \* each stop and restart call; it may be running stop()'s body
  target,      \* the child a stop() body captured
  registered   \* the process is in ProcessManager.processes

vars == <<mp, proc, closed, deaf, starting, byTimer, call, target, registered>>

Spawns == 1 .. MaxSpawns

Callers == StopCalls \cup RestartCalls

NoChild == 0

-----------------------------------------------------------------------------
(* The object and its synchronous helpers.                                 *)

NewProcess(s) ==
  [spec |-> s, state |-> "starting", child |-> NoChild, timers |-> {}, stopPromise |-> "none",
   killFailed |-> FALSE, failures |-> 0, healthRetries |-> 0, matched |-> FALSE]

RestartTimer == <<"restart", 0>>

ResetTimer == <<"reset", 0>>

AttemptTimer(c) == <<"attempt", c>>

\* _resolveStop
Resolve(m) ==
  [m EXCEPT !.stopPromise = IF @ = "pending" THEN "resolved" ELSE @]

\* _finalize
Finalize(m) ==
  Resolve([m EXCEPT !.timers = {}, !.state = "dead", !.child = NoChild])

\* Faulty variant: a late answer counts.
OnHealthyLate(m) == [m EXCEPT !.state = "running", !.timers = @ \cup {ResetTimer}]

\* _onHealthy, and the same steps of start() when there is no health check
OnHealthy(m) ==
  IF m.state = "starting"
  THEN [m EXCEPT !.state = "running", !.timers = @ \cup {ResetTimer}] ELSE m

\* A signal could not be delivered.
KillFails(m) == Resolve([m EXCEPT !.killFailed = TRUE, !.state = "failed"])

\* Faulty variant: a failed stop does not resolve its promise.
AfterWaitSilent(m) == IF m.killFailed THEN [m EXCEPT !.state = "failed"] ELSE Finalize(m)

\* The tail of stop(), once the wait for the child is over.
AfterWait(m) ==
  IF m.killFailed THEN Resolve([m EXCEPT !.state = "failed"]) ELSE Finalize(m)

\* The restart decision of _onExit; a failed spawn has a negative exit code.
Restarts(m, how) ==
  /\ \/ m.spec.mode \in {"always", "on-unexpected-exit"}
     \/ m.spec.mode = "on-failure" /\ how \in {"exit1", "nospawn"}
  /\ m.failures < m.spec.maxRetries

\* _onExit, with _scheduleRestart
OnExit(m, how) ==
  LET n == [m EXCEPT !.timers = {}]
  IN IF m.state = "stopping" THEN Finalize(n)
     ELSE IF Restarts(m, how)
     THEN [n EXCEPT !.state = "exited", !.failures = @ + 1, !.timers = {RestartTimer}]
     ELSE Resolve([n EXCEPT !.state = "dead", !.child = NoChild])

Used == {c \in Spawns : proc[c] # "none"}

Live == {c \in Spawns : proc[c] \in {"spawning", "alive"}}

Gone == {c \in Spawns : proc[c] \in {"exit0", "exit1", "nospawn", "signalled"}}

\* Faulty variant: null is taken for an exit code.
HasExitCodeNull(c) == c \in Used

\* child.exitCode !== null: known once the child has exited with a code; a child
\* killed by a signal has none.
HasExitCode(c) == c \in Gone /\ proc[c] # "signalled"

\* restart() calls that have yet to call start().
Restarting == {k \in RestartCalls : call[k] \notin {"idle", "done", "refused"}}

\* Start() calls left within the bound.
HasSpawn == Cardinality(Used) < MaxSpawns

\* Nothing is left to run before the next turn of the event loop.
Quiet ==
  /\ \A k \in Callers : call[k] # "ready"
  /\ \A c \in Spawns : proc[c] # "spawning" /\ starting[c] # "erroring"
  /\ mp.spec.piped \/ Gone \subseteq closed

\* Callers that await the stop promise, or whose stop() body just ended, go on
\* when it is resolved.
Wake(m, ended) ==
  call' = [k \in Callers |->
             IF call[k] = "awaiting" \/ k \in ended
             THEN IF m.stopPromise = "pending" THEN "awaiting" ELSE "ready"
             ELSE call[k]]

-----------------------------------------------------------------------------
(* start()                                                                 *)

\* start() up to its first await: _setState, then _spawn, which strips the
\* listeners of a child that is still there.
Spawn(m, timer) ==
  LET c == Cardinality(Used) + 1
  IN /\ HasSpawn
     /\ mp' = [m EXCEPT !.state = "starting", !.killFailed = FALSE, !.child = c,
                        !.matched = FALSE]
     /\ deaf' = deaf \cup ({m.child} \ {NoChild})
     /\ proc' = [proc EXCEPT ![c] = "spawning"]
     /\ starting' = [starting EXCEPT ![c] = "spawning"]
     /\ byTimer' = IF timer THEN byTimer \cup {c} ELSE byTimer
     /\ UNCHANGED <<closed, target>>

\* ProcessManager.start
Start ==
  /\ Used = {}
  /\ Spawn(mp, FALSE)
  /\ registered' = TRUE
  /\ UNCHANGED call

\* The restart timer; no more than MaxSpawns spawns in all.
RestartFires ==
  /\ Quiet
  /\ RestartTimer \in mp.timers
  /\ Cardinality(Used) + Cardinality(Restarting) < MaxSpawns
  /\ Spawn([mp EXCEPT !.timers = @ \ {RestartTimer}], TRUE)
  /\ UNCHANGED <<call, registered>>

Settled(c, how) == starting' = [starting EXCEPT ![c] = how]

\* start() rejects; the restart timer catches that and marks the process failed.
Rejected(m, c) == IF c \in byTimer THEN [m EXCEPT !.state = "failed"] ELSE m

\* The 'spawn' event, and start() up to its next await.
Spawned(c) ==
  /\ \A k \in Callers : call[k] # "ready"
  /\ proc[c] = "spawning"
  /\ proc' = [proc EXCEPT ![c] = "alive"]
  /\ \/ c \in deaf /\ UNCHANGED <<mp, starting>>
     \/ /\ c \notin deaf /\ mp.spec.health = "none"
        /\ mp' = OnHealthy(mp)
        /\ Settled(c, "resolved")
     \/ /\ c \notin deaf /\ mp.spec.health = "stdout-match"
        /\ Settled(c, "polling")
        /\ UNCHANGED mp
     \/ /\ c \notin deaf /\ mp.spec.health = "poll"
        /\ mp' = [mp EXCEPT !.healthRetries = 0, !.timers = @ \cup {AttemptTimer(c)}]
        /\ Settled(c, "waiting")
  /\ UNCHANGED <<closed, deaf, byTimer, call, target, registered>>

\* The 'error' event instead; 'close' follows, at once when nothing is piped.
SpawnError(c) ==
  /\ \A k \in Callers : call[k] # "ready"
  /\ proc[c] = "spawning"
  /\ proc' = [proc EXCEPT ![c] = "nospawn"]
  /\ IF c \in deaf THEN UNCHANGED starting ELSE Settled(c, "erroring")
  /\ UNCHANGED <<mp, closed, deaf, byTimer, call, target, registered>>

StartFails(c) ==
  /\ starting[c] = "erroring"
  /\ mp.spec.piped \/ c \in closed
  /\ mp' = Rejected(IF mp.state = "starting" THEN [mp EXCEPT !.state = "failed"] ELSE mp, c)
  /\ Settled(c, "rejected")
  /\ UNCHANGED <<proc, closed, deaf, byTimer, call, target, registered>>

-----------------------------------------------------------------------------
(* Health checks                                                           *)

\* The ready pattern arrives on the standard output of a child.
StdoutMatches(c) ==
  /\ Quiet
  /\ mp.spec.health = "stdout-match" /\ mp.state = "starting" /\ ~mp.matched
  /\ proc[c] \notin {"none", "nospawn"} /\ c \notin closed \cup deaf
  /\ mp' = OnHealthy([mp EXCEPT !.matched = TRUE])
  /\ UNCHANGED <<proc, closed, deaf, starting, byTimer, call, target, registered>>

\* Faulty variant: only good news ends the wait.
StdoutCheckGood(c) ==
  /\ Quiet
  /\ starting[c] = "polling"
  /\ mp.matched \/ mp.state = "running"
  /\ Settled(c, "resolved")
  /\ UNCHANGED <<mp, proc, closed, deaf, byTimer, call, target, registered>>

\* The 100 ms check of a stdout-match start(), when it settles the promise.
StdoutCheck(c) ==
  /\ Quiet
  /\ starting[c] = "polling"
  /\ \/ /\ mp.matched \/ mp.state = "running"
        /\ Settled(c, "resolved")
        /\ UNCHANGED mp
     \/ /\ ~mp.matched /\ mp.state \notin {"running", "starting"}
        /\ Settled(c, "rejected")
        /\ mp' = Rejected(mp, c)
  /\ UNCHANGED <<proc, closed, deaf, byTimer, call, target, registered>>

StdoutTimeout(c) ==
  /\ Quiet
  /\ starting[c] = "polling" /\ mp.state = "starting"
  /\ mp' = [mp EXCEPT !.state = "failed"]
  /\ Settled(c, "rejected")
  /\ UNCHANGED <<proc, closed, deaf, byTimer, call, target, registered>>

\* attempt(), up to the probe's answer.
Attempt(c) ==
  LET m == [mp EXCEPT !.timers = @ \ {AttemptTimer(c)}]
  IN /\ Quiet
     /\ AttemptTimer(c) \in mp.timers
     /\ \/ mp.state = "running" /\ mp' = m /\ Settled(c, "resolved")
        \/ mp.state = "starting" /\ mp' = m /\ Settled(c, "probing")
        \/ /\ mp.state \notin {"running", "starting"}
           /\ mp' = Rejected(m, c)
           /\ Settled(c, "rejected")
     /\ UNCHANGED <<proc, closed, deaf, byTimer, call, target, registered>>

ProbeSucceeds(c) ==
  /\ Quiet
  /\ starting[c] = "probing"
  /\ mp' = OnHealthy(mp)
  /\ Settled(c, "resolved")
  /\ UNCHANGED <<proc, closed, deaf, byTimer, call, target, registered>>

ProbeFails(c) ==
  LET m == [mp EXCEPT !.healthRetries = @ + 1]
  IN /\ Quiet
     /\ starting[c] = "probing"
     /\ \/ /\ m.healthRetries < mp.spec.retries
           /\ mp' = [m EXCEPT !.timers = @ \cup {AttemptTimer(c)}]
           /\ Settled(c, "waiting")
        \/ /\ m.healthRetries >= mp.spec.retries
           /\ mp' = [m EXCEPT !.state = "failed"]
           /\ Settled(c, "rejected")
     /\ UNCHANGED <<proc, closed, deaf, byTimer, call, target, registered>>

\* The process has been up for resetAfterMs.
ResetFires ==
  /\ Quiet
  /\ ResetTimer \in mp.timers
  /\ mp' = [mp EXCEPT !.timers = @ \ {ResetTimer},
                      !.failures = IF mp.state = "running" THEN 0 ELSE @]
  /\ UNCHANGED <<proc, closed, deaf, starting, byTimer, call, target, registered>>

-----------------------------------------------------------------------------
(* The child                                                               *)

\* The child ends by itself or by a signal, of stop(), of kill() or of anyone.
ChildExits(c, how) ==
  /\ Quiet
  /\ proc[c] = "alive"
  /\ proc' = [proc EXCEPT ![c] = how]
  /\ UNCHANGED <<mp, closed, deaf, starting, byTimer, call, target, registered>>

\* The 'close' event: _onExit, then the stop() body that waits for it.
Close(c) ==
  LET waiting == {k \in Callers : call[k] \in {"grace", "safety"} /\ target[k] = c}
      m == OnExit(mp, proc[c])
      n == IF waiting = {} THEN m ELSE AfterWait(m)
  IN /\ mp.spec.piped => Quiet
     /\ c \in Gone \ closed
     /\ closed' = closed \cup {c}
     /\ IF c \in deaf THEN UNCHANGED <<mp, call>> ELSE mp' = n /\ Wake(n, waiting)
     /\ UNCHANGED <<proc, deaf, starting, byTimer, target, registered>>

-----------------------------------------------------------------------------
(* stop() and restart()                                                    *)

\* stop() from the signal to its next await, or to its end when the signal is
\* refused or the child's exit code is already known.
Signal(k, m, c) ==
  \/ /\ ~HasExitCode(c)
     /\ mp' = m
     /\ call' = [call EXCEPT ![k] = "grace"]
  \/ /\ HasExitCode(c)
     /\ mp' = AfterWait(m)
     /\ Wake(AfterWait(m), {k})
  \/ /\ Unkillable
     /\ mp' = KillFails(m)
     /\ Wake(KillFails(m), {k})

\* A stop is already on its way, or was: its promise is returned.
JoinsStop == mp.stopPromise # "none"

\* Faulty variant: pending timers survive.
StopBeginsTimers(m) == [m EXCEPT !.stopPromise = "pending", !.state = "stopping"]

StopBegins(m) == [m EXCEPT !.stopPromise = "pending", !.state = "stopping", !.timers = {}]

\* A call of stop(), by the manager or by restart(), up to its first await.
CallStop(k) ==
  LET m == StopBegins(mp)
      gone == m.child = NoChild \/ HasExitCode(m.child)
  IN /\ Quiet /\ registered
     /\ call[k] = "idle"
     /\ target' = [target EXCEPT ![k] = mp.child]
     /\ \/ /\ mp.state = "dead"
           /\ call' = [call EXCEPT ![k] = "ready"]
           /\ UNCHANGED mp
        \/ /\ mp.state # "dead" /\ JoinsStop
           /\ call' = [call EXCEPT ![k] =
                         IF mp.stopPromise = "pending" THEN "awaiting" ELSE "ready"]
           /\ UNCHANGED mp
        \/ /\ mp.state # "dead" /\ ~JoinsStop /\ gone
           /\ mp' = Finalize(m)
           /\ Wake(Finalize(m), {k})
        \/ /\ mp.state # "dead" /\ ~JoinsStop /\ ~gone /\ mp.spec.preStop
           /\ mp' = m
           /\ call' = [call EXCEPT ![k] = "preStop"]
        \/ /\ mp.state # "dead" /\ ~JoinsStop /\ ~gone /\ ~mp.spec.preStop
           /\ Signal(k, m, m.child)
     /\ UNCHANGED <<proc, closed, deaf, starting, byTimer, registered>>

PreStopEnds(k) ==
  /\ Quiet
  /\ call[k] = "preStop"
  /\ Signal(k, mp, target[k])
  /\ UNCHANGED <<proc, closed, deaf, starting, byTimer, target, registered>>

\* The grace period is over: SIGKILL.
GraceExpires(k) ==
  /\ Quiet
  /\ call[k] = "grace"
  /\ \/ /\ call' = [call EXCEPT ![k] = "safety"]
        /\ UNCHANGED mp
     \/ /\ Unkillable /\ ~HasExitCode(target[k])
        /\ mp' = KillFails(mp)
        /\ call' = [j \in Callers |-> IF j = k THEN "safety"
                                      ELSE IF call[j] = "awaiting" THEN "ready"
                                      ELSE call[j]]
  /\ UNCHANGED <<proc, closed, deaf, starting, byTimer, target, registered>>

\* No 'close' within the safety timeout.
SafetyExpires(k) ==
  LET m == AfterWait([mp EXCEPT !.killFailed = TRUE])
  IN /\ Quiet
     /\ call[k] = "safety"
     /\ mp' = m
     /\ Wake(m, {k})
     /\ UNCHANGED <<proc, closed, deaf, starting, byTimer, target, registered>>

\* Faulty variant: deregister whether or not the process could be killed.
StopReturnsBlindly(k) ==
  /\ call[k] = "ready"
  /\ call' = [call EXCEPT ![k] = "done"]
  /\ registered' = FALSE
  /\ UNCHANGED <<mp, proc, closed, deaf, starting, byTimer, target>>

\* ProcessManager.stop after its await: deregister, or throw.
StopReturns(k) ==
  /\ call[k] = "ready"
  /\ call' = [call EXCEPT ![k] = IF mp.killFailed THEN "refused" ELSE "done"]
  /\ registered' = (registered /\ mp.killFailed)
  /\ UNCHANGED <<mp, proc, closed, deaf, starting, byTimer, target>>

\* restart() after its await: throw, or forget the stop and start again.
RestartReturns(k) ==
  /\ call[k] = "ready"
  /\ \/ /\ mp.killFailed
        /\ call' = [call EXCEPT ![k] = "refused"]
        /\ UNCHANGED <<mp, proc, closed, deaf, starting, byTimer, target>>
     \/ /\ ~mp.killFailed
        /\ call' = [call EXCEPT ![k] = "done"]
        /\ Spawn([mp EXCEPT !.stopPromise = "none"], FALSE)
  /\ UNCHANGED registered

\* procman_restart; the guard keeps a spawn within the bound for it.
CallRestart(k) ==
  /\ Cardinality(Used) + Cardinality(Restarting) < MaxSpawns
  /\ CallStop(k)

-----------------------------------------------------------------------------
Init ==
  /\ mp \in {NewProcess(s) : s \in Specs}
  /\ proc = [c \in Spawns |-> "none"]
  /\ closed = {}
  /\ deaf = {}
  /\ starting = [c \in Spawns |-> "none"]
  /\ byTimer = {}
  /\ call = [k \in Callers |-> "idle"]
  /\ target = [k \in Callers |-> NoChild]
  /\ registered = FALSE

\* What the event loop runs without anybody asking for it.
ChildStep(c) ==
  \/ Spawned(c) \/ SpawnError(c) \/ StartFails(c)
  \/ StdoutCheck(c) \/ StdoutTimeout(c)
  \/ Attempt(c) \/ ProbeSucceeds(c) \/ ProbeFails(c)
  \/ Close(c)

CallStep(k) == PreStopEnds(k) \/ GraceExpires(k) \/ SafetyExpires(k)

Next ==
  \/ Start
  \/ RestartFires
  \/ ResetFires
  \/ \E c \in Spawns : ChildStep(c) \/ StdoutMatches(c)
  \/ \E c \in Spawns, how \in {"exit0", "exit1", "signalled"} : ChildExits(c, how)
  \/ \E k \in Callers : CallStep(k)
  \/ \E k \in StopCalls : CallStop(k) \/ StopReturns(k)
  \/ \E k \in RestartCalls : CallRestart(k) \/ RestartReturns(k)

Spec == Init /\ [][Next]_vars

\* Timers fire, probes and pre-stop commands answer within their timeouts, a
\* child that has exited is reaped; nothing is assumed of children or requests.
Fairness ==
  /\ WF_vars(RestartFires)
  /\ \A c \in Spawns : WF_vars(ChildStep(c))
  /\ \A k \in Callers : WF_vars(CallStep(k))
  /\ \A k \in StopCalls : WF_vars(StopReturns(k))
  /\ \A k \in RestartCalls : WF_vars(RestartReturns(k))

FairSpec == Spec /\ Fairness
-----------------------------------------------------------------------------
(* Properties.                                                             *)

States == {"starting", "running", "exited", "stopping", "failed", "dead"}

\* Type correctness of the object, the children and the calls; the restart
\* budget bounds the failure counter.
TypeOK ==
  /\ mp \in [spec : Specs, state : States, child : Spawns \cup {NoChild},
             timers : SUBSET ({RestartTimer, ResetTimer} \cup {AttemptTimer(c) : c \in Spawns}),
             stopPromise : {"none", "pending", "resolved"}, killFailed : BOOLEAN,
             failures : 0 .. mp.spec.maxRetries, healthRetries : Nat, matched : BOOLEAN]
  /\ proc \in [Spawns -> {"none", "spawning", "alive", "exit0", "exit1", "signalled", "nospawn"}]
  /\ closed \subseteq Gone
  /\ deaf \subseteq Used
  /\ starting \in [Spawns -> {"none", "spawning", "erroring", "polling", "waiting",
                              "probing", "resolved", "rejected"}]
  /\ byTimer \subseteq Used
  /\ call \in [Callers -> {"idle", "preStop", "grace", "safety", "awaiting", "ready",
                           "done", "refused"}]
  /\ target \in [Callers -> Spawns \cup {NoChild}]
  /\ registered \in BOOLEAN

\* What the next two properties leave out: output that is captured, so that the
\* close event may come long after the exit; a restart() call; and a pre-stop
\* command of a process that is polled, whose last probe may fail during it.
Undisturbed ==
  /\ ~mp.spec.piped /\ ~(mp.spec.health = "poll" /\ mp.spec.preStop)
  /\ \A k \in RestartCalls : call[k] = "idle"

\* A child that runs is the one that stop() and kill() would signal, and there is
\* no second one.
NeverOrphans == Live \subseteq {mp.child}

\* The object never loses sight of a child that runs, as long as it is
\* undisturbed.
TracksLiveChild == Undisturbed => NeverOrphans

\* A process that stop() reported stopped and that was deregistered is gone and
\* does not come back.
StaysStopped ==
  ~registered /\ Used # {} => Live = {} /\ RestartTimer \notin mp.timers

\* No stop() has reported a failed kill: the promise of one that has is what every
\* later stop() gets.
NoneRefused == \A k \in Callers : call[k] # "refused"

\* A stopped process stays stopped as long as it is undisturbed.
StoppedForGood == Undisturbed /\ NoneRefused => StaysStopped

\* A stop() reports that it could not kill the process only if there is one
\* left whose end has not been handled.
KillFailsOnlyAlive ==
  [][~mp.killFailed /\ mp'.killFailed => ~(Used \subseteq closed)]_vars

\* A process said to be running has a child whose end has not been handled.
RunningHasChild == mp.state = "running" => mp.child \in Used \ closed

\* A restart is pending only between two children, and never after a stop has
\* begun: stop() and _onExit clear the timer of an earlier one.
RestartPending ==
  Undisturbed /\ RestartTimer \in mp.timers => mp.state \in {"exited", "failed"} /\ Live = {}

\* The object and the operating system agree about the child, through late close
\* events, probes, failing spawns and automatic restarts (_spawn, _onExit).
ChildTracked == TypeOK /\ TracksLiveChild /\ RunningHasChild

\* A stop holds: the process is gone and no timer, close event or failed kill
\* brings it back (stop against _scheduleRestart).
StopHolds == StoppedForGood /\ RestartPending

\* Every stop and restart call returns or throws: the grace and safety timers
\* bound the wait even for a child that never exits.
CallsReturn == \A k \in Callers : call[k] # "idle" ~> call[k] \in {"done", "refused"}

\* Every call of start() settles.
EveryStartSettles ==
  \A c \in Spawns : starting[c] = "spawning" ~> starting[c] \in {"resolved", "rejected"}

\* Without a polling health check every call of start() settles, whatever the
\* child does.
StartSettles ==
  \A c \in Spawns :
    starting[c] = "spawning" /\ mp.spec.health # "poll" ~> starting[c] \in {"resolved", "rejected"}

\* Nobody waits for ever: stop, restart and start calls settle for children that
\* ignore signals, cannot be signalled, close late or die at any moment.
CallsSettle == CallsReturn /\ StartSettles

\* start() resolves only for a child that has not been seen to die: callers are
\* never told a dead process is healthy.
ResolvesForLiving ==
  [][\A c \in Spawns : starting'[c] = "resolved" /\ starting[c] # "resolved"
                         => c \notin closed]_vars

\* A failing start() marks the process failed only if nothing else has advanced
\* the state machine.
FailsFromStarting ==
  [][\A c \in Spawns : starting'[c] = "rejected" /\ starting[c] # "rejected"
                         => mp'.state = mp.state \/ mp.state = "starting"]_vars

\* _spawn is called only after the old child has exited.
SpawnsAfterExit ==
  [][\A c \in Spawns : proc[c] = "none" /\ proc'[c] = "spawning" => Live = {}]_vars

\* A clean exit does not restart a process whose mode is on-unexpected-exit.
CleanExitStays ==
  [][\A c \in closed' \ closed :
       proc[c] = "exit0" /\ mp.spec.mode = "on-unexpected-exit" => RestartTimer \notin mp'.timers]_vars
=============================================================================
