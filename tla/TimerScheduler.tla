--------------------------- MODULE TimerScheduler ---------------------------
(***************************************************************************)
(* The deferred timers of the daemon: the timers table, the scheduler of   *)
(* timers/timer-scheduler.ts with its pending buffer, min-heap and single  *)
(* setTimeout, the timer tool (builtin-handlers/timer-handler.ts), the     *)
(* start-up and shutdown order of index.ts, and the kill of a session that *)
(* timers are anchored to.                                                 *)
(*                                                                         *)
(* fireTimer awaits the delivery, a whole model turn, so deliveries last   *)
(* and everything else may happen meanwhile.  A run of tick() or restore() *)
(* is always suspended in exactly one delivery: flight[t] names the loop   *)
(* that awaits t, with the "now" that loop read when it began.  The heap   *)
(* is a set here; entries due at the same time leave it in any order.      *)
(***************************************************************************)
EXTENDS Integers, FiniteSets

CONSTANTS
  Timers,        \* timer ids
  Sessions,      \* session ids
  Owner,         \* the session that sets a timer
  Anchor,        \* the session a timer is anchored to, or NoSession
  NoSession,
  MinDuration,   \* MIN_DURATION_S
  MaxDuration,   \* MAX_DURATION_S
  MaxTimeout,    \* the longest delay setTimeout takes, 2^31 - 1 ms
  MaxActive,     \* MAX_ACTIVE_PER_SESSION
  ForceRelease,  \* the operator may force-release a session's running turn
  MaxStarts,     \* bound: starts of the daemon
  MaxTime        \* bound: the clock

ASSUME TimerAssumption ==
  /\ Owner \in [Timers -> Sessions]
  /\ Anchor \in [Timers -> Sessions \cup {NoSession}]
  /\ {MinDuration, MaxDuration, MaxTimeout, MaxActive, MaxStarts, MaxTime} \subseteq Nat
  /\ ForceRelease \in BOOLEAN

VARIABLES
  clock,      \* the time
  starts,     \* starts of the daemon so far
  phase,      \* the daemon: "down", "booting" (platforms are up, the scheduler is
              \* not), "up", "stopping", or "withdrawn" (the platforms are stopped)
  row,        \* the timers table: "none", "unfired" or "fired"
  fireAt,     \* the timers table: fire_at
  dead,       \* terminated sessions
  turn,       \* the turn that holds each session's slot: "idle" or "running"
  released,   \* sessions with a force-released turn still at work
  pending,    \* pendingTimers
  heap,       \* TimerHeap
  timeout,    \* when the armed setTimeout expires, or NoTimeout
  rows,       \* what restore() has left of the rows it read
  flight,     \* the deliveries under way
  fires,      \* history: deliveries begun
  outcome,    \* history: how the delivery went
  cancelled   \* history: whether cancel() returned true, and if so during restore()

table == <<row, fireAt>>
memory == <<pending, heap, timeout, rows, flight>>
history == <<fires, outcome, cancelled>>
turns == <<turn, released>>
vars == <<clock, starts, phase, dead, table, memory, history, turns>>

Time == 0 .. MaxTime

NoTimeout == -1

NoFlight == [by |-> "nobody", now |-> 0]

InFlight == {t \in Timers : flight[t] # NoFlight}

Unfired == {t \in Timers : row[t] = "unfired"}

\* The scheduler is published (setTimerScheduler); shutdown() does not withdraw it.
Installed == phase \in {"up", "stopping", "withdrawn"}

-----------------------------------------------------------------------------
(* The scheduler's helpers.                                                *)

\* The entries peek() may return.
Heads(h) == {t \in h : \A u \in h : fireAt[t] <= fireAt[u]}

\* The delay of reschedule(); setTimeout turns one that is too long into 1 ms,
\* which is no time here.
Delay(t) ==
  LET d == IF fireAt[t] > clock THEN fireAt[t] - clock ELSE 0
  IN IF d > MaxTimeout THEN 0 ELSE d

\* Faulty variant: a timeout that is armed already is left alone.
RescheduleLazily(h) ==
  IF h = {} THEN NoTimeout
  ELSE IF timeout # NoTimeout THEN timeout
  ELSE clock + Delay(CHOOSE t \in Heads(h) : TRUE)

\* reschedule()
Reschedule(h) ==
  IF h = {} THEN NoTimeout ELSE clock + Delay(CHOOSE t \in Heads(h) : TRUE)

\* The deliveries in ended are over; fires whatever is in begun, from the loop by.
Deliveries(begun, by, now, ended, how) ==
  /\ flight' = [t \in Timers |-> IF t \in begun THEN [by |-> by, now |-> now]
                                 ELSE IF t \in ended THEN NoFlight ELSE flight[t]]
  /\ fires' = [t \in Timers |-> IF t \in begun THEN fires[t] + 1 ELSE fires[t]]
  /\ outcome' = [t \in Timers |->
                   IF t \in begun
                   THEN IF phase = "withdrawn" THEN "skipped" ELSE "running"
                   ELSE IF t \in ended /\ outcome[t] = "running" THEN how
                   ELSE outcome[t]]

\* Faulty variant: the row is marked when the delivery is over.
FireTimerLate(begun, by, now, ended, how) ==
  /\ row' = [t \in Timers |-> IF t \in ended THEN "fired" ELSE row[t]]
  /\ Deliveries(begun, by, now, ended, how)

\* fireTimer(): the row is marked, then the delivery begins; deliverTimerMessage
\* skips it when the platforms have withdrawn the runtime.  The loop comes here
\* from the end of its previous delivery, the one in ended.
FireTimer(begun, by, now, ended, how) ==
  /\ row' = [t \in Timers |-> IF t \in begun THEN "fired" ELSE row[t]]
  /\ Deliveries(begun, by, now, ended, how)

\* The loop of tick() up to its next await, or to its end.
TickLoop(h, now, armed, ended, how) ==
  /\ UNCHANGED rows
  /\ \/ \E t \in Heads(h) : /\ fireAt[t] <= now
                            /\ heap' = h \ {t}
                            /\ timeout' = armed
                            /\ FireTimer({t}, "tick", now, ended, how)
     \/ /\ \A t \in h : fireAt[t] > now
        /\ heap' = h
        /\ timeout' = Reschedule(h)
        /\ FireTimer({}, "tick", now, ended, how)

\* Faulty variant: only what is due is restored.
RestoreLoopDrops(rs, now, ended, how) ==
  \/ \E t \in Heads(rs) : /\ fireAt[t] <= now
                          /\ rows' = rs \ {t}
                          /\ UNCHANGED <<heap, timeout>>
                          /\ FireTimer({t}, "restore", now, ended, how)
  \/ /\ \A t \in rs : fireAt[t] > now
     /\ rows' = {}
     /\ UNCHANGED <<heap, timeout>>
     /\ FireTimer({}, "restore", now, ended, how)

\* The loop of restore(): the rows come in the order of fire_at, so those still in
\* the future are last and need no await.
RestoreLoop(rs, now, ended, how) ==
  \/ \E t \in Heads(rs) : /\ fireAt[t] <= now
                          /\ rows' = rs \ {t}
                          /\ UNCHANGED <<heap, timeout>>
                          /\ FireTimer({t}, "restore", now, ended, how)
  \/ /\ \A t \in rs : fireAt[t] > now
     /\ rows' = {}
     /\ heap' = heap \cup rs
     /\ timeout' = Reschedule(heap \cup rs)
     /\ FireTimer({}, "restore", now, ended, how)

-----------------------------------------------------------------------------
(* The scheduler's operations.                                             *)

\* timerSet and schedule(), from a turn of the owner or from a force-released one.
Schedule(t) ==
  /\ Installed
  /\ turn[Owner[t]] = "running" \/ Owner[t] \in released
  /\ row[t] = "none"
  /\ Anchor[t] \notin dead
  /\ Cardinality({u \in Unfired : Owner[u] = Owner[t]}) < MaxActive
  /\ \E d \in MinDuration .. MaxDuration :
       /\ clock + d <= MaxTime
       /\ fireAt' = [fireAt EXCEPT ![t] = clock + d]
  /\ row' = [row EXCEPT ![t] = "unfired"]
  /\ pending' = pending \cup {t}
  /\ UNCHANGED <<clock, starts, phase, dead, heap, timeout, rows, flight, history, turns>>

\* Faulty variant: the heap keeps what is cancelled.
CancelAllHeap(ts) ==
  /\ row' = [t \in Timers |-> IF t \in ts THEN "fired" ELSE row[t]]
  /\ pending' = pending \ ts
  /\ UNCHANGED <<heap, timeout>>
  /\ cancelled' = [t \in Timers |-> IF t \in ts
                                    THEN IF t \in rows THEN "overtaken" ELSE "yes"
                                    ELSE cancelled[t]]

\* cancel() of each unfired timer in ts.  A row that restore() has read and not
\* come to yet is in neither structure: only its row is marked.
CancelAll(ts) ==
  /\ row' = [t \in Timers |-> IF t \in ts THEN "fired" ELSE row[t]]
  /\ pending' = pending \ ts
  /\ heap' = heap \ ts
  /\ timeout' = IF heap \cap ts # {} THEN Reschedule(heap \ ts) ELSE timeout
  /\ cancelled' = [t \in Timers |-> IF t \in ts
                                    THEN IF t \in rows THEN "overtaken" ELSE "yes"
                                    ELSE cancelled[t]]

\* timerCancel: the owner cancels an unfired timer.
Cancel(t) ==
  /\ Installed
  /\ turn[Owner[t]] = "running" \/ Owner[t] \in released
  /\ row[t] = "unfired"
  /\ CancelAll({t})
  /\ UNCHANGED <<clock, starts, phase, dead, fireAt, rows, flight, fires, outcome, turns>>

\* SessionManager.kill: before the scheduler is installed nothing is cancelled.
Kill(s) ==
  /\ phase # "down"
  /\ s \notin dead
  /\ dead' = dead \cup {s}
  /\ IF Installed THEN CancelAll({t \in Unfired : Anchor[t] = s})
     ELSE UNCHANGED <<row, pending, heap, timeout, cancelled>>
  /\ UNCHANGED <<clock, starts, phase, fireAt, rows, flight, fires, outcome, turns>>

\* A turn takes the session's slot in the turn queue.
TurnBegins(s) ==
  /\ phase # "down"
  /\ turn[s] = "idle"
  /\ turn' = [turn EXCEPT ![s] = "running"]
  /\ UNCHANGED <<clock, starts, phase, dead, table, memory, history, released>>

\* Faulty variant: the flush activates the timers and arms nothing.
FlushSessionQuietly(s) ==
  LET ts == {t \in pending : Owner[t] = s}
  IN /\ pending' = pending \ ts
     /\ heap' = heap \cup ts
     /\ UNCHANGED timeout

\* flushSession(s)
FlushSession(s) ==
  LET ts == {t \in pending : Owner[t] = s}
  IN /\ pending' = pending \ ts
     /\ heap' = heap \cup ts
     /\ timeout' = IF ts = {} THEN timeout ELSE Reschedule(heap \cup ts)

\* The turn that holds the slot ends: the queue calls onTurnEnd.
TurnEnds(s) ==
  /\ turn[s] = "running"
  /\ turn' = [turn EXCEPT ![s] = "idle"]
  /\ IF Installed THEN FlushSession(s) ELSE UNCHANGED <<pending, heap, timeout>>
  /\ UNCHANGED <<clock, starts, phase, dead, table, rows, flight, history, released>>

\* forceReleaseRunning: the slot is free, the turn goes on; onTurnEnd is not called.
Release(s) ==
  /\ ForceRelease
  /\ turn[s] = "running"
  /\ turn' = [turn EXCEPT ![s] = "idle"]
  /\ released' = released \cup {s}
  /\ UNCHANGED <<clock, starts, phase, dead, table, memory, history>>

\* A force-released turn ends: the queue drops it without a callback.
ReleasedEnds(s) ==
  /\ s \in released
  /\ released' = released \ {s}
  /\ UNCHANGED <<clock, starts, phase, dead, table, memory, history, turn>>

\* The timeout expires and tick() runs up to its first await.
Tick ==
  /\ timeout # NoTimeout
  /\ timeout <= clock
  /\ TickLoop(heap, clock, NoTimeout, {}, "running")
  /\ UNCHANGED <<clock, starts, phase, dead, fireAt, pending, cancelled, turns>>

\* The delivery of t ends, well or not, and the loop that awaited it goes on.
DeliveryEnds(t) ==
  /\ t \in InFlight
  /\ \E how \in {"delivered", "failed"} :
       IF flight[t].by = "tick"
       THEN TickLoop(heap, flight[t].now, timeout, {t}, how)
       ELSE RestoreLoop(rows, flight[t].now, {t}, how)
  /\ UNCHANGED <<clock, starts, phase, dead, fireAt, pending, cancelled, turns>>

-----------------------------------------------------------------------------
(* The daemon.                                                             *)

\* The process starts and brings its platforms up.
Boot ==
  /\ phase = "down"
  /\ starts < MaxStarts
  /\ starts' = starts + 1
  /\ phase' = "booting"
  /\ UNCHANGED <<clock, dead, table, memory, history, turns>>

\* initTimerScheduler: the scheduler is published and restore() runs up to its
\* first await.
Install ==
  /\ phase = "booting"
  /\ phase' = "up"
  /\ RestoreLoop(Unfired, clock, {}, "running")
  /\ UNCHANGED <<clock, starts, dead, fireAt, pending, cancelled, turns>>

\* The drain of the scheduler: shutdown() clears the timeout.
Shutdown ==
  /\ phase = "up"
  /\ phase' = "stopping"
  /\ timeout' = NoTimeout
  /\ UNCHANGED <<clock, starts, dead, table, pending, heap, rows, flight, history, turns>>

\* The drain of the platforms: the runtime extension is withdrawn.
Withdraw ==
  /\ phase = "stopping"
  /\ phase' = "withdrawn"
  /\ UNCHANGED <<clock, starts, dead, table, memory, history, turns>>

\* The process is gone, at the end of a shutdown or at any other time.
Exit ==
  /\ phase # "down"
  /\ phase' = "down"
  /\ pending' = {} /\ heap' = {} /\ timeout' = NoTimeout /\ rows' = {}
  /\ flight' = [t \in Timers |-> NoFlight]
  /\ turn' = [s \in Sessions |-> "idle"] /\ released' = {}
  /\ UNCHANGED <<clock, starts, dead, table, history>>

Advance ==
  /\ clock < MaxTime
  /\ clock' = clock + 1
  /\ UNCHANGED <<starts, phase, dead, table, memory, history, turns>>

Init ==
  /\ clock = 0 /\ starts = 0 /\ phase = "down" /\ dead = {}
  /\ row = [t \in Timers |-> "none"] /\ fireAt = [t \in Timers |-> 0]
  /\ pending = {} /\ heap = {} /\ timeout = NoTimeout /\ rows = {}
  /\ flight = [t \in Timers |-> NoFlight]
  /\ fires = [t \in Timers |-> 0] /\ outcome = [t \in Timers |-> "none"]
  /\ cancelled = [t \in Timers |-> "no"]
  /\ turn = [s \in Sessions |-> "idle"] /\ released = {}

Next ==
  \/ \E t \in Timers : Schedule(t) \/ Cancel(t) \/ DeliveryEnds(t)
  \/ \E s \in Sessions :
       Kill(s) \/ TurnBegins(s) \/ TurnEnds(s) \/ Release(s) \/ ReleasedEnds(s)
  \/ Tick \/ Boot \/ Install \/ Shutdown \/ Withdraw \/ Exit \/ Advance

Spec == Init /\ [][Next]_vars

\* Timeouts expire, turns and deliveries come to an end (the turn queue settles
\* every turn), time passes, a shutdown ends (it has a deadline), and a daemon that
\* is down is started again while MaxStarts allows.
Fairness ==
  /\ WF_vars(Tick) /\ WF_vars(Advance) /\ WF_vars(Boot) /\ WF_vars(Install)
  /\ WF_vars(phase \in {"stopping", "withdrawn"} /\ Exit)
  /\ \A t \in Timers : WF_vars(DeliveryEnds(t))
  /\ \A s \in Sessions : WF_vars(TurnEnds(s)) /\ WF_vars(ReleasedEnds(s))

FairSpec == Spec /\ Fairness

-----------------------------------------------------------------------------
(* Properties.                                                             *)

\* The types of the variables.
TypeOK ==
  /\ clock \in Time /\ starts \in 0 .. MaxStarts
  /\ phase \in {"down", "booting", "up", "stopping", "withdrawn"}
  /\ row \in [Timers -> {"none", "unfired", "fired"}]
  /\ fireAt \in [Timers -> Time]
  /\ dead \subseteq Sessions /\ released \subseteq Sessions
  /\ turn \in [Sessions -> {"idle", "running"}]
  /\ pending \subseteq Timers /\ heap \subseteq Timers /\ rows \subseteq Timers
  /\ timeout \in Time \cup {NoTimeout}
  /\ flight \in [Timers -> {NoFlight} \cup [by : {"tick", "restore"}, now : Time]]
  /\ fires \in [Timers -> Nat]
  /\ outcome \in [Timers -> {"none", "running", "delivered", "failed", "skipped"}]
  /\ cancelled \in [Timers -> {"no", "yes", "overtaken"}]

\* A timer is delivered at most once, however the daemon crashes and restarts
\* (fireTimer marks the row before it delivers).
AtMostOnce == \A t \in Timers : fires[t] <= 1

\* While the scheduler runs, no unfired row is forgotten: it is buffered until the
\* turn ends, in the heap, or still to be restored.
NoneForgotten == Installed => Unfired \subseteq pending \cup heap \cup rows

\* Whenever the heap holds an entry, its head will be looked at by the time it is
\* due: a tick is under way, or the timeout is armed for the head at the latest.
HeadIsArmed ==
  phase = "up" /\ heap # {} =>
    \/ \E t \in InFlight : flight[t].by = "tick"
    \/ /\ timeout # NoTimeout
       /\ \A t \in heap : timeout <= clock \/ timeout <= fireAt[t]

\* A timer cancelled after restore() is done with it is never delivered.
CancelHolds ==
  [][\A t \in Timers : cancelled[t] = "yes" => fires'[t] = fires[t]]_vars

\* The timeout is never armed for a time before the head is due, so that no tick
\* finds nothing to do ("zero wasted work").
ArmedForHead ==
  [][timeout' # timeout /\ timeout' # NoTimeout =>
       \E t \in heap' : timeout' >= fireAt[t]]_vars

\* A timer whose cancellation was reported is not delivered ("cancel(db, id) marks
\* fired in DB, removes from heap").
CancelledIsSilent ==
  [][\A t \in Timers : cancelled[t] # "no" => fires'[t] = fires[t]]_vars

\* "When the anchored session terminates, all timers anchored to it are canceled
\* automatically."
AnchoredIsSilent ==
  [][\A t \in Timers : Anchor[t] \in dead => fires'[t] = fires[t]]_vars

\* "If the daemon crashes and restarts, restore() picks up where it left off with
\* no timers lost": a timer marked fired was cancelled, or its delivery took place.
NoneLost ==
  \A t \in Timers :
    row[t] = "fired" /\ cancelled[t] = "no" /\ t \notin InFlight =>
      outcome[t] \in {"delivered", "failed"}

\* Every timer that is set fires, or is cancelled, in the end, unless the daemon is
\* not started any more, as long as no turn is force-released (the queue then never
\* calls onTurnEnd, and the timers of that turn wait for another one).
ScheduledFires ==
  [](released = {}) =>
    \A t \in Timers :
      row[t] = "unfired" ~> row[t] = "fired" \/ (phase = "down" /\ starts = MaxStarts)
=============================================================================
