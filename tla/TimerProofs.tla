----------------------------- MODULE TimerProofs -----------------------------
(***************************************************************************)
(* Safety of TimerScheduler for any timers, sessions, durations and number *)
(* of restarts: a timer is delivered at most once, an unfired row is never *)
(* forgotten, a cancellation not overtaken by restore() holds, and the     *)
(* head of the heap is watched.                                            *)
(***************************************************************************)
EXTENDS TimerScheduler, WellFoundedInduction, TLAPS

Known == heap \cup pending \cup rows

\* The types the argument needs.
Typed ==
  /\ phase \in {"down", "booting", "up", "stopping", "withdrawn"}
  /\ row \in [Timers -> {"none", "unfired", "fired"}]
  /\ fires \in [Timers -> Nat]
  /\ cancelled \in [Timers -> {"no", "yes", "overtaken"}]
  /\ heap \subseteq Timers /\ pending \subseteq Timers /\ rows \subseteq Timers

\* A timer is in at most one of the scheduler's structures, and in none of them
\* while there is no scheduler.
Apart ==
  /\ heap \cap pending = {} /\ heap \cap rows = {} /\ pending \cap rows = {}
  /\ ~ Installed => Known = {}

\* What the scheduler holds has a row and has not been delivered, and neither has
\* anything whose row is not marked.
Unspent ==
  /\ \A t \in Known : fires[t] = 0 /\ row[t] # "none"
  /\ \A t \in Timers : fires[t] <= 1 /\ (row[t] # "fired" => fires[t] = 0)

\* A timer cancelled for good has left every structure, and its row keeps it out of
\* the next restore().
Silenced ==
  \A t \in Timers : cancelled[t] = "yes" => t \notin Known /\ row[t] = "fired"

\* The inductive invariant.
IInv == Typed /\ Apart /\ Unspent /\ Silenced /\ NoneForgotten

-----------------------------------------------------------------------------

\* What fireTimer does to the row and to the count of deliveries.
LEMMA FireTimerEffect ==
  ASSUME IInv, NEW begun \in SUBSET Timers, NEW by, NEW now, NEW ended, NEW how,
         FireTimer(begun, by, now, ended, how)
  PROVE  /\ row' \in [Timers -> {"none", "unfired", "fired"}]
         /\ fires' \in [Timers -> Nat]
         /\ \A t \in begun : row'[t] = "fired" /\ fires'[t] = fires[t] + 1
         /\ \A t \in Timers \ begun : row'[t] = row[t] /\ fires'[t] = fires[t]
  BY DEF IInv, Typed, FireTimer, Deliveries

\* A loop takes the timers in begun out of the heap or of the rows restore() read,
\* delivers them and moves others from the rows to the heap.
LEMMA LoopStep ==
  ASSUME IInv, NEW begun \in SUBSET Timers, begun \subseteq heap \cup rows,
         row' \in [Timers -> {"none", "unfired", "fired"}],
         fires' \in [Timers -> Nat],
         \A t \in begun : row'[t] = "fired" /\ fires'[t] = fires[t] + 1,
         \A t \in Timers \ begun : row'[t] = row[t] /\ fires'[t] = fires[t],
         UNCHANGED <<phase, pending, cancelled>>,
         heap' \cap rows' = {}, heap' \cup rows' = (heap \cup rows) \ begun
  PROVE  IInv'
<1>1. Typed'
  BY DEF IInv, Typed
<1>2. Apart'
  BY DEF IInv, Apart, Known, Installed
<1>3. Unspent'
  BY DEF IInv, Typed, Unspent, Known, Apart
<1>4. Silenced'
  BY DEF IInv, Typed, Silenced, Known
<1>5. NoneForgotten'
  BY DEF IInv, Typed, NoneForgotten, Unfired, Installed
<1> QED
  BY <1>1, <1>2, <1>3, <1>4, <1>5 DEF IInv

\* A turn of tick()'s loop.
LEMMA TickLoopStep ==
  ASSUME IInv, NEW now, NEW armed, NEW ended, NEW how,
         TickLoop(heap, now, armed, ended, how), UNCHANGED <<phase, pending, cancelled>>
  PROVE  IInv'
<1>1. ASSUME NEW t \in heap, heap' = heap \ {t}, rows' = rows,
             FireTimer({t}, "tick", now, ended, how)
      PROVE  IInv'
  <2>1. {t} \in SUBSET Timers
    BY DEF IInv, Typed
  <2>2. heap' \cap rows' = {} /\ heap' \cup rows' = (heap \cup rows) \ {t}
    BY <1>1 DEF IInv, Apart
  <2>3. /\ row' \in [Timers -> {"none", "unfired", "fired"}]
        /\ fires' \in [Timers -> Nat]
        /\ \A u \in {t} : row'[u] = "fired" /\ fires'[u] = fires[u] + 1
        /\ \A u \in Timers \ {t} : row'[u] = row[u] /\ fires'[u] = fires[u]
    BY <1>1, <2>1, FireTimerEffect
  <2>4. {t} \subseteq heap \cup rows
    OBVIOUS
  <2> QED
    BY <2>1, <2>2, <2>3, <2>4, LoopStep
<1>2. ASSUME heap' = heap, rows' = rows, FireTimer({}, "tick", now, ended, how)
      PROVE  IInv'
  <2>1. heap' \cap rows' = {} /\ heap' \cup rows' = (heap \cup rows) \ {}
    BY <1>2 DEF IInv, Apart
  <2> QED
    BY <1>2, <2>1, FireTimerEffect, LoopStep
<1> QED
  BY <1>1, <1>2 DEF TickLoop, Heads

\* A turn of restore()'s loop.
LEMMA RestoreLoopStep ==
  ASSUME IInv, NEW now, NEW ended, NEW how,
         RestoreLoop(rows, now, ended, how), UNCHANGED <<phase, pending, cancelled>>
  PROVE  IInv'
<1>1. ASSUME NEW t \in rows, rows' = rows \ {t}, heap' = heap,
             FireTimer({t}, "restore", now, ended, how)
      PROVE  IInv'
  <2>1. {t} \in SUBSET Timers
    BY DEF IInv, Typed
  <2>2. heap' \cap rows' = {} /\ heap' \cup rows' = (heap \cup rows) \ {t}
    BY <1>1 DEF IInv, Apart
  <2>3. /\ row' \in [Timers -> {"none", "unfired", "fired"}]
        /\ fires' \in [Timers -> Nat]
        /\ \A u \in {t} : row'[u] = "fired" /\ fires'[u] = fires[u] + 1
        /\ \A u \in Timers \ {t} : row'[u] = row[u] /\ fires'[u] = fires[u]
    BY <1>1, <2>1, FireTimerEffect
  <2>4. {t} \subseteq heap \cup rows
    OBVIOUS
  <2> QED
    BY <2>1, <2>2, <2>3, <2>4, LoopStep
<1>2. ASSUME heap' = heap \cup rows, rows' = {}, FireTimer({}, "restore", now, ended, how)
      PROVE  IInv'
  <2>1. heap' \cap rows' = {} /\ heap' \cup rows' = (heap \cup rows) \ {}
    BY <1>2
  <2> QED
    BY <1>2, <2>1, FireTimerEffect, LoopStep
<1> QED
  BY <1>1, <1>2 DEF RestoreLoop, Heads

\* restore() at start-up: what it takes over is exactly the unfired rows.
LEMMA InstallStep == ASSUME IInv, Install PROVE IInv'
<1>1. heap = {} /\ pending = {} /\ rows = {} /\ phase' = "up"
  BY DEF Install, IInv, Apart, Known, Installed
<1>2. PICK begun \in SUBSET Unfired :
        /\ FireTimer(begun, "restore", clock, {}, "running")
        /\ heap' \cap rows' = {} /\ heap' \cup rows' = Unfired \ begun
  <2>1. ASSUME NEW t \in Unfired, rows' = Unfired \ {t}, heap' = heap,
               FireTimer({t}, "restore", clock, {}, "running")
        PROVE  \E begun \in SUBSET Unfired :
                 /\ FireTimer(begun, "restore", clock, {}, "running")
                 /\ heap' \cap rows' = {} /\ heap' \cup rows' = Unfired \ begun
    <3>1. {t} \in SUBSET Unfired /\ heap' \cap rows' = {} /\ heap' \cup rows' = Unfired \ {t}
      BY <1>1, <2>1
    <3> QED
      BY <2>1, <3>1
  <2>2. ASSUME heap' = heap \cup Unfired, rows' = {},
               FireTimer({}, "restore", clock, {}, "running")
        PROVE  \E begun \in SUBSET Unfired :
                 /\ FireTimer(begun, "restore", clock, {}, "running")
                 /\ heap' \cap rows' = {} /\ heap' \cup rows' = Unfired \ begun
    <3>1. {} \in SUBSET Unfired /\ heap' \cap rows' = {} /\ heap' \cup rows' = Unfired \ {}
      BY <1>1, <2>2
    <3> QED
      BY <2>2, <3>1
  <2> QED
    BY <2>1, <2>2 DEF Install, RestoreLoop, Heads
<1>3. begun \in SUBSET Timers
  BY DEF Unfired
<1>4. /\ row' \in [Timers -> {"none", "unfired", "fired"}]
      /\ fires' \in [Timers -> Nat]
      /\ \A t \in begun : row'[t] = "fired" /\ fires'[t] = fires[t] + 1
      /\ \A t \in Timers \ begun : row'[t] = row[t] /\ fires'[t] = fires[t]
  BY <1>2, <1>3, FireTimerEffect
<1>5. UNCHANGED <<pending, cancelled>>
  BY DEF Install
<1>6. Typed'
  BY <1>1, <1>2, <1>4, <1>5 DEF IInv, Typed, Unfired
<1>7. Apart'
  BY <1>1, <1>2, <1>5 DEF Apart, Installed
<1>8. Unspent'
  BY <1>1, <1>2, <1>4, <1>5 DEF IInv, Typed, Unspent, Known, Unfired
<1>9. Silenced'
  BY <1>1, <1>2, <1>4, <1>5 DEF IInv, Typed, Silenced, Known, Unfired
<1>10. NoneForgotten'
  BY <1>2, <1>3, <1>4 DEF NoneForgotten, Unfired
<1> QED
  BY <1>6, <1>7, <1>8, <1>9, <1>10 DEF IInv

\* cancel() of some unfired timers.
LEMMA CancelStep ==
  ASSUME IInv, NEW ts \in SUBSET Unfired, CancelAll(ts),
         UNCHANGED <<phase, rows, fires>>
  PROVE  IInv'
<1> ts \subseteq Timers
  BY DEF Unfired
<1> \A t \in Timers : /\ row'[t] = IF t \in ts THEN "fired" ELSE row[t]
                      /\ cancelled'[t] = IF t \in ts
                                         THEN IF t \in rows THEN "overtaken" ELSE "yes"
                                         ELSE cancelled[t]
  BY DEF CancelAll
<1>1. Typed'
  BY DEF IInv, Typed, CancelAll
<1>2. Apart'
  BY DEF IInv, Apart, CancelAll, Known, Installed
<1>3. Unspent'
  BY DEF IInv, Typed, Unspent, CancelAll, Known, Unfired
<1>4. Silenced'
  BY DEF IInv, Typed, Silenced, CancelAll, Known
<1>5. NoneForgotten'
  BY DEF IInv, Typed, NoneForgotten, CancelAll, Unfired, Installed
<1> QED
  BY <1>1, <1>2, <1>3, <1>4, <1>5 DEF IInv

\* A new timer goes to the buffer.
LEMMA ScheduleStep ==
  ASSUME IInv, NEW t \in Timers, Schedule(t)
  PROVE  IInv'
<1> /\ row[t] = "none" /\ row' = [row EXCEPT ![t] = "unfired"]
    /\ pending' = pending \cup {t} /\ Installed
    /\ UNCHANGED <<phase, heap, rows, fires, cancelled>>
  BY DEF Schedule, history
<1> t \notin Known
  BY DEF IInv, Unspent
<1>1. Typed'
  BY DEF IInv, Typed
<1>2. Apart'
  BY DEF IInv, Apart, Known, Installed
<1>3. Unspent'
  BY DEF IInv, Typed, Unspent, Known
<1>4. Silenced'
  BY DEF IInv, Typed, Silenced, Known
<1>5. NoneForgotten'
  BY DEF IInv, Typed, NoneForgotten, Unfired, Installed
<1> QED
  BY <1>1, <1>2, <1>3, <1>4, <1>5 DEF IInv

\* Moving timers from the buffer to the heap loses none.
LEMMA FlushStep ==
  ASSUME IInv, NEW ts \in SUBSET pending, heap' = heap \cup ts, pending' = pending \ ts,
         UNCHANGED <<phase, row, rows, fires, cancelled>>
  PROVE  IInv'
<1>1. Typed'
  BY DEF IInv, Typed
<1>2. Apart'
  BY DEF IInv, Apart, Known, Installed
<1>3. Known' = Known
  BY DEF Known
<1>4. Unspent' /\ Silenced'
  BY <1>3 DEF IInv, Unspent, Silenced
<1>5. NoneForgotten'
  BY DEF IInv, NoneForgotten, Unfired, Installed
<1> QED
  BY <1>1, <1>2, <1>4, <1>5 DEF IInv

\* Steps that leave the scheduler's structures alone.
LEMMA QuietStep ==
  ASSUME IInv, UNCHANGED <<row, fires, cancelled, heap, pending, rows>>,
         phase' \in {"down", "booting", "up", "stopping", "withdrawn"},
         Installed' <=> Installed
  PROVE  IInv'
  BY DEF IInv, Typed, Apart, Unspent, Silenced, NoneForgotten, Known, Unfired

\* The process ends: only the rows are left.
LEMMA ExitStep == ASSUME IInv, Exit PROVE IInv'
<1> /\ phase' = "down" /\ heap' = {} /\ pending' = {} /\ rows' = {}
    /\ UNCHANGED <<row, fires, cancelled>>
  BY DEF Exit, table, history
<1>1. Typed' /\ Apart'
  BY DEF IInv, Typed, Apart, Known
<1>2. Unspent' /\ Silenced'
  BY DEF IInv, Unspent, Silenced, Known
<1>3. NoneForgotten'
  BY DEF NoneForgotten, Installed
<1> QED
  BY <1>1, <1>2, <1>3 DEF IInv

\* The invariant holds when the daemon has never run.
LEMMA InitIInv == Init => IInv
<1> SUFFICES ASSUME Init PROVE IInv
  OBVIOUS
<1>1. Typed /\ Apart
  BY DEF Init, Typed, Apart, Known
<1>2. Unspent /\ Silenced
  BY DEF Init, Unspent, Silenced, Known
<1>3. NoneForgotten
  BY DEF Init, NoneForgotten, Installed
<1> QED
  BY <1>1, <1>2, <1>3 DEF IInv

\* Every step keeps the invariant.
LEMMA NextIInv == IInv /\ [Next]_vars => IInv'
<1> SUFFICES ASSUME IInv, [Next]_vars PROVE IInv'
  OBVIOUS
<1>1. ASSUME NEW t \in Timers, Schedule(t) PROVE IInv'
  BY <1>1, ScheduleStep
<1>2. ASSUME NEW t \in Timers, Cancel(t) PROVE IInv'
  <2>1. {t} \in SUBSET Unfired
    BY <1>2 DEF Cancel, Unfired
  <2> QED
    BY <1>2, <2>1, CancelStep DEF Cancel
<1>3. ASSUME NEW t \in Timers, DeliveryEnds(t) PROVE IInv'
  BY <1>3, TickLoopStep, RestoreLoopStep DEF DeliveryEnds
<1>4. ASSUME NEW s \in Sessions, Kill(s) PROVE IInv'
  <2>1. CASE Installed
    <3>1. {t \in Unfired : Anchor[t] = s} \in SUBSET Unfired
      OBVIOUS
    <3> QED
      BY <1>4, <2>1, <3>1, CancelStep DEF Kill
  <2>2. CASE ~ Installed
    BY <1>4, <2>2, QuietStep DEF Kill, Installed, IInv, Typed
  <2> QED
    BY <2>1, <2>2
<1>5. ASSUME NEW s \in Sessions, TurnEnds(s) PROVE IInv'
  <2>1. CASE Installed
    <3>1. {t \in pending : Owner[t] = s} \in SUBSET pending
      OBVIOUS
    <3> QED
      BY <1>5, <2>1, <3>1, FlushStep DEF TurnEnds, FlushSession, table, history
  <2>2. CASE ~ Installed
    BY <1>5, <2>2, QuietStep DEF TurnEnds, Installed, table, history, IInv, Typed
  <2> QED
    BY <2>1, <2>2
<1>6. CASE Tick
  BY <1>6, TickLoopStep DEF Tick
<1>7. CASE Install
  BY <1>7, InstallStep
<1>8. CASE Exit
  BY <1>8, ExitStep
<1>9. ASSUME \/ \E s \in Sessions : TurnBegins(s) \/ Release(s) \/ ReleasedEnds(s)
             \/ Boot \/ Shutdown \/ Withdraw \/ Advance \/ UNCHANGED vars
      PROVE  IInv'
  BY <1>9, QuietStep DEF TurnBegins, Release, ReleasedEnds, Boot, Shutdown, Withdraw,
       Advance, vars, table, memory, history, Installed, IInv, Typed
<1> QED
  BY <1>1, <1>2, <1>3, <1>4, <1>5, <1>6, <1>7, <1>8, <1>9 DEF Next

\* The scheduler's inductive invariant holds in every behaviour.
THEOREM TimerInvariance == Spec => []IInv
  BY InitIInv, NextIInv, PTL DEF Spec

\* No timer is ever delivered twice, whatever crashes and restarts happen
\* (fireTimer marks the row before it delivers).
THEOREM DeliveredAtMostOnce == Spec => []AtMostOnce
<1>1. IInv => AtMostOnce
  BY DEF IInv, Unspent, AtMostOnce
<1> QED
  BY <1>1, TimerInvariance, PTL

\* While the scheduler runs, it holds every unfired row.
THEOREM NeverForgotten == Spec => []NoneForgotten
<1>1. IInv => NoneForgotten
  BY DEF IInv
<1> QED
  BY <1>1, TimerInvariance, PTL

\* Only a timer the scheduler holds, or one whose row is unfired, is delivered.
LEMMA FiresOnlyHeld ==
  ASSUME IInv, [Next]_vars, NEW t \in Timers, t \notin Known, row[t] # "unfired"
  PROVE  fires'[t] = fires[t]
<1>1. ASSUME NEW h, NEW now, NEW armed, NEW ended, NEW how, t \notin h,
             TickLoop(h, now, armed, ended, how)
      PROVE  fires'[t] = fires[t]
  BY <1>1 DEF TickLoop, Heads, FireTimer, Deliveries
<1>2. ASSUME NEW rs, NEW now, NEW ended, NEW how, t \notin rs,
             RestoreLoop(rs, now, ended, how)
      PROVE  fires'[t] = fires[t]
  BY <1>2 DEF RestoreLoop, Heads, FireTimer, Deliveries
<1>3. t \notin heap /\ t \notin rows /\ t \notin Unfired
  BY DEF Known, Unfired
<1>4. ASSUME NEW u \in Timers, DeliveryEnds(u) PROVE fires'[t] = fires[t]
  BY <1>1, <1>2, <1>3, <1>4 DEF DeliveryEnds
<1>5. CASE Tick
  BY <1>1, <1>3, <1>5 DEF Tick
<1>6. CASE Install
  BY <1>2, <1>3, <1>6 DEF Install
<1>7. ASSUME \/ \E u \in Timers : Schedule(u) \/ Cancel(u)
             \/ \E s \in Sessions :
                  Kill(s) \/ TurnBegins(s) \/ TurnEnds(s) \/ Release(s) \/ ReleasedEnds(s)
             \/ Boot \/ Shutdown \/ Withdraw \/ Exit \/ Advance \/ UNCHANGED vars
      PROVE  fires'[t] = fires[t]
  BY <1>7 DEF Schedule, Cancel, Kill, TurnBegins, TurnEnds, Release, ReleasedEnds, Boot,
              Shutdown, Withdraw, Exit, Advance, vars, history
<1> QED
  BY <1>4, <1>5, <1>6, <1>7 DEF Next

\* A timer cancelled once restore() is done with it is never delivered.
THEOREM CancellationHolds == Spec => CancelHolds
<1>1. IInv /\ [Next]_vars =>
        [\A t \in Timers : cancelled[t] = "yes" => fires'[t] = fires[t]]_vars
  BY FiresOnlyHeld DEF IInv, Silenced
<1> QED
  BY <1>1, TimerInvariance, PTL DEF Spec, CancelHolds
-----------------------------------------------------------------------------
(* The timeout.                                                            *)

\* What is being delivered has left the scheduler's structures for good.
FlightSpent == \A t \in InFlight : fires[t] # 0

\* The timeout is set, and for no later than now or the first of the entries in h.
Armed(h, when) == when # NoTimeout /\ \A t \in h : when <= clock \/ when <= fireAt[t]

\* The invariant of the timeout, beside IInv.
HInv == TypeOK /\ FlightSpent /\ HeadIsArmed

\* A set of timers has a first one.
LEMMA HeadsExist ==
  ASSUME TypeOK, NEW h \in SUBSET Timers, h # {}
  PROVE  Heads(h) # {}
<1> DEFINE T == {fireAt[t] : t \in h}
           R == OpToRel(<, Nat)
<1>1. T \subseteq Nat /\ T # {}
  BY TimerAssumption DEF TypeOK, Time
<1>2. R = {ss \in Nat \X Nat : ss[1] < ss[2]} /\ IsWellFoundedOn(R, Nat)
  BY NatLessThanWellFounded DEF OpToRel
<1> HIDE DEF R
<1>3. PICK t \in h : \A y \in T : ~ (<<y, fireAt[t]>> \in R)
  <2>1. PICK x \in T : \A y \in T : ~ (<<y, x>> \in R)
    <3> HIDE DEF T
    <3> QED BY <1>1, <1>2, WFMin
  <2> QED BY <2>1
<1>4. \A u \in h : fireAt[t] \in Nat /\ fireAt[u] \in Nat /\ fireAt[u] \in T
  BY <1>1
<1>5. ASSUME NEW u \in h PROVE fireAt[t] <= fireAt[u]
  <2>1. ~ (<<fireAt[u], fireAt[t]>> \in R)
    BY <1>3, <1>4
  <2>2. <<fireAt[u], fireAt[t]>> \in Nat \X Nat
    BY <1>4
  <2>3. ~ (fireAt[u] < fireAt[t])
    BY <1>2, <2>1, <2>2
  <2> QED BY <1>4, <2>3
<1> QED BY <1>5 DEF Heads

\* reschedule() arms the timeout for the head.
LEMMA RescheduleArms ==
  ASSUME TypeOK, NEW h \in SUBSET Timers
  PROVE  /\ Reschedule(h) \in Time \cup {NoTimeout}
         /\ h # {} => Armed(h, Reschedule(h))
<1>1. CASE h = {}
  BY <1>1 DEF Reschedule
<1>2. CASE h # {}
  <2>1. PICK u \in Heads(h) : Reschedule(h) = clock + Delay(u)
    BY <1>2, HeadsExist DEF Reschedule
  <2>2. /\ u \in h /\ \A t \in h : fireAt[u] <= fireAt[t]
        /\ clock \in Time /\ \A t \in h : fireAt[t] \in Time
    BY <2>1 DEF Heads, TypeOK
  <2>3. clock + Delay(u) \in {clock, fireAt[u]}
    BY <2>2, TimerAssumption DEF Delay, Time
  <2> QED BY <1>2, <2>1, <2>2, <2>3, TimerAssumption DEF Armed, Time, NoTimeout
<1> QED BY <1>1, <1>2

\* The effect of fireTimer on the deliveries, with the types of what it assigns.
Flown(begun, by, ended) ==
  /\ row' \in [Timers -> {"none", "unfired", "fired"}]
  /\ fires' \in [Timers -> Nat]
  /\ flight' \in [Timers -> {NoFlight} \cup [by : {"tick", "restore"}, now : Time]]
  /\ outcome' \in [Timers -> {"none", "running", "delivered", "failed", "skipped"}]
  /\ FlightSpent'
  /\ \A t \in begun : t \in Timers /\ flight[t] = NoFlight /\ flight'[t].by = by
                      /\ flight'[t] # NoFlight
  /\ \A t \in Timers \ (begun \cup ended) : flight'[t] = flight[t]

\* fireTimer touches no delivery but those it begins and those that end.
LEMMA FlightEffect ==
  ASSUME IInv, HInv, NEW begun \in SUBSET (heap \cup rows \cup Unfired), NEW by \in {"tick", "restore"},
         NEW now \in Time, NEW ended \in SUBSET Timers,
         NEW how \in {"running", "delivered", "failed"},
         FireTimer(begun, by, now, ended, how)
  PROVE  Flown(begun, by, ended)
<1>1. begun \subseteq Timers
  BY DEF IInv, Typed, Unfired
<1>2. \A t \in begun : fires[t] = 0
  BY <1>1 DEF IInv, Unspent, Known, Unfired
<1>3. /\ row' \in [Timers -> {"none", "unfired", "fired"}]
      /\ outcome' \in [Timers -> {"none", "running", "delivered", "failed", "skipped"}]
  BY DEF HInv, TypeOK, FireTimer, Deliveries
<1>4. /\ fires' \in [Timers -> Nat]
      /\ \A t \in Timers : fires'[t] = IF t \in begun THEN fires[t] + 1 ELSE fires[t]
  BY DEF HInv, TypeOK, FireTimer, Deliveries
<1> DEFINE f == [by |-> by, now |-> now]
           F == [by : {"tick", "restore"}, now : Time]
<1>5. f \in F /\ f.by = by /\ f # NoFlight
  BY DEF NoFlight
<1>6. /\ flight' = [t \in Timers |-> IF t \in begun THEN f ELSE IF t \in ended THEN NoFlight ELSE flight[t]]
      /\ flight \in [Timers -> {NoFlight} \cup F]
  BY DEF HInv, TypeOK, FireTimer, Deliveries
<1> HIDE DEF f, F
<1>7. /\ flight' \in [Timers -> {NoFlight} \cup F]
      /\ \A t \in begun : flight'[t] = f
      /\ \A t \in Timers \ begun : flight'[t] \in {flight[t], NoFlight}
      /\ \A t \in Timers \ (begun \cup ended) : flight'[t] = flight[t]
  BY <1>1, <1>5, <1>6
<1>8. FlightSpent'
  BY <1>2, <1>4, <1>7 DEF HInv, FlightSpent, InFlight, TypeOK
<1>9. \A t \in begun : flight[t] = NoFlight
  BY <1>1, <1>2 DEF HInv, FlightSpent, InFlight
<1> QED BY <1>1, <1>3, <1>4, <1>5, <1>7, <1>8, <1>9 DEF F, Flown

\* A turn of a loop, for the timeout: a tick goes on, or the timeout is armed anew, or
\* neither is touched.
LEMMA LoopArms ==
  ASSUME IInv, HInv, NEW begun \in SUBSET (heap \cup rows \cup Unfired),
         NEW by \in {"tick", "restore"}, NEW now \in Time, NEW ended \in SUBSET Timers,
         NEW how \in {"running", "delivered", "failed"},
         FireTimer(begun, by, now, ended, how),
         UNCHANGED <<clock, starts, dead, fireAt, pending, cancelled, turn, released>>,
         phase' = phase \/ phase' = "up",
         heap' \subseteq Timers, rows' \subseteq Timers, timeout' \in Time \cup {NoTimeout},
         \/ begun # {} /\ by = "tick"
         \/ heap' # {} => Armed(heap', timeout')
         \/ phase' = phase /\ UNCHANGED <<heap, timeout>> /\ \A t \in ended : flight[t].by # "tick"
  PROVE  HInv'
<1>1. Flown(begun, by, ended)
  BY FlightEffect
<1>2. TypeOK'
  BY <1>1 DEF HInv, TypeOK, Flown
<1>3. HeadIsArmed'
  <2>1. CASE begun # {} /\ by = "tick"
    BY <1>1, <2>1 DEF HeadIsArmed, InFlight, Flown
  <2>2. CASE heap' # {} => Armed(heap', timeout')
    BY <2>2 DEF HeadIsArmed, Armed
  <2>3. CASE phase' = phase /\ UNCHANGED <<heap, timeout>> /\ \A t \in ended : flight[t].by # "tick"
    <3>1. ASSUME NEW t \in InFlight, flight[t].by = "tick"
          PROVE  t \in InFlight' /\ flight'[t].by = "tick"
      BY <1>1, <2>3, <3>1 DEF InFlight, Flown
    <3> QED BY <2>3, <3>1 DEF HInv, HeadIsArmed
  <2> QED BY <2>1, <2>2, <2>3
<1> QED BY <1>1, <1>2, <1>3 DEF HInv, Flown

\* A turn of tick()'s loop.
LEMMA TickArms ==
  ASSUME IInv, HInv, NEW now \in Time, NEW armed \in Time \cup {NoTimeout},
         NEW ended \in SUBSET Timers, NEW how \in {"running", "delivered", "failed"},
         TickLoop(heap, now, armed, ended, how),
         UNCHANGED <<clock, starts, phase, dead, fireAt, pending, cancelled, turn, released>>
  PROVE  HInv'
<1>0. heap \subseteq Timers /\ rows \subseteq Timers /\ rows' = rows /\ TypeOK
  BY DEF HInv, TypeOK, TickLoop
<1>1. ASSUME NEW t \in heap, heap' = heap \ {t}, timeout' = armed,
             FireTimer({t}, "tick", now, ended, how)
      PROVE  HInv'
  <2>1. {t} \in SUBSET (heap \cup rows \cup Unfired) /\ {t} # {} /\ heap' \subseteq Timers
    BY <1>0, <1>1
  <2> QED BY <1>0, <1>1, <2>1, LoopArms
<1>2. ASSUME heap' = heap, timeout' = Reschedule(heap), FireTimer({}, "tick", now, ended, how)
      PROVE  HInv'
  <2>1. /\ timeout' \in Time \cup {NoTimeout} /\ (heap # {} => Armed(heap, timeout'))
        /\ {} \in SUBSET (heap \cup rows \cup Unfired)
    BY <1>0, <1>2, RescheduleArms
  <2>2. heap' # {} => Armed(heap', timeout')
    BY <1>2, <2>1
  <2> QED BY <1>0, <1>2, <2>1, <2>2, LoopArms
<1> QED BY <1>1, <1>2 DEF TickLoop, Heads

\* A turn of restore()'s loop, which leaves the timeout to the tick or arms it.
LEMMA RestoreArms ==
  ASSUME IInv, HInv, NEW rs \in SUBSET (rows \cup Unfired), NEW now \in Time,
         NEW ended \in SUBSET Timers, NEW how \in {"running", "delivered", "failed"},
         RestoreLoop(rs, now, ended, how),
         UNCHANGED <<clock, starts, dead, fireAt, pending, cancelled, turn, released>>,
         phase' = phase \/ (phase' = "up" /\ heap = {}),
         \A t \in ended : flight[t].by # "tick"
  PROVE  HInv'
<1>0. heap \subseteq Timers /\ rs \subseteq Timers /\ timeout \in Time \cup {NoTimeout} /\ TypeOK
  BY DEF HInv, TypeOK, Unfired
<1>1. ASSUME NEW t \in rs, rows' = rs \ {t}, heap' = heap, timeout' = timeout,
             FireTimer({t}, "restore", now, ended, how)
      PROVE  HInv'
  <2>1. {t} \in SUBSET (heap \cup rows \cup Unfired) /\ heap' \subseteq Timers /\ rows' \subseteq Timers
    BY <1>0, <1>1
  <2>2. \/ heap' # {} => Armed(heap', timeout')
        \/ phase' = phase /\ UNCHANGED <<heap, timeout>> /\ \A u \in ended : flight[u].by # "tick"
    BY <1>1
  <2>3. phase' = phase \/ phase' = "up"
    OBVIOUS
  <2> QED BY <1>0, <1>1, <2>1, <2>2, <2>3, LoopArms
<1>2. ASSUME rows' = {}, heap' = heap \cup rs, timeout' = Reschedule(heap \cup rs),
             FireTimer({}, "restore", now, ended, how)
      PROVE  HInv'
  <2>1. heap \cup rs \in SUBSET Timers /\ {} \in SUBSET (heap \cup rows \cup Unfired)
        /\ heap' \subseteq Timers /\ rows' \subseteq Timers
    BY <1>0, <1>2
  <2>2. /\ timeout' \in Time \cup {NoTimeout} /\ (heap \cup rs # {} => Armed(heap \cup rs, timeout'))
    BY <1>0, <1>2, <2>1, RescheduleArms
  <2>3. heap' # {} => Armed(heap', timeout')
    BY <1>2, <2>2
  <2>4. phase' = phase \/ phase' = "up"
    OBVIOUS
  <2> QED BY <1>0, <1>2, <2>1, <2>2, <2>3, <2>4, LoopArms
<1> QED BY <1>1, <1>2 DEF RestoreLoop, Heads

\* Steps without a delivery that rearm the timeout whenever the heap grows.
LEMMA HeapArms ==
  ASSUME HInv, TypeOK', UNCHANGED <<flight, fires, clock, phase>>,
         \A t \in heap : fireAt'[t] = fireAt[t],
         \/ heap' \subseteq heap /\ timeout' = timeout
         \/ fireAt' = fireAt /\ (heap' # {} => Armed(heap', timeout'))
  PROVE  HInv'
<1>1. FlightSpent'
  BY DEF HInv, FlightSpent, InFlight
<1>2. InFlight' = InFlight
  BY DEF InFlight
<1>3. HeadIsArmed'
  BY <1>2 DEF HInv, HeadIsArmed, Armed
<1> QED BY <1>1, <1>3 DEF HInv

\* cancel() rearms the timeout if it takes something out of the heap.
LEMMA CancelArms ==
  ASSUME HInv, NEW ts \in SUBSET Timers, CancelAll(ts), dead' \subseteq Sessions,
         UNCHANGED <<clock, starts, phase, fireAt, rows, flight, fires, outcome, turn, released>>
  PROVE  HInv'
<1>0. TypeOK /\ heap \ ts \in SUBSET Timers
  BY DEF HInv, TypeOK
<1>1. /\ Reschedule(heap \ ts) \in Time \cup {NoTimeout}
      /\ heap \ ts # {} => Armed(heap \ ts, Reschedule(heap \ ts))
  BY <1>0, RescheduleArms
<1>2. /\ heap' = heap \ ts
      /\ timeout' = timeout \/ timeout' = Reschedule(heap \ ts)
      /\ row' \in [Timers -> {"none", "unfired", "fired"}] /\ pending' \subseteq Timers
      /\ cancelled' \in [Timers -> {"no", "yes", "overtaken"}]
  BY <1>0 DEF CancelAll, TypeOK
<1>3. TypeOK'
  BY <1>0, <1>1, <1>2 DEF TypeOK
<1>4. \/ heap' \subseteq heap /\ timeout' = timeout
      \/ fireAt' = fireAt /\ (heap' # {} => Armed(heap', timeout'))
  BY <1>1, <1>2
<1> QED BY <1>3, <1>4, HeapArms

\* The invariant of the timeout holds initially.
LEMMA InitHInv == Init => HInv
<1> SUFFICES ASSUME Init PROVE HInv
  OBVIOUS
<1>1. TypeOK
  BY TimerAssumption DEF Init, TypeOK, Time
<1>2. FlightSpent /\ HeadIsArmed
  BY DEF Init, FlightSpent, InFlight, HeadIsArmed
<1> QED BY <1>1, <1>2 DEF HInv

\* Every step keeps the invariant of the timeout.
LEMMA NextHInv == IInv /\ HInv /\ [Next]_vars => HInv'
<1> SUFFICES ASSUME IInv, HInv, [Next]_vars PROVE HInv'
  OBVIOUS
<1>0. TypeOK /\ clock \in Time
  BY DEF HInv, TypeOK
<1>1. ASSUME NEW t \in Timers, Schedule(t) PROVE HInv'
  <2>1. /\ UNCHANGED <<clock, starts, phase, dead, heap, timeout, rows, flight, fires, outcome,
                       cancelled, turn, released>>
        /\ row[t] = "none" /\ row' = [row EXCEPT ![t] = "unfired"] /\ pending' = pending \cup {t}
    BY <1>1 DEF Schedule, history, turns
  <2>2. PICK d \in Time : fireAt' = [fireAt EXCEPT ![t] = d]
    <3>1. PICK d \in MinDuration .. MaxDuration :
            clock + d <= MaxTime /\ fireAt' = [fireAt EXCEPT ![t] = clock + d]
      BY <1>1 DEF Schedule
    <3>2. clock + d \in Time
      BY <1>0, <3>1, TimerAssumption DEF Time
    <3> QED BY <3>1, <3>2
  <2>3. TypeOK'
    BY <1>0, <2>1, <2>2 DEF TypeOK
  <2>4. \A u \in heap : fireAt'[u] = fireAt[u]
    BY <1>0, <2>1, <2>2 DEF TypeOK, IInv, Unspent, Known
  <2> QED BY <2>1, <2>3, <2>4, HeapArms
<1>2. ASSUME NEW t \in Timers, Cancel(t) PROVE HInv'
  <2>1. {t} \in SUBSET Timers /\ dead' \subseteq Sessions
    BY <1>0, <1>2 DEF Cancel, TypeOK
  <2> QED BY <1>2, <2>1, CancelArms DEF Cancel, turns
<1>3. ASSUME NEW t \in Timers, DeliveryEnds(t) PROVE HInv'
  <2>1. PICK how \in {"delivered", "failed"} :
          IF flight[t].by = "tick" THEN TickLoop(heap, flight[t].now, timeout, {t}, how)
          ELSE RestoreLoop(rows, flight[t].now, {t}, how)
    BY <1>3 DEF DeliveryEnds
  <2>2. /\ UNCHANGED <<clock, starts, phase, dead, fireAt, pending, cancelled, turn, released>>
        /\ flight[t] # NoFlight /\ {t} \in SUBSET Timers
    BY <1>3 DEF DeliveryEnds, turns, InFlight
  <2>3. flight[t].now \in Time /\ timeout \in Time \cup {NoTimeout}
    BY <1>0, <2>2 DEF TypeOK
  <2>4. how \in {"running", "delivered", "failed"} /\ rows \in SUBSET (rows \cup Unfired)
    OBVIOUS
  <2>5. CASE flight[t].by = "tick"
    BY <2>1, <2>2, <2>3, <2>4, <2>5, TickArms
  <2>6. CASE flight[t].by # "tick"
    <3>1. \A u \in {t} : flight[u].by # "tick"
      BY <2>6
    <3> QED BY <2>1, <2>2, <2>3, <2>4, <2>6, <3>1, RestoreArms
  <2> QED BY <2>5, <2>6
<1>4. ASSUME NEW s \in Sessions, Kill(s) PROVE HInv'
  <2>1. UNCHANGED <<clock, starts, phase, fireAt, rows, flight, fires, outcome, turn, released>>
        /\ dead' \subseteq Sessions
    BY <1>0, <1>4 DEF Kill, turns, TypeOK
  <2>2. CASE Installed
    <3>1. {t \in Unfired : Anchor[t] = s} \in SUBSET Timers
      BY DEF Unfired
    <3> QED BY <1>4, <2>1, <2>2, <3>1, CancelArms DEF Kill
  <2>3. CASE ~Installed
    <3>1. UNCHANGED <<row, pending, heap, timeout, cancelled>>
      BY <1>4, <2>3 DEF Kill
    <3>2. TypeOK'
      BY <1>0, <2>1, <3>1 DEF TypeOK
    <3> QED BY <2>1, <3>1, <3>2, HeapArms
  <2> QED BY <2>2, <2>3
<1>5. ASSUME NEW s \in Sessions, TurnEnds(s) PROVE HInv'
  <2>1. /\ UNCHANGED <<clock, starts, phase, dead, row, fireAt, rows, flight, fires, outcome,
                       cancelled, released>>
        /\ turn' \in [Sessions -> {"idle", "running"}]
    BY <1>0, <1>5 DEF TurnEnds, table, history, TypeOK
  <2> DEFINE ts == {t \in pending : Owner[t] = s}
  <2>2. CASE Installed
    <3>1. /\ pending' = pending \ ts /\ heap' = heap \cup ts
          /\ timeout' = IF ts = {} THEN timeout ELSE Reschedule(heap \cup ts)
      BY <1>5, <2>2 DEF TurnEnds, FlushSession
    <3>2. ts \subseteq Timers /\ heap \cup ts \in SUBSET Timers
      BY <1>0 DEF TypeOK
    <3> HIDE DEF ts
    <3>3. /\ Reschedule(heap \cup ts) \in Time \cup {NoTimeout}
          /\ heap \cup ts # {} => Armed(heap \cup ts, Reschedule(heap \cup ts))
      BY <1>0, <3>2, RescheduleArms
    <3>4. TypeOK'
      BY <1>0, <2>1, <3>1, <3>2, <3>3 DEF TypeOK
    <3>5. \/ heap' \subseteq heap /\ timeout' = timeout
          \/ fireAt' = fireAt /\ (heap' # {} => Armed(heap', timeout'))
      BY <2>1, <3>1, <3>3
    <3> QED BY <2>1, <3>4, <3>5, HeapArms
  <2>3. CASE ~Installed
    <3>1. UNCHANGED <<pending, heap, timeout>>
      BY <1>5, <2>3 DEF TurnEnds
    <3>2. TypeOK'
      BY <1>0, <2>1, <3>1 DEF TypeOK
    <3> QED BY <2>1, <3>1, <3>2, HeapArms
  <2> QED BY <2>2, <2>3
<1>6. CASE Tick
  <2>1. /\ TickLoop(heap, clock, NoTimeout, {}, "running")
        /\ UNCHANGED <<clock, starts, phase, dead, fireAt, pending, cancelled, turn, released>>
    BY <1>6 DEF Tick, turns
  <2>2. NoTimeout \in Time \cup {NoTimeout} /\ {} \in SUBSET Timers
        /\ "running" \in {"running", "delivered", "failed"}
    OBVIOUS
  <2> QED BY <1>0, <2>1, <2>2, TickArms
<1>7. CASE Install
  <2>1. /\ RestoreLoop(Unfired, clock, {}, "running") /\ phase' = "up" /\ phase = "booting"
        /\ UNCHANGED <<clock, starts, dead, fireAt, pending, cancelled, turn, released>>
    BY <1>7 DEF Install, turns
  <2>2. heap = {}
    BY <2>1 DEF IInv, Apart, Installed, Known
  <2>3. Unfired \in SUBSET (rows \cup Unfired) /\ {} \in SUBSET Timers
        /\ "running" \in {"running", "delivered", "failed"} /\ \A t \in {} : flight[t].by # "tick"
    OBVIOUS
  <2> QED BY <1>0, <2>1, <2>2, <2>3, RestoreArms
<1>8. CASE Exit
  <2>1. /\ phase' = "down" /\ pending' = {} /\ heap' = {} /\ timeout' = NoTimeout /\ rows' = {}
        /\ flight' = [t \in Timers |-> NoFlight] /\ turn' = [s \in Sessions |-> "idle"]
        /\ released' = {}
        /\ UNCHANGED <<clock, starts, dead, row, fireAt, fires, outcome, cancelled>>
    BY <1>8 DEF Exit, table, history
  <2>2. TypeOK'
    BY <1>0, <2>1 DEF TypeOK
  <2>3. FlightSpent' /\ HeadIsArmed'
    BY <2>1 DEF FlightSpent, InFlight, HeadIsArmed
  <2> QED BY <2>2, <2>3 DEF HInv
<1>9. CASE Boot \/ Shutdown \/ Withdraw
  <2>1. /\ UNCHANGED <<clock, dead, row, fireAt, pending, heap, rows, flight, fires, outcome,
                       cancelled, turn, released>>
        /\ timeout' \in {timeout, NoTimeout} /\ phase' \in {"booting", "stopping", "withdrawn"}
        /\ starts' \in 0 .. MaxStarts
    BY <1>0, <1>9, TimerAssumption DEF Boot, Shutdown, Withdraw, table, memory, history, turns, TypeOK
  <2>2. TypeOK'
    BY <1>0, <2>1 DEF TypeOK
  <2>3. FlightSpent' /\ HeadIsArmed'
    BY <2>1 DEF HInv, FlightSpent, InFlight, HeadIsArmed
  <2> QED BY <2>2, <2>3 DEF HInv
<1>10. CASE Advance
  <2>1. /\ UNCHANGED <<starts, phase, dead, row, fireAt, pending, heap, timeout, rows, flight, fires,
                       outcome, cancelled, turn, released>>
        /\ clock' \in Time /\ clock <= clock'
    BY <1>0, <1>10, TimerAssumption DEF Advance, table, memory, history, turns, Time
  <2>2. TypeOK'
    BY <1>0, <2>1 DEF TypeOK
  <2>3. FlightSpent' /\ InFlight' = InFlight
    BY <2>1 DEF HInv, FlightSpent, InFlight
  <2>4. HeadIsArmed'
    <3>1. ASSUME NEW t \in heap, timeout # NoTimeout, timeout <= clock PROVE timeout <= clock'
      BY <1>0, <2>1, <3>1, TimerAssumption DEF TypeOK, Time
    <3> QED BY <2>1, <2>3, <3>1 DEF HInv, HeadIsArmed
  <2> QED BY <2>2, <2>3, <2>4 DEF HInv
<1>11. CASE \E s \in Sessions : TurnBegins(s) \/ Release(s) \/ ReleasedEnds(s)
  <2>1. /\ UNCHANGED <<clock, starts, phase, dead, row, fireAt, pending, heap, timeout, rows, flight,
                       fires, outcome, cancelled>>
        /\ turn' \in [Sessions -> {"idle", "running"}] /\ released' \subseteq Sessions
    BY <1>0, <1>11 DEF TurnBegins, Release, ReleasedEnds, table, memory, history, turns, TypeOK
  <2>2. TypeOK'
    BY <1>0, <2>1 DEF TypeOK
  <2> QED BY <2>1, <2>2, HeapArms
<1>12. CASE UNCHANGED vars
  <2>1. UNCHANGED <<clock, starts, phase, dead, row, fireAt, pending, heap, timeout, rows, flight,
                    fires, outcome, cancelled, turn, released>>
    BY <1>12 DEF vars, table, memory, history, turns
  <2>2. TypeOK'
    BY <1>0, <2>1 DEF TypeOK
  <2> QED BY <2>1, <2>2, HeapArms
<1> QED
  BY <1>1, <1>2, <1>3, <1>4, <1>5, <1>6, <1>7, <1>8, <1>9, <1>10, <1>11, <1>12 DEF Next

\* While the scheduler runs, the head of the heap is watched: a tick is under way, or the
\* timeout expires no later than the head is due.
THEOREM HeadIsWatched == Spec => [](TypeOK /\ HeadIsArmed)
<1>1. IInv /\ HInv => TypeOK /\ HeadIsArmed
  BY DEF HInv
<1> QED
  BY <1>1, TimerInvariance, InitHInv, NextHInv, PTL DEF Spec
=============================================================================
