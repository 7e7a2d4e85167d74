------------------------------ MODULE EventQueue ------------------------------
(***************************************************************************)
(* The durable event queue: rows of the events table that other parts of   *)
(* the daemon and the cron scheduler insert, the heartbeat that claims a   *)
(* batch of them and hands each to the handler of its type, the retries    *)
(* with back-off and the dead letters, and the reconciliation at boot that *)
(* takes back the claims of a daemon that died.                            *)
(*                                                                         *)
(* The database survives a crash and the batches, which live in memory, do *)
(* not.  Every SQL statement commits by itself (only the claim of a batch  *)
(* is a transaction), so a crash may come between any two of them.  The    *)
(* heartbeat is a setInterval that does not wait for the batch before, so  *)
(* batches overlap.  Time is relative: Tick takes one unit off every wait. *)
(***************************************************************************)
EXTENDS Naturals, FiniteSets, FiniteSetsExt

CONSTANTS MaxEvents,    \* bound: rows ever inserted
          MaxAttempts,  \* max_attempts of a row
          BatchLimit, Concurrency,  \* of one heartbeat batch
          MaxBatches,   \* bound: batches that overlap
          StaleClaim,   \* age from which boot takes a claim back
          BackoffCap,   \* longest back-off
          CronInterval, \* period of the cron job
          MaxUpserts,   \* bound: times the cron job is registered again
          MaxCrashes    \* bound

ASSUME EventQueueAssumption ==
    /\ {MaxEvents, StaleClaim, BackoffCap, MaxUpserts, MaxCrashes} \subseteq Nat
    /\ {MaxAttempts, BatchLimit, Concurrency, MaxBatches, CronInterval} \subseteq Nat \ {0}

(* Arithmetic, stated for the proofs: the provers have no induction.       *)
ASSUME PowersAssumption == \A n \in 0..MaxAttempts : 2^n \in Nat

Events == 1..MaxEvents

VARIABLES row,      \* the events table; status "none": not inserted
          done,     \* the event_processing_done table
          work,     \* what the running daemon does with a claimed row
          up,       \* the daemon runs
          cron,     \* the row of one enabled cron job, and its tick
          effects,  \* how often an event's handler ended well
          failures, \* how often it failed
          crashes, orphans

db == <<row, done>>
ghosts == <<effects, failures, crashes, orphans>>
vars == <<row, done, work, up, cron, effects, failures, crashes, orphans>>

(* A row of work: waiting for a worker of its batch, running its handler,  *)
(* handled (the handler has returned), recorded (in done, the row not yet  *)
(* updated).                                                               *)
NoWork == [at |-> "none", batch |-> 0]
InBatch(b) == {e \in Events : work[e].batch = b}
Active(b) == {e \in InBatch(b) : work[e].at # "waiting"}

Init ==
    /\ row = [e \in Events |-> [status |-> "none", known |-> TRUE, attempts |-> 0,
                                wait |-> 0, age |-> 0]]
    /\ done = {}
    /\ work = [e \in Events |-> NoWork]
    /\ up = TRUE
    /\ cron = [wait |-> 0, at |-> "idle", owed |-> 1, fired |-> 0, upserts |-> 0]
    /\ effects = [e \in Events |-> 0]
    /\ failures = [e \in Events |-> 0]
    /\ crashes = 0
    /\ orphans = {}

(* No synchronous run of statements is under way.                          *)
Quiet == up /\ cron.at = "idle" /\ \A e \in Events : work[e].at # "recorded"

Fresh == {e \in Events : row[e].status = "none"}
Inserted(known) ==
    [row EXCEPT ![Min(Fresh)] = [@ EXCEPT !.status = "pending", !.known = known]]

(* emitEvent, for a type with a handler or without.  (A second emit with   *)
(* an idempotency key in use inserts nothing and changes nothing.)         *)
Emit(known) ==
    /\ Quiet
    /\ Fresh # {}
    /\ row' = Inserted(known)
    /\ UNCHANGED <<done, work, up, cron, ghosts>>

-----------------------------------------------------------------------------
(* Faulty variant: claimed rows are due as well.                           *)
DueClaimed == {e \in Events : row[e].status \in {"pending", "processing"} /\ row[e].wait = 0}

(* claimPendingEvents, in one transaction: the first rows that are due, in *)
(* the order of their ids.  They are the items of a new batch.             *)
Due == {e \in Events : row[e].status = "pending" /\ row[e].wait = 0}
FirstDue == {e \in Due : Cardinality({d \in Due : d < e}) < BatchLimit}
Claim(b) ==
    /\ Quiet
    /\ InBatch(b) = {}
    /\ Due # {}
    /\ row' = [e \in Events |-> IF e \in FirstDue
                                THEN [row[e] EXCEPT !.status = "processing", !.age = 0]
                                ELSE row[e]]
    /\ work' = [e \in Events |-> IF e \in FirstDue THEN [at |-> "waiting", batch |-> b]
                                 ELSE work[e]]
    /\ UNCHANGED <<done, up, cron, ghosts>>

(* backoffSecondsAfterFailure, markEventFailed and the second statement of *)
(* markEventCompleted.                                                     *)
Backoff(n) == Min({BackoffCap, 2^n})

(* Faulty variants: one attempt too many; the claim is kept.               *)
FailedOffByOne(r) ==
    IF r.attempts + 1 > MaxAttempts
    THEN [r EXCEPT !.status = "dead", !.attempts = @ + 1, !.wait = 0, !.age = 0]
    ELSE [r EXCEPT !.status = "pending", !.attempts = @ + 1, !.age = 0,
                   !.wait = Backoff(r.attempts + 1)]
FailedKeepsClaim(r) ==
    IF r.attempts + 1 >= MaxAttempts
    THEN [r EXCEPT !.status = "dead", !.attempts = @ + 1, !.wait = 0, !.age = 0]
    ELSE [r EXCEPT !.attempts = @ + 1, !.wait = Backoff(r.attempts + 1)]

Failed(r) ==
    IF r.attempts + 1 >= MaxAttempts
    THEN [r EXCEPT !.status = "dead", !.attempts = @ + 1, !.wait = 0, !.age = 0]
    ELSE [r EXCEPT !.status = "pending", !.attempts = @ + 1, !.age = 0,
                   !.wait = Backoff(r.attempts + 1)]

Completed(r) == [r EXCEPT !.status = "completed", !.age = 0]

(* runPool hands the next item of a batch to a free worker.                *)
Starts(e) ==
    /\ Quiet
    /\ work[e].at = "waiting"
    /\ \A d \in InBatch(work[e].batch) : work[d].at = "waiting" => e <= d
    /\ Cardinality(Active(work[e].batch)) < Concurrency

(* processOne: an event that is in done is completed without its handler.  *)
SkipDone(e) ==
    /\ Starts(e)
    /\ e \in done
    /\ row' = [row EXCEPT ![e] = Completed(@)]
    /\ work' = [work EXCEPT ![e] = NoWork]
    /\ UNCHANGED <<done, up, cron, ghosts>>

(* processOne: no handler for the type.                                    *)
NoHandler(e) ==
    /\ Starts(e)
    /\ e \notin done
    /\ ~row[e].known
    /\ row' = [row EXCEPT ![e] = Failed(@)]
    /\ work' = [work EXCEPT ![e] = NoWork]
    /\ failures' = [failures EXCEPT ![e] = @ + 1]
    /\ UNCHANGED <<done, up, cron, effects, crashes, orphans>>

(* Faulty variants: done is written before the handler; done is not read.  *)
RunHandlerMarked(e) ==
    /\ Starts(e)
    /\ e \notin done
    /\ row[e].known
    /\ work' = [work EXCEPT ![e].at = "running"]
    /\ done' = done \cup {e}
    /\ UNCHANGED <<row, up, cron, ghosts>>
RunHandlerAgain(e) ==
    /\ Starts(e)
    /\ row[e].known
    /\ work' = [work EXCEPT ![e].at = "running"]
    /\ UNCHANGED <<db, up, cron, ghosts>>

(* processOne: the handler is called.                                      *)
RunHandler(e) ==
    /\ Starts(e)
    /\ e \notin done
    /\ row[e].known
    /\ work' = [work EXCEPT ![e].at = "running"]
    /\ UNCHANGED <<db, up, cron, ghosts>>

HandlerReturns(e) ==
    /\ Quiet
    /\ work[e].at = "running"
    /\ work' = [work EXCEPT ![e].at = "handled"]
    /\ effects' = [effects EXCEPT ![e] = @ + 1]
    /\ UNCHANGED <<db, up, cron, failures, crashes, orphans>>

HandlerThrows(e) ==
    /\ Quiet
    /\ work[e].at = "running"
    /\ row' = [row EXCEPT ![e] = Failed(@)]
    /\ work' = [work EXCEPT ![e] = NoWork]
    /\ failures' = [failures EXCEPT ![e] = @ + 1]
    /\ UNCHANGED <<done, up, cron, effects, crashes, orphans>>

(* markEventCompleted: first the record that the event is done, ...        *)
Record(e) ==
    /\ Quiet
    /\ work[e].at = "handled"
    /\ done' = done \cup {e}
    /\ work' = [work EXCEPT ![e].at = "recorded"]
    /\ UNCHANGED <<row, up, cron, ghosts>>

(* ... then the row.                                                       *)
Complete(e) ==
    /\ work[e].at = "recorded"
    /\ row' = [row EXCEPT ![e] = Completed(@)]
    /\ work' = [work EXCEPT ![e] = NoWork]
    /\ UNCHANGED <<done, up, cron, ghosts>>

-----------------------------------------------------------------------------
(* runCronTick for a job that is due: insert a cron.fire event, which has  *)
(* no idempotency key, ...                                                 *)
CronEmit ==
    /\ Quiet
    /\ cron.wait = 0
    /\ Fresh # {}
    /\ row' = Inserted(TRUE)
    /\ cron' = [cron EXCEPT !.at = "emitted", !.fired = @ + 1]
    /\ UNCHANGED <<done, work, up, ghosts>>

(* Faulty variant: the next run is not set.                                *)
CronAdvanceNot ==
    /\ cron.at = "emitted"
    /\ cron' = [cron EXCEPT !.at = "idle"]
    /\ UNCHANGED <<db, work, up, ghosts>>

(* ... then set its next run.  Periods that were missed are not made up.   *)
CronAdvance ==
    /\ cron.at = "emitted"
    /\ cron' = [cron EXCEPT !.at = "idle", !.wait = CronInterval]
    /\ UNCHANGED <<db, work, up, ghosts>>

(* upsertCronJob makes the job due at once.                                *)
Upsert ==
    /\ Quiet
    /\ cron.upserts < MaxUpserts
    /\ cron' = [cron EXCEPT !.wait = 0, !.upserts = @ + 1,
                            !.owed = IF cron.wait > 0 THEN @ + 1 ELSE @]
    /\ UNCHANGED <<db, work, up, ghosts>>

-----------------------------------------------------------------------------
(* The process dies, at any point: memory is gone.                         *)
Crash ==
    /\ up
    /\ crashes < MaxCrashes
    /\ up' = FALSE
    /\ work' = [e \in Events |-> NoWork]
    /\ cron' = [cron EXCEPT !.at = "idle"]
    /\ crashes' = crashes + 1
    /\ orphans' = {e \in Events : row[e].status = "processing"}
    /\ UNCHANGED <<db, effects, failures>>

(* reconcileStaleProcessing: the claims older than the limit.              *)
Stale(r) == r.status = "processing" /\ r.age > StaleClaim

(* runBootReconciliation: those become pending again.                      *)
Boot ==
    /\ ~up
    /\ up' = TRUE
    /\ row' = [e \in Events |-> IF Stale(row[e])
                                THEN [row[e] EXCEPT !.status = "pending", !.age = 0]
                                ELSE row[e]]
    /\ orphans' = {e \in orphans : ~Stale(row[e])}
    /\ UNCHANGED <<done, work, cron, effects, failures, crashes>>

(* One unit of time, also while the daemon is down.  Ages stop where they  *)
(* no longer matter.                                                       *)
Less(n) == IF n > 0 THEN n - 1 ELSE 0
Tick ==
    /\ Quiet \/ ~up
    /\ row' = [e \in Events |->
                 [row[e] EXCEPT !.wait = Less(@),
                    !.age = IF row[e].status = "processing" THEN Min({@ + 1, StaleClaim + 1})
                            ELSE 0]]
    /\ cron' = [cron EXCEPT !.wait = Less(@), !.owed = IF cron.wait = 1 THEN @ + 1 ELSE @]
    /\ row' # row \/ cron' # cron
    /\ UNCHANGED <<done, work, up, ghosts>>

Process(e) == SkipDone(e) \/ NoHandler(e) \/ RunHandler(e)
Settle(e) == HandlerReturns(e) \/ HandlerThrows(e)
Finish(e) == Record(e) \/ Complete(e)

Heartbeat == \E b \in 1..MaxBatches : Claim(b)

Next ==
    \/ \E known \in BOOLEAN : Emit(known)
    \/ Heartbeat
    \/ \E e \in Events : Process(e) \/ Settle(e) \/ Finish(e)
    \/ CronEmit \/ CronAdvance \/ Upsert
    \/ Crash \/ Boot \/ Tick

Spec == Init /\ [][Next]_vars

(* Time passes, the heartbeat's interval keeps firing, workers go on, a    *)
(* handler settles and a daemon that died is started again.                *)
FairSpec ==
    /\ Spec
    /\ WF_vars(Tick) /\ WF_vars(Heartbeat) /\ WF_vars(CronAdvance) /\ WF_vars(Boot)
    /\ \A e \in Events : /\ WF_vars(Process(e))
                         /\ WF_vars(Settle(e))
                         /\ WF_vars(Finish(e))

-----------------------------------------------------------------------------
TypeOK ==
    /\ row \in [Events -> [status : {"none", "pending", "processing", "completed", "dead"},
                           known : BOOLEAN, attempts : 0..MaxAttempts,
                           wait : 0..BackoffCap, age : 0..(StaleClaim + 1)]]
    /\ done \subseteq Events
    /\ work \in [Events -> [at : {"none", "waiting", "running", "handled", "recorded"},
                            batch : 0..MaxBatches]]
    /\ up \in BOOLEAN
    /\ orphans \subseteq Events
    /\ \A b \in 1..MaxBatches : Cardinality(Active(b)) <= Concurrency

(* At least once, across crashes: an event that is completed, or that the  *)
(* next heartbeat would complete without its handler, has been handled.    *)
CompletedWasHandled ==
    \A e \in Events : row[e].status = "completed" \/ e \in done => effects[e] > 0

(* A handler that ended well is run again only on account of a crash       *)
(* between its end and the record of it, each crash at most once: overlap- *)
(* ping batches, retries and boot reconciliation never hand the same event *)
(* to two workers.                                                         *)
RepeatsNeedCrash ==
    \A e \in Events : effects[e] <= 1 + crashes

(* Once an event is recorded as done, its handler does not run again and   *)
(* it never becomes a dead letter, even if the crash came before the row   *)
(* itself was updated.                                                     *)
DoneIsFinal ==
    [][\A e \in done : /\ effects'[e] = effects[e]
                       /\ failures'[e] = failures[e]
                       /\ row'[e].status # "dead"]_vars

(* A row that says processing is in the hands of a worker of the running   *)
(* daemon, or its claim was cut off by a crash; every row a worker holds   *)
(* says so.                                                                *)
ClaimsHeld ==
    up => \A e \in Events :
             (row[e].status = "processing") <=> (work[e].at # "none" \/ e \in orphans)

(* A dead letter has failed max_attempts times: crashes and boots neither  *)
(* use attempts up nor give them back.                                     *)
DeadAfterMax ==
    \A e \in Events : row[e].status = "dead" => failures[e] = MaxAttempts

(* A cron job fires once for each time it falls due, and once more at most *)
(* for each crash.                                                         *)
CronFires == cron.fired <= cron.owed + crashes

(* The queue keeps its accounts across crashes between any two statements, *)
(* overlapping batches and boots: no event is completed unhandled, handled *)
(* again without a crash, held by nobody or given up before its last       *)
(* attempt, and cron jobs fire as often as they fall due.                  *)
EventsAccounted ==
    /\ TypeOK /\ CompletedWasHandled /\ RepeatsNeedCrash
    /\ ClaimsHeld /\ DeadAfterMax /\ CronFires

(* Every event is completed or ends as a dead letter, unless a crash cut   *)
(* its claim off.                                                          *)
EventSettles ==
    \A e \in Events :
       row[e].status = "pending" ~> row[e].status \in {"completed", "dead"} \/ e \in orphans

-----------------------------------------------------------------------------
(* "A durable, at-least-once event queue" with "restart safety": every     *)
(* event is settled although the daemon may have died in the middle.       *)
AtLeastOnce ==
    \A e \in Events : row[e].status = "pending" ~> row[e].status \in {"completed", "dead"}

(* "Fires due cron jobs once each."                                        *)
CronFiresOnce == cron.fired <= cron.owed
=============================================================================
