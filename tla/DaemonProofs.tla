---------------------------- MODULE DaemonProofs ----------------------------
(***************************************************************************)
(* What the daemon does from its boot to its end: the accounts of its      *)
(* EventQueue for any number of rows, attempts, batches, workers and       *)
(* crashes, the safety of its ShutdownCoordinator for any drains and group *)
(* numbers, and the safety of a workflow for any tasks and definitions.    *)
(***************************************************************************)
EXTENDS EventQueue, ShutdownCoordinator, Workflow, FiniteSetTheorems, WellFoundedInduction, TLAPS

Attempts == 0..MaxAttempts
Waits == 0..BackoffCap
Ages == 0..(StaleClaim + 1)
RowType == [status : {"none", "pending", "processing", "completed", "dead"},
            known : BOOLEAN, attempts : Attempts, wait : Waits, age : Ages]
WorkType == [at : {"none", "waiting", "running", "handled", "recorded"},
             batch : 0..MaxBatches]

CronType == [wait : Nat, at : {"idle", "emitted"}, owed : Nat, fired : Nat, upserts : Nat]

\* The types, those of the histories and of the cron job included.
Typed ==
  /\ row \in [Events -> RowType]
  /\ work \in [Events -> WorkType]
  /\ done \subseteq Events /\ orphans \subseteq Events
  /\ up \in BOOLEAN
  /\ effects \in [Events -> Nat] /\ failures \in [Events -> Nat]
  /\ crashes \in Nat
  /\ cron \in CronType

\* A batch never has more workers than runPool starts.
PoolOK == \A b \in 1..MaxBatches : Cardinality(Active(b)) <= Concurrency

\* Who holds a row: a worker or a crash, never both, and exactly those rows say
\* processing.  Nobody works while the daemon is down.
HeldBy(e) ==
  /\ (row[e].status = "processing") <=> (work[e].at # "none" \/ e \in orphans)
  /\ work[e].at # "none" => e \notin orphans
  /\ (work[e].at = "none") <=> (work[e].batch = 0)
  /\ ~up => work[e].at = "none"

\* What has become of the handler's ends: they are counted before they are
\* recorded, and an end that is not recorded is owed to a crash.
HandledOK(e) ==
  /\ row[e].status = "completed" => effects[e] > 0
  /\ e \in done => effects[e] > 0 /\ row[e].status \in {"pending", "processing", "completed"}
  /\ work[e].at = "handled" => effects[e] > 0
  /\ work[e].at \in {"running", "handled"} => e \notin done
  /\ work[e].at = "recorded" => e \in done
  /\ effects[e] <= IF e \in done \/ work[e].at = "handled" THEN 1 + crashes ELSE crashes

\* The attempts of the row are the failures seen.
AttemptsOK(e) ==
  /\ row[e].attempts = failures[e]
  /\ (row[e].status = "dead") <=> (failures[e] = MaxAttempts)

\* A job that is due has not fired for it yet, but on account of a crash.
CronOK ==
  /\ ~up => cron.at = "idle"
  /\ cron.fired + (IF cron.wait = 0 /\ cron.at = "idle" THEN 1 ELSE 0) <= cron.owed + crashes

EventOK(e) == HeldBy(e) /\ HandledOK(e) /\ AttemptsOK(e)

\* The inductive invariant.
IInv == Typed /\ PoolOK /\ CronOK /\ \A e \in Events : EventOK(e)

-----------------------------------------------------------------------------

\* The constants one by one.
LEMMA Constants ==
  /\ MaxEvents \in Nat /\ StaleClaim \in Nat /\ BackoffCap \in Nat
  /\ MaxAttempts \in Nat \ {0} /\ Concurrency \in Nat \ {0}
  /\ MaxBatches \in Nat \ {0} /\ CronInterval \in Nat \ {0}
  BY EventQueueAssumption

LEMMA EventsFinite == IsFiniteSet(Events) /\ Events \subseteq Nat
<1>1. 1 \in Int /\ MaxEvents \in Int
  BY Constants
<1> QED
  BY <1>1, FS_Interval DEF Events

LEMMA ActiveFinite ==
  \A b : IsFiniteSet(Active(b)) /\ Cardinality(Active(b)) \in Nat
  BY EventsFinite, FS_Subset, FS_CardinalityType DEF Active, InBatch

LEMMA ActiveFinite2 ==
  \A b : IsFiniteSet(Active(b)') /\ Cardinality(Active(b)') \in Nat
  BY EventsFinite, FS_Subset, FS_CardinalityType DEF Active, InBatch

LEMMA LesserOf ==
  ASSUME NEW m \in Nat, NEW n \in Nat
  PROVE  Min({m, n}) \in Nat /\ Min({m, n}) <= m /\ Min({m, n}) <= n
  BY DEF Min

\* A finite set of numbers has a least one: a smallest set without one would have
\* a least one when an element is put back.
LEMMA FiniteLeast ==
  ASSUME NEW S \in SUBSET Nat, IsFiniteSet(S), S # {}
  PROVE  \E m \in S : \A k \in S : m <= k
<1> DEFINE Has(T) == \E m \in T : \A k \in T : m <= k
           Bad == {T \in SUBSET S : T # {} /\ ~Has(T)}
<1> SUFFICES ASSUME Bad # {} PROVE FALSE
  OBVIOUS
<1>1. IsWellFoundedOn(StrictSubsetOrdering(S), SUBSET S)
  BY FS_StrictSubsetOrderingWellFounded, FS_FiniteSubsetsOfFinite
<1>2. Bad \subseteq SUBSET S
  OBVIOUS
<1>3. PICK T \in Bad : \A U \in Bad : ~(<<U, T>> \in StrictSubsetOrdering(S))
  <2> HIDE DEF Bad
  <2> QED
    BY <1>1, <1>2, WFMin
<1>4. PICK x \in T : TRUE
  OBVIOUS
<1>5. T \ {x} \in SUBSET S /\ T \in SUBSET S /\ T \ {x} # T
  OBVIOUS
<1>6. <<T \ {x}, T>> \in StrictSubsetOrdering(S)
  BY <1>5 DEF StrictSubsetOrdering
<1>7. T \ {x} \notin Bad
  BY <1>3, <1>6
<1>8. CASE T \ {x} = {}
  <2>1. T = {x} /\ x \in Nat
    BY <1>8
  <2>2. Has(T)
    BY <2>1
  <2> QED
    BY <2>2
<1>9. CASE T \ {x} # {}
  <2>1. PICK m \in T \ {x} : \A k \in T \ {x} : m <= k
    BY <1>5, <1>7, <1>9
  <2>2. x \in Nat /\ m \in Nat /\ T \subseteq Nat
    OBVIOUS
  <2>3. CASE m <= x
    BY <2>1, <2>2, <2>3
  <2>4. CASE x <= m
    BY <2>1, <2>2, <2>4
  <2> QED
    BY <2>2, <2>3, <2>4
<1> QED
  BY <1>8, <1>9

\* markEventFailed leaves a row pending again or dead.
LEMMA FailedRow ==
  ASSUME NEW r \in RowType, r.attempts < MaxAttempts
  PROVE  /\ Failed(r) \in RowType
         /\ Failed(r).attempts = r.attempts + 1
         /\ Failed(r).status = IF r.attempts + 1 = MaxAttempts THEN "dead" ELSE "pending"
<1> USE Constants
<1>1. r.attempts + 1 \in Attempts /\ 0 \in Waits /\ 0 \in Ages
  BY DEF RowType, Attempts, Waits, Ages
<1>2. Backoff(r.attempts + 1) \in Waits
  BY <1>1, PowersAssumption DEF Backoff, Min, Waits, Attempts
<1>3. CASE r.attempts + 1 >= MaxAttempts
  <2>1. r.attempts + 1 = MaxAttempts
    BY <1>1, <1>3 DEF Attempts
  <2>2. Failed(r) = [status |-> "dead", known |-> r.known, attempts |-> r.attempts + 1,
                     wait |-> 0, age |-> 0]
    BY <1>3 DEF Failed, RowType
  <2> QED
    BY <1>1, <2>1, <2>2 DEF RowType
<1>4. CASE ~(r.attempts + 1 >= MaxAttempts)
  <2>1. Failed(r) = [status |-> "pending", known |-> r.known, attempts |-> r.attempts + 1,
                     wait |-> Backoff(r.attempts + 1), age |-> 0]
    BY <1>4 DEF Failed, RowType
  <2> QED
    BY <1>1, <1>2, <1>4, <2>1 DEF RowType
<1> QED
  BY <1>3, <1>4

\* The last statement of markEventCompleted.
LEMMA CompletedRow ==
  ASSUME NEW r \in RowType
  PROVE  /\ Completed(r) \in RowType
         /\ Completed(r).status = "completed" /\ Completed(r).attempts = r.attempts
<1>1. 0 \in Ages
  BY Constants DEF Ages
<1> QED
  BY <1>1 DEF Completed, RowType

\* The invariant holds at first.
LEMMA InitIInv == Init => IInv
<1> SUFFICES ASSUME Init PROVE IInv
  OBVIOUS
<1> USE Constants
<1>1. Typed
  BY DEF Init, Typed, RowType, Attempts, Waits, Ages, WorkType, CronType, NoWork
<1>2. PoolOK
  <2>1. \A b \in 1..MaxBatches : Active(b) = {}
    BY DEF Init, Active, InBatch, NoWork
  <2> QED
    BY <2>1, FS_EmptySet DEF PoolOK
<1>3. CronOK
  BY DEF Init, CronOK
<1>4. \A e \in Events : EventOK(e)
  BY DEF Init, EventOK, HeldBy, HandledOK, AttemptsOK, NoWork
<1> QED
  BY <1>1, <1>2, <1>3, <1>4 DEF IInv
-----------------------------------------------------------------------------
(* Steps on one row.                                                       *)

\* The pool: an action that makes no row active.
LEMMA PoolShrinks ==
  ASSUME IInv, \A e \in Events : work'[e].batch # 0 /\ work'[e].at # "waiting" =>
                                   work[e].batch = work'[e].batch /\ work[e].at # "waiting"
  PROVE  PoolOK'
<1> SUFFICES ASSUME NEW b \in 1..MaxBatches PROVE Cardinality(Active(b)') <= Concurrency
  BY DEF PoolOK
<1> USE Constants
<1>1. Active(b)' \subseteq Active(b)
  BY DEF Active, InBatch
<1>2. Cardinality(Active(b)') <= Cardinality(Active(b))
  BY <1>1, ActiveFinite, FS_Subset
<1>3. Cardinality(Active(b)) <= Concurrency
  BY DEF IInv, PoolOK
<1> QED
  BY <1>2, <1>3, ActiveFinite, ActiveFinite2

\* An action on one event: what is known of the others stays, and what the action
\* must show is the event's own part, and the pool if it starts a worker.
LEMMA OneEvent ==
  ASSUME IInv, NEW e \in Events, NEW r \in RowType, NEW w \in WorkType,
         row' = [row EXCEPT ![e] = r], work' = [work EXCEPT ![e] = w],
         done' = done \/ done' = done \cup {e},
         effects' = effects \/ effects' = [effects EXCEPT ![e] = @ + 1],
         failures' = failures \/ failures' = [failures EXCEPT ![e] = @ + 1],
         UNCHANGED <<up, cron, crashes, orphans>>,
         \/ w.at = "none" /\ w.batch = 0
         \/ w.batch = work[e].batch /\ work[e].at \notin {"none", "waiting"}
         \/ PoolOK',
         EventOK(e)'
  PROVE  IInv'
<1>1. Typed'
  BY DEF IInv, Typed
<1>2. PoolOK'
  <2>1. \A d \in Events : d # e => work'[d] = work[d]
    BY DEF IInv, Typed
  <2>2. work'[e] = w
    BY DEF IInv, Typed
  <2> QED
    BY <2>1, <2>2, PoolShrinks
<1>3. CronOK'
  BY DEF IInv, CronOK
<1>4. ASSUME NEW d \in Events \ {e} PROVE EventOK(d)'
  <2>1. EventOK(d)
    BY DEF IInv
  <2>2. /\ row'[d] = row[d] /\ work'[d] = work[d]
        /\ effects'[d] = effects[d] /\ failures'[d] = failures[d]
        /\ (d \in done') <=> (d \in done)
    BY DEF IInv, Typed
  <2> QED
    BY <2>1, <2>2 DEF EventOK, HeldBy, HandledOK, AttemptsOK
<1> QED
  BY <1>1, <1>2, <1>3, <1>4 DEF IInv

\* A failure is counted in the row and in the history, and gives the row back.
LEMMA FailureStep ==
  ASSUME IInv, NEW e \in Events, e \notin done, work[e].at \in {"waiting", "running"},
         row' = [row EXCEPT ![e] = Failed(@)], work' = [work EXCEPT ![e] = NoWork],
         failures' = [failures EXCEPT ![e] = @ + 1],
         UNCHANGED <<done, up, cron, effects, crashes, orphans>>
  PROVE  IInv'
<1> USE Constants
<1> DEFINE r == Failed(row[e])
<1>1. EventOK(e) /\ row[e] \in RowType
  BY DEF IInv, Typed
<1>2. row[e].attempts < MaxAttempts /\ failures[e] \in Nat
  <2>1. failures[e] \in Nat /\ row[e].attempts \in 0..MaxAttempts
    BY <1>1 DEF RowType, Attempts, IInv, Typed
  <2>2. failures[e] # MaxAttempts /\ row[e].attempts = failures[e]
    BY <1>1 DEF EventOK, HeldBy, AttemptsOK
  <2> QED
    BY <2>1, <2>2
<1>3. /\ r \in RowType /\ r.attempts = row[e].attempts + 1
      /\ r.status = IF row[e].attempts + 1 = MaxAttempts THEN "dead" ELSE "pending"
  BY <1>1, <1>2, FailedRow
<1>4. /\ row'[e] = r /\ work'[e] = NoWork /\ failures'[e] = failures[e] + 1
  BY DEF IInv, Typed
<1>5. EventOK(e)'
  <2>1. HeldBy(e)'
    BY <1>1, <1>3, <1>4 DEF EventOK, HeldBy, NoWork
  <2>2. HandledOK(e)'
    BY <1>1, <1>3, <1>4 DEF EventOK, HandledOK, NoWork
  <2>3. AttemptsOK(e)'
    BY <1>1, <1>2, <1>3, <1>4 DEF EventOK, AttemptsOK
  <2> QED
    BY <2>1, <2>2, <2>3 DEF EventOK
<1>6. NoWork \in WorkType /\ NoWork.at = "none" /\ NoWork.batch = 0
  BY DEF NoWork, WorkType
<1>7. row' = [row EXCEPT ![e] = r]
  OBVIOUS
<1> HIDE DEF r
<1> QED
  BY <1>3, <1>5, <1>6, <1>7, OneEvent

LEMMA ProcessStep ==
  ASSUME IInv, NEW e \in Events, Process(e)
  PROVE  IInv'
<1> USE Constants
<1>1. EventOK(e) /\ row[e] \in RowType /\ work[e] \in WorkType /\ work[e].at = "waiting"
  BY DEF IInv, Typed, Process, SkipDone, NoHandler, RunHandler, Starts
<1>2. CASE SkipDone(e)
  <2>1. row'[e] = Completed(row[e]) /\ work'[e] = NoWork
    BY <1>2 DEF SkipDone, IInv, Typed
  <2>2. EventOK(e)'
    BY <1>1, <1>2, <2>1, CompletedRow
       DEF SkipDone, NoWork, ghosts, EventOK, HeldBy, HandledOK, AttemptsOK
  <2>3. NoWork \in WorkType /\ NoWork.at = "none" /\ NoWork.batch = 0
    BY DEF NoWork, WorkType
  <2> QED
    BY <1>1, <1>2, <2>2, <2>3, CompletedRow, OneEvent DEF SkipDone, ghosts
<1>3. CASE NoHandler(e)
  BY <1>1, <1>3, FailureStep DEF NoHandler
<1>4. CASE RunHandler(e)
  <2> DEFINE w == [work[e] EXCEPT !.at = "running"]
  <2>1. w \in WorkType /\ w.at = "running" /\ w.batch = work[e].batch
    BY <1>1 DEF WorkType
  <2>2. work' = [work EXCEPT ![e] = w] /\ row' = [row EXCEPT ![e] = row[e]]
    BY <1>4 DEF RunHandler, IInv, Typed, db
  <2>3. work'[e] = w /\ row'[e] = row[e] /\ \A d \in Events : d # e => work'[d] = work[d]
    BY <2>2 DEF IInv, Typed
  <2> HIDE DEF w
  <2>4. EventOK(e)'
    BY <1>1, <1>4, <2>1, <2>3
       DEF RunHandler, db, ghosts, EventOK, HeldBy, HandledOK, AttemptsOK
  <2>5. ASSUME NEW c \in 1..MaxBatches PROVE Cardinality(Active(c)') <= Concurrency
    <3>1. CASE c = work[e].batch
      <4>1. Active(c)' = Active(c) \cup {e}
        BY <1>1, <2>1, <2>3, <2>5, <3>1 DEF Active, InBatch
      <4>2. e \notin Active(c)
        BY <1>1 DEF Active
      <4>3. Cardinality(Active(c)') = Cardinality(Active(c)) + 1
        BY <4>1, <4>2, ActiveFinite, FS_AddElement
      <4>4. Cardinality(Active(c)) < Concurrency
        BY <1>4, <3>1 DEF RunHandler, Starts
      <4>5. Cardinality(Active(c)) \in Nat
        BY ActiveFinite
      <4> QED
        BY <4>3, <4>4, <4>5
    <3>2. CASE c # work[e].batch
      <4>1. Active(c)' = Active(c)
        BY <2>1, <2>3, <3>2 DEF Active, InBatch
      <4> QED
        BY <2>5, <4>1 DEF IInv, PoolOK
    <3> QED
      BY <3>1, <3>2
  <2>6. PoolOK'
    BY <2>5 DEF PoolOK
  <2> QED
    BY <1>1, <1>4, <2>1, <2>2, <2>4, <2>6, OneEvent DEF RunHandler, db, ghosts
<1> QED
  BY <1>2, <1>3, <1>4 DEF Process

\* The handler settles, and its good end is recorded and then completed.
LEMMA SettleStep ==
  ASSUME IInv, NEW e \in Events, Settle(e) \/ Finish(e)
  PROVE  IInv'
<1> USE Constants
<1>1. EventOK(e) /\ row[e] \in RowType /\ work[e] \in WorkType /\ effects[e] \in Nat
      /\ crashes \in Nat
  BY DEF IInv, Typed
<1>2. CASE HandlerReturns(e)
  <2> DEFINE w == [work[e] EXCEPT !.at = "handled"]
  <2>1. w \in WorkType /\ w.at = "handled" /\ w.batch = work[e].batch
    BY <1>1 DEF WorkType
  <2>2. work' = [work EXCEPT ![e] = w] /\ row' = [row EXCEPT ![e] = row[e]]
    BY <1>2 DEF HandlerReturns, IInv, Typed, db
  <2>3. work'[e] = w /\ row'[e] = row[e] /\ effects'[e] = effects[e] + 1
    BY <1>2, <2>2 DEF HandlerReturns, IInv, Typed
  <2> HIDE DEF w
  <2>4. EventOK(e)'
    BY <1>1, <1>2, <2>1, <2>3
       DEF HandlerReturns, db, EventOK, HeldBy, HandledOK, AttemptsOK
  <2> QED
    BY <1>1, <1>2, <2>1, <2>2, <2>4, OneEvent DEF HandlerReturns, db
<1>3. CASE HandlerThrows(e)
  <2>1. e \notin done /\ work[e].at = "running"
    BY <1>1, <1>3 DEF HandlerThrows, EventOK, HandledOK
  <2> QED
    BY <1>3, <2>1, FailureStep DEF HandlerThrows
<1>4. CASE Record(e)
  <2> DEFINE w == [work[e] EXCEPT !.at = "recorded"]
  <2>1. w \in WorkType /\ w.at = "recorded" /\ w.batch = work[e].batch
    BY <1>1 DEF WorkType
  <2>2. work' = [work EXCEPT ![e] = w] /\ row' = [row EXCEPT ![e] = row[e]]
    BY <1>4 DEF Record, IInv, Typed
  <2>3. work'[e] = w /\ row'[e] = row[e] /\ e \in done'
    BY <1>4, <2>2 DEF Record, IInv, Typed
  <2> HIDE DEF w
  <2>4. EventOK(e)'
    BY <1>1, <1>4, <2>1, <2>3
       DEF Record, ghosts, EventOK, HeldBy, HandledOK, AttemptsOK
  <2> QED
    BY <1>1, <1>4, <2>1, <2>2, <2>4, OneEvent DEF Record, ghosts
<1>5. CASE Complete(e)
  <2>1. row'[e] = Completed(row[e]) /\ work'[e] = NoWork
    BY <1>5 DEF Complete, IInv, Typed
  <2>2. EventOK(e)'
    BY <1>1, <1>5, <2>1, CompletedRow
       DEF Complete, NoWork, ghosts, EventOK, HeldBy, HandledOK, AttemptsOK
  <2>3. NoWork \in WorkType /\ NoWork.at = "none" /\ NoWork.batch = 0
    BY DEF NoWork, WorkType
  <2> QED
    BY <1>1, <1>5, <2>2, <2>3, CompletedRow, OneEvent DEF Complete, ghosts
<1> QED
  BY <1>2, <1>3, <1>4, <1>5 DEF Settle, Finish

-----------------------------------------------------------------------------
(* Steps on the table and on the cron job.                                 *)

\* A step in which the rows keep all but their times, or a row is inserted, and
\* nobody's work changes.
LEMMA TableStep ==
  ASSUME IInv, Typed', CronOK', UNCHANGED <<done, work, up, effects, failures, crashes, orphans>>,
         \A e \in Events :
            /\ row'[e].attempts = row[e].attempts
            /\ \/ row'[e].status = row[e].status
               \/ row[e].status = "none" /\ row'[e].status = "pending"
  PROVE  IInv'
<1>1. PoolOK'
  BY PoolShrinks
<1>2. ASSUME NEW e \in Events PROVE EventOK(e)'
  <2>1. EventOK(e)
    BY DEF IInv
  <2> QED
    BY <2>1 DEF EventOK, HeldBy, HandledOK, AttemptsOK
<1> QED
  BY <1>1, <1>2 DEF IInv

\* emitEvent writes one row that was not there.
LEMMA InsertedRow ==
  ASSUME IInv, NEW known \in BOOLEAN, Fresh # {}, row' = Inserted(known)
  PROVE  /\ row' \in [Events -> RowType]
         /\ \A e \in Events :
              /\ row'[e].attempts = row[e].attempts
              /\ \/ row'[e].status = row[e].status
                 \/ row[e].status = "none" /\ row'[e].status = "pending"
<1> DEFINE n == Min(Fresh)
<1>1. n \in Fresh
  <2>1. IsFiniteSet(Fresh) /\ Fresh \subseteq Nat
    BY EventsFinite, FS_Subset DEF Fresh
  <2>2. PICK m \in Fresh : \A k \in Fresh : m <= k
    BY <2>1, FiniteLeast
  <2> QED
    BY <2>2 DEF Min
<1>2. n \in Events /\ row[n].status = "none" /\ row[n] \in RowType
  BY <1>1 DEF Fresh, IInv, Typed
<1> DEFINE r == [row[n] EXCEPT !.status = "pending", !.known = known]
<1>3. r \in RowType /\ r.status = "pending" /\ r.attempts = row[n].attempts
  BY <1>2 DEF RowType
<1>4. row' = [row EXCEPT ![n] = r]
  BY DEF Inserted
<1> HIDE DEF n, r
<1> QED
  BY <1>2, <1>3, <1>4 DEF IInv, Typed

LEMMA EmitStep ==
  ASSUME IInv, NEW known \in BOOLEAN, Emit(known)
  PROVE  IInv'
<1>1. Typed' /\ CronOK'
  BY InsertedRow DEF Emit, ghosts, IInv, Typed, CronOK
<1> QED
  BY <1>1, InsertedRow, TableStep DEF Emit, ghosts

LEMMA CronStep ==
  ASSUME IInv, CronEmit \/ CronAdvance \/ Upsert
  PROVE  IInv'
<1> USE Constants
<1>0. cron \in CronType /\ crashes \in Nat /\ up \in BOOLEAN
  BY DEF IInv, Typed
<1>1. cron' \in CronType /\ CronOK'
  <2>1. CASE CronEmit
    <3> DEFINE f == cron.fired + 1
    <3>1. f \in Nat /\ cron' = [cron EXCEPT !.at = "emitted", !.fired = f]
      BY <1>0, <2>1 DEF CronEmit, CronType
    <3> HIDE DEF f
    <3>2. /\ cron' \in CronType /\ cron'.fired = f /\ cron'.at = "emitted"
          /\ cron'.wait = cron.wait /\ cron'.owed = cron.owed
      BY <1>0, <3>1 DEF CronType
    <3> QED
      BY <1>0, <2>1, <3>2 DEF f, CronEmit, Quiet, ghosts, IInv, CronOK, CronType
  <2>2. CASE CronAdvance
    <3>1. /\ cron' \in CronType /\ cron'.fired = cron.fired /\ cron'.at = "idle"
          /\ cron'.wait = CronInterval /\ cron'.owed = cron.owed
      BY <1>0, <2>2 DEF CronAdvance, CronType
    <3> QED
      BY <1>0, <2>2, <3>1 DEF CronAdvance, ghosts, IInv, CronOK, CronType
  <2>3. CASE Upsert
    <3> DEFINE o == IF cron.wait > 0 THEN cron.owed + 1 ELSE cron.owed
               u == cron.upserts + 1
    <3>1. o \in Nat /\ u \in Nat
      BY <1>0 DEF CronType
    <3>2. cron' = [cron EXCEPT !.wait = 0, !.upserts = u, !.owed = o]
      BY <2>3 DEF Upsert
    <3> HIDE DEF o, u
    <3>3. /\ cron' \in CronType /\ cron'.fired = cron.fired /\ cron'.at = cron.at
          /\ cron'.wait = 0 /\ cron'.owed = o
      BY <1>0, <3>1, <3>2 DEF CronType
    <3> QED
      BY <1>0, <2>3, <3>3 DEF o, Upsert, Quiet, ghosts, IInv, CronOK, CronType
  <2> QED
    BY <2>1, <2>2, <2>3
<1>3. UNCHANGED <<done, work, up, effects, failures, crashes, orphans>>
  BY DEF CronEmit, CronAdvance, Upsert, db, ghosts
<1>4. /\ row' \in [Events -> RowType]
      /\ \A e \in Events :
           /\ row'[e].attempts = row[e].attempts
           /\ \/ row'[e].status = row[e].status
              \/ row[e].status = "none" /\ row'[e].status = "pending"
  <2>1. CASE CronEmit
    BY <2>1, InsertedRow DEF CronEmit
  <2>2. CASE CronAdvance \/ Upsert
    BY <2>2 DEF CronAdvance, Upsert, db, IInv, Typed
  <2> QED
    BY <2>1, <2>2
<1>5. Typed'
  BY <1>1, <1>3, <1>4 DEF IInv, Typed
<1> QED
  BY <1>1, <1>3, <1>4, <1>5, TableStep

LEMMA TickStep ==
  ASSUME IInv, Tick
  PROVE  IInv'
<1> USE Constants
<1>0. cron \in CronType /\ crashes \in Nat /\ up \in BOOLEAN
  BY DEF IInv, Typed
<1>1. cron' \in CronType /\ CronOK'
  <2> DEFINE w == Less(cron.wait)
             o == IF cron.wait = 1 THEN cron.owed + 1 ELSE cron.owed
  <2>1. w \in Nat /\ o \in Nat
    BY <1>0 DEF CronType, Less
  <2>2. cron' = [cron EXCEPT !.wait = w, !.owed = o]
    BY DEF Tick
  <2> HIDE DEF w, o
  <2>3. /\ cron' \in CronType /\ cron'.fired = cron.fired /\ cron'.at = cron.at
        /\ cron'.wait = w /\ cron'.owed = o
    BY <1>0, <2>1, <2>2 DEF CronType
  <2>4. cron.at = "idle" /\ up' = up /\ crashes' = crashes
    BY DEF Tick, Quiet, ghosts, IInv, CronOK
  <2>5. cron.fired + (IF cron.wait = 0 THEN 1 ELSE 0) <= cron.owed + crashes
    BY <2>4 DEF IInv, CronOK
  <2>6. cron.fired + (IF w = 0 THEN 1 ELSE 0) <= o + crashes
    BY <1>0, <2>5 DEF w, o, Less, CronType
  <2> QED
    BY <2>3, <2>4, <2>6 DEF CronOK
<1>3. ASSUME NEW e \in Events
      PROVE  /\ row'[e] \in RowType
             /\ row'[e].status = row[e].status /\ row'[e].attempts = row[e].attempts
  <2> DEFINE w == Less(row[e].wait)
             a == IF row[e].status = "processing" THEN Min({row[e].age + 1, StaleClaim + 1}) ELSE 0
  <2>1. row[e] \in RowType
    BY DEF IInv, Typed
  <2>2. w \in Waits
    BY <2>1 DEF Less, Waits, RowType
  <2>3. a \in Ages
    <3>1. row[e].age + 1 \in Nat /\ StaleClaim + 1 \in Nat
      BY <2>1 DEF Ages, RowType
    <3>2. Min({row[e].age + 1, StaleClaim + 1}) \in Ages
      BY <3>1, LesserOf DEF Ages
    <3>3. 0 \in Ages
      BY DEF Ages
    <3> QED
      BY <3>2, <3>3
  <2>4. row'[e] = [row[e] EXCEPT !.wait = w, !.age = a]
    BY DEF Tick
  <2> HIDE DEF w, a
  <2> QED
    BY <2>1, <2>2, <2>3, <2>4 DEF RowType
<1>4. row' \in [Events -> RowType]
  BY <1>3 DEF Tick
<1>5. UNCHANGED <<done, work, up, effects, failures, crashes, orphans>>
  BY DEF Tick, ghosts
<1>6. Typed'
  BY <1>1, <1>4, <1>5 DEF IInv, Typed
<1> QED
  BY <1>1, <1>3, <1>5, <1>6, TableStep

LEMMA ClaimStep ==
  ASSUME IInv, NEW b \in 1..MaxBatches, Claim(b)
  PROVE  IInv'
<1> USE Constants
<1>1. ASSUME NEW e \in Events
      PROVE  /\ row'[e] \in RowType /\ work'[e] \in WorkType
             /\ EventOK(e)'
             /\ work'[e] = work[e] \/ work'[e].at = "waiting"
  <2>1. row[e] \in RowType /\ work[e] \in WorkType /\ EventOK(e) /\ 0 \in Ages
    BY DEF IInv, Typed, Ages
  <2>2. CASE e \in FirstDue
    <3>1. row[e].status = "pending"
      BY <2>2 DEF FirstDue, Due
    <3>2. row'[e] = [row[e] EXCEPT !.status = "processing", !.age = 0]
          /\ work'[e] = [at |-> "waiting", batch |-> b]
      BY <2>2 DEF Claim
    <3>3. /\ row'[e] \in RowType /\ row'[e].status = "processing"
          /\ row'[e].attempts = row[e].attempts
      BY <2>1, <3>2 DEF RowType
    <3>4. work'[e] \in WorkType /\ work'[e].at = "waiting" /\ work'[e].batch = b
      BY <3>2 DEF WorkType
    <3>5. HeldBy(e)'
      <4>1. b # 0
        OBVIOUS
      <4>2. up /\ up' = up /\ orphans' = orphans
        BY Zenon DEF Claim, Quiet, ghosts
      <4> QED
        BY <2>1, <3>1, <3>3, <3>4, <4>1, <4>2 DEF EventOK, HeldBy
    <3>6. HandledOK(e)' /\ AttemptsOK(e)'
      BY <2>1, <3>1, <3>3, <3>4 DEF Claim, ghosts, EventOK, HeldBy, HandledOK, AttemptsOK
    <3> QED
      BY <3>3, <3>4, <3>5, <3>6 DEF EventOK
  <2>3. CASE e \notin FirstDue
    <3>1. row'[e] = row[e] /\ work'[e] = work[e]
      BY <2>3 DEF Claim
    <3> QED
      BY <2>1, <3>1 DEF Claim, ghosts, EventOK, HeldBy, HandledOK, AttemptsOK
  <2> QED
    BY <2>2, <2>3
<1>2. row' \in [Events -> RowType] /\ work' \in [Events -> WorkType]
  BY <1>1 DEF Claim
<1>3. Typed' /\ CronOK'
  BY <1>2 DEF Claim, ghosts, IInv, Typed, CronOK
<1>4. PoolOK'
  BY <1>1, PoolShrinks
<1> QED
  BY <1>1, <1>3, <1>4 DEF IInv

-----------------------------------------------------------------------------
(* The end and the start of the daemon.                                    *)

LEMMA CrashStep ==
  ASSUME IInv, Crash
  PROVE  IInv'
<1>1. /\ row' = row /\ done' = done /\ effects' = effects /\ failures' = failures
      /\ crashes' = crashes + 1 /\ up' = FALSE
      /\ \A e \in Events : work'[e] = NoWork
  BY DEF Crash, db
<1>2. Typed'
  <2>1. NoWork \in WorkType
    BY Constants DEF NoWork, WorkType
  <2>2. work' \in [Events -> WorkType] /\ orphans' \subseteq Events
    BY <2>1 DEF Crash
  <2>3. cron' \in CronType
    BY DEF Crash, CronType, IInv, Typed
  <2>4. crashes + 1 \in Nat
    BY DEF IInv, Typed
  <2> QED
    BY <1>1, <2>2, <2>3, <2>4 DEF IInv, Typed
<1>3. PoolOK'
  BY <1>1, PoolShrinks DEF NoWork
<1>4. CronOK'
  BY DEF Crash, IInv, Typed, CronType, CronOK
<1>5. ASSUME NEW e \in Events PROVE EventOK(e)'
  <2>1. EventOK(e) /\ effects[e] \in Nat /\ crashes \in Nat
    BY DEF IInv, Typed
  <2>2. HeldBy(e)'
    BY <1>1 DEF Crash, HeldBy, NoWork
  <2>3. HandledOK(e)'
    BY <1>1, <2>1 DEF EventOK, HandledOK, NoWork
  <2>4. AttemptsOK(e)'
    BY <1>1, <2>1 DEF EventOK, AttemptsOK
  <2> QED
    BY <2>2, <2>3, <2>4 DEF EventOK
<1> QED
  BY <1>2, <1>3, <1>4, <1>5 DEF IInv

LEMMA BootStep ==
  ASSUME IInv, Boot
  PROVE  IInv'
<1>1. UNCHANGED <<done, work, cron, effects, failures, crashes>> /\ up' = TRUE /\ ~up
  BY DEF Boot
<1>2. ASSUME NEW e \in Events
      PROVE  row'[e] \in RowType /\ EventOK(e)'
  <2>1. row[e] \in RowType /\ work[e] \in WorkType /\ EventOK(e) /\ 0 \in Ages
    BY Constants DEF IInv, Typed, Ages
  <2>2. CASE Stale(row[e])
    <3>1. row'[e] = [row[e] EXCEPT !.status = "pending", !.age = 0] /\ e \notin orphans'
      BY <2>2 DEF Boot
    <3>2. /\ row'[e] \in RowType /\ row'[e].status = "pending"
          /\ row'[e].attempts = row[e].attempts /\ row[e].status = "processing"
      BY <2>1, <2>2, <3>1 DEF RowType, Stale
    <3> QED
      BY <1>1, <2>1, <3>1, <3>2 DEF EventOK, HeldBy, HandledOK, AttemptsOK
  <2>3. CASE ~Stale(row[e])
    <3>1. row'[e] = row[e] /\ ((e \in orphans') <=> (e \in orphans))
      BY <2>3 DEF Boot
    <3> QED
      BY <1>1, <2>1, <3>1 DEF EventOK, HeldBy, HandledOK, AttemptsOK
  <2> QED
    BY <2>2, <2>3
<1>3. row' \in [Events -> RowType] /\ orphans' \subseteq Events
  BY <1>2 DEF Boot, IInv, Typed
<1>4. Typed' /\ CronOK'
  BY <1>1, <1>3 DEF IInv, Typed, CronOK
<1>5. PoolOK'
  BY <1>1, PoolShrinks
<1> QED
  BY <1>2, <1>4, <1>5 DEF IInv

-----------------------------------------------------------------------------

\* Every step keeps the invariant.
LEMMA NextIInv == IInv /\ [Next]_vars => IInv'
<1> SUFFICES ASSUME IInv, [Next]_vars PROVE IInv'
  OBVIOUS
<1>1. ASSUME NEW known \in BOOLEAN, Emit(known) PROVE IInv'
  BY <1>1, EmitStep
<1>2. ASSUME NEW b \in 1..MaxBatches, Claim(b) PROVE IInv'
  BY <1>2, ClaimStep
<1>3. ASSUME NEW e \in Events, Process(e) \/ Settle(e) \/ Finish(e) PROVE IInv'
  BY <1>3, ProcessStep, SettleStep
<1>4. CASE UNCHANGED vars
  <2>1. Typed' /\ CronOK'
    BY <1>4 DEF vars, IInv, Typed, CronOK
  <2> QED
    BY <1>4, <2>1, TableStep DEF vars
<1> QED
  BY <1>1, <1>2, <1>3, <1>4, CronStep, TickStep, CrashStep, BootStep DEF Next, Heartbeat

\* The inductive invariant holds in every behaviour.
THEOREM EventInvariance == Spec => []IInv
  BY InitIInv, NextIInv, PTL DEF Spec

\* The accounts of the queue hold for any number of rows, attempts, batches, workers
\* and crashes (markEventCompleted, markEventFailed, runPool, runCronTick,
\* reconcileStaleProcessing).
THEOREM AccountsHold == Spec => []EventsAccounted
<1>1. IInv => EventsAccounted
  <2> SUFFICES ASSUME IInv PROVE EventsAccounted
    OBVIOUS
  <2> USE Constants
  <2>1. TypeOK
    BY DEF IInv, Typed, PoolOK, TypeOK, RowType, Attempts, Waits, Ages, WorkType
  <2>2. CompletedWasHandled /\ ClaimsHeld
    BY DEF IInv, EventOK, HandledOK, HeldBy, CompletedWasHandled, ClaimsHeld
  <2>3. RepeatsNeedCrash
    BY DEF IInv, Typed, EventOK, HandledOK, RepeatsNeedCrash
  <2>4. DeadAfterMax
    BY DEF IInv, EventOK, AttemptsOK, DeadAfterMax
  <2>5. CronFires
    BY DEF IInv, Typed, CronType, CronOK, CronFires
  <2> QED
    BY <2>1, <2>2, <2>3, <2>4, <2>5 DEF EventsAccounted
<1> QED
  BY <1>1, EventInvariance, PTL

\* What event_processing_done records is final: the handler of the event neither
\* runs nor fails again, and the row never becomes a dead letter.
THEOREM RecordedForGood == Spec => DoneIsFinal
<1>1. ASSUME IInv, IInv', [Next]_vars
      PROVE  [\A e \in done : /\ effects'[e] = effects[e]
                              /\ failures'[e] = failures[e]
                              /\ row'[e].status # "dead"]_vars
  <2>1. ASSUME NEW e \in done, Next
        PROVE  effects'[e] = effects[e] /\ failures'[e] = failures[e] /\ e \in done'
    <3>1. e \in Events /\ work[e].at \notin {"running", "handled"}
      BY <1>1 DEF IInv, Typed, EventOK, HandledOK
    <3>2. ASSUME NEW d \in Events, Process(d) \/ Settle(d) \/ Finish(d)
          PROVE  effects'[e] = effects[e] /\ failures'[e] = failures[e] /\ e \in done'
      BY <1>1, <3>1, <3>2
         DEF Process, SkipDone, NoHandler, RunHandler, Settle, HandlerReturns, HandlerThrows,
             Finish, Record, Complete, db, ghosts, IInv, Typed
    <3> QED
      BY <2>1, <3>2 DEF Next, Heartbeat, Emit, Claim, CronEmit, CronAdvance, Upsert, Crash, Boot,
                        Tick, db, ghosts
  <2>2. \A e \in done' : row'[e].status # "dead"
    BY <1>1 DEF IInv, Typed, EventOK, HandledOK
  <2> QED
    BY <1>1, <2>1, <2>2 DEF vars
<1> QED
  BY <1>1, EventInvariance, PTL DEF Spec, DoneIsFinal

-----------------------------------------------------------------------------
(* The shutdown, which stops the event loops among others: groups do not   *)
(* overlap, and a shutdown that ends in time skips nothing.  The numbers   *)
(* callers give to groups are natural ones (GroupsAssumption).             *)

\* The plan: what is in it is registered, nothing outside of it is run, and a
\* drain of it has been started exactly when its group is no longer waiting.
PlanOK ==
  /\ plan \subseteq Registered
  /\ \A d \in Drains : result[d] # "none" => d \in plan
  /\ \A d \in plan : group[d] \notin left => result[d] # "none"

\* The group being run: all of one number, and whatever is under way is in it.
CurrentOK ==
  /\ current \subseteq plan
  /\ \A d, e \in current : group[d] = group[e]
  /\ \A d \in Drains : result[d] = "running" => d \in current

\* A drain is given up only when the shutdown is known to be out of time.
DeadlineOK == \A d \in Drains : result[d] = "deadline" => timedOut

\* Nothing is planned before the draining begins, nothing is under way after it.
PhaseOK ==
  /\ phase \in {"running", "stopAccepting"} =>
       plan = {} /\ current = {} /\ \A d \in Drains : result[d] = "none"
  /\ phase \in {"marking", "done"} => GroupSettled /\ (left = {} \/ timedOut)

\* The inductive invariant.
ShutdownInv == CoordinatorTypeOK /\ PlanOK /\ CurrentOK /\ DeadlineOK /\ PhaseOK

\* The shutdown's invariant holds at first.
LEMMA ShutdownInit == CoordinatorInit => ShutdownInv
<1> SUFFICES ASSUME CoordinatorInit PROVE ShutdownInv
  OBVIOUS
<1>1. \A d \in Drains : result[d] = "none"
  BY DEF CoordinatorInit
<1>2. CoordinatorTypeOK
  BY DEF CoordinatorInit, CoordinatorTypeOK, NoGroup
<1>3. PlanOK /\ CurrentOK /\ DeadlineOK
  BY <1>1 DEF CoordinatorInit, PlanOK, CurrentOK, DeadlineOK
<1>4. PhaseOK
  BY <1>1 DEF CoordinatorInit, PhaseOK
<1> QED
  BY <1>2, <1>3, <1>4 DEF ShutdownInv

\* Registrations touch only drains that are not in the plan.
LEMMA RegistryStep ==
  ASSUME ShutdownInv, NEW d \in Drains, NEW g \in Groups \cup {NoGroup},
         RegisterDrain(d, g) \/ Unregister(d)
  PROVE  ShutdownInv'
<1> group' \in [Drains -> Nat \cup {NoGroup}]
    /\ plan \subseteq Registered' /\ d \notin plan
    /\ \A e \in Drains : e # d => group'[e] = group[e]
  BY GroupsAssumption
     DEF ShutdownInv, CoordinatorTypeOK, PlanOK, RegisterDrain, Unregister, Registered, NoGroup
<1>1. CoordinatorTypeOK'
  <2>1. order' \in [Drains -> Nat] /\ count' \in Nat /\ nextImplicitGroup' \in Nat
        /\ explicit' \subseteq Drains
    BY GroupsAssumption DEF ShutdownInv, CoordinatorTypeOK, RegisterDrain, Unregister
  <2>2. UNCHANGED <<phase, plan, left, current, result, late, timedOut>>
    BY DEF RegisterDrain, Unregister
  <2> QED
    BY <2>1, <2>2 DEF ShutdownInv, CoordinatorTypeOK
<1>2. PlanOK'
  BY DEF ShutdownInv, CoordinatorTypeOK, PlanOK, RegisterDrain, Unregister
<1>3. CurrentOK'
  BY DEF ShutdownInv, CoordinatorTypeOK, CurrentOK, RegisterDrain, Unregister
<1>4. DeadlineOK' /\ PhaseOK'
  BY DEF ShutdownInv, DeadlineOK, PhaseOK, GroupSettled, RegisterDrain, Unregister
<1> QED
  BY <1>1, <1>2, <1>3, <1>4 DEF ShutdownInv

\* The next group begins only when the one before has settled.
LEMMA StartGroupStep ==
  ASSUME ShutdownInv, NEW g \in left, StartGroup(g)
  PROVE  ShutdownInv'
<1> Members(g) \subseteq plan /\ plan \subseteq Drains
  BY DEF Members, ShutdownInv, CoordinatorTypeOK
<1> \A d \in Drains : result'[d] = IF d \in Members(g)
                                   THEN IF late THEN "deadline" ELSE "running"
                                   ELSE result[d]
  BY DEF StartGroup
<1> \A d \in Drains : result[d] # "running"
  BY DEF ShutdownInv, CurrentOK, StartGroup, GroupSettled
<1> /\ left' = left \ {g} /\ current' = Members(g) /\ timedOut' = late
    /\ UNCHANGED <<phase, group, explicit, order, count, nextImplicitGroup, plan, late>>
  BY DEF StartGroup, registry
<1>1. CoordinatorTypeOK'
  <2>1. result' \in [Drains -> {"none", "running", "ok", "failed", "deadline"}]
    BY DEF ShutdownInv, CoordinatorTypeOK, StartGroup
  <2>2. left' \subseteq Nat /\ current' \subseteq Drains
    BY DEF ShutdownInv, CoordinatorTypeOK
  <2> QED
    BY <2>1, <2>2 DEF ShutdownInv, CoordinatorTypeOK
<1>2. PlanOK'
  <2>1. Registered' = Registered
    BY DEF Registered
  <2>2. \A d \in Drains : result'[d] # "none" => d \in plan
    BY DEF ShutdownInv, PlanOK
  <2>3. ASSUME NEW d \in plan, group[d] \notin left \ {g} PROVE result'[d] # "none"
    BY <2>3 DEF ShutdownInv, PlanOK, Members
  <2> QED
    BY <2>1, <2>2, <2>3 DEF ShutdownInv, PlanOK
<1>3. CurrentOK'
  <2>1. \A d, e \in Members(g) : group[d] = group[e]
    BY DEF Members
  <2>2. \A d \in Drains : result'[d] = "running" => d \in Members(g)
    OBVIOUS
  <2> QED
    BY <2>1, <2>2 DEF CurrentOK
<1>4. DeadlineOK'
  BY DEF ShutdownInv, CoordinatorTypeOK, DeadlineOK, StartGroup
<1>5. PhaseOK'
  BY DEF PhaseOK, StartGroup
<1> QED
  BY <1>1, <1>2, <1>3, <1>4, <1>5 DEF ShutdownInv

\* A drain settles, by itself or by the deadline.
LEMMA DrainStep ==
  ASSUME ShutdownInv, NEW d \in Drains, DrainEnds(d) \/ DrainExpires(d)
  PROVE  ShutdownInv'
<1> /\ \A e \in Drains : e # d => result'[e] = result[e]
    /\ result'[d] \in {"ok", "failed", "deadline"} /\ result[d] = "running"
    /\ result'[d] = "deadline" => timedOut'
    /\ timedOut => timedOut'
    /\ UNCHANGED <<phase, registry, plan, left, current, late>>
  BY DEF ShutdownInv, CoordinatorTypeOK, DrainEnds, DrainExpires
<1>1. CoordinatorTypeOK'
  BY DEF ShutdownInv, CoordinatorTypeOK, DrainEnds, DrainExpires, registry
<1>2. PlanOK'
  BY DEF ShutdownInv, CoordinatorTypeOK, PlanOK, Registered, registry
<1>3. CurrentOK'
  BY DEF ShutdownInv, CoordinatorTypeOK, CurrentOK, registry
<1>4. DeadlineOK'
  BY DEF ShutdownInv, CoordinatorTypeOK, DeadlineOK
<1>5. PhaseOK'
  BY DEF ShutdownInv, CoordinatorTypeOK, PhaseOK, GroupSettled, CurrentOK
<1> QED
  BY <1>1, <1>2, <1>3, <1>4, <1>5 DEF ShutdownInv

\* The steps of requestShutdown itself, and of its timer.
LEMMA CoordinatorStep ==
  ASSUME ShutdownInv,
         \/ RequestShutdown \/ BeginDraining \/ DeadlinePasses \/ TimerFires
         \/ EndDraining \/ FinishShutdown \/ UNCHANGED coordinator
  PROVE  ShutdownInv'
<1>1. CASE BeginDraining
  <2>1. CoordinatorTypeOK'
    BY <1>1 DEF ShutdownInv, CoordinatorTypeOK, BeginDraining, registry, Registered,
                NoGroup
  <2>2. PlanOK' /\ CurrentOK' /\ DeadlineOK' /\ PhaseOK'
    BY <1>1 DEF ShutdownInv, CoordinatorTypeOK, PlanOK, CurrentOK, DeadlineOK, PhaseOK,
                BeginDraining, registry, Registered
  <2> QED
    BY <2>1, <2>2 DEF ShutdownInv
<1>2. CASE UNCHANGED coordinator
  BY <1>2 DEF ShutdownInv, CoordinatorTypeOK, PlanOK, CurrentOK, DeadlineOK, PhaseOK,
              GroupSettled, Registered, coordinator, registry
<1>3. CASE \/ RequestShutdown \/ DeadlinePasses \/ TimerFires
           \/ EndDraining \/ FinishShutdown
  <2>1. UNCHANGED <<registry, plan, left, current, result>> /\ (timedOut => timedOut')
    BY <1>3 DEF RequestShutdown, DeadlinePasses, TimerFires, EndDraining, FinishShutdown
  <2>2. CoordinatorTypeOK'
    BY <1>3 DEF ShutdownInv, CoordinatorTypeOK, RequestShutdown, DeadlinePasses,
                TimerFires, EndDraining, FinishShutdown, registry
  <2>3. PlanOK' /\ CurrentOK'
    BY <2>1 DEF ShutdownInv, PlanOK, CurrentOK, Registered, registry
  <2>4. DeadlineOK'
    BY <2>1 DEF ShutdownInv, DeadlineOK
  <2>5. PhaseOK'
    BY <1>3, <2>1 DEF ShutdownInv, PhaseOK, GroupSettled, RequestShutdown,
                      DeadlinePasses, TimerFires, EndDraining, FinishShutdown
  <2> QED
    BY <2>2, <2>3, <2>4, <2>5 DEF ShutdownInv
<1> QED
  BY <1>1, <1>2, <1>3

\* Every step of the coordinator keeps its invariant.
LEMMA ShutdownNext == ShutdownInv /\ [CoordinatorNext]_coordinator => ShutdownInv'
<1> SUFFICES ASSUME ShutdownInv, [CoordinatorNext]_coordinator PROVE ShutdownInv'
  OBVIOUS
<1>1. ASSUME NEW d \in Drains, NEW g \in Groups \cup {NoGroup}, RegisterDrain(d, g)
      PROVE  ShutdownInv'
  BY <1>1, RegistryStep
<1>2. ASSUME NEW d \in Drains, Unregister(d) PROVE ShutdownInv'
  BY <1>2, RegistryStep
<1>3. ASSUME NEW d \in Drains, DrainEnds(d) \/ DrainExpires(d) PROVE ShutdownInv'
  BY <1>3, DrainStep
<1>4. ASSUME NEW g \in left, StartGroup(g) PROVE ShutdownInv'
  BY <1>4, StartGroupStep
<1> QED
  BY <1>1, <1>2, <1>3, <1>4, CoordinatorStep DEF CoordinatorNext

\* The coordinator's inductive invariant holds in every behaviour.
THEOREM ShutdownInvariance == CoordinatorSpec => []ShutdownInv
  BY ShutdownInit, ShutdownNext, PTL DEF CoordinatorSpec

\* Two drains under way together are always in one group (StartGroup waits for
\* GroupSettled).
THEOREM GroupsNeverOverlap == CoordinatorSpec => []GroupsInTurn
<1>1. ShutdownInv => GroupsInTurn
  BY DEF ShutdownInv, CoordinatorTypeOK, CurrentOK, GroupsInTurn
<1> QED
  BY <1>1, ShutdownInvariance, PTL

\* A shutdown in time has run every planned drain to its end.
THEOREM NothingSkipped == CoordinatorSpec => []NoneSkipped
<1>1. ShutdownInv => NoneSkipped
  BY DEF ShutdownInv, CoordinatorTypeOK, PlanOK, CurrentOK, DeadlineOK, PhaseOK,
         GroupSettled, NoneSkipped
<1> QED
  BY <1>1, ShutdownInvariance, PTL

\* No drain is started past the deadline.
THEOREM NothingLate == CoordinatorSpec => NoLateStart
<1>1. ShutdownInv /\ [CoordinatorNext]_coordinator =>
        [late => \A d \in Drains : result'[d] = "running" => result[d] = "running"]_coordinator
  BY DEF ShutdownInv, CoordinatorTypeOK, CoordinatorNext, coordinator, registry,
         RegisterDrain, Unregister, RequestShutdown, BeginDraining, StartGroup,
         DrainEnds, DrainExpires, DeadlinePasses, TimerFires, EndDraining,
         FinishShutdown
<1> QED
  BY <1>1, ShutdownInvariance, PTL DEF CoordinatorSpec, NoLateStart

-----------------------------------------------------------------------------
(* The workflows.  Control operations and second polling loops may overtake *)
(* a tick's awaits; the invariant says that what is wrong then is wrong for *)
(* the tasks overtaken only.                                                *)

PCs == {"idle", "loop", "call", "spawn", "notify", "save", "write", "post"}
Lists == [Tasks -> TaskType]
ProcType == [pc : PCs, at : 0..(N + 1), snap : Lists]
DiskType == [state : {"absent", "ok", "torn"}, clash : BOOLEAN, task : Lists]
FreshList == [t \in Tasks |-> FreshTask]

WorkflowTyped ==
  /\ WorkflowTypeOK
  /\ proc \in [Procs -> ProcType] /\ disk \in DiskType

\* The passes over the tasks; the control operation is not one of them.
Runners == {Start} \union Ticks
Busy(k) == proc[k].pc # "idle"

\* Starts of the daemon that faults have ended, or are about to end.
Lives == IF server = "stopping" THEN faults - 1 ELSE faults

\* What holds of every list of tasks, the one in memory, the snapshots being
\* written and the one in the file: d is the definition, a the templates applied,
\* n the lives that are over and o the tasks overtaken.
ListOK(T, d, a, n, o) ==
  /\ d.cap > 0 => Cardinality(With(T, "in_progress") \ o) <= d.cap
  /\ \A t \in With(T, "failed") \ o :
       T[t].err = "blocked" => d.deps[t] \intersect (With(T, "failed") \union o) # {}
  /\ \A t \in Tasks : T[t].out <= n + (IF t \in a THEN 1 ELSE 0)

Holds(T) == ListOK(T, def, applied, Lives, overtaken)

ListsOK ==
  /\ server = "stopping" => faults > 0
  /\ Holds(task) /\ Holds(disk.task) /\ \A k \in Procs : Holds(proc[k].snap)

\* Until the first control operation there is one pass at a time, an armed timer and
\* a pass exclude each other, and nothing is overtaken.
OneLoop ==
  /\ stray = 0 /\ overtaken = {} /\ ~Busy(Control)
  /\ \A j, k \in Runners : Busy(j) /\ Busy(k) => j = k
  /\ handle = "armed" => \A k \in Runners : ~Busy(k)

LoopOK ==
  /\ proc[Control].pc \in {"idle", "save", "write"}
  /\ server = "starting" <=> Busy(Start)
  /\ server = "starting" => ops = 0
  /\ server = "down" => handle = "null" /\ stray = 0 /\ \A k \in Procs : ~Busy(k)
  /\ ops = 0 => OneLoop

\* What a pass found before it awaits a call or a spawn still holds, unless the task
\* has been overtaken.
PassOK(k) ==
  /\ proc[k].pc \in {"loop", "notify"} => proc[k].at # 0
  /\ proc[k].pc \in {"call", "spawn"} =>
       /\ proc[k].at \in Tasks
       /\ proc[k].at \notin overtaken =>
            /\ task[proc[k].at].status = "pending"
            /\ def.deps[proc[k].at] \subseteq With(task, "done")
            /\ def.cap > 0 => Cardinality(With(task, "in_progress")) < def.cap
PassesOK == \A k \in Runners : PassOK(k)

\* Every session at work belongs to a task in progress, after Retention too, or to
\* one that was overtaken.
OwnedOK ==
  /\ \A s \in Working :
       \/ sess[s].task \in overtaken
       \/ /\ sess[s].task \in Tasks
          /\ task[sess[s].task].status = "in_progress" /\ task[sess[s].task].key = s
  /\ server = "down" => Working = {}

SettledOK ==
  completed => /\ \A t \in Tasks \ overtaken : isTerminal(task[t].status)
               /\ server \notin {"starting", "down"}

\* The statuses in the file, or in what is being written to it, are those in memory,
\* but for what a pass under way will still save.
Unsaved == \E k \in Procs : proc[k].pc \in {"loop", "call", "spawn", "notify", "save"}
SameStatus(T, U) == \A t \in Tasks : T[t].status = U[t].status
FileOK ==
  /\ ~disk.clash => \A j, k \in Writing : j = k
  /\ Writing # {} => disk.state = "torn"
  /\ server # "down" /\ ~disk.clash /\ ~Unsaved =>
       /\ \A k \in Writing : SameStatus(proc[k].snap, task)
       /\ disk.state = "ok" => SameStatus(disk.task, task)

\* The inductive invariant.
WorkflowInv ==
  WorkflowTyped /\ ListsOK /\ LoopOK /\ PassesOK /\ OwnedOK /\ SettledOK /\ FileOK

\* The history of a step.
Records == overtaken' = overtaken \union Overtaken

-----------------------------------------------------------------------------
(* Lists of tasks.                                                         *)

\* The sets of procs and tasks, spelled out.
LEMMA ProcsKnown ==
  /\ Procs = Runners \union {Control} /\ Control \notin Runners
  /\ Start \in Runners /\ Start \notin Ticks /\ Ticks \subseteq Runners /\ Runners \subseteq Procs
  /\ N \in Nat \ {0} /\ Tasks = 1..N /\ 0 \notin Tasks /\ Sessions \subseteq Nat \ {0}
BY WorkflowAssumption DEF Procs, Runners, Ticks, Start, Control, Tasks, Sessions

\* The tasks of a status are finitely many.
LEMMA Counted ==
  ASSUME NEW T, NEW status, NEW o
  PROVE  /\ With(T, status) \subseteq Tasks /\ IsFiniteSet(With(T, status))
         /\ Cardinality(With(T, status)) \in Nat
         /\ IsFiniteSet(With(T, status) \ o) /\ Cardinality(With(T, status) \ o) \in Nat
         /\ Cardinality(With(T, status) \ o) <= Cardinality(With(T, status))
<1>1. IsFiniteSet(Tasks)
  BY ProcsKnown, FS_Interval
<1>2. With(T, status) \subseteq Tasks
  BY DEF With
<1>3. IsFiniteSet(With(T, status))
  BY <1>1, <1>2, FS_Subset
<1>4. With(T, status) \ o \subseteq With(T, status)
  OBVIOUS
<1> QED
  BY <1>2, <1>3, <1>4, FS_Subset, FS_CardinalityType

\* Fewer tasks in progress are not more in number.
LEMMA CountLess ==
  ASSUME NEW T, NEW U, NEW o, NEW p,
         With(U, "in_progress") \ p \subseteq With(T, "in_progress") \ o
  PROVE  Cardinality(With(U, "in_progress") \ p) <= Cardinality(With(T, "in_progress") \ o)
<1>1. IsFiniteSet(With(T, "in_progress") \ o)
  BY Counted
<1> QED
  BY <1>1, FS_Subset

\* One task more in progress is at most one more.
LEMMA CountMore ==
  ASSUME NEW T, NEW U, NEW t, NEW o,
         With(U, "in_progress") \subseteq With(T, "in_progress") \union {t}
  PROVE  Cardinality(With(U, "in_progress") \ o) <= Cardinality(With(T, "in_progress")) + 1
<1> DEFINE S == With(T, "in_progress")
<1>1. IsFiniteSet(S) /\ Cardinality(S) \in Nat
  BY Counted
<1>2. IsFiniteSet(S \union {t}) /\ Cardinality(S \union {t}) <= Cardinality(S) + 1
  BY <1>1, FS_AddElement
<1>3. With(U, "in_progress") \ o \subseteq S \union {t}
  OBVIOUS
<1>4. Cardinality(With(U, "in_progress") \ o) <= Cardinality(S \union {t})
  BY <1>2, <1>3, FS_Subset
<1>5. Cardinality(With(U, "in_progress") \ o) \in Nat /\ Cardinality(S \union {t}) \in Nat
  BY <1>2, Counted, FS_CardinalityType
<1> QED
  BY <1>1, <1>2, <1>4, <1>5

\* A list stays sound when the definition keeps its graph and its cap, the templates
\* and lives only grow together, and more tasks are overtaken.
LEMMA ListKept ==
  ASSUME NEW T \in Lists, NEW d, NEW e, NEW a, NEW b, NEW n \in Int, NEW m \in Int,
         NEW o, NEW p, o \subseteq p, d.cap \in Nat,
         ListOK(T, d, a, n, o), e.cap = d.cap, e.deps = d.deps,
         \A t \in Tasks : n + (IF t \in a THEN 1 ELSE 0) <= m + (IF t \in b THEN 1 ELSE 0)
  PROVE  ListOK(T, e, b, m, p)
<1>1. \A t \in Tasks : T[t].out \in Nat
  BY WorkflowAssumption DEF Lists, TaskType
<1>2. With(T, "in_progress") \ p \subseteq With(T, "in_progress") \ o
  OBVIOUS
<1>3. Cardinality(With(T, "in_progress") \ p) <= Cardinality(With(T, "in_progress") \ o)
      /\ Cardinality(With(T, "in_progress") \ p) \in Nat
      /\ Cardinality(With(T, "in_progress") \ o) \in Nat
  BY <1>2, CountLess, Counted
<1>4. e.cap > 0 => Cardinality(With(T, "in_progress") \ p) <= e.cap
  BY <1>3 DEF ListOK
<1>5. \A t \in With(T, "failed") \ p :
        T[t].err = "blocked" => e.deps[t] \intersect (With(T, "failed") \union p) # {}
  BY DEF ListOK
<1>6. \A t \in Tasks : T[t].out <= m + (IF t \in b THEN 1 ELSE 0)
  BY <1>1 DEF ListOK
<1> QED
  BY <1>4, <1>5, <1>6 DEF ListOK

\* A list of fresh tasks is sound.
LEMMA FreshHolds ==
  /\ FreshList \in Lists
  /\ \A d, a, o : \A n \in Nat : d.cap \in Nat => ListOK(FreshList, d, a, n, o)
<1>1. \A t \in Tasks : FreshList[t] = FreshTask /\ FreshList[t] \in TaskType
  BY WorkflowAssumption DEF FreshList, FreshTask, TaskType, Statuses
<1>2. FreshList \in Lists
  BY <1>1 DEF Lists, FreshList
<1>3. ASSUME NEW d, NEW a, NEW o, NEW n \in Nat, d.cap \in Nat
      PROVE  ListOK(FreshList, d, a, n, o)
  <2>1. With(FreshList, "in_progress") = {} /\ With(FreshList, "failed") = {}
    BY <1>1 DEF With, FreshTask
  <2>2. \A t \in Tasks : FreshList[t].out <= n + (IF t \in a THEN 1 ELSE 0)
    BY <1>1 DEF FreshTask
  <2>3. With(FreshList, "in_progress") \ o = {}
    BY <2>1
  <2>4. Cardinality(With(FreshList, "in_progress") \ o) <= d.cap
    BY <1>3, <2>3, FS_EmptySet
  <2> QED
    BY <2>1, <2>2, <2>4 DEF ListOK
<1> QED
  BY <1>2, <1>3

\* From T to U some tasks settle and none starts; a task is marked as blocked only
\* behind one that failed.
Settles(T, U) ==
  \A t \in Tasks :
    /\ U[t].key = T[t].key /\ U[t].out = T[t].out
    /\ isTerminal(T[t].status) => U[t].status = T[t].status /\ U[t].err = T[t].err
    /\ U[t].status # T[t].status => isTerminal(U[t].status)
    /\ U[t].status = "failed" /\ U[t].err = "blocked" =>
         \/ T[t].status = "failed" /\ T[t].err = "blocked"
         \/ def.deps[t] \intersect With(U, "failed") # {}

\* Settling twice is settling.
LEMMA SettlesOn ==
  ASSUME NEW T \in Lists, NEW U \in Lists, NEW V \in Lists, Settles(T, U), Settles(U, V)
  PROVE  Settles(T, V)
<1>1. With(U, "failed") \subseteq With(V, "failed")
  BY DEF Settles, With, isTerminal
<1> QED
  BY <1>1 DEF Settles, isTerminal

\* Settling keeps a list sound and adds nothing to its tasks in progress.
LEMMA SettlesSound ==
  ASSUME NEW T \in Lists, NEW U \in Lists, Settles(T, U), NEW a, NEW n \in Int, NEW o,
         def.cap \in Nat, ListOK(T, def, a, n, o)
  PROVE  ListOK(U, def, a, n, o) /\ With(U, "in_progress") \subseteq With(T, "in_progress")
<1>1. With(U, "in_progress") \subseteq With(T, "in_progress")
  BY DEF Settles, With, isTerminal
<1>2. With(U, "in_progress") \ o \subseteq With(T, "in_progress") \ o
  BY <1>1
<1>3. Cardinality(With(U, "in_progress") \ o) <= Cardinality(With(T, "in_progress") \ o)
  BY <1>2, CountLess
<1>4. Cardinality(With(U, "in_progress") \ o) \in Nat
      /\ Cardinality(With(T, "in_progress") \ o) \in Nat
  BY Counted
<1>5. With(T, "failed") \subseteq With(U, "failed")
  BY DEF Settles, With, isTerminal
<1>6. def.cap > 0 => Cardinality(With(U, "in_progress") \ o) <= def.cap
  BY <1>3, <1>4 DEF ListOK
<1>7. ASSUME NEW t \in With(U, "failed") \ o, U[t].err = "blocked"
      PROVE  def.deps[t] \intersect (With(U, "failed") \union o) # {}
  <2>1. t \in Tasks /\ U[t].status = "failed"
    BY <1>7 DEF With
  <2>2. CASE T[t].status = "failed" /\ T[t].err = "blocked"
    BY <1>5, <1>7, <2>1, <2>2 DEF ListOK, With
  <2>3. CASE def.deps[t] \intersect With(U, "failed") # {}
    BY <2>3
  <2> QED
    BY <1>7, <2>1, <2>2, <2>3 DEF Settles
<1>8. \A t \in Tasks : U[t].out <= n + (IF t \in a THEN 1 ELSE 0)
  BY DEF Settles, ListOK
<1> QED
  BY <1>1, <1>6, <1>7, <1>8 DEF ListOK

\* What becomes of an overtaken task leaves the list as sound as it was.
LEMMA OvertakenSound ==
  ASSUME NEW T, NEW U, NEW t, NEW d, NEW a, NEW n, NEW o, t \in o,
         \A u \in Tasks : U[u].out = T[u].out /\ (u = t \/ U[u] = T[u]),
         d.cap \in Nat, ListOK(T, d, a, n, o)
  PROVE  ListOK(U, d, a, n, o)
<1>1. With(U, "in_progress") \ o = With(T, "in_progress") \ o
  BY DEF With
<1>2. With(U, "failed") \union o = With(T, "failed") \union o
  BY DEF With
<1>3. With(U, "failed") \ o = With(T, "failed") \ o
      /\ \A u \in With(U, "failed") \ o : U[u] = T[u]
  BY DEF With
<1> QED
  BY <1>1, <1>2, <1>3 DEF ListOK

\* What is spread to lies within, and not among the seeds.
LEMMA SpreadIn ==
  ASSUME NEW Seeds, NEW Within
  PROVE  Spread(Seeds, Within) \subseteq Within \ Seeds
BY DEF Spread

\* The seeds and what they spread to are closed.
LEMMA SpreadClosed ==
  ASSUME NEW Seeds \in SUBSET Tasks, NEW Within \in SUBSET Tasks
  PROVE  ClosedIn(Seeds \union Spread(Seeds, Within), Within)
<1> DEFINE R == Seeds \union Spread(Seeds, Within)
<1> SUFFICES ASSUME NEW u \in Within, def.deps[u] \intersect R # {}, u \notin Seeds
             PROVE  u \in Spread(Seeds, Within)
  BY DEF ClosedIn
<1>1. ASSUME NEW C \in SUBSET Tasks, Seeds \subseteq C, ClosedIn(C, Within)
      PROVE  u \in C
  <2>1. R \subseteq C
    BY <1>1 DEF Spread
  <2> QED
    BY <1>1, <2>1 DEF ClosedIn
<1> QED
  BY <1>1 DEF Spread

\* What is spread to depends on a seed or on something else that is spread to.
LEMMA SpreadCaused ==
  ASSUME NEW Seeds \in SUBSET Tasks, NEW Within \in SUBSET Tasks,
         NEW t \in Spread(Seeds, Within)
  PROVE  def.deps[t] \intersect (Seeds \union Spread(Seeds, Within)) # {}
<1> DEFINE R == Seeds \union Spread(Seeds, Within)
           C == R \ {t}
<1> SUFFICES ASSUME def.deps[t] \intersect R = {} PROVE FALSE
  OBVIOUS
<1>1. ClosedIn(R, Within)
  BY SpreadClosed
<1>2. ClosedIn(C, Within)
  BY <1>1 DEF ClosedIn
<1>3. C \in SUBSET Tasks /\ Seeds \subseteq C
  BY DEF Spread
<1> QED
  BY <1>2, <1>3 DEF Spread

\* Failing tasks that have not settled, for another reason than a dependency.
LEMMA FailingSettles ==
  ASSUME NEW T \in Lists, NEW S, NEW e \in {"other", "aborted"},
         \A t \in Tasks : t \in S => ~isTerminal(T[t].status)
  PROVE  Failing(T, S, e) \in Lists /\ Settles(T, Failing(T, S, e))
<1> DEFINE U == Failing(T, S, e)
<1>1. \A t \in Tasks : U[t] = IF t \in S THEN [T[t] EXCEPT !.status = "failed", !.err = e] ELSE T[t]
  BY DEF Failing
<1>2. U \in Lists
  BY DEF Failing, Lists, TaskType, Statuses
<1>3. Settles(T, U)
  BY <1>1 DEF Settles, Lists, TaskType, isTerminal
<1> QED
  BY <1>2, <1>3

\* markBlockedTasks settles pending tasks only, each behind a failed or a skipped one.
LEMMA MarkedSettles ==
  ASSUME NEW T \in Lists
  PROVE  /\ Marked(T) \in Lists /\ Settles(T, Marked(T))
         /\ With(Marked(T), "in_progress") = With(T, "in_progress")
<1> DEFINE blocked == Spread(With(T, "failed"), With(T, "pending"))
           skipped == Spread(With(T, "skipped"), With(T, "pending") \ blocked)
           U == Marked(T)
<1>1. blocked \subseteq With(T, "pending") /\ skipped \subseteq With(T, "pending") \ blocked
  BY SpreadIn
<1>2. \A t \in Tasks : U[t] = IF t \in skipped THEN [T[t] EXCEPT !.status = "skipped"]
                              ELSE IF t \in blocked
                                   THEN [T[t] EXCEPT !.status = "failed", !.err = "blocked"]
                                   ELSE T[t]
  BY DEF Marked, Failing
<1>3. U \in Lists
  BY DEF Marked, Failing, Lists, TaskType, Statuses
<1>4. With(T, "failed") \union blocked \subseteq With(U, "failed")
  BY <1>1, <1>2 DEF With, Lists, TaskType
<1>5. \A t \in blocked : def.deps[t] \intersect With(U, "failed") # {}
  <2>1. With(T, "failed") \in SUBSET Tasks /\ With(T, "pending") \in SUBSET Tasks
    BY DEF With
  <2> QED
    BY <1>4, <2>1, SpreadCaused
<1> HIDE DEF blocked, skipped, U
<1>6. Settles(T, U)
  <2>1. \A t \in blocked \union skipped : t \in Tasks /\ T[t].status = "pending"
    BY <1>1 DEF With
  <2>2. ASSUME NEW t \in Tasks, t \notin blocked \union skipped PROVE U[t] = T[t]
    BY <1>2, <2>2
  <2>3. ASSUME NEW t \in blocked
        PROVE  /\ U[t].key = T[t].key /\ U[t].out = T[t].out /\ U[t].status = "failed"
    BY <1>1, <1>2, <2>1, <2>3 DEF Lists, TaskType
  <2>4. ASSUME NEW t \in skipped
        PROVE  /\ U[t].key = T[t].key /\ U[t].out = T[t].out /\ U[t].status = "skipped"
    BY <1>2, <2>1, <2>4 DEF Lists, TaskType
  <2> QED
    BY <1>5, <2>1, <2>2, <2>3, <2>4 DEF Settles, isTerminal
<1>7. With(U, "in_progress") = With(T, "in_progress")
  BY <1>1, <1>2 DEF With, Lists, TaskType
<1> QED
  BY <1>3, <1>6, <1>7 DEF U

\* handleFailures settles pending and started tasks when it aborts the workflow.
LEMMA HandledSettles ==
  ASSUME NEW T \in Lists
  PROVE  Handled(T) \in Lists /\ Settles(T, Handled(T))
<1> DEFINE H == [t \in Tasks |-> [T[t] EXCEPT !.handled = @ \/ t \in HandledNow(T)]]
<1>1. H \in Lists
  BY DEF Lists, TaskType
<1>2. Settles(T, H)
  BY DEF Settles, Lists, TaskType
<1>3. CASE Aborting(T) = {}
  BY <1>1, <1>2, <1>3 DEF Handled
<1>4. CASE Aborting(T) # {}
  <2> DEFINE S == With(H, "pending") \union With(H, "in_progress")
  <2>1. Handled(T) = Failing(H, S, "aborted")
    BY <1>4 DEF Handled
  <2>2. \A t \in Tasks : t \in S => ~isTerminal(H[t].status)
    BY DEF With, isTerminal
  <2> HIDE DEF H, S
  <2>3. Failing(H, S, "aborted") \in Lists /\ Settles(H, Failing(H, S, "aborted"))
    BY <1>1, <2>2, FailingSettles
  <2> QED
    BY <1>1, <1>2, <2>1, <2>3, SettlesOn
<1> QED
  BY <1>3, <1>4

\* pollInProgress settles started tasks only.
LEMMA PolledSettles ==
  ASSUME NEW T \in Lists
  PROVE  Polled(T) \in Lists /\ Settles(T, Polled(T))
<1> DEFINE U == Polled(T)
<1>1. \A t \in Tasks :
        \/ U[t] = T[t]
        \/ /\ T[t].status = "in_progress"
           /\ \/ U[t] = [T[t] EXCEPT !.status = "done"]
              \/ U[t] = [T[t] EXCEPT !.status = "failed", !.err = "other"]
  BY DEF Polled, poll
<1>2. U = [t \in Tasks |-> U[t]]
  BY DEF Polled
<1> HIDE DEF U
<1>3. ASSUME NEW t \in Tasks
      PROVE  /\ U[t] \in TaskType
             /\ U[t].key = T[t].key /\ U[t].out = T[t].out
             /\ U[t].status # T[t].status => T[t].status = "in_progress" /\ isTerminal(U[t].status)
             /\ U[t].err = T[t].err \/ (U[t].err = "other" /\ T[t].status = "in_progress")
             /\ U[t].status = "failed" /\ U[t].err = "blocked" => U[t] = T[t]
  <2>1. T[t] \in TaskType
    BY DEF Lists
  <2>2. CASE U[t] = T[t]
    BY <2>1, <2>2
  <2>3. CASE T[t].status = "in_progress" /\ U[t] = [T[t] EXCEPT !.status = "done"]
    BY <2>1, <2>3 DEF TaskType, Statuses, isTerminal
  <2>4. CASE /\ T[t].status = "in_progress"
             /\ U[t] = [T[t] EXCEPT !.status = "failed", !.err = "other"]
    BY <2>1, <2>4 DEF TaskType, Statuses, isTerminal
  <2> QED
    BY <1>1, <2>2, <2>3, <2>4
<1>4. U \in Lists
  BY <1>2, <1>3 DEF Lists
<1>5. Settles(T, U)
  BY <1>3 DEF Settles, isTerminal
<1> QED
  BY <1>4, <1>5 DEF U

\* A tick's synchronous part settles tasks, and starts none.
LEMMA TickSettles ==
  ASSUME NEW T \in Lists
  PROVE  LET A == Handled(Polled(T)) IN
         /\ Marked(A) \in Lists /\ Settles(T, Marked(A))
         /\ With(Marked(A), "in_progress") = With(A, "in_progress")
<1> DEFINE P == Polled(T)
           A == Handled(P)
<1>1. P \in Lists /\ Settles(T, P)
  BY PolledSettles
<1>2. A \in Lists /\ Settles(P, A)
  BY <1>1, HandledSettles
<1>3. Marked(A) \in Lists /\ Settles(A, Marked(A))
      /\ With(Marked(A), "in_progress") = With(A, "in_progress")
  BY <1>2, MarkedSettles
<1> HIDE DEF P, A
<1>4. Settles(T, A)
  BY <1>1, <1>2, SettlesOn
<1>5. Settles(T, Marked(A))
  BY <1>2, <1>3, <1>4, SettlesOn
<1> QED
  BY <1>3, <1>5 DEF P, A

-----------------------------------------------------------------------------
(* What the steps have in common.                                          *)

\* The lives that are over are counted from 0, and the definition is typed.
LEMMA LivesCounted ==
  ASSUME WorkflowTyped, server = "stopping" => faults > 0
  PROVE  Lives \in Nat /\ def.cap \in Nat /\ task \in Lists
BY WorkflowAssumption DEF WorkflowTyped, WorkflowTypeOK, Lives, DefType, Lists

\* One less than a positive number.
LEMMA OneLess == \A n \in Nat : n > 0 => n - 1 \in Nat
OBVIOUS

\* Adding to both sides keeps their order.
LEMMA OneMore == \A m, n \in Nat : m <= n => m + 0 <= n + 0 /\ m + 1 <= n + 1
OBVIOUS

\* And after a step.
LEMMA NextLivesCounted ==
  ASSUME WorkflowTyped', server' = "stopping" => faults' > 0
  PROVE  Lives' \in Nat
<1>1. faults' \in Nat
  BY WorkflowAssumption DEF WorkflowTyped, WorkflowTypeOK
<1>2. Lives' = IF server' = "stopping" THEN faults' - 1 ELSE faults'
  BY DEF Lives
<1>3. ASSUME server' = "stopping" PROVE faults' - 1 \in Nat
  BY <1>1, <1>3, OneLess
<1> QED
  BY <1>1, <1>2, <1>3

\* As many lives are over as long as the server and the faults stay.
LEMMA LivesKept ==
  ASSUME WorkflowTyped, ListsOK, server' = server, faults' = faults
  PROVE  /\ Lives' = Lives /\ Lives \in Int /\ (server' = "stopping" => faults' > 0)
         /\ \A t \in Tasks : Lives + (IF t \in applied THEN 1 ELSE 0)
                             <= Lives' + (IF t \in applied THEN 1 ELSE 0)
<1>1. \A n \in Nat : n <= n
  OBVIOUS
<1>2. Lives \in Nat /\ Lives' = Lives
  BY LivesCounted DEF ListsOK, Lives
<1>3. Lives + 0 <= Lives' + 0 /\ Lives + 1 <= Lives' + 1
  BY <1>1, <1>2, OneMore
<1> QED
  BY <1>1, <1>2, <1>3 DEF ListsOK

\* A task is overtaken once and for all.
LEMMA Remembered ==
  ASSUME WorkflowTyped, Records
  PROVE  overtaken \subseteq overtaken' /\ overtaken' \subseteq Tasks
BY DEF Records, Overtaken, WorkflowTyped, WorkflowTypeOK

\* Nothing is overtaken while the statuses stand, or while those who await a task
\* are those who step.
LEMMA NotOvertaken ==
  ASSUME WorkflowTyped, Records,
         \/ \A t \in Tasks : task'[t].status = task[t].status
         \/ \A k \in Procs : proc[k].pc \in {"call", "spawn"} => proc'[k] # proc[k]
  PROVE  overtaken' = overtaken
<1>1. CASE \A t \in Tasks : task'[t].status = task[t].status
  <2>1. With(task', "in_progress") = With(task, "in_progress")
    BY <1>1 DEF With
  <2>2. \A t \in Tasks : def.deps[t] \subseteq Tasks
    BY DEF WorkflowTyped, WorkflowTypeOK, DefType
  <2>3. \A t \in Tasks : ~Disturbed(t)
    BY <1>1, <2>1, <2>2 DEF Disturbed
  <2> QED
    BY <2>3 DEF Records, Overtaken
<1>2. CASE \A k \in Procs : proc[k].pc \in {"call", "spawn"} => proc'[k] # proc[k]
  BY <1>2 DEF Records, Overtaken, Awaits
<1> QED
  BY <1>1, <1>2

\* What a pass found holds on while it does not step: else its task is overtaken.
LEMMA PassKept ==
  ASSUME WorkflowTyped, PassesOK, Records, def'.deps = def.deps, def'.cap = def.cap,
         NEW k \in Runners, proc'[k] = proc[k]
  PROVE  PassOK(k)'
<1> DEFINE t == proc[k].at
<1>1. PassOK(k) /\ k \in Procs /\ overtaken \subseteq overtaken'
  BY ProcsKnown, Remembered DEF PassesOK
<1>2. CASE proc[k].pc \notin {"call", "spawn"} \/ t \in overtaken'
  BY <1>1, <1>2 DEF PassOK
<1>3. CASE proc[k].pc \in {"call", "spawn"} /\ t \notin overtaken'
  <2>1. /\ t \in Tasks /\ task[t].status = "pending" /\ def.deps[t] \subseteq With(task, "done")
        /\ def.cap > 0 => Cardinality(With(task, "in_progress")) < def.cap
    BY <1>1, <1>3 DEF PassOK
  <2>2. ~Disturbed(t)
    BY <1>1, <1>3, <2>1 DEF Records, Overtaken, Awaits
  <2>3. /\ \A u \in def.deps[t] \union {t} : task'[u].status = task[u].status
        /\ def.cap > 0 => With(task', "in_progress") \subseteq With(task, "in_progress")
    BY <2>2 DEF Disturbed
  <2>4. task'[t].status = "pending" /\ def.deps[t] \subseteq With(task', "done")
    BY <2>1, <2>3 DEF With
  <2>5. def.cap > 0 => Cardinality(With(task', "in_progress")) < def.cap
    <3> SUFFICES ASSUME def.cap > 0
                 PROVE  Cardinality(With(task', "in_progress")) < def.cap
      OBVIOUS
    <3>1. Cardinality(With(task', "in_progress")) <= Cardinality(With(task, "in_progress"))
      BY <2>3, Counted, FS_Subset
    <3>2. /\ Cardinality(With(task', "in_progress")) \in Nat /\ def.cap \in Nat
          /\ Cardinality(With(task, "in_progress")) \in Nat
      BY Counted DEF WorkflowTyped, WorkflowTypeOK, DefType
    <3> QED
      BY <2>1, <3>1, <3>2
  <2> HIDE DEF t
  <2> QED
    BY <1>3, <2>1, <2>4, <2>5 DEF PassOK, t
<1> QED
  BY <1>2, <1>3

\* So it is enough to look at the passes that step.
LEMMA PassesKept ==
  ASSUME WorkflowTyped, PassesOK, Records, def'.deps = def.deps, def'.cap = def.cap,
         \A k \in Runners : proc'[k] = proc[k] \/ PassOK(k)'
  PROVE  PassesOK'
BY PassKept DEF PassesOK

\* A pass that neither awaits a task nor loops has nothing to keep.
LEMMA PassFree ==
  ASSUME NEW k, proc'[k].pc \in {"idle", "save", "write", "post"}
  PROVE  PassOK(k)'
BY DEF PassOK

\* The lists stay sound if the one in memory does.
LEMMA ListsKept ==
  ASSUME WorkflowTyped, ListsOK, WorkflowTyped', Records,
         def'.cap = def.cap, def'.deps = def.deps,
         server' = "stopping" => faults' > 0,
         \A t \in Tasks : Lives + (IF t \in applied THEN 1 ELSE 0)
                          <= Lives' + (IF t \in applied' THEN 1 ELSE 0),
         Holds(task)',
         \/ disk'.task = disk.task \/ disk'.task = FreshList
         \/ \E k \in Procs : disk'.task = proc[k].snap,
         \A k \in Procs : \/ proc'[k].snap = proc[k].snap \/ proc'[k].snap = task
                          \/ proc'[k].snap = FreshList
  PROVE  ListsOK'
<1>1. Lives \in Int /\ Lives' \in Int /\ Lives' \in Nat
  <2>1. Lives \in Nat
    BY LivesCounted DEF ListsOK
  <2>2. Lives' \in Nat
    BY NextLivesCounted
  <2> QED
    BY <2>1, <2>2
<1>2. /\ task \in Lists /\ disk.task \in Lists /\ \A k \in Procs : proc[k].snap \in Lists
      /\ def.cap \in Nat /\ def'.cap \in Nat /\ overtaken \subseteq overtaken'
  BY Remembered DEF WorkflowTyped, WorkflowTypeOK, Lists, DiskType, ProcType, DefType
<1>3. ASSUME NEW T \in Lists, ListOK(T, def, applied, Lives, overtaken)
      PROVE  ListOK(T, def', applied', Lives', overtaken')
  BY <1>1, <1>2, <1>3, ListKept
<1>4. ListOK(FreshList, def', applied', Lives', overtaken')
  BY <1>1, <1>2, FreshHolds
<1>5. ListOK(disk'.task, def', applied', Lives', overtaken')
  BY <1>2, <1>3, <1>4 DEF ListsOK, Holds
<1>6. ASSUME NEW k \in Procs PROVE ListOK(proc'[k].snap, def', applied', Lives', overtaken')
  BY <1>2, <1>3, <1>4 DEF ListsOK, Holds
<1> QED
  BY <1>5, <1>6 DEF ListsOK, Holds

\* The one in memory does if it was as sound before the templates, the lives and the
\* tasks overtaken grew.
LEMMA TaskHolds ==
  ASSUME WorkflowTyped, ListsOK, WorkflowTyped', Records, task' \in Lists,
         def'.cap = def.cap, def'.deps = def.deps, server' = "stopping" => faults' > 0,
         ListOK(task', def, applied, Lives, overtaken'),
         \A t \in Tasks : Lives + (IF t \in applied THEN 1 ELSE 0)
                          <= Lives' + (IF t \in applied' THEN 1 ELSE 0)
  PROVE  Holds(task)'
<1>1. Lives \in Int /\ def.cap \in Nat /\ Lives' \in Int
  <2>1. Lives \in Nat /\ Lives' \in Nat /\ def.cap \in Nat
    BY LivesCounted, NextLivesCounted DEF ListsOK
  <2> QED
    BY <2>1
<1>2. ListOK(task', def', applied', Lives', overtaken')
  BY <1>1, ListKept
<1> QED
  BY <1>2 DEF Holds

\* It is if nothing but settling happens to its tasks.
LEMMA TaskSettles ==
  ASSUME WorkflowTyped, ListsOK, Records, task' \in Lists, Settles(task, task')
  PROVE  ListOK(task', def, applied, Lives, overtaken')
<1>1. Lives \in Int /\ def.cap \in Nat /\ task \in Lists
  BY LivesCounted DEF ListsOK
<1>2. ListOK(task', def, applied, Lives, overtaken)
  BY <1>1, SettlesSound DEF ListsOK, Holds
<1>3. \A n \in Int : n + 0 <= n + 0 /\ n + 1 <= n + 1
  OBVIOUS
<1>4. \A t \in Tasks : Lives + (IF t \in applied THEN 1 ELSE 0)
                       <= Lives + (IF t \in applied THEN 1 ELSE 0)
  BY <1>1, <1>3
<1> QED
  BY <1>1, <1>2, <1>4, Remembered, ListKept

\* Nothing settles.
LEMMA SettlesNot ==
  ASSUME NEW T, NEW U, U = T PROVE Settles(T, U)
BY DEF Settles

\* The lists stay sound in a step that leaves definition, tasks and templates alone.
LEMMA ListsStand ==
  ASSUME WorkflowTyped, ListsOK, WorkflowTyped', Records,
         task' = task, def'.cap = def.cap, def'.deps = def.deps,
         server' = "stopping" => faults' > 0,
         \A t \in Tasks : Lives + (IF t \in applied THEN 1 ELSE 0)
                          <= Lives' + (IF t \in applied' THEN 1 ELSE 0),
         \/ disk'.task = disk.task \/ disk'.task = FreshList
         \/ \E k \in Procs : disk'.task = proc[k].snap,
         \A k \in Procs : \/ proc'[k].snap = proc[k].snap \/ proc'[k].snap = task
                          \/ proc'[k].snap = FreshList
  PROVE  ListsOK'
<1>1. Settles(task, task') /\ task' \in Lists
  BY SettlesNot DEF WorkflowTyped, WorkflowTypeOK, Lists
<1>2. ListOK(task', def, applied, Lives, overtaken')
  BY <1>1, TaskSettles
<1>3. Holds(task)'
  BY <1>1, <1>2, TaskHolds
<1> QED
  BY <1>3, ListsKept

\* Sessions keep the tasks they work for.
LEMMA OwnedKept ==
  ASSUME WorkflowTyped, OwnedOK, Records, Working' \subseteq Working,
         server' = "down" => server = "down" \/ Working' = {},
         \A s \in Working' : sess'[s].task = sess[s].task,
         \A t \in Tasks \ overtaken' : task[t].status = "in_progress" =>
           \/ task'[t].status = "in_progress" /\ task'[t].key = task[t].key
           \/ task[t].key \notin Working'
  PROVE  OwnedOK'
<1>1. overtaken \subseteq overtaken'
  BY Remembered
<1> QED
  BY <1>1 DEF OwnedOK

\* A completed workflow stays as settled as it is.
LEMMA SettledKept ==
  ASSUME WorkflowTyped, SettledOK, Records, completed' = completed,
         completed => server' \notin {"starting", "down"},
         \A t \in Tasks \ overtaken' : isTerminal(task[t].status) => isTerminal(task'[t].status)
  PROVE  SettledOK'
<1>1. overtaken \subseteq overtaken'
  BY Remembered
<1> QED
  BY <1>1 DEF SettledOK

\* The file is as good as before when something is still to be saved.
LEMMA FileToSave ==
  ASSUME FileOK, UNCHANGED disk, Writing' = Writing, Unsaved'
  PROVE  FileOK'
BY DEF FileOK

\* And when nobody comes or goes who writes it, and the statuses stand.
LEMMA FileKept ==
  ASSUME FileOK, UNCHANGED disk, server' # "down" => server # "down",
         \A t \in Tasks : task'[t].status = task[t].status,
         \A k \in Procs : \/ proc'[k].pc = proc[k].pc /\ proc'[k].snap = proc[k].snap
                          \/ proc[k].pc \in {"idle", "post"} /\ proc'[k].pc \in {"idle", "post"}
  PROVE  FileOK'
<1>1. Writing' = Writing /\ (Unsaved' <=> Unsaved)
  BY DEF Writing, Unsaved
<1>2. \A k \in Writing : proc'[k].snap = proc[k].snap
  BY DEF Writing
<1> QED
  BY <1>1, <1>2 DEF FileOK, SameStatus

\* The types after a step: each variable is as it was or is given a value of its type.
LEMMA StepTyped ==
  ASSUME WorkflowTyped, Records, proc' \in [Procs -> ProcType],
         def' = def \/ def' \in DefType, task' = task \/ task' \in Lists,
         completed' = completed \/ completed' \in BOOLEAN,
         paused' = paused \/ paused' \in BOOLEAN,
         applied' = applied \/ applied' \subseteq Tasks,
         handle' = handle \/ handle' \in {"null", "armed", "fired"},
         stray' = stray \/ stray' \in Nat, disk' = disk \/ disk' \in DiskType,
         server' = server \/ server' \in {"up", "stopping", "down", "lost"},
         caller' = caller \/ caller' \in {"wait", "free"},
         sess' = sess \/ sess' \in [Sessions -> SessionType],
         ops' = ops \/ ops' \in 0..MaxOps, faults' = faults \/ faults' \in 0..MaxFaults
  PROVE  WorkflowTyped'
<1>1. \A j \in Procs : /\ proc'[j].pc \in {"idle", "loop", "call", "spawn", "notify", "save",
                                           "write", "post"}
                       /\ proc'[j].at \in 0..(N + 1) /\ proc'[j].snap \in [Tasks -> TaskType]
  BY DEF ProcType, PCs, Lists
<1>2. disk' \in DiskType
  BY DEF WorkflowTyped
<1>3. disk'.state \in {"absent", "ok", "torn"} /\ disk'.clash \in BOOLEAN
      /\ disk'.task \in [Tasks -> TaskType]
  BY <1>2 DEF DiskType, Lists
<1>4. def' \in DefType /\ task' \in Lists /\ completed' \in BOOLEAN /\ paused' \in BOOLEAN
  BY DEF WorkflowTyped, WorkflowTypeOK, Lists
<1>5. /\ applied' \subseteq Tasks /\ handle' \in {"null", "armed", "fired"} /\ stray' \in Nat
      /\ server' \in {"starting", "up", "stopping", "down", "lost"}
      /\ caller' \in {"start", "wait", "free"}
  BY DEF WorkflowTyped, WorkflowTypeOK
<1>6. sess' \in [Sessions -> SessionType] /\ ops' \in 0..MaxOps /\ faults' \in 0..MaxFaults
  BY DEF WorkflowTyped, WorkflowTypeOK
<1>7. overtaken' \subseteq Tasks
  BY Remembered
<1>8. WorkflowTypeOK'
  BY <1>1, <1>3, <1>4, <1>5, <1>6, <1>7 DEF WorkflowTypeOK, Lists
<1> QED
  BY <1>2, <1>8 DEF WorkflowTyped

\* One proc is given a value of its type, and the others stand.
LEMMA ProcGiven ==
  ASSUME WorkflowTyped, NEW k \in Procs, NEW p \in ProcType, proc' = [proc EXCEPT ![k] = p]
  PROVE  /\ proc' \in [Procs -> ProcType] /\ proc'[k] = p
         /\ \A j \in Procs : j # k => proc'[j] = proc[j]
BY DEF WorkflowTyped

\* One proc goes on to another point of its code.
LEMMA ProcMoves ==
  ASSUME WorkflowTyped, NEW k \in Procs, NEW c \in PCs, NEW a \in 0..(N + 1),
         proc' = [proc EXCEPT ![k].pc = c, ![k].at = a]
  PROVE  /\ proc' \in [Procs -> ProcType]
         /\ proc'[k].pc = c /\ proc'[k].at = a /\ proc'[k].snap = proc[k].snap
         /\ \A j \in Procs : j # k => proc'[j] = proc[j]
<1> DEFINE p == [proc[k] EXCEPT !.pc = c, !.at = a]
<1>1. proc[k] \in ProcType /\ proc \in [Procs -> ProcType]
  BY DEF WorkflowTyped
<1>2. p \in ProcType /\ p.pc = c /\ p.at = a /\ p.snap = proc[k].snap
  BY <1>1 DEF ProcType
<1>3. proc' = [proc EXCEPT ![k] = p]
  BY <1>1 DEF ProcType
<1> HIDE DEF p
<1> QED
  BY <1>1, <1>2, <1>3

\* A proc that idles is of its type, and forgets what it wrote.
LEMMA Idles ==
  /\ Idle \in ProcType /\ Idle.pc = "idle" /\ Idle.snap = FreshList /\ Idle.at = 0
  /\ LET p == [Idle EXCEPT !.pc = "save"] IN
     p \in ProcType /\ p.pc = "save" /\ p.at = 0 /\ p.snap = FreshList
  /\ LET p == [Idle EXCEPT !.pc = "post"] IN
     p \in ProcType /\ p.pc = "post" /\ p.at = 0 /\ p.snap = FreshList
  /\ LET p == [Idle EXCEPT !.pc = "loop", !.at = 1] IN
     p \in ProcType /\ p.pc = "loop" /\ p.at = 1 /\ p.snap = FreshList
<1>1. FreshList \in Lists
  BY FreshHolds
<1>2. Idle = [pc |-> "idle", at |-> 0, snap |-> FreshList] /\ 0 \in 0..(N + 1)
  BY ProcsKnown DEF Idle, FreshList
<1>3. Idle \in ProcType /\ Idle.pc = "idle" /\ Idle.snap = FreshList /\ Idle.at = 0
  BY <1>1, <1>2 DEF ProcType, PCs
<1>4. LET p == [Idle EXCEPT !.pc = "save"] IN
      p \in ProcType /\ p.pc = "save" /\ p.at = 0 /\ p.snap = FreshList
  BY <1>3 DEF ProcType, PCs
<1>5. LET p == [Idle EXCEPT !.pc = "post"] IN
      p \in ProcType /\ p.pc = "post" /\ p.at = 0 /\ p.snap = FreshList
  BY <1>3 DEF ProcType, PCs
<1>6. LET p == [Idle EXCEPT !.pc = "loop", !.at = 1] IN
      p \in ProcType /\ p.pc = "loop" /\ p.at = 1 /\ p.snap = FreshList
  <2>1. 1 \in 0..(N + 1)
    BY ProcsKnown
  <2> QED
    BY <1>3, <2>1 DEF ProcType, PCs
<1> QED
  BY <1>3, <1>4, <1>5, <1>6

-----------------------------------------------------------------------------
(* The steps.                                                              *)

\* The invariant holds at first: only start()'s save is under way.
LEMMA WorkflowStarts == WorkflowInit => WorkflowInv
<1> SUFFICES ASSUME WorkflowInit PROVE WorkflowInv
  OBVIOUS
<1>1. def \in DefType /\ def.cap \in Nat
  BY WorkflowAssumption DEF WorkflowInit, DefType
<1>2. FreshList \in Lists /\ ListOK(FreshList, def, applied, 0, overtaken)
  BY <1>1, FreshHolds
<1>3. task = FreshList /\ disk = [state |-> "absent", clash |-> FALSE, task |-> FreshList]
  BY DEF WorkflowInit, NoFile, FreshList
<1>4. /\ \A k \in Procs : /\ proc[k].pc = IF k = Start THEN "save" ELSE "idle"
                          /\ proc[k].at = 0 /\ proc[k].snap = FreshList
      /\ proc \in [Procs -> ProcType]
  <2>1. \A k \in Procs : proc[k] = IF k = Start THEN [Idle EXCEPT !.pc = "save"] ELSE Idle
    BY DEF WorkflowInit
  <2>2. \A k \in Procs : /\ proc[k] \in ProcType
                         /\ proc[k].pc = IF k = Start THEN "save" ELSE "idle"
                         /\ proc[k].at = 0 /\ proc[k].snap = FreshList
    BY <2>1, Idles, ProcsKnown DEF PCs
  <2>3. proc = [k \in Procs |-> proc[k]]
    BY DEF WorkflowInit
  <2> QED
    BY <2>2, <2>3
<1>5. WorkflowTyped
  <2>1. sess \in [Sessions -> SessionType]
    BY WorkflowAssumption DEF WorkflowInit, SessionType, NoSession
  <2>2. /\ disk.state = "absent" /\ disk.clash = FALSE /\ disk.task \in [Tasks -> TaskType]
        /\ task \in [Tasks -> TaskType]
    BY <1>2, <1>3 DEF Lists
  <2>3. \A k \in Procs : /\ proc[k].pc \in {"idle", "loop", "call", "spawn", "notify", "save",
                                             "write", "post"}
                          /\ proc[k].at \in 0..(N + 1) /\ proc[k].snap \in [Tasks -> TaskType]
    BY <1>4 DEF ProcType, PCs, Lists
  <2>4. ops \in 0..MaxOps /\ faults \in 0..MaxFaults
    BY WorkflowAssumption DEF WorkflowInit
  <2>5. WorkflowTypeOK
    BY <1>1, <2>1, <2>2, <2>3, <2>4 DEF WorkflowInit, WorkflowTypeOK
  <2> QED
    BY <1>2, <1>3, <1>4, <2>5 DEF WorkflowTyped, DiskType
<1>6. ListsOK
  BY <1>2, <1>3, <1>4 DEF WorkflowInit, ListsOK, Holds, Lives
<1>7. LoopOK
  <2>1. \A k \in Procs : Busy(k) <=> k = Start
    BY <1>4 DEF Busy
  <2>2. Start # Control /\ Start \in Procs /\ Control \in Procs /\ proc[Control].pc = "idle"
    BY <1>4, ProcsKnown
  <2>3. OneLoop
    BY <2>1, <2>2, ProcsKnown DEF WorkflowInit, OneLoop
  <2> QED
    BY <2>1, <2>2, <2>3 DEF WorkflowInit, LoopOK
<1>8. PassesOK
  BY <1>4, ProcsKnown DEF PassesOK, PassOK
<1>9. OwnedOK /\ SettledOK
  BY DEF WorkflowInit, OwnedOK, SettledOK, Working, NoSession
<1>10. FileOK
  <2>1. Writing = {} /\ Unsaved
    BY <1>4, ProcsKnown DEF Writing, Unsaved
  <2> QED
    BY <2>1 DEF FileOK
<1> QED
  BY <1>5, <1>6, <1>7, <1>8, <1>9, <1>10 DEF WorkflowInv

\* A step that leaves tasks, passes and file alone.
LEMMA StandStep ==
  ASSUME WorkflowInv, WorkflowTyped', Records,
         UNCHANGED <<def, completed, applied, handle, stray, proc, disk, server, faults>>,
         \A t \in Tasks : task'[t] = [task[t] EXCEPT !.old = task'[t].old],
         Working' \subseteq Working, \A s \in Working' : sess'[s].task = sess[s].task,
         ops' = ops \/ (server = "up" /\ ops' # 0)
  PROVE  WorkflowInv'
<1>1. \A t \in Tasks : /\ task'[t].status = task[t].status /\ task'[t].key = task[t].key
                       /\ task'[t].err = task[t].err /\ task'[t].out = task[t].out
  BY DEF WorkflowInv, WorkflowTyped, WorkflowTypeOK, TaskType
<1>2. overtaken' = overtaken
  BY <1>1, NotOvertaken DEF WorkflowInv
<1>3. ListsOK'
  <2>1. Settles(task, task') /\ task' \in Lists
    BY <1>1 DEF Settles, WorkflowTyped, WorkflowTypeOK, Lists
  <2>2. ListOK(task', def, applied, Lives, overtaken')
    BY <2>1, TaskSettles DEF WorkflowInv
  <2>3. /\ Lives' = Lives /\ Lives \in Int /\ (server' = "stopping" => faults' > 0)
        /\ \A t \in Tasks : Lives + (IF t \in applied THEN 1 ELSE 0)
                            <= Lives' + (IF t \in applied THEN 1 ELSE 0)
    BY LivesKept DEF WorkflowInv
  <2>4. Holds(task)'
    BY <2>1, <2>2, <2>3, TaskHolds DEF WorkflowInv
  <2> QED
    BY <2>3, <2>4, ListsKept DEF WorkflowInv
<1>4. LoopOK'
  BY <1>2 DEF WorkflowInv, LoopOK, OneLoop, Busy
<1>5. PassesOK'
  BY PassesKept DEF WorkflowInv
<1>6. OwnedOK' /\ SettledOK'
  BY <1>1, OwnedKept, SettledKept DEF WorkflowInv, SettledOK
<1>7. FileOK'
  BY <1>1, FileKept DEF WorkflowInv
<1> QED
  BY <1>3, <1>4, <1>5, <1>6, <1>7 DEF WorkflowInv

\* A session's turn ends, or somebody kills it.
LEMMA SessionStep ==
  ASSUME WorkflowInv, Records, NEW s \in Sessions, TurnEnds(s) \/ KilledOutside(s)
  PROVE  WorkflowInv'
<1>1. /\ UNCHANGED <<def, task, completed, paused, applied, handle, stray, proc, disk, server,
                     caller, ops, faults>>
      /\ Working' \subseteq Working /\ sess' \in [Sessions -> SessionType]
      /\ \A w \in Working' : sess'[w].task = sess[w].task
  <2>1. sess \in [Sessions -> SessionType]
    BY DEF WorkflowInv, WorkflowTyped, WorkflowTypeOK
  <2>2. \E g \in SessionType :
          /\ sess' = [sess EXCEPT ![s] = g] /\ g.task = sess[s].task
          /\ g.row = "terminated"
    <3>1. CASE KilledOutside(s)
      <4> DEFINE g == [sess[s] EXCEPT !.row = "terminated"]
      <4>1. g \in SessionType /\ g.task = sess[s].task /\ g.row = "terminated"
        BY <2>1 DEF SessionType
      <4>2. sess' = [sess EXCEPT ![s] = g]
        BY <2>1, <3>1 DEF KilledOutside, SessionType
      <4> QED
        BY <4>1, <4>2
    <3>2. CASE TurnEnds(s)
      <4>1. PICK r \in {"ok", "bad"} :
              sess' = [sess EXCEPT ![s].row = "terminated", ![s].turn = "ended", ![s].result = r]
        BY <3>2 DEF TurnEnds
      <4> DEFINE g == [sess[s] EXCEPT !.row = "terminated", !.turn = "ended", !.result = r]
      <4>2. g \in SessionType /\ g.task = sess[s].task /\ g.row = "terminated"
        BY <2>1 DEF SessionType
      <4>3. sess' = [sess EXCEPT ![s] = g]
        BY <2>1, <4>1 DEF SessionType
      <4> QED
        BY <4>2, <4>3
    <3> QED
      BY <3>1, <3>2
  <2>3. UNCHANGED <<def, task, completed, paused, applied, handle, stray, proc, disk, server,
                    caller, ops, faults>>
    BY DEF TurnEnds, KilledOutside
  <2>4. sess' \in [Sessions -> SessionType] /\ \A w \in Sessions : w # s => sess'[w] = sess[w]
    BY <2>1, <2>2
  <2>5. s \notin Working' /\ Working' \subseteq Sessions
    BY <2>1, <2>2 DEF Working
  <2> QED
    BY <2>3, <2>4, <2>5 DEF Working
<1>2. WorkflowTyped'
  <2>1. proc' \in [Procs -> ProcType]
    BY <1>1 DEF WorkflowInv, WorkflowTyped
  <2> QED
    BY <1>1, <2>1, StepTyped DEF WorkflowInv
<1>3. \A t \in Tasks : task'[t] = [task[t] EXCEPT !.old = task'[t].old]
  BY <1>1 DEF WorkflowInv, WorkflowTyped, WorkflowTypeOK, TaskType
<1> QED
  BY <1>1, <1>2, <1>3, StandStep

\* A task's limit passes: nothing settles before the next tick.
LEMMA LimitStep ==
  ASSUME WorkflowInv, Records, NEW t \in Tasks, LimitPasses(t)
  PROVE  WorkflowInv'
<1>1. UNCHANGED <<def, completed, paused, applied, handle, stray, proc, disk, server,
                  caller, sess, ops, faults>>
  BY DEF LimitPasses
<1>2. \A u \in Tasks : task'[u] = [task[u] EXCEPT !.old = task'[u].old]
      /\ task' \in Lists
  <2>1. task \in Lists /\ task' = [task EXCEPT ![t].old = TRUE]
    BY DEF LimitPasses, WorkflowInv, WorkflowTyped, WorkflowTypeOK, Lists
  <2> QED
    BY <2>1 DEF Lists, TaskType
<1>3. WorkflowTyped'
  <2>1. proc' \in [Procs -> ProcType]
    BY <1>1 DEF WorkflowInv, WorkflowTyped
  <2> QED
    BY <1>1, <1>2, <2>1, StepTyped DEF WorkflowInv
<1>4. Working' = Working
  BY <1>1 DEF Working
<1>5. task' \in Lists /\ \A s \in Working' : sess'[s].task = sess[s].task
  BY <1>1, <1>2, ProcsKnown
<1> QED
  BY <1>1, <1>2, <1>3, <1>4, <1>5, StandStep

\* Somebody waits for the workflow, or nothing happens.
LEMMA WaitStep ==
  ASSUME WorkflowInv, Records, WaitCalled \/ WaitReturns \/ UNCHANGED workflow
  PROVE  WorkflowInv'
<1>1. /\ UNCHANGED <<def, task, completed, paused, applied, handle, stray, proc, disk, server,
                     sess, faults>>
      /\ caller' = caller \/ caller' \in {"wait", "free"}
      /\ ops' = ops \/ (ops' \in 0..MaxOps /\ ops' # 0 /\ server = "up")
  BY WorkflowAssumption
     DEF WaitCalled, WaitReturns, workflow, OpsLeft, WorkflowInv, WorkflowTyped, WorkflowTypeOK
<1>2. WorkflowTyped'
  <2>1. proc' \in [Procs -> ProcType]
    BY <1>1 DEF WorkflowInv, WorkflowTyped
  <2> QED
    BY <1>1, <2>1, StepTyped DEF WorkflowInv
<1>3. \A t \in Tasks : task'[t] = [task[t] EXCEPT !.old = task'[t].old]
  BY <1>1 DEF WorkflowInv, WorkflowTyped, WorkflowTypeOK, TaskType
<1>4. Working' = Working
  BY <1>1 DEF Working
<1> QED
  BY <1>1, <1>2, <1>3, <1>4, StandStep

\* A pass goes on in its loop: timers, file and server are as they were.
LEMMA PassGoesOn ==
  ASSUME WorkflowInv, WorkflowTyped', Records, NEW k \in Runners,
         proc[k].pc \in {"loop", "call", "spawn", "notify"},
         proc'[k].pc \in {"loop", "call", "spawn", "notify", "save"},
         proc[k].pc \in {"call", "spawn"} => proc'[k].pc # proc[k].pc,
         proc'[k].snap = proc[k].snap, \A j \in Procs : j # k => proc'[j] = proc[j],
         UNCHANGED <<def, completed, handle, stray, disk, server, ops, faults>>,
         applied \subseteq applied', Holds(task)', PassOK(k)', OwnedOK',
         \A t \in Tasks \ overtaken' : isTerminal(task[t].status) => isTerminal(task'[t].status)
  PROVE  WorkflowInv'
<1>1. Busy(k) /\ Busy(k)' /\ k \in Procs /\ k # Control /\ \A j \in Runners : j \in Procs
  BY ProcsKnown DEF Busy
<1>2. ListsOK'
  <2>1. /\ Lives' = Lives /\ Lives \in Int /\ (server' = "stopping" => faults' > 0)
        /\ \A t \in Tasks : Lives + (IF t \in applied THEN 1 ELSE 0)
                            <= Lives' + (IF t \in applied THEN 1 ELSE 0)
    BY LivesKept DEF WorkflowInv
  <2>2. \A t \in Tasks : Lives + (IF t \in applied THEN 1 ELSE 0)
                         <= Lives' + (IF t \in applied' THEN 1 ELSE 0)
    BY <2>1
  <2>3. \A j \in Procs : proc'[j].snap = proc[j].snap
    OBVIOUS
  <2> QED
    BY <2>1, <2>2, <2>3, ListsKept DEF WorkflowInv
<1>3. LoopOK'
  <2>1. \A j \in Procs : Busy(j)' <=> Busy(j)
    BY <1>1 DEF Busy
  <2>2. proc'[Control] = proc[Control] /\ Control \in Procs
    BY <1>1, ProcsKnown
  <2>3. ASSUME ops = 0 PROVE OneLoop'
    <3>1. OneLoop
      BY <2>3 DEF WorkflowInv, LoopOK
    <3>2. \A j \in Procs : proc[j].pc \in {"call", "spawn"} => j = k
      BY <1>1, <3>1, ProcsKnown DEF OneLoop, Busy
    <3>3. overtaken' = overtaken
      BY <3>2, NotOvertaken DEF WorkflowInv
    <3> QED
      BY <1>1, <2>1, <2>2, <3>1, <3>3 DEF OneLoop
  <2> QED
    BY <1>1, <2>1, <2>2, <2>3, ProcsKnown DEF WorkflowInv, LoopOK
<1>4. PassesOK'
  BY <1>1, PassesKept DEF WorkflowInv
<1>5. SettledOK'
  BY SettledKept DEF WorkflowInv, SettledOK
<1>6. FileOK'
  <2>1. Writing' = Writing /\ Unsaved'
    BY <1>1 DEF Writing, Unsaved
  <2> QED
    BY <2>1, FileToSave DEF WorkflowInv
<1> QED
  BY <1>2, <1>3, <1>4, <1>5, <1>6 DEF WorkflowInv

\* A set of numbers has a least one.
LEMMA LeastIn ==
  ASSUME NEW S \in SUBSET Nat, S # {}
  PROVE  Min(S) \in S
<1> DEFINE R == OpToRel(<, Nat)
<1>1. R = {ss \in Nat \X Nat : ss[1] < ss[2]} /\ IsWellFoundedOn(R, Nat)
  BY NatLessThanWellFounded DEF OpToRel
<1> HIDE DEF R
<1>2. PICK x \in S : \A y \in S : ~ (<<y, x>> \in R)
  BY <1>1, WFMin
<1>3. ASSUME NEW y \in S PROVE x <= y
  <2>1. <<y, x>> \in Nat \X Nat /\ ~ (<<y, x>> \in R)
    BY <1>2
  <2>2. ~ (y < x)
    BY <1>1, <2>1
  <2> QED
    BY <2>2
<1> QED
  BY <1>3 DEF Min

\* What is dispatched is a task that is ready, behind the pass and below the cap.
LEMMA Dispatched ==
  ASSUME WorkflowInv, NEW k \in Runners, proc[k].pc = "loop", Dispatchable(k) # {}
  PROVE  LET t == Min(Dispatchable(k)) IN
         /\ t \in Tasks /\ t + 1 \in 1..(N + 1)
         /\ task[t].status = "pending" /\ def.deps[t] \subseteq With(task, "done")
         /\ def.cap > 0 => Cardinality(With(task, "in_progress")) < def.cap
<1>1. proc[k].at \in 1..(N + 1)
  BY ProcsKnown DEF WorkflowInv, PassesOK, PassOK, WorkflowTyped, WorkflowTypeOK
<1>2. Dispatchable(k) \subseteq 1..N /\ ~AtCap
      /\ \A t \in Dispatchable(k) : Ready(t)
  BY <1>1, ProcsKnown DEF Dispatchable
<1>3. Dispatchable(k) \subseteq Nat
  BY <1>2, ProcsKnown
<1>4. Min(Dispatchable(k)) \in Dispatchable(k)
  BY <1>3, LeastIn
<1>5. def.cap > 0 => Cardinality(With(task, "in_progress")) < def.cap
  <2>1. def.cap \in Nat /\ Cardinality(With(task, "in_progress")) \in Nat
    BY Counted DEF WorkflowInv, WorkflowTyped, WorkflowTypeOK, DefType
  <2> QED
    BY <1>2, <2>1 DEF AtCap
<1> QED
  BY <1>2, <1>4, <1>5, ProcsKnown DEF Ready

\* What the steps of a pass do to the tasks: pending ones settle, or an overtaken one
\* is given the outcome it had been overtaken by.
Outcome(T, U) ==
  \/ /\ Settles(T, U)
     /\ \A u \in Tasks : U[u].status # T[u].status => T[u].status = "pending"
  \/ \E t \in overtaken : \A u \in Tasks : U[u].out = T[u].out /\ (u = t \/ U[u] = T[u])

\* The list in memory stays sound then.
LEMMA OutcomeHolds ==
  ASSUME WorkflowInv, WorkflowTyped', Records, UNCHANGED <<def, applied, server, faults>>,
         task' \in Lists, Outcome(task, task')
  PROVE  Holds(task)'
<1>1. ListOK(task', def, applied, Lives, overtaken')
  <2>1. CASE Settles(task, task')
    BY <2>1, TaskSettles DEF WorkflowInv
  <2>2. CASE \E t \in overtaken :
               \A u \in Tasks : task'[u].out = task[u].out /\ (u = t \/ task'[u] = task[u])
    <3>1. def.cap \in Nat /\ Lives \in Int /\ overtaken \subseteq overtaken'
      BY LivesCounted, Remembered DEF WorkflowInv, ListsOK
    <3>2. ListOK(task', def, applied, Lives, overtaken)
      BY <2>2, <3>1, OvertakenSound DEF WorkflowInv, ListsOK, Holds
    <3>3. \A n \in Int : n + 0 <= n + 0 /\ n + 1 <= n + 1
      OBVIOUS
    <3>4. \A t \in Tasks : Lives + (IF t \in applied THEN 1 ELSE 0)
                           <= Lives + (IF t \in applied THEN 1 ELSE 0)
      BY <3>1, <3>3
    <3> QED
      BY <3>1, <3>2, <3>4, ListKept
  <2> QED
    BY <2>1, <2>2 DEF Outcome
<1>2. /\ Lives' = Lives /\ (server' = "stopping" => faults' > 0)
      /\ \A t \in Tasks : Lives + (IF t \in applied THEN 1 ELSE 0)
                          <= Lives' + (IF t \in applied THEN 1 ELSE 0)
  BY LivesKept DEF WorkflowInv
<1> QED
  BY <1>1, <1>2, TaskHolds DEF WorkflowInv

\* A pass that changes tasks so goes on.
LEMMA PassChanges ==
  ASSUME WorkflowInv, Records, NEW k \in Runners, proc[k].pc \in {"loop", "call", "spawn"},
         NEW c \in {"loop", "notify"}, NEW a \in 1..(N + 1),
         proc' = [proc EXCEPT ![k].pc = c, ![k].at = a],
         task' \in Lists, Outcome(task, task'), paused' \in BOOLEAN,
         UNCHANGED <<def, completed, applied, handle, stray, disk, server, caller, sess, ops,
                     faults>>
  PROVE  WorkflowInv'
<1>1. k \in Procs /\ c \in PCs /\ a \in 0..(N + 1) /\ a # 0
  BY ProcsKnown DEF PCs
<1>2. /\ proc' \in [Procs -> ProcType]
      /\ proc'[k].pc = c /\ proc'[k].at = a /\ proc'[k].snap = proc[k].snap
      /\ \A j \in Procs : j # k => proc'[j] = proc[j]
  BY <1>1, ProcMoves DEF WorkflowInv
<1>3. WorkflowTyped'
  BY <1>2, StepTyped DEF WorkflowInv
<1>4. Holds(task)'
  BY <1>3, OutcomeHolds
<1>5. PassOK(k)'
  BY <1>1, <1>2 DEF PassOK
<1>6. overtaken \subseteq overtaken'
  BY Remembered DEF WorkflowInv
<1>7. \A t \in Tasks \ overtaken' :
        \/ task'[t].status = task[t].status /\ task'[t].key = task[t].key
        \/ task[t].status = "pending"
  BY <1>6 DEF Outcome, Settles
<1>8. OwnedOK'
  <2>1. Working' = Working
    BY DEF Working
  <2> QED
    BY <1>7, <2>1, OwnedKept DEF WorkflowInv
<1>9. \A t \in Tasks \ overtaken' : isTerminal(task[t].status) => isTerminal(task'[t].status)
  BY <1>7 DEF isTerminal
<1> QED
  BY <1>2, <1>3, <1>4, <1>5, <1>8, <1>9, PassGoesOn

\* What a gate, a transform or a returning call does to the tasks is to settle them.
LEMMA OneSettles ==
  ASSUME NEW T \in Lists, NEW t \in Tasks, T[t].status = "pending" \/ t \in overtaken, NEW U,
         \/ U = [T EXCEPT ![t].status = "done"]
         \/ U = Failing(T, {t}, "other")
         \/ /\ T[t].status = "pending"
            /\ \E S : U = [u \in Tasks |->
                 IF u = t THEN [T[u] EXCEPT !.status = "done"]
                 ELSE IF u \in S /\ T[u].status = "pending"
                   THEN [T[u] EXCEPT !.status = "skipped"]
                 ELSE T[u]]
  PROVE  U \in Lists /\ Outcome(T, U)
<1>1. U = [u \in Tasks |-> U[u]]
  BY DEF Lists, Failing
<1>2. \A u \in Tasks :
        \/ U[u] = T[u]
        \/ u = t /\ U[u] = [T[u] EXCEPT !.status = "done"]
        \/ u = t /\ U[u] = [T[u] EXCEPT !.status = "failed", !.err = "other"]
        \/ /\ T[t].status = "pending"
           /\ T[u].status = "pending" /\ U[u] = [T[u] EXCEPT !.status = "skipped"]
  BY DEF Lists, Failing
<1>3. ASSUME NEW u \in Tasks
      PROVE  /\ U[u] \in TaskType
             /\ U[u].key = T[u].key /\ U[u].out = T[u].out
             /\ U[u].err = T[u].err \/ (u = t /\ U[u].err = "other")
             /\ U[u].status # T[u].status => isTerminal(U[u].status)
             /\ U[u].status = "failed" => U[u] = T[u] \/ U[u].err = "other"
             /\ u # t /\ U[u] # T[u] => T[t].status = "pending" /\ T[u].status = "pending"
  <2>1. T[u] \in TaskType
    BY DEF Lists
  <2>2. CASE U[u] = T[u]
    BY <2>1, <2>2
  <2>3. CASE u = t /\ U[u] = [T[u] EXCEPT !.status = "done"]
    BY <2>1, <2>3 DEF TaskType, Statuses, isTerminal
  <2>4. CASE u = t /\ U[u] = [T[u] EXCEPT !.status = "failed", !.err = "other"]
    BY <2>1, <2>4 DEF TaskType, Statuses, isTerminal
  <2>5. CASE /\ T[t].status = "pending"
             /\ T[u].status = "pending" /\ U[u] = [T[u] EXCEPT !.status = "skipped"]
    BY <2>1, <2>5 DEF TaskType, Statuses, isTerminal
  <2> QED
    BY <1>2, <2>2, <2>3, <2>4, <2>5
<1>4. U \in Lists
  BY <1>1, <1>3 DEF Lists
<1>5. CASE T[t].status = "pending"
  <2>1. \A u \in Tasks : U[u].status # T[u].status => T[u].status = "pending"
    BY <1>3, <1>5
  <2>2. ASSUME NEW u \in Tasks, isTerminal(T[u].status) PROVE U[u] = T[u]
    BY <1>3, <1>5, <2>2 DEF isTerminal
  <2>3. Settles(T, U)
    BY <1>3, <2>2 DEF Settles
  <2> QED
    BY <1>4, <2>1, <2>3 DEF Outcome
<1>6. CASE t \in overtaken /\ T[t].status # "pending"
  BY <1>3, <1>4, <1>6 DEF Outcome
<1> QED
  BY <1>5, <1>6

\* A pass dispatches a task: it settles at once, or its call or its spawn is awaited.
LEMMA DispatchStep ==
  ASSUME WorkflowInv, Records, NEW k \in Runners, Dispatch(k)
  PROVE  WorkflowInv'
<1> DEFINE t == Min(Dispatchable(k))
<1>1. /\ proc[k].pc = "loop" /\ Dispatchable(k) # {}
      /\ UNCHANGED <<def, completed, paused, applied, handle, stray, disk, server, caller, sess,
                     ops, faults>>
  BY DEF Dispatch
<1>2. /\ t \in Tasks /\ t + 1 \in 1..(N + 1)
      /\ task[t].status = "pending" /\ def.deps[t] \subseteq With(task, "done")
      /\ def.cap > 0 => Cardinality(With(task, "in_progress")) < def.cap
  BY <1>1, Dispatched
<1>3. DispatchGate(k, t) \/ DispatchTransform(k, t) \/ DispatchAwaited(k, t)
  BY DEF Dispatch
<1> HIDE DEF t
<1>4. k \in Procs /\ task \in Lists /\ paused \in BOOLEAN /\ WorkflowTyped
  BY ProcsKnown DEF WorkflowInv, WorkflowTyped, WorkflowTypeOK, Lists
<1>5. CASE DispatchGate(k, t) \/ DispatchTransform(k, t)
  <2>1. proc' = [proc EXCEPT ![k].pc = "loop", ![k].at = t + 1]
    BY <1>5 DEF DispatchGate, DispatchTransform, Onward
  <2>2. \/ task' = [task EXCEPT ![t].status = "done"]
        \/ task' = Failing(task, {t}, "other")
        \/ \E S : task' = [u \in Tasks |->
             IF u = t THEN [task[u] EXCEPT !.status = "done"]
             ELSE IF u \in S /\ task[u].status = "pending"
               THEN [task[u] EXCEPT !.status = "skipped"]
             ELSE task[u]]
    BY <1>5 DEF DispatchGate, DispatchTransform
  <2>3. task' \in Lists /\ Outcome(task, task')
    BY <1>2, <1>4, <2>2, OneSettles
  <2> QED
    BY <1>1, <1>2, <1>4, <2>1, <2>3, PassChanges
<1>6. CASE DispatchAwaited(k, t)
  <2> DEFINE c == IF def.kind[t] = "agent" THEN "spawn" ELSE "call"
  <2>1. proc' = [proc EXCEPT ![k].pc = c, ![k].at = t] /\ task' = task
    BY <1>6 DEF DispatchAwaited
  <2>2. c \in PCs /\ c \in {"spawn", "call"} /\ t \in 0..(N + 1)
    BY <1>2, ProcsKnown DEF PCs
  <2> HIDE DEF c
  <2>3. /\ proc' \in [Procs -> ProcType]
        /\ proc'[k].pc = c /\ proc'[k].at = t /\ proc'[k].snap = proc[k].snap
        /\ \A j \in Procs : j # k => proc'[j] = proc[j]
    BY <1>4, <2>1, <2>2, ProcMoves
  <2>4. WorkflowTyped'
    BY <1>1, <1>4, <2>1, <2>3, StepTyped
  <2>5. PassOK(k)'
    BY <1>1, <1>2, <2>1, <2>2, <2>3 DEF PassOK
  <2>6. overtaken' = overtaken
    BY <1>4, <2>1, NotOvertaken
  <2>7. Holds(task)' /\ OwnedOK'
    BY <1>1, <2>1, <2>6 DEF WorkflowInv, ListsOK, Holds, Lives, OwnedOK, Working
  <2> QED
    BY <1>1, <2>1, <2>2, <2>3, <2>4, <2>5, <2>7, PassGoesOn
<1> QED
  BY <1>3, <1>5, <1>6

\* What a pass awaits a call or a spawn for: a pending task, or an overtaken one.
LEMMA Awaited ==
  ASSUME WorkflowInv, NEW k \in Runners, proc[k].pc \in {"call", "spawn"}
  PROVE  /\ proc[k].at \in Tasks /\ proc[k].at + 1 \in 1..(N + 1)
         /\ proc[k].at \notin overtaken =>
              /\ task[proc[k].at].status = "pending"
              /\ def.deps[proc[k].at] \subseteq With(task, "done")
              /\ def.cap > 0 => Cardinality(With(task, "in_progress")) < def.cap
BY ProcsKnown DEF WorkflowInv, PassesOK, PassOK

\* A tool or a message call returns, or a spawn fails.
LEMMA CallStepReturns ==
  ASSUME WorkflowInv, Records, NEW k \in Runners, CallReturns(k) \/ SpawnFails(k)
  PROVE  WorkflowInv'
<1> DEFINE t == proc[k].at
<1>1. /\ proc[k].pc \in {"call", "spawn"}
      /\ UNCHANGED <<def, completed, applied, handle, stray, disk, server, caller, sess, ops,
                     faults>>
      /\ paused' \in BOOLEAN
  BY DEF CallReturns, SpawnFails, WorkflowInv, WorkflowTyped, WorkflowTypeOK
<1>2. /\ t \in Tasks /\ t + 1 \in 1..(N + 1) /\ N + 1 \in 1..(N + 1) /\ task \in Lists
      /\ task[t].status = "pending" \/ t \in overtaken
  BY <1>1, Awaited, ProcsKnown DEF WorkflowInv, WorkflowTyped, WorkflowTypeOK, Lists
<1>3. /\ task' = [task EXCEPT ![t].status = "done"] \/ task' = Failing(task, {t}, "other")
      /\ \/ proc' = [proc EXCEPT ![k].pc = "loop", ![k].at = t + 1]
         \/ proc' = [proc EXCEPT ![k].pc = "notify", ![k].at = N + 1]
  BY DEF CallReturns, SpawnFails, Onward
<1> HIDE DEF t
<1>4. task' \in Lists /\ Outcome(task, task')
  <2>1. CASE task' = [task EXCEPT ![t].status = "done"]
    BY <1>2, <2>1, OneSettles
  <2>2. CASE task' = Failing(task, {t}, "other")
    BY <1>2, <2>2, OneSettles
  <2> QED
    BY <1>3, <2>1, <2>2
<1>5. CASE proc' = [proc EXCEPT ![k].pc = "loop", ![k].at = t + 1]
  BY <1>1, <1>2, <1>4, <1>5, PassChanges
<1>6. CASE proc' = [proc EXCEPT ![k].pc = "notify", ![k].at = N + 1]
  BY <1>1, <1>2, <1>4, <1>6, PassChanges
<1> QED
  BY <1>3, <1>5, <1>6

\* A spawn resolves: the session is the task's from its first step, and the task
\* counts against the cap.
LEMMA SpawnedStep ==
  ASSUME WorkflowInv, Records, NEW k \in Runners, SpawnReturns(k)
  PROVE  WorkflowInv'
<1> DEFINE t == proc[k].at
           s == Min(FreeSessions)
           g == [row |-> "active", turn |-> "running", result |-> "none", task |-> t]
<1>1. /\ proc[k].pc = "spawn"
      /\ UNCHANGED <<def, completed, paused, applied, handle, stray, disk, server, caller, ops,
                     faults>>
      /\ sess' = [sess EXCEPT ![s] = g]
      /\ task' = [task EXCEPT ![t].status = "in_progress", ![t].key = s, ![t].old = FALSE]
      /\ proc' = [proc EXCEPT ![k].pc = "loop", ![k].at = t + 1]
  BY DEF SpawnReturns, Onward
<1>2. /\ t \in Tasks /\ t + 1 \in 1..(N + 1)
      /\ t \notin overtaken =>
           /\ task[t].status = "pending"
           /\ def.cap > 0 => Cardinality(With(task, "in_progress")) < def.cap
  BY <1>1, Awaited
<1>3. s \in Sessions
  <2>1. FreeSessions # {} /\ FreeSessions \subseteq Sessions
    BY DEF SpawnReturns, FreeSessions
  <2> QED
    BY <2>1, LeastIn, ProcsKnown
<1>4. /\ k \in Procs /\ task \in Lists /\ sess \in [Sessions -> SessionType] /\ WorkflowTyped
      /\ def.cap \in Nat /\ Lives \in Int /\ overtaken \subseteq overtaken'
  <2>1. def.cap \in Nat /\ Lives \in Nat /\ task \in Lists
    BY LivesCounted DEF WorkflowInv, ListsOK
  <2>2. WorkflowTyped /\ overtaken \subseteq overtaken'
    BY Remembered DEF WorkflowInv
  <2>3. sess \in [Sessions -> SessionType]
    BY <2>2 DEF WorkflowTyped, WorkflowTypeOK
  <2> QED
    BY <2>1, <2>2, <2>3, ProcsKnown
<1>5. g \in SessionType /\ g.task = t
  BY <1>2, ProcsKnown DEF SessionType
<1> HIDE DEF t, s, g
<1>6. /\ proc' \in [Procs -> ProcType]
      /\ proc'[k].pc = "loop" /\ proc'[k].at = t + 1 /\ proc'[k].snap = proc[k].snap
      /\ \A j \in Procs : j # k => proc'[j] = proc[j]
  <2>1. "loop" \in PCs /\ t + 1 \in 0..(N + 1)
    BY <1>2, ProcsKnown DEF PCs
  <2> QED
    BY <1>1, <1>4, <2>1, ProcMoves
<1>7. /\ task' \in Lists /\ task'[t].status = "in_progress" /\ task'[t].key = s
      /\ task'[t].out = task[t].out
      /\ \A u \in Tasks : u # t => task'[u] = task[u]
  <2>1. task[t] \in TaskType /\ s \in 0..MaxSessions
    BY <1>2, <1>3, <1>4, WorkflowAssumption DEF Lists, Sessions
  <2>2. [task[t] EXCEPT !.status = "in_progress", !.key = s, !.old = FALSE] \in TaskType
    BY <2>1 DEF TaskType, Statuses
  <2>3. task' = [task EXCEPT ![t] = [task[t] EXCEPT !.status = "in_progress", !.key = s,
                                                    !.old = FALSE]]
    BY <1>1, <1>2, <1>4 DEF Lists, TaskType
  <2> QED
    BY <1>2, <1>4, <2>1, <2>2, <2>3 DEF Lists, TaskType
<1>8. /\ sess' \in [Sessions -> SessionType] /\ Working' \subseteq Working \union {s}
      /\ sess'[s].task = t /\ \A w \in Sessions : w # s => sess'[w] = sess[w]
  BY <1>1, <1>3, <1>4, <1>5 DEF Working
<1>9. WorkflowTyped'
  BY <1>1, <1>4, <1>6, <1>7, <1>8, StepTyped
<1>10. Holds(task)'
  <2>1. CASE t \in overtaken
    <3>1. \A u \in Tasks : task'[u].out = task[u].out /\ (u = t \/ task'[u] = task[u])
      BY <1>7
    <3>2. Outcome(task, task')
      BY <2>1, <3>1 DEF Outcome
    <3> QED
      BY <1>1, <1>7, <1>9, <3>2, OutcomeHolds
  <2>2. CASE t \notin overtaken
    <3>1. With(task', "in_progress") \subseteq With(task, "in_progress") \union {t}
      BY <1>7 DEF With
    <3>2. Cardinality(With(task', "in_progress") \ overtaken)
            <= Cardinality(With(task, "in_progress")) + 1
      BY <3>1, CountMore
    <3>3. def.cap > 0 => Cardinality(With(task', "in_progress") \ overtaken) <= def.cap
      <4> SUFFICES ASSUME def.cap > 0
                   PROVE  Cardinality(With(task', "in_progress") \ overtaken) <= def.cap
        OBVIOUS
      <4>1. Cardinality(With(task, "in_progress")) < def.cap
        BY <1>2, <2>2
      <4>2. /\ Cardinality(With(task', "in_progress") \ overtaken) \in Nat
            /\ Cardinality(With(task, "in_progress")) \in Nat /\ def.cap \in Nat
        BY <1>4, Counted
      <4> QED
        BY <3>2, <4>1, <4>2
    <3>4. With(task', "failed") = With(task, "failed")
      BY <1>2, <1>7, <2>2 DEF With
    <3>5. \A u \in With(task', "failed") : task'[u] = task[u]
      BY <1>7 DEF With
    <3>6. \A u \in Tasks : task'[u].out = task[u].out
      BY <1>7
    <3>7. ListOK(task', def, applied, Lives, overtaken)
      BY <3>3, <3>4, <3>5, <3>6 DEF WorkflowInv, ListsOK, Holds, ListOK
    <3>8. \A n \in Int : n + 0 <= n + 0 /\ n + 1 <= n + 1
      OBVIOUS
    <3>9. \A u \in Tasks : Lives + (IF u \in applied THEN 1 ELSE 0)
                           <= Lives + (IF u \in applied THEN 1 ELSE 0)
      BY <1>4, <3>8
    <3>10. ListOK(task', def, applied, Lives, overtaken')
      BY <1>4, <1>7, <3>7, <3>9, ListKept
    <3>11. Lives' = Lives
      BY <1>1 DEF Lives
    <3> QED
      BY <1>1, <3>10, <3>11 DEF Holds
  <2> QED
    BY <2>1, <2>2
<1>11. PassOK(k)'
  BY <1>2, <1>6 DEF PassOK
<1>12. OwnedOK'
  <2>1. server' # "down"
    BY <1>1, <1>4 DEF WorkflowInv, LoopOK, Busy
  <2>2. ASSUME NEW w \in Working', w # s, sess[w].task \notin overtaken'
        PROVE  /\ sess'[w].task \in Tasks
               /\ task'[sess'[w].task].status = "in_progress" /\ task'[sess'[w].task].key = w
    <3>1. w \in Working /\ sess'[w].task = sess[w].task
      BY <1>8, <2>2 DEF Working
    <3>2. /\ sess[w].task \in Tasks /\ sess[w].task \notin overtaken
          /\ task[sess[w].task].status = "in_progress" /\ task[sess[w].task].key = w
      BY <1>4, <2>2, <3>1 DEF WorkflowInv, OwnedOK
    <3>3. sess[w].task # t
      BY <1>2, <3>2
    <3> QED
      BY <1>7, <3>1, <3>2, <3>3
  <2>3. \A w \in Working' : w # s => sess'[w] = sess[w]
    BY <1>8 DEF Working
  <2> QED
    BY <1>2, <1>7, <1>8, <2>1, <2>2, <2>3 DEF OwnedOK
<1>13. \A u \in Tasks \ overtaken' : isTerminal(task[u].status) => isTerminal(task'[u].status)
  BY <1>2, <1>4, <1>7 DEF isTerminal
<1> QED
  BY <1>1, <1>6, <1>9, <1>10, <1>11, <1>12, <1>13, PassGoesOn

\* The parent has been told of a failed spawn: this pass starts nothing more.
LEMMA NotifiedPass ==
  ASSUME WorkflowInv, Records, NEW k \in Runners, NotifyReturns(k)
  PROVE  WorkflowInv'
<1>1. /\ proc[k].pc = "notify" /\ proc' = [proc EXCEPT ![k].pc = "loop"]
      /\ UNCHANGED <<def, task, completed, paused, applied, handle, stray, disk, server, caller,
                     sess, ops, faults>>
  BY DEF NotifyReturns
<1>2. /\ k \in Procs /\ proc \in [Procs -> ProcType] /\ WorkflowTyped
      /\ proc[k].at # 0 /\ proc[k].at \in 0..(N + 1)
  BY <1>1, ProcsKnown DEF WorkflowInv, WorkflowTyped, ProcType, PassesOK, PassOK
<1>3. /\ proc' \in [Procs -> ProcType]
      /\ proc'[k].pc = "loop" /\ proc'[k].at = proc[k].at /\ proc'[k].snap = proc[k].snap
      /\ \A j \in Procs : j # k => proc'[j] = proc[j]
  <2> DEFINE p == [proc[k] EXCEPT !.pc = "loop"]
  <2>1. p \in ProcType /\ p.snap = proc[k].snap /\ p.pc = "loop" /\ p.at = proc[k].at
    BY <1>2 DEF ProcType, PCs
  <2>2. proc' = [proc EXCEPT ![k] = p]
    BY <1>1, <1>2 DEF ProcType
  <2> HIDE DEF p
  <2> QED
    BY <1>2, <2>1, <2>2
<1>4. WorkflowTyped'
  BY <1>1, <1>2, <1>3, StepTyped
<1>5. overtaken' = overtaken
  BY <1>1, <1>2, NotOvertaken
<1>6. Holds(task)' /\ OwnedOK'
  BY <1>1, <1>5 DEF WorkflowInv, ListsOK, Holds, Lives, OwnedOK, Working
<1>7. PassOK(k)'
  BY <1>2, <1>3 DEF PassOK
<1> QED
  BY <1>1, <1>3, <1>4, <1>6, <1>7, PassGoesOn

\* The loop ends: templates are applied that have not been, and the save begins.
LEMMA LoopOver ==
  ASSUME WorkflowInv, Records, NEW k \in Runners, LoopEnds(k)
  PROVE  WorkflowInv'
<1> DEFINE now == IF k = Start THEN {} ELSE ToApply
<1>1. /\ proc[k].pc = "loop" /\ proc' = [proc EXCEPT ![k].pc = "save", ![k].at = N + 1]
      /\ task' = [t \in Tasks |-> [task[t] EXCEPT !.out = IF t \in now THEN @ + 1 ELSE @]]
      /\ applied' = applied \union now
      /\ UNCHANGED <<def, completed, paused, handle, stray, disk, server, caller, sess, ops,
                     faults>>
  BY DEF LoopEnds
<1>2. now \subseteq Tasks /\ now \intersect applied = {}
  BY DEF ToApply, With
<1> HIDE DEF now
<1>3. /\ k \in Procs /\ task \in Lists /\ applied \subseteq Tasks /\ WorkflowTyped
      /\ def.cap \in Nat /\ Lives \in Nat
  BY LivesCounted, ProcsKnown DEF WorkflowInv, ListsOK, WorkflowTyped, WorkflowTypeOK, Lists
<1>4. /\ proc' \in [Procs -> ProcType]
      /\ proc'[k].pc = "save" /\ proc'[k].at = N + 1 /\ proc'[k].snap = proc[k].snap
      /\ \A j \in Procs : j # k => proc'[j] = proc[j]
  <2>1. "save" \in PCs /\ N + 1 \in 0..(N + 1)
    BY ProcsKnown DEF PCs
  <2> QED
    BY <1>1, <1>3, <2>1, ProcMoves
<1>5. \A t \in Tasks : /\ task[t] \in TaskType /\ task[t].out \in Nat
                       /\ task[t].out <= Lives + (IF t \in applied THEN 1 ELSE 0)
  <2>1. \A t \in Tasks : task[t] \in TaskType
    BY <1>3 DEF Lists
  <2>2. \A t \in Tasks : task[t].out \in Nat
    BY <2>1, WorkflowAssumption DEF TaskType
  <2> QED
    BY <2>1, <2>2 DEF WorkflowInv, ListsOK, Holds, ListOK
<1>6. Lives <= MaxFaults /\ MaxFaults \in Nat
  BY WorkflowAssumption DEF Lives, WorkflowInv, ListsOK, WorkflowTyped, WorkflowTypeOK
<1>7. \A t \in Tasks :
        /\ task'[t].status = task[t].status /\ task'[t].key = task[t].key
        /\ task'[t].err = task[t].err /\ task'[t] \in TaskType
        /\ task'[t].out <= Lives + (IF t \in applied' THEN 1 ELSE 0)
  <2> SUFFICES ASSUME NEW t \in Tasks
               PROVE  /\ task'[t].status = task[t].status /\ task'[t].key = task[t].key
                      /\ task'[t].err = task[t].err /\ task'[t] \in TaskType
                      /\ task'[t].out <= Lives + (IF t \in applied' THEN 1 ELSE 0)
    OBVIOUS
  <2>1. CASE t \in now
    <3>1. task'[t] = [task[t] EXCEPT !.out = task[t].out + 1] /\ t \in applied' /\ t \notin applied
      BY <1>1, <1>2, <1>5, <2>1 DEF TaskType
    <3>2. task[t].out + 1 <= Lives + 1 /\ task[t].out + 1 \in 0..(MaxFaults + 1)
      BY <1>3, <1>5, <1>6, <3>1
    <3> QED
      BY <1>5, <3>1, <3>2 DEF TaskType
  <2>2. CASE t \notin now
    <3>1. task'[t] = task[t] /\ (t \in applied' <=> t \in applied)
      BY <1>1, <1>5, <2>2 DEF TaskType
    <3> QED
      BY <1>5, <3>1
  <2> QED
    BY <2>1, <2>2
<1>8. task' \in Lists
  BY <1>1, <1>7 DEF Lists
<1>9. WorkflowTyped'
  <2>1. applied' \subseteq Tasks
    BY <1>1, <1>2, <1>3
  <2> QED
    BY <1>1, <1>3, <1>4, <1>8, <2>1, StepTyped
<1>10. overtaken' = overtaken
  BY <1>3, <1>7, NotOvertaken
<1>11. Holds(task)'
  <2>1. With(task', "in_progress") = With(task, "in_progress")
        /\ With(task', "failed") = With(task, "failed")
    BY <1>7 DEF With
  <2>2. \A t \in With(task', "failed") : task'[t].err = task[t].err
    BY <1>7 DEF With
  <2>3. ListOK(task', def, applied', Lives, overtaken)
    BY <1>7, <2>1, <2>2 DEF WorkflowInv, ListsOK, Holds, ListOK
  <2>4. Lives' = Lives
    BY <1>1 DEF Lives
  <2> QED
    BY <1>1, <1>10, <2>3, <2>4 DEF Holds
<1>12. PassOK(k)'
  BY <1>4, PassFree
<1>13. OwnedOK'
  <2>1. Working' = Working
    BY <1>1 DEF Working
  <2> QED
    BY <1>1, <1>3, <1>7, <2>1, OwnedKept DEF WorkflowInv
<1>14. \A u \in Tasks \ overtaken' : isTerminal(task[u].status) => isTerminal(task'[u].status)
  BY <1>7
<1> QED
  BY <1>1, <1>4, <1>9, <1>11, <1>12, <1>13, <1>14, PassGoesOn


\* A timer of a completed workflow's loop fires: nothing begins.
LEMMA TickIdles ==
  ASSUME WorkflowInv, Records, NEW k \in Ticks, TickFires(k), completed
  PROVE  WorkflowInv'
<1>1. /\ handle = "armed" \/ stray > 0
      /\ UNCHANGED <<def, task, sess, paused, proc, completed, applied, disk, server, caller, ops,
                     faults>>
      /\ LET own == stray = 0
             h == IF own THEN "fired" ELSE handle
             n == IF own THEN stray ELSE stray - 1
         IN  IF h = "null" THEN handle' = h /\ stray' = n ELSE scheduleNext(h, n)
  BY DEF TickFires
<1>2. /\ handle \in {"null", "armed", "fired"} /\ stray \in Nat /\ WorkflowTyped
      /\ proc \in [Procs -> ProcType]
  BY DEF WorkflowInv, WorkflowTyped, WorkflowTypeOK
<1>3. /\ handle' \in {"null", "armed"} /\ stray' \in Nat
      /\ stray = 0 => handle' = "armed" /\ stray' = 0
  <2>1. CASE stray = 0
    BY <1>1, <2>1 DEF scheduleNext
  <2>2. CASE stray # 0
    <3>1. stray - 1 \in Nat /\ (stray - 1) + 1 \in Nat
      BY <1>2, <2>2
    <3> QED
      BY <1>1, <1>2, <2>2, <3>1 DEF scheduleNext
  <2> QED
    BY <2>1, <2>2
<1>4. WorkflowTyped'
  BY <1>1, <1>2, <1>3, StepTyped
<1>5. overtaken' = overtaken
  BY <1>1, <1>2, NotOvertaken
<1>6. ListsOK'
  BY <1>1, <1>5 DEF WorkflowInv, ListsOK, Holds, Lives
<1>7. LoopOK'
  <2>1. server # "down"
    BY DEF WorkflowInv, SettledOK
  <2>2. ASSUME ops = 0 PROVE OneLoop'
    <3>1. OneLoop
      BY <2>2 DEF WorkflowInv, LoopOK
    <3>2. stray = 0 /\ handle = "armed"
      BY <1>1, <1>2, <3>1 DEF OneLoop
    <3> QED
      BY <1>1, <1>3, <1>5, <3>1, <3>2 DEF OneLoop, Busy
  <2> QED
    BY <1>1, <2>1, <2>2 DEF WorkflowInv, LoopOK, Busy
<1>8. PassesOK' /\ OwnedOK' /\ SettledOK' /\ FileOK'
  BY <1>1, <1>5 DEF WorkflowInv, PassesOK, PassOK, OwnedOK, Working, SettledOK, FileOK, Writing,
                    Unsaved, SameStatus
<1> QED
  BY <1>4, <1>6, <1>7, <1>8 DEF WorkflowInv

\* A timer of the loop fires and a tick begins: what it settles it also kills.
LEMMA TickFired ==
  ASSUME WorkflowInv, Records, NEW k \in Ticks, TickFires(k), ~completed
  PROVE  WorkflowInv'
<1> DEFINE A == Handled(Polled(task))
           gone == {task[t].key : t \in With(task, "in_progress") \ With(A, "in_progress")}
           c == IF paused' THEN N + 1 ELSE 1
<1>1. /\ proc[k].pc = "idle" /\ (handle = "armed" \/ stray > 0) /\ Alive
      /\ handle' = IF stray = 0 THEN "fired" ELSE handle
      /\ stray' = IF stray = 0 THEN stray ELSE stray - 1
      /\ UNCHANGED <<def, completed, applied, disk, server, caller, ops, faults>>
  BY DEF TickFires
<1>2. /\ task' = Marked(A) /\ sess' = kill(sess, gone)
      /\ paused' = (paused \/ Pausing(Polled(task)))
      /\ proc' = [proc EXCEPT ![k].pc = "loop", ![k].at = c]
  BY DEF TickFires, TickBegins
<1>3. /\ k \in Procs /\ k \in Runners /\ task \in Lists /\ WorkflowTyped
      /\ sess \in [Sessions -> SessionType] /\ paused \in BOOLEAN
      /\ handle \in {"null", "armed", "fired"} /\ stray \in Nat
  BY ProcsKnown DEF WorkflowInv, WorkflowTyped, WorkflowTypeOK, Lists
<1>4. /\ task' \in Lists /\ Settles(task, task')
      /\ With(task', "in_progress") = With(A, "in_progress")
  BY <1>2, <1>3, TickSettles
<1>5. c \in 0..(N + 1) /\ c # 0 /\ "loop" \in PCs
  BY ProcsKnown DEF PCs
<1> HIDE DEF A, gone, c
<1>6. paused' \in BOOLEAN /\ handle' \in {"null", "armed", "fired"} /\ stray' \in Nat
  BY <1>1, <1>2, <1>3 DEF Pausing
<1>7. /\ sess' \in [Sessions -> SessionType] /\ Working' = {s \in Working : s \notin gone}
      /\ \A s \in Working' : sess'[s] = sess[s]
  BY <1>2, <1>3 DEF kill, Gone, SessionType, Working
<1>8. /\ proc' \in [Procs -> ProcType]
      /\ proc'[k].pc = "loop" /\ proc'[k].at = c /\ proc'[k].snap = proc[k].snap
      /\ \A j \in Procs : j # k => proc'[j] = proc[j]
  BY <1>2, <1>3, <1>5, ProcMoves
<1>9. WorkflowTyped'
  BY <1>1, <1>3, <1>4, <1>6, <1>7, <1>8, StepTyped
<1>10. ListsOK'
  <2>1. /\ Lives' = Lives /\ Lives \in Int /\ (server' = "stopping" => faults' > 0)
        /\ \A t \in Tasks : Lives + (IF t \in applied THEN 1 ELSE 0)
                            <= Lives' + (IF t \in applied THEN 1 ELSE 0)
    BY <1>1, LivesKept DEF WorkflowInv
  <2>2. ListOK(task', def, applied, Lives, overtaken')
    BY <1>3, <1>4, TaskSettles DEF WorkflowInv
  <2>3. Holds(task)'
    BY <1>1, <1>3, <1>4, <1>9, <2>1, <2>2, TaskHolds DEF WorkflowInv
  <2>4. \A j \in Procs : proc'[j].snap = proc[j].snap
    BY <1>8
  <2> QED
    BY <1>1, <1>3, <1>9, <2>1, <2>3, <2>4, ListsKept DEF WorkflowInv
<1>11. LoopOK'
  <2>1. Start # k /\ proc'[Start] = proc[Start] /\ proc'[Control] = proc[Control]
        /\ k # Control /\ Control \in Procs /\ \A j \in Runners : j \in Procs
    BY <1>8, ProcsKnown
  <2>2. server # "down"
    BY <1>1 DEF Alive
  <2>3. ASSUME ops = 0 PROVE OneLoop'
    <3>1. OneLoop
      BY <2>3 DEF WorkflowInv, LoopOK
    <3>2. stray = 0 /\ handle = "armed" /\ \A j \in Runners : ~Busy(j)
      BY <1>1, <1>3, <3>1 DEF OneLoop
    <3>3. \A j \in Procs : proc[j].pc \notin {"call", "spawn"}
      BY <2>1, <3>1, <3>2, ProcsKnown DEF OneLoop, Busy
    <3>4. overtaken' = overtaken
      BY <1>3, <3>3, NotOvertaken
    <3>5. \A j \in Runners : Busy(j)' => j = k
      BY <1>8, <2>1, <3>2 DEF Busy
    <3> QED
      BY <1>1, <2>1, <3>1, <3>2, <3>4, <3>5 DEF OneLoop, Busy
  <2> QED
    BY <1>1, <2>1, <2>2, <2>3 DEF WorkflowInv, LoopOK, Busy
<1>12. PassesOK'
  <2>1. PassOK(k)'
    BY <1>5, <1>8 DEF PassOK
  <2>2. \A j \in Runners : proc'[j] = proc[j] \/ PassOK(j)'
    BY <1>8, <2>1, ProcsKnown
  <2> QED
    BY <1>1, <1>3, <2>2, PassesKept DEF WorkflowInv
<1>13. OwnedOK'
  <2>1. ASSUME NEW t \in Tasks, task[t].status = "in_progress"
        PROVE  \/ task'[t].status = "in_progress" /\ task'[t].key = task[t].key
               \/ task[t].key \notin Working'
    BY <1>4, <1>7, <2>1 DEF Settles, With, gone
  <2> QED
    BY <1>1, <1>3, <1>7, <2>1, OwnedKept DEF WorkflowInv
<1>14. SettledOK'
  BY <1>1 DEF SettledOK
<1>15. FileOK'
  <2>1. Writing' = Writing /\ Unsaved'
    BY <1>1, <1>3, <1>8 DEF Writing, Unsaved
  <2> QED
    BY <1>1, <2>1, FileToSave DEF WorkflowInv
<1> QED
  BY <1>9, <1>10, <1>11, <1>12, <1>13, <1>14, <1>15 DEF WorkflowInv

\* The loop stands when the same procs are busy and its timers are as they were, or
\* have been dropped.
LEMMA LoopStands ==
  ASSUME LoopOK, UNCHANGED <<stray, server, ops>>, handle' = handle \/ handle' = "null",
         \A j \in Procs : Busy(j)' <=> Busy(j),
         proc'[Control].pc \in {"idle", "save", "write"}, ops = 0 => overtaken' = overtaken
  PROVE  LoopOK'
<1>1. Start \in Procs /\ Control \in Procs /\ \A j \in Runners : j \in Procs
  BY ProcsKnown
<1>2. ASSUME ops = 0 PROVE OneLoop'
  BY <1>1, <1>2 DEF LoopOK, OneLoop
<1> QED
  BY <1>1, <1>2 DEF LoopOK

\* A save begins: the file is torn, and what is being written is the list in memory.
LEMMA SaveStarted ==
  ASSUME WorkflowInv, Records, NEW k \in Procs, SaveBegins(k)
  PROVE  WorkflowInv'
<1>1. /\ proc[k].pc = "save" /\ proc' = [proc EXCEPT ![k].pc = "write", ![k].snap = task]
      /\ disk' = [NoFile EXCEPT !.state = "torn", !.clash = Writing # {}]
      /\ UNCHANGED <<def, task, completed, paused, applied, handle, stray, server, caller, sess,
                     ops, faults>>
  BY DEF SaveBegins
<1>2. proc \in [Procs -> ProcType] /\ task \in Lists /\ WorkflowTyped
  BY DEF WorkflowInv, WorkflowTyped, WorkflowTypeOK, Lists
<1>3. /\ proc' \in [Procs -> ProcType] /\ proc'[k].pc = "write" /\ proc'[k].snap = task
      /\ \A j \in Procs : j # k => proc'[j] = proc[j]
  <2> DEFINE p == [proc[k] EXCEPT !.pc = "write", !.snap = task]
  <2>1. p \in ProcType /\ p.snap = task /\ p.pc = "write"
    BY <1>2 DEF ProcType, PCs
  <2>2. proc' = [proc EXCEPT ![k] = p]
    BY <1>1, <1>2 DEF ProcType
  <2> HIDE DEF p
  <2> QED
    BY <1>2, <2>1, <2>2, ProcGiven
<1>4. /\ disk' \in DiskType /\ disk'.state = "torn" /\ disk'.task = FreshList
      /\ disk'.clash <=> Writing # {}
  <2>1. NoFile = [state |-> "absent", clash |-> FALSE, task |-> FreshList] /\ FreshList \in Lists
    BY FreshHolds DEF NoFile, FreshList
  <2> QED
    BY <1>1, <2>1 DEF DiskType
<1>5. WorkflowTyped'
  BY <1>1, <1>2, <1>3, <1>4, StepTyped
<1>6. overtaken' = overtaken
  BY <1>1, <1>2, NotOvertaken
<1>7. ListsOK'
  <2>1. /\ Lives' = Lives /\ Lives \in Int /\ (server' = "stopping" => faults' > 0)
        /\ \A t \in Tasks : Lives + (IF t \in applied THEN 1 ELSE 0)
                            <= Lives' + (IF t \in applied THEN 1 ELSE 0)
    BY <1>1, LivesKept DEF WorkflowInv
  <2>2. \A j \in Procs : proc'[j].snap = proc[j].snap \/ proc'[j].snap = task
    BY <1>3
  <2> QED
    BY <1>1, <1>4, <1>5, <2>1, <2>2, ListsStand DEF WorkflowInv
<1>8. LoopOK'
  <2>1. \A j \in Procs : Busy(j)' <=> Busy(j)
    BY <1>1, <1>3 DEF Busy
  <2>2. proc'[Control].pc \in {"idle", "save", "write"}
    BY <1>3, ProcsKnown DEF WorkflowInv, LoopOK
  <2> QED
    BY <1>1, <1>6, <2>1, <2>2, LoopStands DEF WorkflowInv
<1>9. PassesOK'
  <2>1. \A j \in Runners : proc'[j] = proc[j] \/ PassOK(j)'
    BY <1>3, PassFree, ProcsKnown
  <2> QED
    BY <1>1, <1>2, <2>1, PassesKept DEF WorkflowInv
<1>10. OwnedOK' /\ SettledOK'
  BY <1>1, <1>6 DEF WorkflowInv, OwnedOK, SettledOK, Working
<1>11. FileOK'
  <2>1. Writing' = Writing \union {k}
    BY <1>1, <1>3 DEF Writing
  <2>2. ~disk'.clash => Writing' = {k}
    BY <1>4, <2>1
  <2>3. SameStatus(proc'[k].snap, task')
    BY <1>1, <1>3 DEF SameStatus
  <2> QED
    BY <1>4, <2>2, <2>3 DEF FileOK
<1> QED
  BY <1>5, <1>7, <1>8, <1>9, <1>10, <1>11 DEF WorkflowInv

\* What the file holds when a write ends: what was written, unless it overlapped.
LEMMA FileWritten ==
  ASSUME WorkflowInv, NEW k \in Writing, disk' \in Written(k)
  PROVE  /\ disk' \in DiskType /\ disk'.clash = disk.clash
         /\ disk'.task = disk.task \/ disk'.task = proc[k].snap
         /\ disk'.state = "torn" \/ disk'.task = proc[k].snap
         /\ Writing # {k} => disk'.state = "torn"
<1>1. /\ disk \in DiskType /\ k \in Procs /\ proc[k].snap \in Lists /\ disk.state = "torn"
  BY DEF WorkflowInv, WorkflowTyped, FileOK, Writing, ProcType
<1> DEFINE saved == [disk EXCEPT !.state = "ok", !.task = proc[k].snap]
<1>2. saved \in DiskType /\ saved.clash = disk.clash /\ saved.task = proc[k].snap
  BY <1>1 DEF DiskType
<1>3. CASE Writing # {k}
  <2>1. disk' = disk
    BY <1>3 DEF Written
  <2> QED
    BY <1>1, <1>3, <2>1
<1>4. CASE Writing = {k}
  <2>1. disk' = saved \/ (disk.clash /\ disk' = disk)
    BY <1>4 DEF Written
  <2> QED
    BY <1>1, <1>2, <1>4, <2>1
<1> QED
  BY <1>3, <1>4

\* A tick, or the control operation, is over: the loop goes on if it was not stopped.
LEMMA TickOver ==
  ASSUME WorkflowInv, Records, NEW k \in Procs, k # Start, Busy(k), TickEnds(k),
         UNCHANGED <<def, task, server, ops>>
  PROVE  /\ LoopOK' /\ PassesOK' /\ stray' \in Nat /\ handle' \in {"null", "armed", "fired"}
         /\ overtaken' = overtaken
<1>1. /\ proc' = [proc EXCEPT ![k] = Idle] /\ WorkflowTyped
      /\ handle \in {"null", "armed", "fired"} /\ stray \in Nat
  BY DEF TickEnds, WorkflowInv, WorkflowTyped, WorkflowTypeOK
<1>2. /\ proc'[k] = Idle /\ ~Busy(k)' /\ \A j \in Procs : j # k => proc'[j] = proc[j]
  BY <1>1, Idles, ProcGiven DEF Busy
<1>3. overtaken' = overtaken
  BY <1>1, NotOvertaken
<1>4. PassesOK'
  <2>1. PassOK(k)'
    BY <1>2, Idles, PassFree
  <2> QED
    BY <1>1, <1>2, <2>1, PassesKept, ProcsKnown DEF WorkflowInv
<1>5. /\ handle' = handle \/ (k \in Ticks /\ handle' = "armed")
      /\ stray' = stray \/ stray' = stray + 1
      /\ k \in Ticks /\ handle # "armed" => stray' = stray
  BY DEF TickEnds, scheduleNext
<1>6. /\ Start \in Procs /\ Control \in Procs /\ Control \notin Runners
      /\ \A j \in Runners : j \in Procs
      /\ k \in Runners \/ k = Control
  BY ProcsKnown
<1>7. server # "down" /\ proc'[Control].pc \in {"idle", "save", "write"}
  BY <1>2, <1>6, Idles DEF WorkflowInv, LoopOK
<1>8. ASSUME ops = 0 PROVE OneLoop'
  <2>1. OneLoop
    BY <1>8 DEF WorkflowInv, LoopOK
  <2>2. k \in Runners /\ k # Control
    BY <1>6, <2>1 DEF OneLoop
  <2>3. \A j \in Runners : ~Busy(j)'
    BY <1>2, <1>6, <2>1, <2>2 DEF OneLoop, Busy
  <2>4. proc'[Control] = proc[Control]
    BY <1>2, <1>6, <2>2
  <2>5. k \in Ticks /\ handle # "armed"
    BY <2>1, <2>2 DEF OneLoop, Runners
  <2>6. stray' = 0
    BY <1>5, <2>1, <2>5 DEF OneLoop
  <2> QED
    BY <1>3, <2>1, <2>3, <2>4, <2>6 DEF OneLoop, Busy
<1>9. LoopOK'
  <2>1. Busy(Start)' <=> Busy(Start)
    BY <1>2, <1>6 DEF Busy
  <2> QED
    BY <1>7, <1>8, <2>1 DEF WorkflowInv, LoopOK
<1> QED
  BY <1>1, <1>3, <1>4, <1>5, <1>9

\* A write is over, well or badly: the file has what was written, or is torn.
LEMMA FileLeft ==
  ASSUME WorkflowInv, NEW k \in Writing, disk' = disk \/ disk' \in Written(k), task' = task,
         proc'[k].pc \notin {"save", "write"}, \A j \in Procs : j # k => proc'[j] = proc[j]
  PROVE  FileOK'
<1>1. /\ k \in Procs /\ disk.state = "torn" /\ FileOK
      /\ ~disk.clash => \A i, j \in Writing : i = j
  BY DEF WorkflowInv, FileOK, Writing
<1>2. Writing' = Writing \ {k} /\ (Unsaved => Unsaved')
  BY DEF Writing, Unsaved
<1>3. /\ disk'.clash = disk.clash
      /\ disk'.state = "torn" \/ disk'.task = proc[k].snap
      /\ Writing # {k} => disk'.state = "torn"
  BY <1>1, FileWritten
<1>4. ~disk'.clash => Writing' = {}
  BY <1>1, <1>2, <1>3
<1>5. ASSUME ~disk'.clash, ~Unsaved', disk'.state = "ok"
      PROVE  SameStatus(disk'.task, task')
  <2>1. server # "down"
    BY <1>1 DEF WorkflowInv, LoopOK, Busy, Writing
  <2>2. SameStatus(proc[k].snap, task)
    BY <1>1, <1>2, <1>3, <1>5, <2>1 DEF FileOK
  <2> QED
    BY <1>3, <1>5, <2>2
<1> QED
  BY <1>1, <1>2, <1>3, <1>4, <1>5 DEF FileOK

\* What the end of a save does to the lists, and to the types with them.
LEMMA Saved ==
  ASSUME WorkflowInv, Records, NEW k \in Writing, disk' \in Written(k), NEW p \in ProcType,
         proc' = [proc EXCEPT ![k] = p], p.snap = FreshList, p.pc \notin {"save", "write"},
         UNCHANGED <<def, task, paused, applied, server, caller, ops, faults>>,
         completed' \in BOOLEAN, handle' \in {"null", "armed", "fired"}, stray' \in Nat,
         sess' \in [Sessions -> SessionType]
  PROVE  /\ WorkflowTyped' /\ ListsOK' /\ FileOK' /\ proc'[k] = p /\ overtaken' = overtaken
         /\ \A j \in Procs : j # k => proc'[j] = proc[j]
<1>1. k \in Procs /\ WorkflowTyped /\ ListsOK
  BY DEF Writing, WorkflowInv
<1>2. disk' \in DiskType /\ (disk'.task = disk.task \/ disk'.task = proc[k].snap)
  BY FileWritten
<1>3. /\ proc' \in [Procs -> ProcType] /\ proc'[k] = p
      /\ \A j \in Procs : j # k => proc'[j] = proc[j]
  BY <1>1, ProcGiven
<1>4. WorkflowTyped'
  BY <1>1, <1>2, <1>3, StepTyped
<1>5. \A j \in Procs : proc'[j].snap = proc[j].snap \/ proc'[j].snap = FreshList
  BY <1>3
<1>6. /\ server' = "stopping" => faults' > 0
      /\ \A t \in Tasks : Lives + (IF t \in applied THEN 1 ELSE 0)
                          <= Lives' + (IF t \in applied THEN 1 ELSE 0)
  BY <1>1, LivesKept
<1>7. ListsOK'
  BY <1>1, <1>2, <1>4, <1>5, <1>6, ListsStand
<1>8. overtaken' = overtaken
  BY <1>1, NotOvertaken
<1>9. FileOK'
  BY <1>3, FileLeft
<1> QED
  BY <1>3, <1>4, <1>7, <1>8, <1>9

\* A tick's save ends and completes the workflow: the sessions of its tasks are killed.
LEMMA Completes ==
  ASSUME WorkflowInv, Records, NEW k \in Ticks, SaveEnds(k),
         ~paused /\ AllTerminal(task) /\ ~completed
  PROVE  WorkflowInv'
<1> DEFINE keys == {task[t].key : t \in Tasks}
           p == [Idle EXCEPT !.pc = "post"]
<1>1. /\ proc[k].pc = "write" /\ disk' \in Written(k)
      /\ UNCHANGED <<def, task, paused, applied, server, caller, ops, faults>>
      /\ completed' = TRUE /\ handle' = "null" /\ stray' = stray
      /\ sess' = kill(sess, keys) /\ proc' = [proc EXCEPT ![k] = p]
  BY ProcsKnown DEF SaveEnds, CheckCompletion, stopPolling
<1>2. p \in ProcType /\ p.pc = "post" /\ p.snap = FreshList
  BY Idles
<1>3. /\ k \in Writing /\ k \in Runners /\ k \in Procs /\ stray \in Nat /\ WorkflowTyped
      /\ sess \in [Sessions -> SessionType]
  BY <1>1, ProcsKnown DEF WorkflowInv, WorkflowTyped, WorkflowTypeOK, Writing
<1>4. /\ sess' \in [Sessions -> SessionType] /\ Working' \subseteq Working
      /\ \A s \in Working' : sess'[s] = sess[s]
  <2>1. \A s \in Sessions : sess'[s] = IF s \in keys THEN Gone(sess[s]) ELSE sess[s]
    BY <1>1 DEF kill
  <2>2. \A s \in Sessions : Gone(sess[s]) \in SessionType /\ Gone(sess[s]).row = "terminated"
    BY <1>3 DEF Gone, SessionType
  <2>3. sess' \in [Sessions -> SessionType]
    BY <1>1, <1>3, <2>1, <2>2 DEF kill
  <2>4. \A s \in Working' : sess'[s] = sess[s]
    BY <2>1, <2>2 DEF Working
  <2> QED
    BY <2>3, <2>4 DEF Working
<1> HIDE DEF p, keys
<1>5. /\ WorkflowTyped' /\ ListsOK' /\ FileOK' /\ proc'[k] = p /\ overtaken' = overtaken
      /\ \A j \in Procs : j # k => proc'[j] = proc[j]
  BY <1>1, <1>2, <1>3, <1>4, Saved
<1>6. server # "down" /\ server # "starting"
  <2>1. Busy(k) /\ Start \in Runners /\ k # Start
    BY <1>1, ProcsKnown DEF Busy
  <2> QED
    BY <1>3, <2>1 DEF WorkflowInv, LoopOK, OneLoop
<1>7. LoopOK'
  <2>1. \A j \in Procs : Busy(j)' <=> Busy(j)
    BY <1>1, <1>2, <1>5 DEF Busy
  <2>2. proc'[Control] = proc[Control]
    BY <1>3, <1>5, ProcsKnown
  <2> QED
    BY <1>1, <1>5, <2>1, <2>2, LoopStands DEF WorkflowInv, LoopOK
<1>8. PassesOK'
  <2>1. \A j \in Runners : proc'[j] = proc[j] \/ PassOK(j)'
    BY <1>2, <1>5, PassFree, ProcsKnown
  <2> QED
    BY <1>1, <1>3, <2>1, PassesKept DEF WorkflowInv
<1>9. OwnedOK'
  BY <1>1, <1>3, <1>4, OwnedKept DEF WorkflowInv
<1>10. SettledOK'
  BY <1>1, <1>6 DEF SettledOK, AllTerminal
<1> QED
  BY <1>5, <1>7, <1>8, <1>9, <1>10 DEF WorkflowInv

\* A tick's or an operation's save ends without completing the workflow.
LEMMA SavedOver ==
  ASSUME WorkflowInv, Records, NEW k \in Procs, k # Start, proc[k].pc = "write",
         disk' \in Written(k), TickEnds(k),
         UNCHANGED <<def, task, completed, paused, applied, server, caller, sess, ops, faults>>
  PROVE  WorkflowInv'
<1>1. k \in Writing /\ Busy(k) /\ proc' = [proc EXCEPT ![k] = Idle]
  BY DEF Writing, Busy, TickEnds
<1>2. /\ LoopOK' /\ PassesOK' /\ stray' \in Nat /\ handle' \in {"null", "armed", "fired"}
      /\ overtaken' = overtaken
  BY <1>1, TickOver
<1>3. WorkflowTyped' /\ ListsOK' /\ FileOK'
  <2>1. completed' \in BOOLEAN /\ sess' \in [Sessions -> SessionType]
    BY DEF WorkflowInv, WorkflowTyped, WorkflowTypeOK
  <2> QED
    BY <1>1, <1>2, <2>1, Idles, Saved
<1>4. OwnedOK' /\ SettledOK'
  BY <1>2 DEF WorkflowInv, OwnedOK, SettledOK, Working
<1> QED
  BY <1>2, <1>3, <1>4 DEF WorkflowInv

\* start()'s first save ends and its pass begins, or its last one ends and it posts.
LEMMA StartSaved ==
  ASSUME WorkflowInv, Records, SaveEnds(Start)
  PROVE  WorkflowInv'
<1>1. /\ proc[Start].pc = "write" /\ disk' \in Written(Start)
      /\ proc' = [proc EXCEPT ![Start] =
           IF @.at = 0 THEN [Idle EXCEPT !.pc = "loop", !.at = 1] ELSE [Idle EXCEPT !.pc = "post"]]
      /\ UNCHANGED <<def, task, completed, paused, applied, handle, stray, server, caller, sess,
                     ops, faults>>
  BY ProcsKnown DEF SaveEnds
<1>2. Start \in Writing /\ Start \in Runners /\ Start \in Procs /\ WorkflowTyped
  BY <1>1, ProcsKnown DEF WorkflowInv, Writing
<1>3. PICK p \in ProcType : /\ proc' = [proc EXCEPT ![Start] = p] /\ p.snap = FreshList
                            /\ \/ p.pc = "loop" /\ p.at = 1
                               \/ p.pc = "post"
  <2>1. proc \in [Procs -> ProcType]
    BY <1>2 DEF WorkflowTyped
  <2>2. CASE proc[Start].at = 0
    <3> DEFINE p == [Idle EXCEPT !.pc = "loop", !.at = 1]
    <3>1. proc' = [proc EXCEPT ![Start] = p]
      BY <1>1, <1>2, <2>1, <2>2
    <3>2. p \in ProcType /\ p.snap = FreshList /\ p.pc = "loop" /\ p.at = 1
      BY Idles
    <3> QED
      BY <3>1, <3>2
  <2>3. CASE proc[Start].at # 0
    <3> DEFINE p == [Idle EXCEPT !.pc = "post"]
    <3>1. proc' = [proc EXCEPT ![Start] = p]
      BY <1>1, <1>2, <2>1, <2>3
    <3>2. p \in ProcType /\ p.snap = FreshList /\ p.pc = "post"
      BY Idles
    <3> QED
      BY <3>1, <3>2
  <2> QED
    BY <2>2, <2>3
<1>4. /\ WorkflowTyped' /\ ListsOK' /\ FileOK' /\ proc'[Start] = p /\ overtaken' = overtaken
      /\ \A j \in Procs : j # Start => proc'[j] = proc[j]
  <2>1. /\ stray' \in Nat /\ completed' \in BOOLEAN /\ sess' \in [Sessions -> SessionType]
        /\ handle' \in {"null", "armed", "fired"}
    BY <1>1, <1>2 DEF WorkflowTyped, WorkflowTypeOK
  <2> QED
    BY <1>1, <1>2, <1>3, <2>1, Saved
<1>5. LoopOK'
  <2>1. \A j \in Procs : Busy(j)' <=> Busy(j)
    BY <1>1, <1>3, <1>4 DEF Busy
  <2>2. proc'[Control] = proc[Control]
    BY <1>4, ProcsKnown
  <2> QED
    BY <1>1, <1>4, <2>1, <2>2, LoopStands DEF WorkflowInv, LoopOK
<1>6. PassesOK'
  <2>1. PassOK(Start)'
    BY <1>3, <1>4 DEF PassOK
  <2>2. \A j \in Runners : proc'[j] = proc[j] \/ PassOK(j)'
    BY <1>4, <2>1, ProcsKnown
  <2> QED
    BY <1>1, <1>2, <2>2, PassesKept DEF WorkflowInv
<1>7. OwnedOK' /\ SettledOK'
  BY <1>1, <1>4 DEF WorkflowInv, OwnedOK, SettledOK, Working
<1> QED
  BY <1>4, <1>5, <1>6, <1>7 DEF WorkflowInv

\* A save ends.
LEMMA SaveEnded ==
  ASSUME WorkflowInv, Records, NEW k \in Procs, SaveEnds(k)
  PROVE  WorkflowInv'
<1>1. CASE k = Start
  BY <1>1, StartSaved
<1>2. CASE k # Start
  <2>1. /\ proc[k].pc = "write" /\ disk' \in Written(k)
        /\ UNCHANGED <<def, task, paused, applied, server, caller, ops, faults>>
        /\ \/ k \in Ticks /\ CheckCompletion(k)
           \/ TickEnds(k) /\ UNCHANGED <<completed, sess>>
    BY <1>2 DEF SaveEnds
  <2>2. CASE TickEnds(k) /\ UNCHANGED <<completed, sess>>
    BY <1>2, <2>1, <2>2, SavedOver
  <2>3. CASE k \in Ticks /\ CheckCompletion(k) /\ ~(~paused /\ AllTerminal(task) /\ ~completed)
    BY <2>2, <2>3 DEF CheckCompletion
  <2>4. CASE k \in Ticks /\ ~paused /\ AllTerminal(task) /\ ~completed
    BY <2>4, Completes
  <2> QED
    BY <2>1, <2>2, <2>3, <2>4
<1> QED
  BY <1>1, <1>2

\* A write fails: the file stays torn, start() is lost, a tick or an operation is over.
LEMMA SaveFailed ==
  ASSUME WorkflowInv, Records, NEW k \in Procs, SaveFails(k)
  PROVE  WorkflowInv'
<1>1. /\ proc[k].pc = "write" /\ faults < MaxFaults /\ faults' = faults + 1 /\ TickEnds(k)
      /\ proc' = [proc EXCEPT ![k] = Idle]
      /\ server' = (IF k = Start THEN "lost" ELSE server)
      /\ caller' = (IF k = Start THEN "free" ELSE caller)
      /\ UNCHANGED <<def, task, completed, paused, applied, disk, sess, ops>>
  BY DEF SaveFails, TickEnds, FaultsLeft
<1>2. k \in Writing /\ Busy(k) /\ WorkflowTyped /\ (k = Start <=> server = "starting" /\ k = Start)
  BY <1>1 DEF WorkflowInv, Writing, Busy, LoopOK
<1>3. /\ proc' \in [Procs -> ProcType] /\ proc'[k] = Idle
      /\ \A j \in Procs : j # k => proc'[j] = proc[j]
  BY <1>1, <1>2, Idles, ProcGiven
<1>4. overtaken' = overtaken
  BY <1>1, <1>2, NotOvertaken
<1>5. /\ LoopOK' /\ PassesOK' /\ stray' \in Nat /\ handle' \in {"null", "armed", "fired"}
      /\ completed => server' \notin {"starting", "down"}
  <2>1. CASE k # Start
    <3>1. completed => server' \notin {"starting", "down"}
      BY <1>1, <2>1 DEF WorkflowInv, SettledOK
    <3> QED
      BY <1>1, <1>2, <2>1, <3>1, TickOver
  <2>2. CASE k = Start
    <3>1. UNCHANGED <<handle, stray>> /\ server' = "lost" /\ server = "starting" /\ ~Busy(Start)'
      BY <1>1, <1>2, <1>3, <2>2, Idles, ProcsKnown DEF TickEnds, Busy
    <3>2. PassesOK'
      <4>1. \A j \in Runners : proc'[j] = proc[j] \/ PassOK(j)'
        BY <1>3, Idles, PassFree, ProcsKnown
      <4> QED
        BY <1>1, <1>2, <4>1, PassesKept DEF WorkflowInv
    <3>3. ASSUME ops = 0 PROVE OneLoop'
      <4>1. \A j \in Procs : Busy(j)' => Busy(j)
        BY <1>2, <1>3, <2>2, <3>1 DEF Busy
      <4> QED
        BY <1>4, <3>1, <3>3, <4>1, ProcsKnown DEF WorkflowInv, LoopOK, OneLoop
    <3>4. proc'[Control] = proc[Control]
      BY <1>3, <2>2, ProcsKnown
    <3>5. LoopOK'
      BY <1>1, <3>1, <3>3, <3>4 DEF WorkflowInv, LoopOK
    <3>6. ~completed
      BY <3>1 DEF WorkflowInv, SettledOK
    <3> QED
      BY <1>2, <3>1, <3>2, <3>5, <3>6 DEF WorkflowTyped, WorkflowTypeOK
  <2> QED
    BY <2>1, <2>2
<1>6. faults \in Nat /\ faults' \in 0..MaxFaults /\ faults' > 0
  BY <1>1, <1>2, WorkflowAssumption DEF WorkflowTyped, WorkflowTypeOK
<1>7. WorkflowTyped'
  BY <1>1, <1>2, <1>3, <1>5, <1>6, StepTyped
<1>8. ListsOK'
  <2>1. Lives' = Lives + 1 /\ Lives \in Nat
    <3>1. Lives \in Nat /\ (server' = "stopping" <=> server = "stopping")
      BY <1>1, <1>2, LivesCounted DEF WorkflowInv, ListsOK
    <3>2. Lives' = IF server' = "stopping" THEN faults' - 1 ELSE faults'
      BY DEF Lives
    <3> QED
      BY <1>1, <1>6, <3>1, <3>2 DEF Lives
  <2>2. \A t \in Tasks : Lives + (IF t \in applied THEN 1 ELSE 0)
                         <= Lives' + (IF t \in applied THEN 1 ELSE 0)
    BY <2>1
  <2>3. \A j \in Procs : proc'[j].snap = proc[j].snap \/ proc'[j].snap = FreshList
    BY <1>3, Idles
  <2> QED
    BY <1>1, <1>2, <1>6, <1>7, <2>2, <2>3, ListsStand DEF WorkflowInv
<1>9. OwnedOK'
  <2>1. Working' = Working /\ (server' = "down" => server = "down")
    BY <1>1 DEF Working
  <2> QED
    BY <1>1, <1>2, <2>1, OwnedKept DEF WorkflowInv
<1>10. SettledOK'
  BY <1>1, <1>2, <1>5, SettledKept DEF WorkflowInv
<1>11. FileOK'
  <2>1. proc'[k].pc \notin {"save", "write"}
    BY <1>3, Idles
  <2> QED
    BY <1>1, <1>2, <1>3, <2>1, FileLeft
<1> QED
  BY <1>5, <1>7, <1>8, <1>9, <1>10, <1>11 DEF WorkflowInv

\* The status posts return: start() begins the polling loop, or a tick is over.
LEMMA PostReturned ==
  ASSUME WorkflowInv, Records, NEW k \in Procs, PostReturns(k)
  PROVE  WorkflowInv'
<1>1. /\ proc[k].pc = "post" /\ proc' = [proc EXCEPT ![k] = Idle]
      /\ UNCHANGED <<def, task, completed, paused, applied, disk, sess, ops, faults>>
      /\ IF k = Start
         THEN server' = "up" /\ caller' = "free" /\ scheduleNext(handle, stray)
         ELSE TickEnds(k) /\ UNCHANGED <<server, caller>>
  BY DEF PostReturns, TickEnds
<1>2. Busy(k) /\ WorkflowTyped
  BY <1>1 DEF WorkflowInv, Busy
<1>3. /\ proc' \in [Procs -> ProcType] /\ proc'[k] = Idle
      /\ \A j \in Procs : j # k => proc'[j] = proc[j]
  BY <1>1, <1>2, Idles, ProcGiven
<1>4. overtaken' = overtaken
  BY <1>1, <1>2, NotOvertaken
<1>5. /\ LoopOK' /\ PassesOK' /\ stray' \in Nat /\ handle' \in {"null", "armed", "fired"}
      /\ completed => server' \notin {"starting", "down"}
      /\ server' = "up" \/ server' = server
      /\ server' = "stopping" <=> server = "stopping"
      /\ caller' = caller \/ caller' = "free"
  <2>1. CASE k # Start
    <3>1. completed => server' \notin {"starting", "down"}
      BY <1>1, <2>1 DEF WorkflowInv, SettledOK
    <3> QED
      BY <1>1, <1>2, <2>1, <3>1, TickOver
  <2>2. CASE k = Start
    <3>1. server = "starting" /\ ops = 0 /\ OneLoop
      BY <1>2, <2>2 DEF WorkflowInv, LoopOK
    <3>2. /\ handle' = "armed" /\ stray' = 0 /\ server' = "up" /\ caller' = "free"
      BY <1>1, <1>2, <2>2, <3>1, ProcsKnown DEF OneLoop, scheduleNext
    <3>3. \A j \in Runners : ~Busy(j)'
      BY <1>2, <1>3, <2>2, <3>1, Idles, ProcsKnown DEF OneLoop, Busy
    <3>4. proc'[Control] = proc[Control] /\ ~Busy(Start)'
      BY <1>3, <2>2, <3>3, ProcsKnown
    <3>5. OneLoop'
      BY <1>4, <3>1, <3>2, <3>3, <3>4 DEF OneLoop, Busy
    <3>6. LoopOK'
      BY <1>1, <3>2, <3>4, <3>5 DEF WorkflowInv, LoopOK
    <3>7. PassesOK'
      <4>1. \A j \in Runners : proc'[j] = proc[j] \/ PassOK(j)'
        BY <1>3, Idles, PassFree, ProcsKnown
      <4> QED
        BY <1>1, <1>2, <4>1, PassesKept DEF WorkflowInv
    <3>8. ~completed
      BY <3>1 DEF WorkflowInv, SettledOK
    <3> QED
      BY <3>1, <3>2, <3>6, <3>7, <3>8
  <2> QED
    BY <2>1, <2>2
<1>6. WorkflowTyped'
  BY <1>1, <1>2, <1>3, <1>5, StepTyped
<1>7. ListsOK'
  <2>1. Lives' = Lives /\ Lives \in Nat /\ (server' = "stopping" => faults' > 0)
    BY <1>1, <1>2, <1>5, LivesCounted DEF WorkflowInv, ListsOK, Lives
  <2>2. \A t \in Tasks : Lives + (IF t \in applied THEN 1 ELSE 0)
                         <= Lives' + (IF t \in applied THEN 1 ELSE 0)
    BY <2>1
  <2>3. \A j \in Procs : proc'[j].snap = proc[j].snap \/ proc'[j].snap = FreshList
    BY <1>3, Idles
  <2> QED
    BY <1>1, <1>2, <1>6, <2>1, <2>2, <2>3, ListsStand DEF WorkflowInv
<1>8. OwnedOK'
  <2>1. Working' = Working /\ (server' = "down" => server = "down")
    BY <1>1, <1>5 DEF Working
  <2> QED
    BY <1>1, <1>2, <2>1, OwnedKept DEF WorkflowInv
<1>9. SettledOK'
  BY <1>1, <1>2, <1>5, SettledKept DEF WorkflowInv
<1>10. FileOK'
  <2>1. server' # "down" => server # "down"
    BY <1>2 DEF WorkflowInv, LoopOK
  <2>2. \A j \in Procs : \/ proc'[j].pc = proc[j].pc /\ proc'[j].snap = proc[j].snap
                         \/ proc[j].pc \in {"idle", "post"} /\ proc'[j].pc \in {"idle", "post"}
    BY <1>1, <1>3, Idles
  <2> QED
    BY <1>1, <2>1, <2>2, FileKept DEF WorkflowInv
<1> QED
  BY <1>5, <1>6, <1>7, <1>8, <1>9, <1>10 DEF WorkflowInv

\* A control operation changes something at once and then saves.
LEMMA Operates ==
  ASSUME WorkflowInv, Records, Operation,
         def' = def \/ def' \in DefType, task' = task \/ task' \in Lists,
         completed' = completed \/ completed' \in BOOLEAN,
         paused' = paused \/ paused' \in BOOLEAN,
         handle' = handle \/ handle' \in {"null", "armed", "fired"}, stray' = stray,
         sess' = sess \/ sess' \in [Sessions -> SessionType]
  PROVE  /\ WorkflowTyped' /\ LoopOK' /\ server = "up" /\ Writing' = Writing /\ Unsaved'
         /\ \A j \in Procs : proc'[j].snap = proc[j].snap
         /\ \A j \in Runners : proc'[j] = proc[j]
         /\ Lives' = Lives /\ Lives \in Int /\ (server' = "stopping" => faults' > 0)
         /\ \A t \in Tasks : Lives + (IF t \in applied THEN 1 ELSE 0)
                             <= Lives' + (IF t \in applied THEN 1 ELSE 0)
<1>1. /\ server = "up" /\ proc[Control].pc = "idle" /\ ops < MaxOps /\ ops' = ops + 1
      /\ proc' = [proc EXCEPT ![Control].pc = "save", ![Control].at = 1]
      /\ UNCHANGED <<applied, disk, server, caller, faults>>
  BY DEF Operation, OpsLeft
<1>2. Control \in Procs /\ WorkflowTyped /\ ops' \in 0..MaxOps /\ ops' # 0
  BY <1>1, WorkflowAssumption, ProcsKnown DEF WorkflowInv, WorkflowTyped, WorkflowTypeOK
<1>3. "save" \in PCs /\ 1 \in 0..(N + 1)
  BY ProcsKnown DEF PCs
<1>4. /\ proc' \in [Procs -> ProcType]
      /\ proc'[Control].pc = "save" /\ proc'[Control].snap = proc[Control].snap
      /\ \A j \in Procs : j # Control => proc'[j] = proc[j]
  BY <1>1, <1>2, <1>3, ProcMoves
<1>5. WorkflowTyped'
  BY <1>1, <1>2, <1>4, StepTyped
<1>6. \A j \in Runners : j \in Procs /\ proc'[j] = proc[j]
  BY <1>4, ProcsKnown
<1>7. Writing' = Writing /\ Unsaved'
  BY <1>1, <1>2, <1>4 DEF Writing, Unsaved
<1>8. LoopOK'
  BY <1>1, <1>2, <1>4, <1>6, ProcsKnown DEF WorkflowInv, LoopOK, Busy
<1>9. /\ Lives' = Lives /\ Lives \in Int /\ (server' = "stopping" => faults' > 0)
      /\ \A t \in Tasks : Lives + (IF t \in applied THEN 1 ELSE 0)
                          <= Lives' + (IF t \in applied THEN 1 ELSE 0)
  BY <1>1, LivesKept DEF WorkflowInv
<1> QED
  BY <1>1, <1>4, <1>5, <1>6, <1>7, <1>8, <1>9

\* An abort settles every task and ends its session; what it overtakes is recorded.
LEMMA Aborted ==
  ASSUME WorkflowInv, Records, Abort
  PROVE  WorkflowInv'
<1> DEFINE keys == {task[t].key : t \in Tasks}
           S == {t \in Tasks : ~isTerminal(task[t].status)}
<1>1. /\ Operation /\ sess' = kill(sess, keys) /\ task' = Failing(task, S, "aborted")
      /\ handle' = "null" /\ stray' = stray /\ completed' = TRUE
      /\ UNCHANGED <<def, paused, applied, disk, server, faults>>
  BY DEF Abort, Operation, stopPolling
<1>2. task \in Lists /\ sess \in [Sessions -> SessionType] /\ WorkflowTyped
  BY DEF WorkflowInv, WorkflowTyped, WorkflowTypeOK, Lists
<1>3. task' \in Lists /\ Settles(task, task')
  BY <1>1, <1>2, FailingSettles
<1>4. \A t \in Tasks : isTerminal(task'[t].status)
  BY <1>1, <1>2 DEF Failing, isTerminal, Lists, TaskType
<1>5. /\ sess' \in [Sessions -> SessionType] /\ Working' \subseteq Working
      /\ \A s \in Working' : sess'[s] = sess[s] /\ s \notin keys
  <2>1. \A s \in Sessions : sess'[s] = IF s \in keys THEN Gone(sess[s]) ELSE sess[s]
    BY <1>1 DEF kill
  <2>2. \A s \in Sessions : Gone(sess[s]) \in SessionType /\ Gone(sess[s]).row = "terminated"
    BY <1>2 DEF Gone, SessionType
  <2>3. sess' \in [Sessions -> SessionType]
    BY <1>1, <1>2, <2>1, <2>2 DEF kill
  <2>4. \A s \in Working' : sess'[s] = sess[s] /\ s \notin keys
    BY <2>1, <2>2 DEF Working
  <2> QED
    BY <2>3, <2>4 DEF Working
<1>6. \A t \in Tasks : task[t].key \notin Working'
  BY <1>5
<1> HIDE DEF keys, S
<1>7. /\ WorkflowTyped' /\ LoopOK' /\ server = "up" /\ Writing' = Writing /\ Unsaved'
      /\ \A j \in Procs : proc'[j].snap = proc[j].snap
      /\ \A j \in Runners : proc'[j] = proc[j]
      /\ Lives' = Lives /\ Lives \in Int /\ (server' = "stopping" => faults' > 0)
      /\ \A t \in Tasks : Lives + (IF t \in applied THEN 1 ELSE 0)
                          <= Lives' + (IF t \in applied THEN 1 ELSE 0)
  BY <1>1, <1>3, <1>5, Operates
<1>8. ListsOK'
  <2>1. ListOK(task', def, applied, Lives, overtaken')
    BY <1>2, <1>3, TaskSettles DEF WorkflowInv
  <2>2. Holds(task)'
    BY <1>1, <1>2, <1>3, <1>7, <2>1, TaskHolds DEF WorkflowInv
  <2> QED
    BY <1>1, <1>2, <1>7, <2>2, ListsKept DEF WorkflowInv
<1>9. PassesOK'
  BY <1>1, <1>2, <1>7, PassesKept DEF WorkflowInv
<1>10. OwnedOK'
  BY <1>1, <1>2, <1>5, <1>6, OwnedKept DEF WorkflowInv
<1>11. SettledOK'
  BY <1>1, <1>4, <1>7 DEF SettledOK
<1>12. FileOK'
  BY <1>1, <1>7, FileToSave DEF WorkflowInv
<1> QED
  BY <1>7, <1>8, <1>9, <1>10, <1>11, <1>12 DEF WorkflowInv

\* An operation that leaves the tasks alone: pause, resume, edit.
LEMMA Adjusted ==
  ASSUME WorkflowInv, Records,
         (\E v \in BOOLEAN : SetPaused(v)) \/ \E t \in Tasks, b \in Edits : Edit(t, b)
  PROVE  WorkflowInv'
<1>1. /\ Operation /\ UNCHANGED <<task, completed, handle, stray, sess, applied, disk, server,
                                  faults>>
      /\ paused' = paused \/ paused' \in BOOLEAN
      /\ def' = def \/ \E t \in Tasks, b \in Edits : def' = [def EXCEPT !.behavior[t] = b]
  BY DEF SetPaused, Edit, Operation
<1>2. def' \in DefType /\ def'.deps = def.deps /\ def'.cap = def.cap /\ WorkflowTyped
  BY <1>1, WorkflowAssumption DEF WorkflowInv, WorkflowTyped, WorkflowTypeOK, DefType
<1>3. /\ WorkflowTyped' /\ LoopOK' /\ server = "up" /\ Writing' = Writing /\ Unsaved'
      /\ \A j \in Procs : proc'[j].snap = proc[j].snap
      /\ \A j \in Runners : proc'[j] = proc[j]
      /\ Lives' = Lives /\ Lives \in Int /\ (server' = "stopping" => faults' > 0)
      /\ \A t \in Tasks : Lives + (IF t \in applied THEN 1 ELSE 0)
                          <= Lives' + (IF t \in applied THEN 1 ELSE 0)
  BY <1>1, <1>2, Operates
<1>4. overtaken' = overtaken /\ Working' = Working
  BY <1>1, <1>2, NotOvertaken DEF Working
<1>5. ListsOK'
  BY <1>1, <1>2, <1>3, ListsStand DEF WorkflowInv
<1>6. PassesOK'
  BY <1>1, <1>2, <1>3, PassesKept DEF WorkflowInv
<1>7. OwnedOK' /\ SettledOK'
  BY <1>1, <1>4 DEF WorkflowInv, OwnedOK, SettledOK
<1>8. FileOK'
  BY <1>1, <1>3, FileToSave DEF WorkflowInv
<1> QED
  BY <1>3, <1>5, <1>6, <1>7, <1>8 DEF WorkflowInv

\* A retry resets a settled task and its failed dependents, so that no task stays
\* blocked behind one that is no longer failed.
LEMMA Retried ==
  ASSUME WorkflowInv, Records, NEW t \in Tasks, NEW c \in BOOLEAN, Retry(t, c)
  PROVE  WorkflowInv'
<1> DEFINE D == getTransitiveDependents(t)
           resets == {t} \union {u \in D :
                       task[u].status = "failed" \/ (c /\ task[u].status = "done")}
<1>1. /\ Operation /\ task[t].status \in {"failed", "done"}
      /\ task' = [u \in Tasks |-> IF u \in resets THEN FreshTask ELSE task[u]]
      /\ paused' = FALSE /\ completed' = FALSE
      /\ IF handle = "null" THEN scheduleNext(handle, stray) ELSE UNCHANGED <<handle, stray>>
      /\ UNCHANGED <<def, sess, applied, disk, server, faults>>
  BY DEF Retry, Operation
<1>2. D = Spread({t}, Tasks)
  BY DEF getTransitiveDependents
<1>3. \A u \in resets : u \in Tasks /\ task[u].status \in {"failed", "done"}
  BY <1>1, <1>2, SpreadIn
<1>4. \A u \in Tasks : def.deps[u] \intersect ({t} \union D) # {} => u \in {t} \union D
  BY <1>2, SpreadClosed DEF ClosedIn
<1>5. \A u \in {t} \union D : task[u].status = "failed" => u \in resets
  OBVIOUS
<1>6. resets \subseteq {t} \union D /\ t \in resets
  OBVIOUS
<1> HIDE DEF D, resets
<1>7. task \in Lists /\ FreshTask \in TaskType /\ task' \in Lists /\ WorkflowTyped
  <2>1. task \in Lists /\ WorkflowTyped
    BY DEF WorkflowInv, WorkflowTyped, WorkflowTypeOK, Lists
  <2>2. FreshTask \in TaskType
    BY WorkflowAssumption DEF FreshTask, TaskType, Statuses
  <2> QED
    BY <1>1, <2>1, <2>2 DEF Lists
<1>8. stray' = stray /\ handle' \in {handle, "armed"}
  BY <1>1 DEF scheduleNext
<1>9. /\ WorkflowTyped' /\ LoopOK' /\ server = "up" /\ Writing' = Writing /\ Unsaved'
      /\ \A j \in Procs : proc'[j].snap = proc[j].snap
      /\ \A j \in Runners : proc'[j] = proc[j]
      /\ Lives' = Lives /\ Lives \in Int /\ (server' = "stopping" => faults' > 0)
      /\ \A u \in Tasks : Lives + (IF u \in applied THEN 1 ELSE 0)
                          <= Lives' + (IF u \in applied THEN 1 ELSE 0)
  BY <1>1, <1>7, <1>8, Operates
<1>10. ListsOK'
  <2>1. Lives \in Nat /\ def.cap \in Nat /\ overtaken \subseteq overtaken'
    BY LivesCounted, Remembered DEF WorkflowInv, ListsOK
  <2>2. With(task', "in_progress") \subseteq With(task, "in_progress")
    BY <1>1 DEF With, FreshTask
  <2>3. def.cap > 0 => Cardinality(With(task', "in_progress") \ overtaken) <= def.cap
    <3> SUFFICES ASSUME def.cap > 0
                 PROVE  Cardinality(With(task', "in_progress") \ overtaken) <= def.cap
      OBVIOUS
    <3>1. Cardinality(With(task, "in_progress") \ overtaken) <= def.cap
      BY DEF WorkflowInv, ListsOK, Holds, ListOK
    <3>2. With(task', "in_progress") \ overtaken \subseteq With(task, "in_progress") \ overtaken
      BY <2>2
    <3>3. Cardinality(With(task', "in_progress") \ overtaken)
            <= Cardinality(With(task, "in_progress") \ overtaken)
      BY <3>2, CountLess
    <3>4. /\ Cardinality(With(task', "in_progress") \ overtaken) \in Nat
          /\ Cardinality(With(task, "in_progress") \ overtaken) \in Nat
      BY Counted
    <3> QED
      BY <2>1, <3>1, <3>3, <3>4
  <2>4. ASSUME NEW u \in With(task', "failed") \ overtaken, task'[u].err = "blocked"
        PROVE  def.deps[u] \intersect (With(task', "failed") \union overtaken) # {}
    <3>1. u \in Tasks /\ u \notin resets /\ task[u].status = "failed" /\ task[u].err = "blocked"
      BY <1>1, <2>4 DEF With, FreshTask
    <3>2. PICK v \in def.deps[u] : v \in With(task, "failed") \/ v \in overtaken
      BY <2>4, <3>1 DEF WorkflowInv, ListsOK, Holds, ListOK, With
    <3>3. CASE v \in overtaken
      BY <3>3
    <3>4. CASE v \in With(task, "failed")
      <4>1. v \in Tasks /\ task[v].status = "failed"
        BY <3>4 DEF With
      <4>2. v \notin resets
        BY <1>4, <1>5, <1>6, <3>1
      <4>3. v \in With(task', "failed")
        BY <1>1, <4>1, <4>2 DEF With
      <4> QED
        BY <4>3
    <3> QED
      BY <3>2, <3>3, <3>4
  <2>5. \A u \in Tasks : task'[u].out <= Lives + (IF u \in applied THEN 1 ELSE 0)
    <3>1. ASSUME NEW u \in Tasks PROVE task'[u].out = task[u].out \/ task'[u].out = 0
      BY <1>1 DEF FreshTask
    <3> QED
      BY <2>1, <3>1 DEF WorkflowInv, ListsOK, Holds, ListOK
  <2>6. ListOK(task', def, applied, Lives, overtaken)
    BY <2>3, <2>4, <2>5 DEF ListOK
  <2>7. \A u \in Tasks : Lives + (IF u \in applied THEN 1 ELSE 0)
                         <= Lives + (IF u \in applied THEN 1 ELSE 0)
    BY <1>9
  <2>8. ListOK(task', def, applied, Lives, overtaken')
    BY <1>7, <1>9, <2>1, <2>6, <2>7, ListKept
  <2>9. Holds(task)'
    BY <1>1, <1>7, <1>9, <2>8, TaskHolds DEF WorkflowInv
  <2> QED
    BY <1>1, <1>7, <1>9, <2>9, ListsKept DEF WorkflowInv
<1>11. PassesOK'
  BY <1>1, <1>7, <1>9, PassesKept DEF WorkflowInv
<1>12. OwnedOK' /\ SettledOK'
  <2>1. Working' = Working
    BY <1>1 DEF Working
  <2>2. \A u \in Tasks : task[u].status = "in_progress" => task'[u] = task[u]
    BY <1>1, <1>3
  <2>3. OwnedOK'
    BY <1>1, <1>7, <2>1, <2>2, OwnedKept DEF WorkflowInv
  <2> QED
    BY <1>1, <2>3 DEF SettledOK
<1>13. FileOK'
  BY <1>1, <1>9, FileToSave DEF WorkflowInv, Operation
<1> QED
  BY <1>9, <1>10, <1>11, <1>12, <1>13 DEF WorkflowInv

\* Retention deletes an old file and forgets the workflow.
LEMMA Retained ==
  ASSUME WorkflowInv, Records, Retention
  PROVE  WorkflowInv'
<1>1. /\ server = "up" /\ ops < MaxOps /\ disk.state = "ok" /\ ops' = ops + 1
      /\ disk' = NoFile /\ handle' = "null" /\ stray' = stray /\ server' = "lost"
      /\ UNCHANGED <<def, task, completed, paused, applied, proc, caller, sess, faults>>
  BY DEF Retention, stopPolling, OpsLeft
<1>2. /\ disk' \in DiskType /\ disk'.state = "absent" /\ disk'.task = FreshList /\ ~disk'.clash
  <2>1. NoFile = [state |-> "absent", clash |-> FALSE, task |-> FreshList] /\ FreshList \in Lists
    BY FreshHolds DEF NoFile, FreshList
  <2> QED
    BY <1>1, <2>1 DEF DiskType
<1>3. /\ ops' \in 0..MaxOps /\ ops' # 0 /\ WorkflowTyped /\ proc' \in [Procs -> ProcType]
  BY <1>1, WorkflowAssumption DEF WorkflowInv, WorkflowTyped, WorkflowTypeOK
<1>4. WorkflowTyped'
  BY <1>1, <1>2, <1>3, StepTyped
<1>5. overtaken' = overtaken
  BY <1>1, <1>3, NotOvertaken
<1>6. ListsOK'
  <2>1. Lives' = Lives /\ Lives \in Nat /\ (server' = "stopping" => faults' > 0)
    BY <1>1, <1>3, LivesCounted DEF Lives, WorkflowInv, ListsOK
  <2>2. \A t \in Tasks : Lives + (IF t \in applied THEN 1 ELSE 0)
                         <= Lives' + (IF t \in applied THEN 1 ELSE 0)
    BY <2>1
  <2>3. \A k \in Procs : proc'[k].snap = proc[k].snap
    BY <1>1
  <2> QED
    BY <1>1, <1>2, <1>3, <1>4, <2>1, <2>2, <2>3, ListsStand DEF WorkflowInv
<1>7. LoopOK'
  BY <1>1, <1>3 DEF WorkflowInv, LoopOK, Busy
<1>8. PassesOK' /\ OwnedOK' /\ SettledOK'
  BY <1>1, <1>5 DEF WorkflowInv, PassesOK, PassOK, OwnedOK, SettledOK, Working
<1>9. FileOK'
  <2>1. Writing' = {}
    BY <1>1 DEF WorkflowInv, FileOK, Writing
  <2> QED
    BY <1>2, <2>1 DEF FileOK
<1> QED
  BY <1>4, <1>6, <1>7, <1>8, <1>9 DEF WorkflowInv

\* stopAll stops the polling; the ticks in flight go on.
LEMMA Stopped ==
  ASSUME WorkflowInv, Records, StopAll
  PROVE  WorkflowInv'
<1>1. /\ server = "up" /\ faults < MaxFaults /\ faults' = faults + 1
      /\ handle' = "null" /\ stray' = stray /\ server' = "stopping"
      /\ UNCHANGED <<def, task, completed, paused, applied, proc, disk, caller, sess, ops>>
  BY DEF StopAll, stopPolling, FaultsLeft
<1>2. /\ faults \in Nat /\ faults' \in 0..MaxFaults /\ faults' > 0 /\ WorkflowTyped
      /\ proc' \in [Procs -> ProcType]
  BY <1>1, WorkflowAssumption DEF WorkflowInv, WorkflowTyped, WorkflowTypeOK
<1>3. WorkflowTyped'
  BY <1>1, <1>2, StepTyped
<1>4. overtaken' = overtaken
  BY <1>1, <1>2, NotOvertaken
<1>5. ListsOK'
  <2>1. Lives' = Lives
    <3>1. Lives' = IF server' = "stopping" THEN faults' - 1 ELSE faults'
      BY DEF Lives
    <3> QED
      BY <1>1, <1>2, <3>1 DEF Lives
  <2> QED
    BY <1>1, <1>2, <1>4, <2>1 DEF WorkflowInv, ListsOK, Holds
<1>6. LoopOK'
  BY <1>1, <1>4 DEF WorkflowInv, LoopOK, OneLoop, Busy
<1>7. PassesOK' /\ OwnedOK' /\ SettledOK'
  BY <1>1, <1>4 DEF WorkflowInv, PassesOK, PassOK, OwnedOK, SettledOK, Working
<1>8. FileOK'
  BY <1>1 DEF WorkflowInv, FileOK, Writing, Unsaved, SameStatus
<1> QED
  BY <1>3, <1>5, <1>6, <1>7, <1>8 DEF WorkflowInv

\* The process is gone, stopped or crashed: only the file and the rows are left, and
\* one life more is over.
LEMMA DaemonGone ==
  ASSUME WorkflowInv, Records, Exit \/ WorkflowCrash
  PROVE  WorkflowInv'
<1>1. ProcessGone /\ (\/ server = "stopping" /\ faults' = faults
                      \/ faults < MaxFaults /\ faults' = faults + 1)
  BY DEF Exit, WorkflowCrash, FaultsLeft
<1>2. /\ server' = "down" /\ task' = FreshList /\ completed' = FALSE /\ paused' = FALSE
      /\ applied' = {} /\ handle' = "null" /\ stray' = 0 /\ caller' = "free"
      /\ proc' = [k \in Procs |-> Idle]
      /\ sess' = [s \in Sessions |->
           IF sess[s] = NoSession THEN NoSession
           ELSE [sess[s] EXCEPT !.turn = "dead", !.result = "none"]]
      /\ UNCHANGED <<def, disk, ops>>
  BY <1>1 DEF ProcessGone, FreshList
<1>3. faults' \in 0..MaxFaults /\ Lives + 1 <= Lives' /\ Lives \in Nat /\ Lives' \in Nat
  <2>1. faults \in Nat /\ faults <= MaxFaults /\ MaxFaults \in Nat /\ Lives \in Nat
    BY LivesCounted, WorkflowAssumption DEF WorkflowInv, ListsOK, WorkflowTyped, WorkflowTypeOK
  <2>2. Lives' = faults'
    <3>1. Lives' = IF server' = "stopping" THEN faults' - 1 ELSE faults'
      BY DEF Lives
    <3> QED
      BY <1>2, <3>1
  <2>3. CASE server = "stopping" /\ faults' = faults
    <3>1. Lives = faults - 1
      BY <2>3 DEF Lives
    <3> QED
      BY <2>1, <2>2, <2>3, <3>1
  <2>4. CASE faults < MaxFaults /\ faults' = faults + 1
    <3>1. Lives = faults \/ Lives = faults - 1
      BY DEF Lives
    <3> QED
      BY <2>1, <2>2, <2>4, <3>1
  <2> QED
    BY <1>1, <2>3, <2>4
<1>4. \A k \in Procs : proc'[k] = Idle /\ ~Busy(k)' /\ proc'[k].snap = FreshList
  BY <1>2, Idles DEF Busy
<1>5. sess' \in [Sessions -> SessionType] /\ Working' = {}
  <2>1. sess \in [Sessions -> SessionType]
    BY DEF WorkflowInv, WorkflowTyped, WorkflowTypeOK
  <2>2. \A s \in Sessions : sess'[s] \in SessionType /\ sess'[s].turn # "running"
    BY <1>2, <2>1 DEF SessionType, NoSession
  <2> QED
    BY <1>2, <2>2 DEF Working
<1>6. WorkflowTyped'
  <2>1. proc' \in [Procs -> ProcType]
    BY <1>2, Idles
  <2>2. task' \in Lists
    BY <1>2, FreshHolds
  <2> QED
    BY <1>2, <1>3, <1>5, <2>1, <2>2, StepTyped DEF WorkflowInv
<1>7. overtaken' = overtaken
  BY <1>4, Idles, NotOvertaken DEF WorkflowInv
<1>8. ListsOK'
  <2>1. def.cap \in Nat /\ def' = def
    BY <1>2, LivesCounted DEF WorkflowInv, ListsOK
  <2>2. Holds(task)'
    BY <1>2, <1>3, <2>1, FreshHolds DEF Holds
  <2>3. \A t \in Tasks : Lives + (IF t \in applied THEN 1 ELSE 0)
                         <= Lives' + (IF t \in applied' THEN 1 ELSE 0)
    <3>1. \A m, n \in Nat : m + 1 <= n => m + 0 <= n + 0 /\ m + 1 <= n + 0
      OBVIOUS
    <3>2. Lives + 0 <= Lives' + 0 /\ Lives + 1 <= Lives' + 0
      BY <1>3, <3>1
    <3> QED
      BY <1>2, <3>2
  <2> QED
    BY <1>2, <1>4, <1>6, <2>1, <2>2, <2>3, ListsKept DEF WorkflowInv
<1>9. LoopOK' /\ PassesOK'
  <2>1. Start \in Procs /\ Control \in Procs /\ \A k \in Runners : k \in Procs
    BY ProcsKnown
  <2>2. proc'[Control].pc = "idle"
    BY <1>4, <2>1, Idles
  <2>3. ops = 0 => OneLoop'
    BY <1>2, <1>4, <1>7, <2>1 DEF WorkflowInv, LoopOK, OneLoop
  <2>4. LoopOK'
    BY <1>2, <1>4, <2>1, <2>2, <2>3 DEF LoopOK
  <2> QED
    BY <1>4, <2>1, <2>4, Idles, PassFree DEF PassesOK
<1>10. OwnedOK' /\ SettledOK'
  BY <1>2, <1>5 DEF OwnedOK, SettledOK
<1>11. FileOK'
  <2>1. Writing' = {}
    BY <1>4, Idles DEF Writing
  <2> QED
    BY <1>2, <2>1 DEF FileOK
<1> QED
  BY <1>6, <1>8, <1>9, <1>10, <1>11 DEF WorkflowInv

\* The next daemon resumes the workflow from its file.
LEMMA Resumed ==
  ASSUME WorkflowInv, Records, Resume
  PROVE  WorkflowInv'
<1>1. /\ server = "down" /\ server' = "up" /\ task' = disk.task /\ scheduleNext(handle, stray)
      /\ UNCHANGED <<def, completed, paused, applied, proc, disk, caller, sess, ops, faults>>
  BY DEF Resume
<1>2. /\ handle = "null" /\ stray = 0 /\ \A k \in Procs : ~Busy(k) /\ proc[k].pc = "idle"
      /\ Working = {} /\ ~completed
  BY <1>1 DEF WorkflowInv, LoopOK, Busy, OwnedOK, SettledOK
<1>3. handle' = "armed" /\ stray' = 0
  BY <1>1, <1>2 DEF scheduleNext
<1>4. task' \in Lists /\ WorkflowTyped /\ proc' \in [Procs -> ProcType]
  BY <1>1 DEF WorkflowInv, WorkflowTyped, DiskType
<1>5. WorkflowTyped'
  BY <1>1, <1>3, <1>4, StepTyped
<1>6. overtaken' = overtaken
  BY <1>2, <1>4, NotOvertaken
<1>7. ListsOK'
  <2>1. Lives' = Lives
    BY <1>1 DEF Lives
  <2> QED
    BY <1>1, <1>6, <2>1 DEF WorkflowInv, ListsOK, Holds
<1>8. LoopOK' /\ PassesOK'
  <2>1. Start \in Procs /\ Control \in Procs /\ \A k \in Runners : k \in Procs
    BY ProcsKnown
  <2>2. ops = 0 => OneLoop'
    BY <1>1, <1>2, <1>3, <1>6, <2>1 DEF WorkflowInv, LoopOK, OneLoop, Busy
  <2>3. LoopOK'
    BY <1>1, <1>2, <2>1, <2>2 DEF WorkflowInv, LoopOK, Busy
  <2> QED
    BY <1>1, <1>2, <2>1, <2>3, PassFree DEF PassesOK
<1>9. OwnedOK' /\ SettledOK'
  BY <1>1, <1>2 DEF OwnedOK, SettledOK, Working
<1>10. FileOK'
  <2>1. Writing' = {} /\ disk' = disk
    BY <1>1, <1>2 DEF Writing
  <2> QED
    BY <1>1, <2>1 DEF WorkflowInv, FileOK, SameStatus
<1> QED
  BY <1>5, <1>7, <1>8, <1>9, <1>10 DEF WorkflowInv

\* A step of one pass: the control operation only saves.
LEMMA ProcSteps ==
  ASSUME WorkflowInv, Records, NEW k \in Procs, ProcStep(k)
  PROVE  WorkflowInv'
<1>1. CASE SaveBegins(k) \/ SaveEnds(k) \/ PostReturns(k)
  BY <1>1, SaveStarted, SaveEnded, PostReturned
<1>2. CASE ~(SaveBegins(k) \/ SaveEnds(k) \/ PostReturns(k))
  <2>1. Dispatch(k) \/ LoopEnds(k) \/ CallReturns(k) \/ SpawnReturns(k) \/ SpawnFails(k)
        \/ NotifyReturns(k)
    BY <1>2 DEF ProcStep
  <2>2. proc[k].pc \in {"loop", "call", "spawn", "notify"}
    BY <2>1 DEF Dispatch, LoopEnds, CallReturns, SpawnReturns, SpawnFails, NotifyReturns
  <2>3. k \in Runners
    BY <2>2, ProcsKnown DEF WorkflowInv, LoopOK
  <2> QED
    BY <2>1, <2>3, DispatchStep, LoopOver, CallStepReturns, SpawnedStep, NotifiedPass
<1> QED
  BY <1>1, <1>2

\* Every step keeps the invariant, whatever overtakes whatever.
LEMMA WorkflowSteps ==
  ASSUME WorkflowInv, [WorkflowNext]_recorded
  PROVE  WorkflowInv'
<1>1. CASE UNCHANGED recorded
  <2>1. UNCHANGED workflow /\ overtaken' = overtaken /\ task' = task
    BY <1>1 DEF recorded, workflow
  <2>2. \A t \in Tasks : def.deps[t] \subseteq Tasks
    BY DEF WorkflowInv, WorkflowTyped, WorkflowTypeOK, DefType
  <2>3. Overtaken = {}
    BY <2>1, <2>2 DEF Overtaken, Disturbed
  <2>4. Records
    BY <2>1, <2>3 DEF Records
  <2> QED
    BY <2>1, <2>4, WaitStep
<1>2. CASE WorkflowNext
  <2>1. WorkflowStep /\ Records
    BY <1>2 DEF WorkflowNext, Records
  <2>2. CASE WaitCalled \/ WaitReturns
    BY <2>1, <2>2, WaitStep
  <2>3. CASE \E k \in Procs : ProcStep(k)
    BY <2>1, <2>3, ProcSteps
  <2>4. CASE \E k \in Ticks : TickFires(k)
    BY <2>1, <2>4, TickIdles, TickFired
  <2>5. CASE \E s \in Sessions : TurnEnds(s) \/ KilledOutside(s)
    BY <2>1, <2>5, SessionStep
  <2>6. CASE \E t \in Tasks : LimitPasses(t)
    BY <2>1, <2>6, LimitStep
  <2>7. CASE \E k \in Procs : SaveFails(k)
    BY <2>1, <2>7, SaveFailed
  <2>8. CASE Abort \/ Retention
    BY <2>1, <2>8, Aborted, Retained
  <2>9. CASE (\E v \in BOOLEAN : SetPaused(v)) \/ \E t \in Tasks, b \in Edits : Edit(t, b)
    BY <2>1, <2>9, Adjusted
  <2>10. CASE \E t \in Tasks, c \in BOOLEAN : Retry(t, c)
    BY <2>1, <2>10, Retried
  <2>11. CASE StopAll \/ Exit \/ WorkflowCrash \/ Resume
    BY <2>1, <2>11, Stopped, DaemonGone, Resumed
  <2> QED
    BY <2>1, <2>2, <2>3, <2>4, <2>5, <2>6, <2>7, <2>8, <2>9, <2>10, <2>11
       DEF WorkflowStep, Environment, Operator
<1> QED
  BY <1>1, <1>2

\* The invariant holds of every behaviour, with control operations and second polling
\* loops between any two steps of a tick (orchestrator.ts, control.ts).
THEOREM WorkflowInvariance == WorkflowSpec => []WorkflowInv
<1>1. WorkflowInit => WorkflowInv
  BY WorkflowStarts
<1>2. WorkflowInv /\ [WorkflowNext]_recorded => WorkflowInv'
  BY WorkflowSteps
<1> QED
  BY <1>1, <1>2, PTL DEF WorkflowSpec

-----------------------------------------------------------------------------
(* What the invariant gives.                                               *)

\* Sessions and tasks in progress agree and the cap on them holds, but for the tasks
\* that a control operation has overtaken; without one nothing is overtaken
\* (orchestrator.ts:787, 949, 979).
THEOREM WorkflowSessionsOwned == WorkflowSpec => []SessionsOwned
<1>1. WorkflowInv => SessionsOwned
  <2> SUFFICES ASSUME WorkflowInv PROVE SessionsOwned
    OBVIOUS
  <2>1. WorkflowTypeOK
    BY DEF WorkflowInv, WorkflowTyped
  <2>2. NoOrphanSession
    BY DEF WorkflowInv, OwnedOK, NoOrphanSession
  <2>3. ConcurrencyCapHolds
    BY DEF WorkflowInv, ListsOK, Holds, ListOK, ConcurrencyCapHolds
  <2>4. OvertakenByOperator
    BY DEF WorkflowInv, LoopOK, OneLoop, OvertakenByOperator
  <2> QED
    BY <2>1, <2>2, <2>3, <2>4 DEF SessionsOwned
<1> QED
  BY <1>1, WorkflowInvariance, PTL

\* What a settled workflow leaves behind is final, but for the tasks overtaken: tasks,
\* sessions, the causes of blocked tasks, the templates applied, and a file that is not
\* resumed (orchestrator.ts:1026, control.ts:94).
THEOREM WorkflowCompletionSound == WorkflowSpec => []CompletionSound
<1>1. WorkflowInv => CompletionSound
  <2> SUFFICES ASSUME WorkflowInv PROVE CompletionSound
    OBVIOUS
  <2>1. CompletedIsSettled
    <3> SUFFICES ASSUME completed, NEW s \in Working, sess[s].task \notin overtaken PROVE FALSE
      BY DEF WorkflowInv, SettledOK, CompletedIsSettled
    <3>1. sess[s].task \in Tasks /\ task[sess[s].task].status = "in_progress"
      BY DEF WorkflowInv, OwnedOK
    <3>2. isTerminal(task[sess[s].task].status)
      BY <3>1 DEF WorkflowInv, SettledOK
    <3> QED
      BY <3>1, <3>2 DEF isTerminal
  <2>2. BlockedHasCause
    BY DEF WorkflowInv, ListsOK, Holds, ListOK, BlockedHasCause
  <2>3. CompletedIsNotResumed
    <3> SUFFICES ASSUME completed, ~disk.clash, \A k \in Procs : proc[k].pc \in {"idle", "post"},
                        Resumable, NEW t \in Tasks \ overtaken
                 PROVE  isTerminal(disk.task[t].status)
      BY DEF CompletedIsNotResumed
    <3>1. server # "down" /\ isTerminal(task[t].status)
      BY DEF WorkflowInv, SettledOK
    <3>2. ~Unsaved
      BY DEF Unsaved
    <3>3. SameStatus(disk.task, task)
      BY <3>1, <3>2 DEF WorkflowInv, FileOK, Resumable
    <3> QED
      BY <3>1, <3>3 DEF SameStatus
  <2>4. TemplateAppliedOnce
    <3> SUFFICES ASSUME faults = 0, NEW t \in Tasks PROVE task[t].out <= 1
      BY DEF TemplateAppliedOnce
    <3>1. Lives = 0
      BY DEF WorkflowInv, ListsOK, Lives
    <3>2. task[t].out <= 0 + (IF t \in applied THEN 1 ELSE 0) /\ task[t].out \in Nat
      <4>1. task[t] \in TaskType
        BY DEF WorkflowInv, WorkflowTyped, WorkflowTypeOK
      <4>2. task[t].out \in Nat
        BY <4>1, WorkflowAssumption DEF TaskType
      <4> QED
        BY <3>1, <4>2 DEF WorkflowInv, ListsOK, Holds, ListOK
    <3> QED
      BY <3>2
  <2> QED
    BY <2>1, <2>2, <2>3, <2>4 DEF CompletionSound
<1> QED
  BY <1>1, WorkflowInvariance, PTL

\* One step in the life of every task that has not been overtaken.
Moves ==
  /\ \A t \in Tasks \ overtaken : Final(t)
  /\ \A t \in With(task, "pending") \ overtaken :
       task'[t].status \in {"in_progress", "done"} => def.deps[t] \subseteq With(task, "done")

\* A step that leaves the statuses alone.
LEMMA MovesNothing ==
  ASSUME \A t \in Tasks : task'[t].status = task[t].status
  PROVE  Moves
BY DEF Moves, Final, With

\* A step that moves only a pending task that is ready, or an overtaken one, and skips
\* or fails others.
LEMMA MovesReady ==
  ASSUME NEW t \in Tasks,
         t \in overtaken
           \/ (task[t].status = "pending" /\ def.deps[t] \subseteq With(task, "done")),
         \A u \in Tasks : \/ u = t \/ task'[u].status = task[u].status
                          \/ task[u].status = "pending" /\ task'[u].status = "skipped"
  PROVE  Moves
BY DEF Moves, Final, With, isTerminal

\* A tick's synchronous part starts nothing and does not finish a pending task.
LEMMA TickStartsNothing ==
  ASSUME NEW T \in Lists, NEW t \in Tasks, T[t].status = "pending"
  PROVE  Marked(Handled(Polled(T)))[t].status \notin {"in_progress", "done"}
<1> DEFINE P == Polled(T)
           A == Handled(P)
<1>1. P \in Lists /\ P[t].status = "pending"
  BY PolledSettles DEF Polled
<1> HIDE DEF P
<1>2. A \in Lists /\ A[t].status \in {"pending", "failed"}
  <2> DEFINE H == [u \in Tasks |-> [P[u] EXCEPT !.handled = @ \/ u \in HandledNow(P)]]
  <2>1. H[t].status = "pending"
    BY <1>1 DEF Lists, TaskType
  <2>2. A = H \/ A = Failing(H, With(H, "pending") \union With(H, "in_progress"), "aborted")
    BY DEF Handled
  <2>3. \A S : Failing(H, S, "aborted")[t].status \in {"pending", "failed"}
    <3>1. H \in Lists
      BY <1>1 DEF Lists, TaskType
    <3> HIDE DEF H
    <3> QED
      BY <2>1, <3>1 DEF Failing, Lists, TaskType
  <2>4. A \in Lists
    BY <1>1, HandledSettles
  <2> QED
    BY <2>1, <2>2, <2>3, <2>4
<1> HIDE DEF A
<1>3. A[t] \in TaskType
  BY <1>2 DEF Lists
<1> QED
  BY <1>2, <1>3 DEF Marked, Failing, TaskType, A, P

\* A task that a pass dispatches is ready, and so is one whose call or spawn returns,
\* unless it was overtaken.
LEMMA PassMoves ==
  ASSUME WorkflowInv, NEW k \in Procs, ProcStep(k)
  PROVE  Moves
<1>1. task \in Lists
  BY DEF WorkflowInv, WorkflowTyped, WorkflowTypeOK, Lists
<1>2. CASE UNCHANGED task
  BY <1>2, MovesNothing
<1>3. CASE LoopEnds(k)
  BY <1>1, <1>3, MovesNothing DEF LoopEnds, Lists, TaskType
<1>4. CASE Dispatch(k)
  <2> DEFINE t == Min(Dispatchable(k))
  <2>1. k \in Runners /\ proc[k].pc = "loop" /\ Dispatchable(k) # {}
    BY <1>4, ProcsKnown DEF Dispatch, WorkflowInv, LoopOK
  <2>2. t \in Tasks /\ task[t].status = "pending" /\ def.deps[t] \subseteq With(task, "done")
    BY <2>1, Dispatched
  <2>3. DispatchGate(k, t) \/ DispatchTransform(k, t) \/ DispatchAwaited(k, t)
    BY <1>4 DEF Dispatch
  <2> HIDE DEF t
  <2>4. \A u \in Tasks : \/ u = t \/ task'[u].status = task[u].status
                         \/ task[u].status = "pending" /\ task'[u].status = "skipped"
    <3>1. \/ task' = task \/ task' = [task EXCEPT ![t].status = "done"]
          \/ task' = Failing(task, {t}, "other")
          \/ \E S : task' = [u \in Tasks |->
               IF u = t THEN [task[u] EXCEPT !.status = "done"]
               ELSE IF u \in S /\ task[u].status = "pending"
                 THEN [task[u] EXCEPT !.status = "skipped"]
               ELSE task[u]]
      BY <2>3 DEF DispatchGate, DispatchTransform, DispatchAwaited
    <3>2. CASE task' = Failing(task, {t}, "other")
      BY <3>2 DEF Failing
    <3>3. CASE task' = task \/ task' = [task EXCEPT ![t].status = "done"]
      BY <1>1, <2>2, <3>3 DEF Lists
    <3>4. ASSUME NEW S, task' = [u \in Tasks |->
               IF u = t THEN [task[u] EXCEPT !.status = "done"]
               ELSE IF u \in S /\ task[u].status = "pending"
                 THEN [task[u] EXCEPT !.status = "skipped"]
               ELSE task[u]],
                 NEW u \in Tasks, u # t
          PROVE  \/ task'[u].status = task[u].status
                 \/ task[u].status = "pending" /\ task'[u].status = "skipped"
      BY <1>1, <3>4 DEF Lists, TaskType
    <3> QED
      BY <3>1, <3>2, <3>3, <3>4
  <2> QED
    BY <2>2, <2>4, MovesReady
<1>5. CASE CallReturns(k) \/ SpawnReturns(k) \/ SpawnFails(k)
  <2> DEFINE t == proc[k].at
  <2>1. k \in Runners /\ proc[k].pc \in {"call", "spawn"}
    BY <1>5, ProcsKnown DEF CallReturns, SpawnReturns, SpawnFails, WorkflowInv, LoopOK
  <2>2. /\ t \in Tasks
        /\ t \in overtaken
             \/ (task[t].status = "pending" /\ def.deps[t] \subseteq With(task, "done"))
    BY <2>1, Awaited
  <2>3. \A u \in Tasks : u = t \/ task'[u].status = task[u].status
    BY <1>1, <1>5 DEF CallReturns, SpawnReturns, SpawnFails, Failing, Lists, TaskType
  <2> HIDE DEF t
  <2> QED
    BY <2>2, <2>3, MovesReady
<1> QED
  BY <1>2, <1>3, <1>4, <1>5
     DEF ProcStep, NotifyReturns, SaveBegins, SaveEnds, PostReturns

\* Every step of a running server moves its tasks forward, or resets them.
LEMMA TasksMove ==
  ASSUME WorkflowInv, [WorkflowNext]_recorded, Processing
  PROVE  Moves
<1>1. task \in Lists
  BY DEF WorkflowInv, WorkflowTyped, WorkflowTypeOK, Lists
<1>2. CASE UNCHANGED task
  BY <1>2, MovesNothing
<1>3. CASE \E k \in Procs : ProcStep(k)
  BY <1>3, PassMoves
<1>4. CASE \E k \in Ticks : TickFires(k)
  <2>1. UNCHANGED task \/ task' = Marked(Handled(Polled(task)))
    BY <1>4 DEF TickFires, TickBegins
  <2>2. CASE task' = Marked(Handled(Polled(task)))
    <3>1. Settles(task, task')
      BY <1>1, <2>2, TickSettles
    <3>2. \A t \in With(task, "pending") : task'[t].status \notin {"in_progress", "done"}
      BY <1>1, <2>2, TickStartsNothing DEF With
    <3> QED
      BY <3>1, <3>2 DEF Moves, Final, Settles
  <2> QED
    BY <1>2, <2>1, <2>2
<1>5. CASE \E t \in Tasks : LimitPasses(t)
  BY <1>1, <1>5, MovesNothing DEF LimitPasses, Lists, TaskType
<1>6. CASE Abort
  BY <1>1, <1>6 DEF Abort, Failing, Moves, Final, With, isTerminal, Lists, TaskType
<1>7. CASE \E t \in Tasks, c \in BOOLEAN : Retry(t, c)
  <2>1. \A u \in Tasks : task'[u] = FreshTask \/ task'[u] = task[u]
    BY <1>7 DEF Retry
  <2> QED
    BY <2>1 DEF Moves, Final, With, FreshTask
<1>8. ~Exit /\ ~WorkflowCrash /\ ~Resume
  BY DEF Processing, Exit, WorkflowCrash, ProcessGone, Resume
<1> QED
  BY <1>2, <1>3, <1>4, <1>5, <1>6, <1>7, <1>8
     DEF WorkflowNext, WorkflowStep, Environment, Operator, recorded, workflow, TurnEnds,
         KilledOutside, SaveFails, WaitCalled, WaitReturns, Retention, SetPaused, Edit, StopAll

\* A task starts after its dependencies, and once it is terminal it stays so unless it
\* is retried, across awaited calls and spawns, unless it is overtaken while one of them
\* is awaited (orchestrator.ts:794, 979, docs/workflow.md:34).
THEOREM WorkflowTaskLife == WorkflowSpec => TaskLife
<1>1. WorkflowInv /\ [WorkflowNext]_recorded =>
        [Processing => \A t \in Tasks \ overtaken : Final(t)]_recorded
  BY TasksMove DEF Moves
<1>2. WorkflowInv /\ [WorkflowNext]_recorded =>
        [Processing =>
           \A t \in With(task, "pending") \ overtaken :
             task'[t].status \in {"in_progress", "done"} => def.deps[t] \subseteq With(task, "done")
        ]_recorded
  BY TasksMove DEF Moves
<1>3. WorkflowSpec => []WorkflowInv
  BY WorkflowInvariance
<1>4. WorkflowSpec => TerminalIsFinal
  BY <1>1, <1>3, PTL DEF WorkflowSpec, TerminalIsFinal
<1>5. WorkflowSpec => StartsAfterItsDependencies
  BY <1>2, <1>3, PTL DEF WorkflowSpec, StartsAfterItsDependencies
<1> QED
  BY <1>4, <1>5 DEF TaskLife
=============================================================================
