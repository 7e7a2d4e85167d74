---------------------------- MODULE ProcessProofs ----------------------------
(***************************************************************************)
(* Proofs about ManagedProcess: the object tracks its child and a stop     *)
(* holds, for all process specifications, numbers of stop and restart      *)
(* calls and numbers of spawns.                                            *)
(*                                                                         *)
(* PInv is the inductive invariant.  Its parts Tracked and Held, which say *)
(* what the properties need, hold only of an undisturbed object; the rest  *)
(* holds always and is what the undisturbed case leans on.                 *)
(***************************************************************************)
EXTENDS ManagedProcess, FiniteSetTheorems, TLAPS

\* The values mp takes.
Timers == {RestartTimer, ResetTimer} \cup {AttemptTimer(c) : c \in Spawns}

Promises == {"none", "pending", "resolved"}

MP == [spec : Specs, state : States, child : Spawns \cup {NoChild}, timers : SUBSET Timers,
       stopPromise : Promises, killFailed : BOOLEAN, failures : Nat, healthRetries : Nat,
       matched : BOOLEAN]

MPOK(m) == m \in MP /\ m.failures <= m.spec.maxRetries

ChildStates == {"none", "spawning", "alive", "exit0", "exit1", "signalled", "nospawn"}

StartStates == {"none", "spawning", "erroring", "polling", "waiting", "probing", "resolved",
                "rejected"}

CallStates == {"idle", "preStop", "grace", "safety", "awaiting", "ready", "done", "refused"}

ProcOK == /\ proc \in [Spawns -> ChildStates] /\ closed \subseteq Gone /\ deaf \subseteq Used
          /\ starting \in [Spawns -> StartStates] /\ byTimer \subseteq Used

CallOK == /\ call \in [Callers -> CallStates] /\ target \in [Callers -> Spawns \cup {NoChild}]
          /\ registered \in BOOLEAN

-----------------------------------------------------------------------------
(* What the synchronous helpers do to the object.                          *)

\* The fields of the object and their sets.
LEMMA MPFields ==
  ASSUME NEW m, MPOK(m)
  PROVE  /\ m.spec \in Specs /\ m.state \in States /\ m.child \in Spawns \cup {NoChild}
         /\ m.timers \subseteq Timers /\ m.stopPromise \in Promises
         /\ m.killFailed \in BOOLEAN /\ m.failures \in Nat /\ m.healthRetries \in Nat
         /\ m.matched \in BOOLEAN /\ m.spec.maxRetries \in Nat
<1>1. m.spec \in Specs
  BY DEF MPOK, MP
<1>2. m.spec.maxRetries \in Nat
  BY <1>1, SpecAssumption DEF ProcessSpec
<1> QED BY <1>2 DEF MPOK, MP

\* Resolving a stop promise.
Res(p) == IF p = "pending" THEN "resolved" ELSE p

\* n is m but for its state, timers, stop promise and child.
Becomes(m, n, s, c, ts, p) ==
  /\ MPOK(n) /\ n.spec = m.spec /\ n.killFailed = m.killFailed
  /\ n.state = s /\ n.child = c /\ n.timers = ts /\ n.stopPromise = p

\* The values the helpers write are of the right kind.
LEMMA FieldValues ==
  /\ States = {"starting", "running", "exited", "stopping", "failed", "dead"}
  /\ {} \in SUBSET Timers /\ {RestartTimer} \in SUBSET Timers /\ NoChild \in Spawns \cup {NoChild}
  /\ \A p \in Promises : Res(p) \in Promises
BY DEF States, Timers, Promises, Res

\* Any subset of an object's fields may be changed.
LEMMA MPUpdates ==
  ASSUME NEW m, MPOK(m), NEW s \in States, NEW c \in Spawns \cup {NoChild},
         NEW ts \in SUBSET Timers, NEW p \in Promises, NEW h \in Nat, NEW x \in BOOLEAN
  PROVE  /\ Becomes(m, [m EXCEPT !.state = s], s, m.child, m.timers, m.stopPromise)
         /\ Becomes(m, [m EXCEPT !.timers = ts], m.state, m.child, ts, m.stopPromise)
         /\ Becomes(m, [m EXCEPT !.stopPromise = p], m.state, m.child, m.timers, p)
         /\ Becomes(m, [m EXCEPT !.matched = x], m.state, m.child, m.timers, m.stopPromise)
         /\ Becomes(m, [m EXCEPT !.healthRetries = h], m.state, m.child, m.timers, m.stopPromise)
         /\ Becomes(m, [m EXCEPT !.state = s, !.timers = ts], s, m.child, ts, m.stopPromise)
         /\ Becomes(m, [m EXCEPT !.healthRetries = h, !.timers = ts], m.state, m.child, ts,
                    m.stopPromise)
         /\ Becomes(m, [m EXCEPT !.timers = ts, !.state = s, !.child = c], s, c, ts,
                    m.stopPromise)
         /\ Becomes(m, [m EXCEPT !.state = s, !.child = c], s, c, m.timers, m.stopPromise)
         /\ Becomes(m, [m EXCEPT !.stopPromise = p, !.state = s, !.timers = ts], s, m.child, ts, p)
<1> DEFINE A == Spawns \cup {NoChild}
           B == SUBSET Timers
           N == Nat
           K == BOOLEAN
<1>1. /\ MP = [spec : Specs, state : States, child : A, timers : B, stopPromise : Promises,
                killFailed : K, failures : N, healthRetries : N, matched : K]
      /\ c \in A /\ ts \in B /\ m \in MP /\ h \in N /\ x \in K
      /\ m.failures <= m.spec.maxRetries
  BY DEF MPOK, MP
<1> HIDE DEF A, B, N, K
<1> QED BY <1>1 DEF Becomes, MPOK

\* _resolveStop() touches the stop promise only.
LEMMA ResolveFacts ==
  ASSUME NEW m, MPOK(m)
  PROVE  Becomes(m, Resolve(m), m.state, m.child, m.timers, Res(m.stopPromise))
<1>1. Resolve(m) = [m EXCEPT !.stopPromise = Res(m.stopPromise)]
  BY DEF Resolve, Res, MPOK, MP
<1>2. Res(m.stopPromise) \in Promises /\ m.state \in States /\ m.child \in Spawns \cup {NoChild}
      /\ m.timers \in SUBSET Timers /\ m.healthRetries \in Nat /\ m.matched \in BOOLEAN
  BY MPFields, FieldValues
<1> QED BY <1>1, <1>2, MPUpdates

\* _finalize() leaves a dead object without child or timers, its promise resolved.
LEMMA FinalizeFacts ==
  ASSUME NEW m, MPOK(m)
  PROVE  Becomes(m, Finalize(m), "dead", NoChild, {}, Res(m.stopPromise))
<1> DEFINE n == [m EXCEPT !.timers = {}, !.state = "dead", !.child = NoChild]
<1>1. Becomes(m, n, "dead", NoChild, {}, m.stopPromise)
  <2>1. /\ "dead" \in States /\ {} \in SUBSET Timers /\ NoChild \in Spawns \cup {NoChild}
        /\ m.stopPromise \in Promises /\ m.healthRetries \in Nat /\ m.matched \in BOOLEAN
    BY MPFields, FieldValues
  <2> QED BY <2>1, MPUpdates
<1> HIDE DEF n
<1>2. Becomes(n, Resolve(n), n.state, n.child, n.timers, Res(n.stopPromise))
  BY <1>1, ResolveFacts DEF Becomes
<1>3. Finalize(m) = Resolve(n)
  BY DEF Finalize, n
<1> QED BY <1>1, <1>2, <1>3 DEF Becomes

\* _onHealthy() turns "starting" into "running" and may add the reset timer.
LEMMA OnHealthyFacts ==
  ASSUME NEW m, MPOK(m)
  PROVE  \E ts \in SUBSET Timers :
           /\ Becomes(m, OnHealthy(m), IF m.state = "starting" THEN "running" ELSE m.state,
                      m.child, ts, m.stopPromise)
           /\ m.timers \subseteq ts /\ ts \subseteq m.timers \cup {ResetTimer}
<1>0. /\ m.timers \in SUBSET Timers /\ m.stopPromise \in Promises /\ m.state \in States
      /\ m.child \in Spawns \cup {NoChild} /\ m.healthRetries \in Nat /\ m.matched \in BOOLEAN
      /\ "running" \in States
  BY MPFields, FieldValues
<1>1. CASE m.state = "starting"
  <2> DEFINE ts == m.timers \cup {ResetTimer}
  <2>1. ts \in SUBSET Timers
    BY <1>0 DEF Timers
  <2>2. OnHealthy(m) = [m EXCEPT !.state = "running", !.timers = ts]
    BY <1>1 DEF OnHealthy
  <2>3. m.timers \subseteq ts /\ ts \subseteq m.timers \cup {ResetTimer}
    OBVIOUS
  <2> HIDE DEF ts
  <2>4. Becomes(m, OnHealthy(m), "running", m.child, ts, m.stopPromise)
    <3>1. Becomes(m, [m EXCEPT !.state = "running", !.timers = ts], "running", m.child, ts,
                  m.stopPromise)
      BY <1>0, <2>1, MPUpdates
    <3> QED BY <2>2, <3>1
  <2> QED BY <1>1, <2>1, <2>3, <2>4
<1>2. CASE m.state # "starting"
  <2>1. OnHealthy(m) = m
    BY <1>2 DEF OnHealthy
  <2>2. Becomes(m, m, m.state, m.child, m.timers, m.stopPromise)
    BY DEF Becomes
  <2> QED BY <1>0, <1>2, <2>1, <2>2
<1> QED BY <1>1, <1>2

\* n is m after a failed kill.
KilledInVain(m, n) ==
  /\ MPOK(n) /\ n.spec = m.spec /\ n.killFailed /\ n.state = "failed"
  /\ n.child = m.child /\ n.timers = m.timers /\ n.stopPromise = Res(m.stopPromise)

\* A refused signal marks the object failed and resolves the promise.
LEMMA KillFailsFacts ==
  ASSUME NEW m, MPOK(m)
  PROVE  KilledInVain(m, KillFails(m))
<1> DEFINE n == [m EXCEPT !.killFailed = TRUE, !.state = "failed"]
<1>1. /\ MPOK(n) /\ n.spec = m.spec /\ n.killFailed /\ n.state = "failed"
      /\ n.child = m.child /\ n.timers = m.timers /\ n.stopPromise = m.stopPromise
  <2>1. "failed" \in States
    BY FieldValues
  <2> DEFINE A == Spawns \cup {NoChild}
             B == SUBSET Timers
             N == Nat
             K == BOOLEAN
  <2>2. /\ MP = [spec : Specs, state : States, child : A, timers : B, stopPromise : Promises,
                  killFailed : K, failures : N, healthRetries : N, matched : K]
        /\ TRUE \in K /\ m \in MP /\ m.failures <= m.spec.maxRetries
    BY DEF MPOK, MP
  <2> HIDE DEF A, B, N, K
  <2> QED BY <2>1, <2>2 DEF MPOK
<1> HIDE DEF n
<1>2. Becomes(n, Resolve(n), n.state, n.child, n.timers, Res(n.stopPromise))
  BY <1>1, ResolveFacts
<1>3. KillFails(m) = Resolve(n)
  BY DEF KillFails, n
<1> QED BY <1>1, <1>2, <1>3 DEF Becomes, KilledInVain

\* The tail of stop() reports a failed kill or finalizes.
LEMMA AfterWaitFacts ==
  ASSUME NEW m, MPOK(m)
  PROVE  /\ m.killFailed => KilledInVain(m, AfterWait(m))
         /\ ~m.killFailed => Becomes(m, AfterWait(m), "dead", NoChild, {}, Res(m.stopPromise))
<1>1. ASSUME m.killFailed PROVE KilledInVain(m, AfterWait(m))
  <2> DEFINE n == [m EXCEPT !.state = "failed"]
  <2>1. Becomes(m, n, "failed", m.child, m.timers, m.stopPromise)
    <3>1. /\ m.timers \in SUBSET Timers /\ m.stopPromise \in Promises
          /\ m.child \in Spawns \cup {NoChild} /\ m.healthRetries \in Nat /\ m.matched \in BOOLEAN
          /\ "failed" \in States
      BY MPFields, FieldValues
    <3> QED BY <3>1, MPUpdates
  <2>2. AfterWait(m) = Resolve(n)
    BY <1>1 DEF AfterWait
  <2> HIDE DEF n
  <2>3. Becomes(n, Resolve(n), n.state, n.child, n.timers, Res(n.stopPromise))
    BY <2>1, ResolveFacts DEF Becomes
  <2> QED BY <1>1, <2>1, <2>2, <2>3 DEF Becomes, KilledInVain
<1>2. ASSUME ~m.killFailed PROVE AfterWait(m) = Finalize(m)
  BY <1>2 DEF AfterWait
<1> QED BY <1>1, <1>2, FinalizeFacts

\* _onExit() finalizes, or schedules a restart.
LEMMA OnExitFacts ==
  ASSUME NEW m, MPOK(m), NEW how
  PROVE  \/ Becomes(m, OnExit(m, how), "dead", NoChild, {}, Res(m.stopPromise))
         \/ /\ Becomes(m, OnExit(m, how), "exited", m.child, {RestartTimer}, m.stopPromise)
            /\ m.state # "stopping"
<1> DEFINE n == [m EXCEPT !.timers = {}]
<1>0. /\ m.timers \in SUBSET Timers /\ m.stopPromise \in Promises /\ m.state \in States
      /\ m.child \in Spawns \cup {NoChild} /\ m.healthRetries \in Nat /\ m.matched \in BOOLEAN
      /\ "dead" \in States /\ "exited" \in States /\ {} \in SUBSET Timers
      /\ {RestartTimer} \in SUBSET Timers /\ NoChild \in Spawns \cup {NoChild}
      /\ m.failures \in Nat /\ m.spec.maxRetries \in Nat
  BY MPFields, FieldValues
<1>1. Becomes(m, n, m.state, m.child, {}, m.stopPromise)
  BY <1>0, MPUpdates
<1>2. CASE m.state = "stopping"
  <2>1. OnExit(m, how) = Finalize(n)
    BY <1>2 DEF OnExit
  <2> HIDE DEF n
  <2>2. Becomes(n, Finalize(n), "dead", NoChild, {}, Res(n.stopPromise))
    BY <1>1, FinalizeFacts DEF Becomes
  <2> QED BY <1>1, <2>1, <2>2 DEF Becomes
<1>3. CASE m.state # "stopping" /\ Restarts(m, how)
  <2>1. OnExit(m, how) = [m EXCEPT !.timers = {RestartTimer}, !.state = "exited",
                                   !.failures = m.failures + 1]
    BY <1>3 DEF OnExit, MPOK, MP
  <2> DEFINE f == m.failures + 1
             ts == {RestartTimer}
             x == [m EXCEPT !.timers = ts, !.state = "exited", !.failures = f]
  <2>2. f \in Nat /\ f <= m.spec.maxRetries
    BY <1>0, <1>3 DEF Restarts
  <2>3. ts \in SUBSET Timers
    BY <1>0
  <2>4. OnExit(m, how) = x
    BY <2>1
  <2> HIDE DEF f, ts
  <2>5. Becomes(m, x, "exited", m.child, ts, m.stopPromise)
    <3> DEFINE A == Spawns \cup {NoChild}
               B == SUBSET Timers
               N == Nat
               K == BOOLEAN
    <3>1. /\ MP = [spec : Specs, state : States, child : A, timers : B,
                    stopPromise : Promises, killFailed : K, failures : N,
                    healthRetries : N, matched : K]
          /\ ts \in B /\ f \in N /\ m \in MP /\ f <= m.spec.maxRetries
      BY <2>2, <2>3 DEF MPOK, MP
    <3> HIDE DEF A, B, N, K
    <3> QED BY <1>0, <3>1 DEF MPOK, Becomes
  <2> HIDE DEF x
  <2> QED BY <1>3, <2>4, <2>5 DEF ts
<1>4. CASE m.state # "stopping" /\ ~Restarts(m, how)
  <2> DEFINE x == [n EXCEPT !.state = "dead", !.child = NoChild]
  <2>1. OnExit(m, how) = Resolve(x)
    BY <1>4 DEF OnExit
  <2>2. x = [m EXCEPT !.timers = {}, !.state = "dead", !.child = NoChild]
    BY DEF MPOK, MP
  <2> HIDE DEF n, x
  <2>3. Becomes(m, x, "dead", NoChild, {}, m.stopPromise)
    BY <1>0, <2>2, MPUpdates
  <2>4. Becomes(x, Resolve(x), x.state, x.child, x.timers, Res(x.stopPromise))
    BY <2>3, ResolveFacts DEF Becomes
  <2> QED BY <2>1, <2>3, <2>4 DEF Becomes
<1> QED BY <1>2, <1>3, <1>4

\* A rejected start() may mark the process failed, and does nothing else.
LEMMA RejectedFacts ==
  ASSUME NEW m, MPOK(m), NEW c
  PROVE  \E s \in {m.state, "failed"} :
           Becomes(m, Rejected(m, c), s, m.child, m.timers, m.stopPromise)
<1>0. /\ m.timers \in SUBSET Timers /\ m.stopPromise \in Promises /\ m.state \in States
      /\ m.child \in Spawns \cup {NoChild} /\ m.healthRetries \in Nat /\ m.matched \in BOOLEAN
      /\ "failed" \in States
  BY MPFields, FieldValues
<1>1. CASE c \in byTimer
  <2>1. Rejected(m, c) = [m EXCEPT !.state = "failed"]
    BY <1>1 DEF Rejected
  <2>2. Becomes(m, Rejected(m, c), "failed", m.child, m.timers, m.stopPromise)
    BY <1>0, <2>1, MPUpdates
  <2> QED BY <2>2
<1>2. CASE c \notin byTimer
  <2>1. Rejected(m, c) = m
    BY <1>2 DEF Rejected
  <2> QED BY <2>1 DEF Becomes
<1> QED BY <1>1, <1>2

\* stop() clears the timers and opens a promise.
LEMMA StopBeginsFacts ==
  ASSUME NEW m, MPOK(m)
  PROVE  Becomes(m, StopBegins(m), "stopping", m.child, {}, "pending")
<1>1. /\ m.child \in Spawns \cup {NoChild} /\ m.healthRetries \in Nat /\ m.matched \in BOOLEAN
      /\ "stopping" \in States /\ "pending" \in Promises /\ {} \in SUBSET Timers
  BY MPFields, FieldValues DEF Promises
<1> QED BY <1>1, MPUpdates DEF StopBegins

-----------------------------------------------------------------------------
(* The inductive invariant.                                                *)

\* Children are numbered in the order of the start() calls.
Numbered == \E n \in 0 .. MaxSpawns : Used = 1 .. n

\* Before ProcessManager.start nothing has happened.
Untouched ==
  Used = {} => /\ ~registered /\ mp.timers = {} /\ mp.stopPromise = "none"
               /\ mp.state = "starting" /\ \A k \in Callers : call[k] = "idle"

\* A health check is one of a child, and of the kind that the specification names.
Begun ==
  /\ \A c \in Spawns : starting[c] # "none" => c \in Used
  /\ \A c \in Spawns : AttemptTimer(c) \in mp.timers => c \in Used /\ mp.spec.health = "poll"
  /\ \A c \in Spawns : starting[c] \in {"waiting", "probing"} => mp.spec.health = "poll"
  /\ \A c \in Spawns : starting[c] = "polling" => mp.spec.health = "stdout-match"

\* The object listens to its child, and while it starts or runs the child's end has
\* not been handled.
ChildKnown ==
  /\ mp.child \in Used \cup {NoChild} /\ mp.child \notin deaf
  /\ mp.state \in {"starting", "running"} /\ Used # {} => mp.child \in Used \ closed

\* A failed kill is on its way to a caller, or has been reported.
StopsKnown ==
  /\ mp.killFailed => \E k \in Callers : call[k] \in {"ready", "refused", "safety"}
  /\ \A k \in Callers : call[k] = "preStop" => mp.spec.preStop

\* The caller is inside the body of stop().
Active(k) == call[k] \in {"preStop", "grace", "safety"}

\* All children are gone and no restart is due.
Over == Used \subseteq closed /\ RestartTimer \notin mp.timers

\* An undisturbed object: only its child is unfinished, a restart is due only when none
\* is, and no restart comes between the steps of a stop() body, of which there is one.
Tracked ==
  /\ \A k \in Callers : Active(k) \/ call[k] = "awaiting" => mp.stopPromise # "none"
  /\ \A j, k \in Callers : Active(j) /\ Active(k) => j = k
  /\ Used \ closed \subseteq {mp.child}
  /\ RestartTimer \in mp.timers => mp.state \in {"exited", "failed"} /\ Used \subseteq closed
  /\ mp.state = "dead" => Used \subseteq closed
  /\ \A k \in Callers :
       Active(k) => mp.child \in {target[k], NoChild} /\ RestartTimer \notin mp.timers
  /\ \A k \in Callers : call[k] = "preStop" =>
       /\ mp.state \in {"stopping", "dead"}
       /\ \A c \in Spawns : proc[c] # "spawning" /\ starting[c] # "erroring"

\* Without a failed kill a stop that has ended, for its callers or for the manager, is
\* the end of the process.
Held ==
  /\ ~mp.killFailed /\ mp.stopPromise = "resolved" => Over
  /\ ~mp.killFailed => \A k \in Callers : call[k] = "ready" => Over
  /\ ~registered /\ Used # {} => Over

PInv == /\ MPOK(mp) /\ ProcOK /\ CallOK
        /\ Numbered /\ Untouched /\ Begun /\ ChildKnown /\ StopsKnown
        /\ Undisturbed => Tracked
        /\ Undisturbed /\ NoneRefused => Held

\* TypeOK is the typing part of the invariant.
LEMMA TypeOKIsTyping ==
  ASSUME MPOK(mp), ProcOK, CallOK
  PROVE  TypeOK
<1> DEFINE F == 0 .. mp.spec.maxRetries
           A == Spawns \cup {NoChild}
           B == SUBSET Timers
           N == Nat
           K == BOOLEAN
<1>1. mp.failures \in F
  BY MPFields DEF MPOK
<1>2. mp \in [spec : Specs, state : States, child : A, timers : B, stopPromise : Promises,
              killFailed : K, failures : N, healthRetries : N, matched : K]
  BY DEF MPOK, MP
<1> HIDE DEF F, A, B, N, K
<1>3. mp \in [spec : Specs, state : States, child : A, timers : B, stopPromise : Promises,
              killFailed : K, failures : F, healthRetries : N, matched : K]
  BY <1>1, <1>2
<1> QED
  BY <1>3 DEF TypeOK, F, A, B, N, K, Timers, Promises, ProcOK, CallOK, ChildStates, StartStates,
              CallStates

\* The invariant holds of a new object.
LEMMA InitPInv == Init => PInv
<1> SUFFICES ASSUME Init PROVE PInv
  OBVIOUS
<1>0. PICK s \in Specs : mp = NewProcess(s)
  BY DEF Init
<1>1. Used = {} /\ Gone = {}
  BY DEF Init, Used, Gone
<1>2. MPOK(mp)
  <2>1. s.maxRetries \in Nat
    BY SpecAssumption DEF ProcessSpec
  <2> QED BY <1>0, <2>1 DEF NewProcess, MPOK, MP, States, Promises
<1>3. ProcOK /\ CallOK
  BY <1>1 DEF Init, ProcOK, CallOK, ChildStates, StartStates, CallStates
<1>4. Numbered
  <2>1. 0 \in 0 .. MaxSpawns /\ 1 .. 0 = {}
    BY SpecAssumption
  <2> QED BY <1>1, <2>1 DEF Numbered
<1>5. /\ mp.timers = {} /\ mp.stopPromise = "none" /\ mp.state = "starting"
      /\ mp.child = NoChild /\ mp.killFailed = FALSE
  BY <1>0 DEF NewProcess
<1>6. Untouched /\ Begun /\ ChildKnown /\ StopsKnown
  BY <1>1, <1>5 DEF Init, Untouched, Begun, ChildKnown, StopsKnown
<1>7. Tracked /\ Held
  BY <1>1, <1>5 DEF Init, Tracked, Held, Active, Over
<1> QED BY <1>2, <1>3, <1>4, <1>6, <1>7 DEF PInv

-----------------------------------------------------------------------------
(* Steps of the event loop that leave the calls alone.                     *)

\* A step of the object alone, which at most fails or turns "running", keeps the
\* invariant.
LEMMA ObjectStep ==
  ASSUME PInv, Used # {}, Used' = Used, MPOK(mp'), ProcOK', Begun',
         UNCHANGED <<closed, deaf, byTimer, call, target, registered>>,
         mp'.spec = mp.spec, mp'.child = mp.child, mp'.stopPromise = mp.stopPromise,
         mp'.killFailed = mp.killFailed,
         RestartTimer \in mp'.timers => RestartTimer \in mp.timers,
         mp'.state \in {mp.state, "failed"} \/ (mp.state = "starting" /\ mp'.state = "running"),
         \A k \in Callers : Undisturbed /\ call[k] = "preStop" =>
           /\ mp'.state = mp.state
           /\ \A c \in Spawns : proc'[c] # "spawning" /\ starting'[c] # "erroring"
  PROVE  PInv'
<1>1. CallOK'
  BY DEF PInv, CallOK
<1>2. Numbered' /\ Untouched' /\ ChildKnown' /\ StopsKnown'
  BY DEF PInv, Numbered, Untouched, ChildKnown, StopsKnown
<1>3. (Undisturbed' => Undisturbed) /\ (NoneRefused' => NoneRefused) /\ (Over => Over')
  BY DEF Undisturbed, NoneRefused, Over
<1>4. ASSUME Undisturbed PROVE Tracked'
  <2>1. Tracked
    BY <1>4 DEF PInv
  <2> QED BY <1>4, <2>1 DEF Tracked, Active
<1>5. ASSUME Undisturbed, NoneRefused PROVE Held'
  <2>1. Held
    BY <1>5 DEF PInv
  <2> QED BY <1>3, <2>1 DEF Held
<1> QED BY <1>1, <1>2, <1>3, <1>4, <1>5 DEF PInv

\* A child that runs changes state.
LEMMA ProcStep ==
  ASSUME PInv, NEW c \in Spawns, NEW x \in ChildStates \ {"none", "spawning"},
         proc[c] \in {"spawning", "alive"}, proc' = [proc EXCEPT ![c] = x],
         UNCHANGED <<closed, deaf, byTimer>>, starting' \in [Spawns -> StartStates]
  PROVE  /\ Used' = Used /\ c \in Used /\ ProcOK'
         /\ \A d \in Spawns : proc'[d] = "spawning" => proc[d] = "spawning"
<1>1. proc \in [Spawns -> ChildStates] /\ closed \subseteq Gone
  BY DEF PInv, ProcOK
<1>2. Used' = Used /\ c \in Used /\ Gone \subseteq Gone'
  BY <1>1 DEF Used, Gone, ChildStates
<1>3. ProcOK'
  BY <1>1, <1>2 DEF PInv, ProcOK
<1> QED BY <1>1, <1>2, <1>3

\* An undisturbed process is not probed during its pre-stop command.
LEMMA CalmPreStop ==
  ASSUME PInv, Undisturbed, NEW k \in Callers, call[k] = "preStop"
  PROVE  /\ \A c \in Spawns : /\ proc[c] # "spawning"
                              /\ starting[c] \notin {"erroring", "polling", "waiting", "probing"}
                              /\ AttemptTimer(c) \notin mp.timers
         /\ mp.spec.health # "stdout-match"
<1>1. mp.spec \in Specs
  BY MPFields DEF PInv
<1>2. mp.spec.health # "stdout-match"
  BY <1>1, SpecAssumption DEF Undisturbed
<1> QED BY <1>2 DEF PInv, Undisturbed, Tracked, StopsKnown, Begun

\* Timers of different kinds and children are different.
LEMMA TimerNames ==
  /\ RestartTimer # ResetTimer
  /\ \A c : AttemptTimer(c) # RestartTimer /\ AttemptTimer(c) # ResetTimer
  /\ \A c, d : AttemptTimer(c) = AttemptTimer(d) => c = d
BY DEF RestartTimer, ResetTimer, AttemptTimer

\* What the invariant says of the parts, for the steps below.
LEMMA Parts ==
  ASSUME PInv
  PROVE  /\ MPOK(mp) /\ proc \in [Spawns -> ChildStates] /\ closed \subseteq Gone
         /\ deaf \subseteq Used /\ starting \in [Spawns -> StartStates] /\ byTimer \subseteq Used
         /\ call \in [Callers -> CallStates] /\ target \in [Callers -> Spawns \cup {NoChild}]
         /\ mp.timers \in SUBSET Timers /\ mp.state \in States /\ mp.stopPromise \in Promises
         /\ mp.child \in Spawns \cup {NoChild} /\ mp.killFailed \in BOOLEAN
         /\ mp.healthRetries \in Nat /\ mp.matched \in BOOLEAN
         /\ Gone \subseteq Used /\ Used \subseteq Spawns
         /\ \A c \in Spawns : c # NoChild
<1>1. /\ Gone \subseteq Used /\ Used \subseteq Spawns /\ \A c \in Spawns : c # NoChild
  BY SpecAssumption DEF Gone, Used, Spawns, NoChild
<1> QED BY <1>1, MPFields DEF PInv, ProcOK, CallOK

\* A step of a start() call: the call and the object change, the children do not.
LEMMA StartStep ==
  ASSUME PInv, NEW c \in Used, NEW how \in StartStates \ {"none", "erroring"},
         starting' = [starting EXCEPT ![c] = how],
         how \in {"waiting", "probing"} => mp.spec.health = "poll",
         how = "polling" => mp.spec.health = "stdout-match",
         UNCHANGED <<proc, closed, deaf, byTimer, call, target, registered>>,
         NEW s, NEW ts \in SUBSET Timers,
         Becomes(mp, mp', s, mp.child, ts, mp.stopPromise),
         s \in {mp.state, "failed"} \/ (mp.state = "starting" /\ s = "running"),
         ts \subseteq mp.timers \cup {ResetTimer}
           \/ (ts = mp.timers \cup {AttemptTimer(c)} /\ mp.spec.health = "poll"),
         ~\E k \in Callers : Undisturbed /\ call[k] = "preStop"
  PROVE  PInv'
<1>1. /\ Used' = Used /\ Gone' = Gone /\ c \in Spawns
      /\ starting \in [Spawns -> StartStates]
  BY Parts DEF Used, Gone
<1>2. ProcOK'
  BY <1>1 DEF PInv, ProcOK
<1>3. Begun'
  <2>1. \A d \in Spawns : AttemptTimer(d) \in ts => AttemptTimer(d) \in mp.timers
                                                   \/ (d = c /\ mp.spec.health = "poll")
    BY TimerNames
  <2> QED BY <1>1, <2>1 DEF PInv, Begun, Becomes
<1>4. RestartTimer \in mp'.timers => RestartTimer \in mp.timers
  BY TimerNames DEF Becomes
<1> QED BY <1>1, <1>2, <1>3, <1>4, ObjectStep DEF Becomes

\* The 'spawn' event keeps the invariant.
LEMMA SpawnedPInv ==
  ASSUME PInv, NEW c \in Spawns, Spawned(c)
  PROVE  PInv'
<1>0. /\ proc[c] = "spawning" /\ proc' = [proc EXCEPT ![c] = "alive"]
      /\ UNCHANGED <<closed, deaf, byTimer, call, target, registered>>
      /\ "alive" \in ChildStates \ {"none", "spawning"}
  BY DEF Spawned, ChildStates
<1>1. ~\E k \in Callers : Undisturbed /\ call[k] = "preStop"
  BY <1>0, CalmPreStop
<1>2. ASSUME NEW s, NEW ts \in SUBSET Timers, NEW how \in StartStates \ {"none", "erroring"},
             UNCHANGED starting \/ starting' = [starting EXCEPT ![c] = how],
             how \in {"waiting", "probing"} => mp.spec.health = "poll",
             how = "polling" => mp.spec.health = "stdout-match",
             Becomes(mp, mp', s, mp.child, ts, mp.stopPromise),
             s \in {mp.state, "failed"} \/ (mp.state = "starting" /\ s = "running"),
             ts \subseteq mp.timers \cup {ResetTimer}
               \/ (ts = mp.timers \cup {AttemptTimer(c)} /\ mp.spec.health = "poll")
      PROVE  PInv'
  <2>1. starting' \in [Spawns -> StartStates]
    BY <1>2, Parts
  <2>2. Used' = Used /\ c \in Used /\ ProcOK'
    BY <1>0, <2>1, ProcStep
  <2>3. Begun'
    <3>1. \A d \in Spawns : AttemptTimer(d) \in ts => AttemptTimer(d) \in mp.timers
                                                     \/ (d = c /\ mp.spec.health = "poll")
      BY <1>2, TimerNames
    <3>2. starting \in [Spawns -> StartStates]
      BY Parts
    <3> QED BY <1>2, <2>2, <3>1, <3>2 DEF PInv, Begun, Becomes
  <2>4. RestartTimer \in mp'.timers => RestartTimer \in mp.timers
    BY <1>2, TimerNames DEF Becomes
  <2> QED BY <1>0, <1>1, <1>2, <2>2, <2>3, <2>4, ObjectStep DEF Becomes
<1>3. CASE c \in deaf /\ UNCHANGED <<mp, starting>>
  <2>1. /\ Becomes(mp, mp', mp.state, mp.child, mp.timers, mp.stopPromise)
        /\ mp.timers \in SUBSET Timers
    BY <1>3, Parts DEF Becomes
  <2>2. "resolved" \in StartStates \ {"none", "erroring"}
    BY DEF StartStates
  <2> QED BY <1>2, <1>3, <2>1, <2>2
<1>4. CASE mp' = OnHealthy(mp) /\ Settled(c, "resolved")
  <2>1. PICK ts \in SUBSET Timers :
           /\ Becomes(mp, mp', IF mp.state = "starting" THEN "running" ELSE mp.state,
                      mp.child, ts, mp.stopPromise)
           /\ ts \subseteq mp.timers \cup {ResetTimer}
    BY <1>4, Parts, OnHealthyFacts
  <2>2. "resolved" \in StartStates \ {"none", "erroring"}
    BY DEF StartStates
  <2> QED BY <1>2, <1>4, <2>1, <2>2 DEF Settled
<1>5. CASE mp.spec.health = "stdout-match" /\ Settled(c, "polling") /\ UNCHANGED mp
  <2>1. /\ Becomes(mp, mp', mp.state, mp.child, mp.timers, mp.stopPromise)
        /\ mp.timers \in SUBSET Timers
    BY <1>5, Parts DEF Becomes
  <2>2. "polling" \in StartStates \ {"none", "erroring"}
    BY DEF StartStates
  <2> QED BY <1>2, <1>5, <2>1, <2>2 DEF Settled
<1>6. CASE /\ mp.spec.health = "poll" /\ Settled(c, "waiting")
           /\ mp' = [mp EXCEPT !.healthRetries = 0, !.timers = @ \cup {AttemptTimer(c)}]
  <2> DEFINE ts == mp.timers \cup {AttemptTimer(c)}
  <2>1. ts \in SUBSET Timers
    BY Parts DEF Timers
  <2>2. ts = mp.timers \cup {AttemptTimer(c)} /\ mp' = [mp EXCEPT !.healthRetries = 0, !.timers = ts]
    BY <1>6
  <2> HIDE DEF ts
  <2>3. Becomes(mp, [mp EXCEPT !.healthRetries = 0, !.timers = ts], mp.state, mp.child, ts,
                mp.stopPromise)
    <3>1. 0 \in Nat
      OBVIOUS
    <3> QED BY <2>1, <3>1, Parts, MPUpdates
  <2>4. "waiting" \in StartStates \ {"none", "erroring"}
    BY DEF StartStates
  <2>5. /\ starting' = [starting EXCEPT ![c] = "waiting"] /\ mp.spec.health = "poll"
        /\ Becomes(mp, mp', mp.state, mp.child, ts, mp.stopPromise)
    BY <1>6, <2>2, <2>3 DEF Settled
  <2>6. mp.state \in {mp.state, "failed"} /\ "waiting" # "polling"
    OBVIOUS
  <2> QED BY <1>2, <2>1, <2>2, <2>4, <2>5, <2>6
<1> QED BY <1>3, <1>4, <1>5, <1>6 DEF Spawned

\* The 'error' event instead of it keeps the invariant.
LEMMA SpawnErrorPInv ==
  ASSUME PInv, NEW c \in Spawns, SpawnError(c)
  PROVE  PInv'
<1>0. /\ proc[c] = "spawning" /\ proc' = [proc EXCEPT ![c] = "nospawn"]
      /\ UNCHANGED <<mp, closed, deaf, byTimer, call, target, registered>>
      /\ "nospawn" \in ChildStates \ {"none", "spawning"}
      /\ starting' = starting \/ starting' = [starting EXCEPT ![c] = "erroring"]
  BY DEF SpawnError, ChildStates, Settled
<1>1. ~\E k \in Callers : Undisturbed /\ call[k] = "preStop"
  BY <1>0, CalmPreStop
<1>2. starting' \in [Spawns -> StartStates] /\ starting \in [Spawns -> StartStates]
  BY <1>0, Parts DEF StartStates
<1>3. Used' = Used /\ c \in Used /\ ProcOK'
  BY <1>0, <1>2, ProcStep
<1>4. Begun'
  BY <1>0, <1>2, <1>3 DEF PInv, Begun
<1> QED BY <1>0, <1>1, <1>3, <1>4, Parts, ObjectStep

\* The rejection of a start() whose child did not spawn keeps the invariant.
LEMMA StartFailsPInv ==
  ASSUME PInv, NEW c \in Spawns, StartFails(c)
  PROVE  PInv'
<1> DEFINE m == IF mp.state = "starting" THEN [mp EXCEPT !.state = "failed"] ELSE mp
<1>0. /\ starting[c] = "erroring" /\ mp' = Rejected(m, c)
      /\ starting' = [starting EXCEPT ![c] = "rejected"]
      /\ UNCHANGED <<proc, closed, deaf, byTimer, call, target, registered>>
  BY DEF StartFails, Settled
<1>1. c \in Used /\ "rejected" \in StartStates \ {"none", "erroring"}
  BY <1>0 DEF PInv, Begun, StartStates
<1>2. ~\E k \in Callers : Undisturbed /\ call[k] = "preStop"
  BY <1>0, CalmPreStop
<1>3. PICK s \in {mp.state, "failed"} : Becomes(mp, m, s, mp.child, mp.timers, mp.stopPromise)
  <2>1. "failed" \in States
    BY FieldValues
  <2>2. CASE mp.state = "starting"
    <3>1. Becomes(mp, [mp EXCEPT !.state = "failed"], "failed", mp.child, mp.timers, mp.stopPromise)
      BY <2>1, Parts, MPUpdates
    <3> QED BY <2>2, <3>1
  <2>3. CASE mp.state # "starting"
    BY <2>3, Parts DEF Becomes
  <2> QED BY <2>2, <2>3
<1> HIDE DEF m
<1>4. PICK r \in {m.state, "failed"} : Becomes(m, mp', r, m.child, m.timers, m.stopPromise)
  BY <1>0, <1>3, RejectedFacts DEF Becomes
<1>5. r \in {mp.state, "failed"} /\ Becomes(mp, mp', r, mp.child, mp.timers, mp.stopPromise)
  BY <1>3, <1>4 DEF Becomes
<1>6. mp.timers \in SUBSET Timers
  BY Parts
<1> QED BY <1>0, <1>1, <1>2, <1>5, <1>6, StartStep

\* The ready pattern keeps the invariant.
LEMMA StdoutMatchesPInv ==
  ASSUME PInv, NEW c \in Spawns, StdoutMatches(c)
  PROVE  PInv'
<1> DEFINE m == [mp EXCEPT !.matched = TRUE]
<1>0. /\ mp.spec.health = "stdout-match" /\ mp' = OnHealthy(m) /\ proc[c] # "none"
      /\ UNCHANGED <<proc, closed, deaf, starting, byTimer, call, target, registered>>
  BY DEF StdoutMatches
<1>1. ~\E k \in Callers : Undisturbed /\ call[k] = "preStop"
  BY <1>0, CalmPreStop
<1>2. Becomes(mp, m, mp.state, mp.child, mp.timers, mp.stopPromise)
  <2>1. TRUE \in BOOLEAN
    OBVIOUS
  <2> QED BY <2>1, Parts, MPUpdates
<1> HIDE DEF m
<1>3. PICK ts \in SUBSET Timers :
         /\ Becomes(m, mp', IF m.state = "starting" THEN "running" ELSE m.state,
                    m.child, ts, m.stopPromise)
         /\ ts \subseteq m.timers \cup {ResetTimer}
  BY <1>0, <1>2, OnHealthyFacts DEF Becomes
<1>4. /\ Becomes(mp, mp', IF mp.state = "starting" THEN "running" ELSE mp.state,
                 mp.child, ts, mp.stopPromise)
      /\ ts \subseteq mp.timers \cup {ResetTimer}
  BY <1>2, <1>3 DEF Becomes
<1>5. Used' = Used /\ Gone' = Gone /\ c \in Used
  BY <1>0 DEF Used, Gone
<1>6. ProcOK'
  BY <1>0, <1>5 DEF PInv, ProcOK
<1>7. Begun'
  BY <1>0, <1>4, <1>5, TimerNames DEF PInv, Begun, Becomes
<1>8. RestartTimer \in mp'.timers => RestartTimer \in mp.timers
  BY <1>4, TimerNames DEF Becomes
<1> QED BY <1>0, <1>1, <1>4, <1>5, <1>6, <1>7, <1>8, ObjectStep DEF Becomes

\* The check and the timeout of a stdout-match start() keep the invariant.
LEMMA StdoutCheckPInv ==
  ASSUME PInv, NEW c \in Spawns, StdoutCheck(c) \/ StdoutTimeout(c)
  PROVE  PInv'
<1>0. /\ starting[c] = "polling"
      /\ UNCHANGED <<proc, closed, deaf, byTimer, call, target, registered>>
      /\ \/ Settled(c, "resolved") /\ UNCHANGED mp
         \/ Settled(c, "rejected") /\ mp' = Rejected(mp, c)
         \/ Settled(c, "rejected") /\ mp' = [mp EXCEPT !.state = "failed"]
  BY DEF StdoutCheck, StdoutTimeout
<1>1. PICK how \in {"resolved", "rejected"} : starting' = [starting EXCEPT ![c] = how]
  BY <1>0 DEF Settled
<1>2. c \in Used /\ how \in StartStates \ {"none", "erroring"} /\ mp.timers \in SUBSET Timers
  BY <1>0, Parts DEF PInv, Begun, StartStates
<1>3. ~\E k \in Callers : Undisturbed /\ call[k] = "preStop"
  BY <1>0, CalmPreStop
<1>4. \E s \in {mp.state, "failed"} : Becomes(mp, mp', s, mp.child, mp.timers, mp.stopPromise)
  <2>1. CASE UNCHANGED mp
    BY <2>1, Parts DEF Becomes
  <2>2. CASE mp' = Rejected(mp, c)
    BY <2>2, Parts, RejectedFacts
  <2>3. CASE mp' = [mp EXCEPT !.state = "failed"]
    <3>1. "failed" \in States
      BY FieldValues
    <3>2. Becomes(mp, [mp EXCEPT !.state = "failed"], "failed", mp.child, mp.timers, mp.stopPromise)
      BY <3>1, Parts, MPUpdates
    <3> QED BY <2>3, <3>2
  <2> QED BY <1>0, <2>1, <2>2, <2>3
<1> QED BY <1>0, <1>1, <1>2, <1>3, <1>4, StartStep

\* The attempt timer keeps the invariant.
LEMMA AttemptPInv ==
  ASSUME PInv, NEW c \in Spawns, Attempt(c)
  PROVE  PInv'
<1> DEFINE ts == mp.timers \ {AttemptTimer(c)}
           m == [mp EXCEPT !.timers = ts]
<1>0. /\ AttemptTimer(c) \in mp.timers
      /\ UNCHANGED <<proc, closed, deaf, byTimer, call, target, registered>>
      /\ \/ mp' = m /\ Settled(c, "resolved")
         \/ mp' = m /\ Settled(c, "probing")
         \/ mp' = Rejected(m, c) /\ Settled(c, "rejected")
  BY DEF Attempt
<1>1. PICK how \in {"resolved", "probing", "rejected"} : starting' = [starting EXCEPT ![c] = how]
  BY <1>0 DEF Settled
<1>2. /\ c \in Used /\ mp.spec.health = "poll" /\ how \in StartStates \ {"none", "erroring"}
      /\ ts \in SUBSET Timers /\ ts \subseteq mp.timers \cup {ResetTimer}
  BY <1>0, Parts DEF PInv, Begun, StartStates
<1>3. ~\E k \in Callers : Undisturbed /\ call[k] = "preStop"
  BY <1>0, CalmPreStop
<1> HIDE DEF ts
<1>4. Becomes(mp, m, mp.state, mp.child, ts, mp.stopPromise)
  BY <1>2, Parts, MPUpdates
<1> HIDE DEF m
<1>5. \E s \in {mp.state, "failed"} : Becomes(mp, mp', s, mp.child, ts, mp.stopPromise)
  <2>1. CASE mp' = m
    BY <1>4, <2>1
  <2>2. CASE mp' = Rejected(m, c)
    <3>1. PICK s \in {m.state, "failed"} : Becomes(m, mp', s, m.child, m.timers, m.stopPromise)
      BY <1>4, <2>2, RejectedFacts DEF Becomes
    <3> QED BY <1>4, <3>1 DEF Becomes
  <2> QED BY <1>0, <2>1, <2>2
<1> QED BY <1>0, <1>1, <1>2, <1>3, <1>5, StartStep

\* A good answer of a probe keeps the invariant.
LEMMA ProbeSucceedsPInv ==
  ASSUME PInv, NEW c \in Spawns, ProbeSucceeds(c)
  PROVE  PInv'
<1>0. /\ starting[c] = "probing" /\ mp' = OnHealthy(mp)
      /\ starting' = [starting EXCEPT ![c] = "resolved"]
      /\ UNCHANGED <<proc, closed, deaf, byTimer, call, target, registered>>
  BY DEF ProbeSucceeds, Settled
<1>1. c \in Used /\ "resolved" \in StartStates \ {"none", "erroring"}
  BY <1>0 DEF PInv, Begun, StartStates
<1>2. ~\E k \in Callers : Undisturbed /\ call[k] = "preStop"
  BY <1>0, CalmPreStop
<1>3. PICK ts \in SUBSET Timers :
         /\ Becomes(mp, mp', IF mp.state = "starting" THEN "running" ELSE mp.state,
                    mp.child, ts, mp.stopPromise)
         /\ ts \subseteq mp.timers \cup {ResetTimer}
  BY <1>0, Parts, OnHealthyFacts
<1> QED BY <1>0, <1>1, <1>2, <1>3, StartStep

\* A bad answer keeps it: an undisturbed process is not probed while it waits for
\* its pre-stop command, so "stopping" is not overwritten.
LEMMA ProbeFailsPInv ==
  ASSUME PInv, NEW c \in Spawns, ProbeFails(c)
  PROVE  PInv'
<1> DEFINE m == [mp EXCEPT !.healthRetries = @ + 1]
           ts == mp.timers \cup {AttemptTimer(c)}
<1>0. /\ starting[c] = "probing"
      /\ UNCHANGED <<proc, closed, deaf, byTimer, call, target, registered>>
      /\ \/ mp' = [m EXCEPT !.timers = @ \cup {AttemptTimer(c)}] /\ Settled(c, "waiting")
         \/ mp' = [m EXCEPT !.state = "failed"] /\ Settled(c, "rejected")
  BY DEF ProbeFails
<1>1. PICK how \in {"waiting", "rejected"} : starting' = [starting EXCEPT ![c] = how]
  BY <1>0 DEF Settled
<1>2. /\ c \in Used /\ mp.spec.health = "poll" /\ how \in StartStates \ {"none", "erroring"}
  BY <1>0 DEF PInv, Begun, StartStates
<1>3. ~\E k \in Callers : Undisturbed /\ call[k] = "preStop"
  BY <1>0, CalmPreStop
<1>4. Becomes(mp, m, mp.state, mp.child, mp.timers, mp.stopPromise)
  <2> DEFINE h == mp.healthRetries + 1
  <2>1. h \in Nat
    BY Parts
  <2>2. m = [mp EXCEPT !.healthRetries = h]
    OBVIOUS
  <2> HIDE DEF h, m
  <2>3. Becomes(mp, [mp EXCEPT !.healthRetries = h], mp.state, mp.child, mp.timers, mp.stopPromise)
    BY <2>1, Parts, MPUpdates
  <2> QED BY <2>2, <2>3
<1> HIDE DEF m
<1>5. ts \in SUBSET Timers /\ mp.timers \in SUBSET Timers
  BY Parts DEF Timers
<1>6. \/ Becomes(mp, mp', mp.state, mp.child, ts, mp.stopPromise)
      \/ Becomes(mp, mp', "failed", mp.child, mp.timers, mp.stopPromise)
  <2>0. /\ MPOK(m) /\ m.timers = mp.timers /\ m.state \in States
        /\ m.child \in Spawns \cup {NoChild} /\ m.stopPromise \in Promises
        /\ m.healthRetries \in Nat /\ m.matched \in BOOLEAN /\ "failed" \in States
    BY <1>4, MPFields, FieldValues DEF Becomes
  <2>1. CASE mp' = [m EXCEPT !.timers = @ \cup {AttemptTimer(c)}]
    <3>1. mp' = [m EXCEPT !.timers = ts]
      BY <2>0, <2>1
    <3> HIDE DEF ts
    <3>2. Becomes(m, [m EXCEPT !.timers = ts], m.state, m.child, ts, m.stopPromise)
      BY <1>5, <2>0, MPUpdates
    <3> QED BY <1>4, <3>1, <3>2 DEF Becomes
  <2>2. CASE mp' = [m EXCEPT !.state = "failed"]
    <3>1. Becomes(m, [m EXCEPT !.state = "failed"], "failed", m.child, m.timers, m.stopPromise)
      BY <1>5, <2>0, MPUpdates
    <3> QED BY <1>4, <2>2, <3>1 DEF Becomes
  <2> QED BY <1>0, <2>1, <2>2
<1>7. ts = mp.timers \cup {AttemptTimer(c)}
  OBVIOUS
<1> HIDE DEF ts
<1> QED BY <1>0, <1>1, <1>2, <1>3, <1>5, <1>6, <1>7, StartStep

\* The reset timer keeps the invariant.
LEMMA ResetFiresPInv ==
  ASSUME PInv, ResetFires
  PROVE  PInv'
<1> DEFINE ts == mp.timers \ {ResetTimer}
           f == IF mp.state = "running" THEN 0 ELSE mp.failures
<1>0. /\ ResetTimer \in mp.timers /\ mp' = [mp EXCEPT !.timers = ts, !.failures = f]
      /\ UNCHANGED <<proc, closed, deaf, starting, byTimer, call, target, registered>>
  BY DEF ResetFires
<1>1. ts \in SUBSET Timers /\ f \in Nat /\ f <= mp.spec.maxRetries
  BY Parts, MPFields DEF MPOK
<1>2. ts \subseteq mp.timers
  OBVIOUS
<1> HIDE DEF ts, f
<1>3. Becomes(mp, mp', mp.state, mp.child, ts, mp.stopPromise)
  <2> DEFINE A == Spawns \cup {NoChild}
             B == SUBSET Timers
             N == Nat
             K == BOOLEAN
  <2>1. /\ MP = [spec : Specs, state : States, child : A, timers : B, stopPromise : Promises,
                  killFailed : K, failures : N, healthRetries : N, matched : K]
        /\ ts \in B /\ f \in N /\ mp \in MP
    BY <1>1, Parts DEF MPOK, MP
  <2> HIDE DEF A, B, N, K
  <2> QED BY <1>0, <1>1, <2>1 DEF MPOK, Becomes
<1>4. Used' = Used /\ Gone' = Gone
  BY <1>0 DEF Used, Gone
<1>5. Used # {}
  BY <1>0 DEF PInv, Untouched
<1>6. ProcOK' /\ Begun'
  BY <1>0, <1>2, <1>3, <1>4 DEF PInv, ProcOK, Begun, Becomes
<1>7. \A k \in Callers : Undisturbed /\ call[k] = "preStop" =>
        \A c \in Spawns : proc'[c] # "spawning" /\ starting'[c] # "erroring"
  BY <1>0, CalmPreStop
<1> QED BY <1>0, <1>2, <1>3, <1>4, <1>5, <1>6, <1>7, ObjectStep DEF Becomes

\* The exit of a child keeps the invariant.
LEMMA ChildExitsPInv ==
  ASSUME PInv, NEW c \in Spawns, NEW how \in {"exit0", "exit1", "signalled"}, ChildExits(c, how)
  PROVE  PInv'
<1>0. /\ proc[c] = "alive" /\ proc' = [proc EXCEPT ![c] = how]
      /\ UNCHANGED <<mp, closed, deaf, starting, byTimer, call, target, registered>>
      /\ how \in ChildStates \ {"none", "spawning"}
  BY DEF ChildExits, ChildStates
<1>1. starting' \in [Spawns -> StartStates]
  BY <1>0, Parts
<1>2. /\ Used' = Used /\ c \in Used /\ ProcOK'
      /\ \A d \in Spawns : proc'[d] = "spawning" => proc[d] = "spawning"
  BY <1>0, <1>1, ProcStep
<1>3. Begun'
  BY <1>0, <1>2 DEF PInv, Begun
<1>4. \A k \in Callers : Undisturbed /\ call[k] = "preStop" =>
        \A d \in Spawns : proc'[d] # "spawning" /\ starting'[d] # "erroring"
  BY <1>0, <1>2, CalmPreStop
<1> QED BY <1>0, <1>2, <1>3, <1>4, Parts, ObjectStep

-----------------------------------------------------------------------------
(* start()                                                                 *)

\* Spawning adds the next number to the children, and the object follows it.
LEMMA SpawnStep ==
  ASSUME PInv, NEW m, MPOK(m), m.child = mp.child, m.spec = mp.spec, m.timers \subseteq mp.timers,
         NEW timer, Spawn(m, timer)
  PROVE  /\ MPOK(mp') /\ ProcOK' /\ Numbered' /\ Begun' /\ ChildKnown'
         /\ mp'.spec = m.spec /\ mp'.killFailed = FALSE /\ mp'.state = "starting"
         /\ mp'.timers = m.timers /\ mp'.stopPromise = m.stopPromise
         /\ Used' # {} /\ Used' = Used \cup {mp'.child} /\ closed' = closed
<1> DEFINE c == Cardinality(Used) + 1
<1>0. /\ c <= MaxSpawns /\ c \notin Used /\ c \in Nat \ {0}
      /\ \E n \in 0 .. MaxSpawns : Used \cup {c} = 1 .. n
  <2>1. PICK n \in 0 .. MaxSpawns : Used = 1 .. n
    BY DEF PInv, Numbered
  <2>2. Cardinality(1 .. n) = n
    BY <2>1, FS_Interval
  <2>3. c = n + 1 /\ n < MaxSpawns /\ MaxSpawns \in Nat /\ n \in Nat
    BY <2>1, <2>2, SpecAssumption DEF Spawn, HasSpawn
  <2>4. (1 .. n) \cup {n + 1} = 1 .. (n + 1) /\ n + 1 \in 0 .. MaxSpawns
    BY <2>3
  <2> QED BY <2>1, <2>3, <2>4
<1>1. c \in Spawns /\ c # NoChild
  BY <1>0, SpecAssumption DEF Spawns, NoChild
<1>2. /\ mp' = [m EXCEPT !.state = "starting", !.killFailed = FALSE, !.child = c, !.matched = FALSE]
      /\ deaf' = deaf \cup ({m.child} \ {NoChild})
      /\ proc' = [proc EXCEPT ![c] = "spawning"]
      /\ starting' = [starting EXCEPT ![c] = "spawning"]
      /\ byTimer' \subseteq byTimer \cup {c}
      /\ UNCHANGED <<closed, target>>
  BY DEF Spawn
<1> HIDE DEF c
<1>3. /\ MPOK(mp') /\ mp'.spec = m.spec /\ mp'.killFailed = FALSE /\ mp'.state = "starting"
      /\ mp'.timers = m.timers /\ mp'.stopPromise = m.stopPromise /\ mp'.child = c
  <2> DEFINE A == Spawns \cup {NoChild}
             B == SUBSET Timers
             N == Nat
             K == BOOLEAN
  <2>1. /\ MP = [spec : Specs, state : States, child : A, timers : B, stopPromise : Promises,
                  killFailed : K, failures : N, healthRetries : N, matched : K]
        /\ c \in A /\ FALSE \in K /\ m \in MP /\ m.failures <= m.spec.maxRetries
        /\ "starting" \in States
    BY <1>1, FieldValues DEF MPOK, MP
  <2> HIDE DEF A, B, N, K
  <2> QED BY <1>2, <2>1 DEF MPOK
<1>4. Used' = Used \cup {c} /\ Gone' = Gone
  BY <1>0, <1>1, <1>2, Parts DEF Used, Gone, ChildStates
<1>5. ProcOK'
  <2>1. deaf' \subseteq Used'
    BY <1>2, <1>4, Parts DEF PInv, ChildKnown
  <2>2. /\ proc' \in [Spawns -> ChildStates] /\ starting' \in [Spawns -> StartStates]
    BY <1>1, <1>2, Parts DEF ChildStates, StartStates
  <2> QED BY <1>2, <1>4, <2>1, <2>2, Parts DEF ProcOK
<1>6. Begun'
  <2>1. starting \in [Spawns -> StartStates]
    BY Parts
  <2> QED BY <1>1, <1>2, <1>3, <1>4, <2>1 DEF PInv, Begun
<1>7. ChildKnown'
  BY <1>0, <1>1, <1>2, <1>3, <1>4, Parts DEF PInv, ChildKnown
<1> QED BY <1>0, <1>2, <1>3, <1>4, <1>5, <1>6, <1>7 DEF Numbered

\* The first start() keeps the invariant.
LEMMA StartPInv ==
  ASSUME PInv, Start
  PROVE  PInv'
<1>0. /\ Used = {} /\ Spawn(mp, FALSE) /\ registered' = TRUE /\ UNCHANGED <<call, target>>
  BY DEF Start, Spawn
<1>1. /\ MPOK(mp') /\ ProcOK' /\ Numbered' /\ Begun' /\ ChildKnown'
      /\ mp'.spec = mp.spec /\ mp'.killFailed = FALSE /\ mp'.state = "starting"
      /\ mp'.timers = mp.timers /\ mp'.stopPromise = mp.stopPromise
      /\ Used' # {} /\ Used' = Used \cup {mp'.child} /\ closed' = closed
  <2>1. PICK t \in BOOLEAN : Spawn(mp, t)
    BY <1>0, Zenon
  <2>2. mp.timers \subseteq mp.timers
    OBVIOUS
  <2> QED BY <2>1, <2>2, Parts, SpawnStep
<1>2. /\ mp.timers = {} /\ mp.stopPromise = "none" /\ \A k \in Callers : call[k] = "idle"
  BY <1>0 DEF PInv, Untouched
<1>3. CallOK'
  BY <1>0 DEF PInv, CallOK
<1>4. Untouched' /\ StopsKnown'
  BY <1>0, <1>1, <1>2 DEF Untouched, StopsKnown
<1>5. Tracked' /\ Held'
  BY <1>0, <1>1, <1>2 DEF Tracked, Held, Active
<1> QED BY <1>1, <1>3, <1>4, <1>5 DEF PInv

\* The restart timer fires only when all children are gone and no stop() body is under
\* way; a stop that has ended would have cleared it.
LEMMA RestartFiresPInv ==
  ASSUME PInv, RestartFires
  PROVE  PInv'
<1> DEFINE ts == mp.timers \ {RestartTimer}
           m == [mp EXCEPT !.timers = ts]
<1>0. /\ Quiet /\ RestartTimer \in mp.timers /\ Spawn(m, TRUE)
      /\ UNCHANGED <<call, target, registered>>
  BY DEF RestartFires, Spawn
<1>1. Becomes(mp, m, mp.state, mp.child, ts, mp.stopPromise) /\ ts \subseteq mp.timers
      /\ RestartTimer \notin ts
  <2>1. ts \in SUBSET Timers /\ ts \subseteq mp.timers /\ RestartTimer \notin ts
    BY Parts
  <2> HIDE DEF ts
  <2> QED BY <2>1, Parts, MPUpdates
<1> HIDE DEF ts, m
<1>2. /\ MPOK(mp') /\ ProcOK' /\ Numbered' /\ Begun' /\ ChildKnown'
      /\ mp'.spec = mp.spec /\ mp'.killFailed = FALSE /\ mp'.state = "starting"
      /\ RestartTimer \notin mp'.timers /\ mp'.stopPromise = mp.stopPromise
      /\ Used' # {} /\ Used' = Used \cup {mp'.child} /\ closed' = closed
  <2>1. PICK t \in BOOLEAN : Spawn(m, t)
    BY <1>0, Zenon
  <2>2. MPOK(m) /\ m.child = mp.child /\ m.spec = mp.spec /\ m.timers \subseteq mp.timers
        /\ m.stopPromise = mp.stopPromise /\ RestartTimer \notin m.timers
    BY <1>1 DEF Becomes
  <2> QED BY <2>1, <2>2, SpawnStep
<1>3. Used # {} /\ \A k \in Callers : call[k] # "ready"
  BY <1>0 DEF PInv, Untouched, Quiet
<1>4. CallOK' /\ Untouched' /\ StopsKnown'
  BY <1>0, <1>2 DEF PInv, CallOK, Untouched, StopsKnown
<1>5. (Undisturbed' => Undisturbed) /\ (NoneRefused' => NoneRefused)
  BY <1>0, <1>2 DEF Undisturbed, NoneRefused
<1>6. ASSUME Undisturbed PROVE Tracked'
  <2>1. Tracked
    BY <1>6 DEF PInv
  <2>2. Used \subseteq closed /\ \A k \in Callers : ~Active(k)
    BY <1>0, <2>1 DEF Tracked
  <2>3. \A k \in Callers : ~Active(k)' /\ call'[k] = call[k] /\ call'[k] # "preStop"
    BY <1>0, <2>2 DEF Active
  <2> QED BY <1>2, <2>1, <2>2, <2>3 DEF Tracked
<1>7. ASSUME Undisturbed, NoneRefused PROVE Held'
  <2>1. Tracked /\ Held
    BY <1>7 DEF PInv
  <2>2. ~mp.killFailed
    BY <1>0, <1>3, <1>7, <2>1 DEF PInv, StopsKnown, NoneRefused, Tracked, Active
  <2>3. ~Over
    BY <1>0 DEF Over
  <2> QED BY <1>0, <1>2, <1>3, <2>1, <2>2, <2>3 DEF Held
<1> QED BY <1>2, <1>4, <1>5, <1>6, <1>7 DEF PInv

\* The end of restart() keeps the invariant; the object is no longer undisturbed.
LEMMA RestartReturnsPInv ==
  ASSUME PInv, NEW k \in RestartCalls, RestartReturns(k)
  PROVE  PInv'
<1>0. call[k] = "ready" /\ UNCHANGED registered /\ k \in Callers
  BY DEF RestartReturns, Callers
<1>1. Used # {}
  BY <1>0 DEF PInv, Untouched
<1>2. PICK s \in {"done", "refused"} : call' = [call EXCEPT ![k] = s]
  BY DEF RestartReturns
<1>3. ~Undisturbed' /\ call'[k] = s /\ target' = target
  <2>1. call'[k] = s
    BY <1>0, <1>2, Parts
  <2>2. target' = target
    BY DEF RestartReturns, Spawn
  <2> QED BY <1>2, <2>1, <2>2 DEF Undisturbed
<1>4. CallOK'
  BY <1>0, <1>2, <1>3 DEF PInv, CallOK, CallStates
<1>5. CASE /\ call' = [call EXCEPT ![k] = "refused"]
           /\ UNCHANGED <<mp, proc, closed, deaf, starting, byTimer, target>>
  <2>1. Used' = Used /\ Gone' = Gone
    BY <1>5 DEF Used, Gone
  <2>2. ProcOK' /\ Numbered' /\ Begun' /\ ChildKnown' /\ MPOK(mp')
    BY <1>5, <2>1 DEF PInv, ProcOK, Numbered, Begun, ChildKnown
  <2>3. Untouched' /\ StopsKnown'
    BY <1>0, <1>1, <1>5, <2>1, Parts DEF PInv, Untouched, StopsKnown
  <2> QED BY <1>3, <1>4, <2>2, <2>3 DEF PInv
<1>6. CASE Spawn([mp EXCEPT !.stopPromise = "none"], FALSE) /\ call' = [call EXCEPT ![k] = "done"]
  <2> DEFINE m == [mp EXCEPT !.stopPromise = "none"]
  <2>1. Becomes(mp, m, mp.state, mp.child, mp.timers, "none")
    <3>1. "none" \in Promises
      BY DEF Promises
    <3> QED BY <3>1, Parts, MPUpdates
  <2>2. PICK t \in BOOLEAN : Spawn(m, t)
    BY <1>6, Zenon
  <2> HIDE DEF m
  <2>3. MPOK(m) /\ m.child = mp.child /\ m.spec = mp.spec /\ m.timers \subseteq mp.timers
    BY <2>1 DEF Becomes
  <2>4. /\ MPOK(mp') /\ ProcOK' /\ Numbered' /\ Begun' /\ ChildKnown'
        /\ mp'.spec = mp.spec /\ mp'.killFailed = FALSE /\ Used' # {}
    BY <2>2, <2>3, SpawnStep
  <2>5. Untouched' /\ StopsKnown'
    BY <1>6, <2>4, Parts DEF PInv, Untouched, StopsKnown
  <2> QED BY <1>3, <1>4, <2>4, <2>5 DEF PInv
<1> QED BY <1>5, <1>6 DEF RestartReturns

-----------------------------------------------------------------------------
(* stop()                                                                  *)

\* Who goes on after Wake, and how.
LEMMA WakeFacts ==
  ASSUME PInv, NEW m, NEW S, Wake(m, S)
  PROVE  /\ call' \in [Callers -> CallStates]
         /\ \A j \in Callers : call'[j] = IF call[j] = "awaiting" \/ j \in S
                                          THEN IF m.stopPromise = "pending" THEN "awaiting" ELSE "ready"
                                          ELSE call[j]
<1>1. call \in [Callers -> CallStates]
  BY Parts
<1> QED BY <1>1 DEF Wake, CallStates

\* A step of a stop() body that k runs.
LEMMA StopStep ==
  ASSUME PInv, NEW k \in Callers, Used # {},
         UNCHANGED <<proc, closed, deaf, starting, byTimer, registered>>,
         MPOK(mp'), mp'.spec = mp.spec, mp'.timers \subseteq mp.timers,
         mp'.child \in {mp.child, NoChild},
         mp'.state \in {"stopping", "failed", "dead"} \/ (mp'.state = mp.state /\ mp'.child = mp.child),
         target' \in [Callers -> Spawns \cup {NoChild}], call' \in [Callers -> CallStates],
         \A j \in Callers \ {k} : call'[j] = call[j] \/ (call[j] = "awaiting" /\ call'[j] = "ready"),
         call[k] \notin {"ready", "refused"}, call'[k] # "idle",
         mp'.killFailed => (mp.killFailed /\ call[k] # "safety") \/ call'[k] \in {"ready", "safety"},
         call'[k] = "preStop" => mp.spec.preStop,
         Undisturbed => Tracked',
         Undisturbed /\ NoneRefused => Held'
  PROVE  PInv'
<1>1. Used' = Used /\ Gone' = Gone
  BY DEF Used, Gone
<1>2. ProcOK' /\ CallOK' /\ Numbered' /\ Untouched'
  BY <1>1 DEF PInv, ProcOK, CallOK, Numbered, Untouched
<1>3. Begun'
  BY <1>1 DEF PInv, Begun
<1>4. ChildKnown'
  <2>1. NoChild \notin deaf
    BY Parts
  <2> QED BY <1>1, <2>1 DEF PInv, ChildKnown
<1>5. StopsKnown'
  <2>1. ASSUME mp'.killFailed PROVE \E j \in Callers : call'[j] \in {"ready", "refused", "safety"}
    BY <2>1 DEF PInv, StopsKnown
  <2>2. ASSUME NEW j \in Callers, call'[j] = "preStop" PROVE mp'.spec.preStop
    BY <2>2 DEF PInv, StopsKnown
  <2> QED BY <2>1, <2>2 DEF StopsKnown
<1>6. (Undisturbed' => Undisturbed) /\ (NoneRefused' => NoneRefused)
  <2>1. \A j \in Callers : call'[j] = "idle" => call[j] = "idle"
    OBVIOUS
  <2>2. \A j \in Callers : call[j] = "refused" => call'[j] = "refused"
    OBVIOUS
  <2> QED BY <2>1, <2>2 DEF Undisturbed, NoneRefused, Callers
<1> QED BY <1>2, <1>3, <1>4, <1>5, <1>6 DEF PInv

\* When the end of an undisturbed child is known and nothing is left to run, all
\* children are gone.
LEMMA ExitKnown ==
  ASSUME PInv, Undisturbed, Quiet, NEW c, mp.child \in {c, NoChild}, c = NoChild \/ HasExitCode(c)
  PROVE  Used \subseteq closed
<1>1. Gone \subseteq closed /\ Used \ closed \subseteq {mp.child}
  BY DEF Quiet, Undisturbed, PInv, Tracked
<1> QED BY <1>1, Parts DEF HasExitCode

\* The end of a stop() body: the caller and those that wait go on.
LEMMA StopEnds ==
  ASSUME PInv, NEW k \in Callers, Used # {}, call[k] \in {"idle", "preStop", "grace", "safety"},
         UNCHANGED <<proc, closed, deaf, starting, byTimer, registered>>,
         MPOK(mp'), mp'.spec = mp.spec, mp'.timers \subseteq mp.timers,
         mp'.child \in {mp.child, NoChild}, mp'.state \in {"failed", "dead"},
         mp'.stopPromise = "resolved" \/ (mp'.stopPromise = mp.stopPromise /\ mp.stopPromise # "pending"),
         target' \in [Callers -> Spawns \cup {NoChild}], Wake(mp', {k}),
         mp.killFailed => mp'.killFailed,
         Undisturbed => \/ mp'.killFailed /\ mp'.state = "failed" /\ mp'.child = mp.child
                        \/ Used \subseteq closed,
         Undisturbed => RestartTimer \notin mp'.timers,
         Undisturbed => \A j \in Callers : Active(j) => j = k
  PROVE  PInv'
<1>1. /\ call' \in [Callers -> CallStates] /\ mp'.stopPromise # "pending"
      /\ \A j \in Callers : call'[j] = IF call[j] = "awaiting" \/ j = k THEN "ready" ELSE call[j]
  BY WakeFacts
<1>2. Used' = Used
  BY DEF Used
<1>3. ASSUME Undisturbed PROVE Tracked'
  <2>1. Tracked
    BY <1>3 DEF PInv
  <2>2. \A j \in Callers : ~Active(j)' /\ call'[j] \notin {"awaiting", "preStop"}
    BY <1>1, <1>3 DEF Active
  <2>3. Used' \ closed' \subseteq {mp'.child}
    BY <1>2, <1>3, <2>1 DEF Tracked
  <2>4. mp'.state = "dead" => Used' \subseteq closed'
    BY <1>2, <1>3
  <2> QED BY <1>3, <2>2, <2>3, <2>4 DEF Tracked
<1>4. ASSUME Undisturbed, NoneRefused PROVE Held'
  <2>1. Held
    BY <1>4 DEF PInv
  <2>2. CASE Used \subseteq closed
    <3>1. Over'
      BY <1>2, <1>4, <2>2 DEF Over
    <3> QED BY <3>1 DEF Held
  <2>3. CASE mp'.killFailed /\ ~(Used \subseteq closed)
    BY <1>2, <2>1, <2>3 DEF Held, Over
  <2> QED BY <1>4, <2>2, <2>3
<1> QED BY <1>1, <1>3, <1>4, StopStep

\* A stop() body that goes on, its caller changing from one wait to the next.
LEMMA StopGoesOn ==
  ASSUME PInv, NEW k \in Callers, Used # {}, NEW s \in {"preStop", "grace", "safety"},
         (call[k] = "idle" /\ mp.stopPromise = "none") \/ Active(k),
         UNCHANGED <<proc, closed, deaf, starting, byTimer, registered>>,
         MPOK(mp'), mp'.spec = mp.spec, mp'.timers \subseteq mp.timers, mp'.child = mp.child,
         mp'.state \in {"stopping", "failed", mp.state}, mp'.stopPromise # "none",
         target' = [target EXCEPT ![k] = mp.child] \/ (Active(k) /\ target' = target),
         call' \in [Callers -> CallStates], call'[k] = s,
         \A j \in Callers \ {k} : call'[j] = call[j] \/ (call[j] = "awaiting" /\ call'[j] = "ready"),
         mp'.killFailed => (mp.killFailed /\ call[k] # "safety") \/ s = "safety",
         mp.killFailed => mp'.killFailed,
         s = "preStop" => mp.spec.preStop /\ mp'.state = "stopping" /\ Quiet,
         Undisturbed => RestartTimer \notin mp'.timers,
         Undisturbed => \A j \in Callers : Active(j) => j = k,
         ~mp'.killFailed => /\ \A j \in Callers : call'[j] = "ready" => call[j] = "ready"
                            /\ mp'.stopPromise = "resolved" => mp.stopPromise = "resolved"
  PROVE  PInv'
<1>1. Used' = Used /\ target \in [Callers -> Spawns \cup {NoChild}] /\ mp.child \in Spawns \cup {NoChild}
  BY Parts DEF Used
<1>2. target' \in [Callers -> Spawns \cup {NoChild}]
  BY <1>1
<1>3. ASSUME Undisturbed PROVE Tracked'
  <2>1. Tracked
    BY <1>3 DEF PInv
  <2>2. \A j \in Callers : Active(j)' => j = k
    BY <1>3 DEF Active
  <2>3. mp'.child \in {target'[k], NoChild}
    BY <1>1, <2>1 DEF Tracked
  <2>4. ASSUME s = "preStop" PROVE \A c \in Spawns : proc'[c] # "spawning" /\ starting'[c] # "erroring"
    BY <2>4 DEF Quiet
  <2>5. Used' \ closed' \subseteq {mp'.child} /\ (mp'.state = "dead" => Used' \subseteq closed')
    BY <1>1, <2>1 DEF Tracked
  <2>6. \A j \in Callers : call'[j] = "preStop" => j = k /\ s = "preStop"
    BY <2>2 DEF Active
  <2> QED BY <1>3, <2>2, <2>3, <2>4, <2>5, <2>6 DEF Tracked
<1>4. ASSUME Undisturbed, NoneRefused PROVE Held'
  <2>1. Held
    BY <1>4 DEF PInv
  <2>2. Over => Over'
    BY <1>1 DEF Over
  <2> QED BY <2>1, <2>2 DEF Held
<1>5. call[k] \notin {"ready", "refused"} /\ call'[k] # "idle"
  BY DEF Active
<1>6. call'[k] = "preStop" => mp.spec.preStop
  OBVIOUS
<1>7. mp'.killFailed => (mp.killFailed /\ call[k] # "safety") \/ call'[k] \in {"ready", "safety"}
  OBVIOUS
<1>8. mp'.state \in {"stopping", "failed", "dead"} \/ (mp'.state = mp.state /\ mp'.child = mp.child)
  OBVIOUS
<1> QED BY <1>2, <1>3, <1>4, <1>5, <1>6, <1>7, <1>8, StopStep

\* Signalling the child: the body goes on, or it ends with the signal refused or the
\* exit code already known.
LEMMA SignalPInv ==
  ASSUME PInv, Quiet, NEW k \in Callers, Used # {}, NEW m, NEW c, Signal(k, m, c),
         UNCHANGED <<proc, closed, deaf, starting, byTimer, registered>>,
         MPOK(m), m.spec = mp.spec, m.child = mp.child, m.timers \subseteq mp.timers,
         m.killFailed = mp.killFailed, m.state \in {"stopping", mp.state},
         \/ call[k] = "idle" /\ mp.stopPromise = "none" /\ m.stopPromise = "pending"
         \/ call[k] = "preStop" /\ m.stopPromise = mp.stopPromise,
         target' = [target EXCEPT ![k] = mp.child] \/ (call[k] = "preStop" /\ target' = target),
         Undisturbed => RestartTimer \notin m.timers,
         mp.child \in {c, NoChild} \/ ~Undisturbed
  PROVE  PInv'
<1>1. /\ call \in [Callers -> CallStates] /\ target \in [Callers -> Spawns \cup {NoChild}]
      /\ mp.child \in Spawns \cup {NoChild} /\ mp.stopPromise \in Promises
      /\ m.stopPromise \in Promises /\ mp.killFailed \in BOOLEAN /\ m.killFailed \in BOOLEAN
  BY Parts, MPFields
<1>2. target' \in [Callers -> Spawns \cup {NoChild}]
  BY <1>1
<1>3. ASSUME Undisturbed
      PROVE  (\A j \in Callers : Active(j) => j = k) /\ m.stopPromise # "none"
  <2>1. Tracked
    BY <1>3 DEF PInv
  <2>2. CASE call[k] = "idle"
    BY <2>1, <2>2 DEF Tracked
  <2>3. CASE call[k] = "preStop"
    <3>1. Active(k)
      BY <2>3 DEF Active
    <3> QED BY <2>1, <2>3, <3>1 DEF Tracked
  <2> QED BY <2>2, <2>3
<1>4. Res(m.stopPromise) = "resolved"
        \/ (Res(m.stopPromise) = mp.stopPromise /\ mp.stopPromise # "pending")
  BY <1>1 DEF Res, Promises
<1>5. call[k] \in {"idle", "preStop", "grace", "safety"}
  OBVIOUS
<1>6. CASE mp' = m /\ call' = [call EXCEPT ![k] = "grace"]
  <2>1. /\ call' \in [Callers -> CallStates] /\ call'[k] = "grace"
        /\ \A j \in Callers \ {k} : call'[j] = call[j]
    BY <1>1, <1>6 DEF CallStates
  <2>2. CASE ~Undisturbed
    <3>1. mp'.state \in {"stopping", "failed", "dead"} \/ (mp'.state = mp.state /\ mp'.child = mp.child)
      BY <1>6
    <3>2. mp'.killFailed => (mp.killFailed /\ call[k] # "safety") \/ call'[k] \in {"ready", "safety"}
      BY <1>6
    <3>3. call[k] \notin {"ready", "refused"} /\ call'[k] # "idle" /\ call'[k] # "preStop"
      BY <2>1
    <3> QED BY <1>2, <1>6, <2>1, <2>2, <3>1, <3>2, <3>3, StopStep
  <2>3. CASE Undisturbed
    <3>1. (call[k] = "idle" /\ mp.stopPromise = "none") \/ Active(k)
      BY DEF Active
    <3>2. target' = [target EXCEPT ![k] = mp.child] \/ (Active(k) /\ target' = target)
      BY DEF Active
    <3>3. /\ MPOK(mp') /\ mp'.spec = mp.spec /\ mp'.timers \subseteq mp.timers /\ mp'.child = mp.child
          /\ mp'.state \in {"stopping", "failed", mp.state} /\ mp'.stopPromise # "none"
          /\ RestartTimer \notin mp'.timers /\ mp'.killFailed = mp.killFailed
      BY <1>3, <1>6, <2>3
    <3>4. /\ \A j \in Callers : call'[j] = "ready" => call[j] = "ready"
          /\ mp'.stopPromise = "resolved" => mp.stopPromise = "resolved"
      BY <1>6, <2>1
    <3>5. "grace" \in {"preStop", "grace", "safety"} /\ call[k] # "safety"
      OBVIOUS
    <3> QED BY <1>3, <2>1, <2>3, <3>1, <3>2, <3>3, <3>4, <3>5, StopGoesOn
  <2> QED BY <2>2, <2>3
<1>7. CASE HasExitCode(c) /\ mp' = AfterWait(m) /\ Wake(AfterWait(m), {k})
  <2>1. \/ KilledInVain(m, mp')
        \/ Becomes(m, mp', "dead", NoChild, {}, Res(m.stopPromise))
    BY <1>1, <1>7, AfterWaitFacts
  <2>2. /\ MPOK(mp') /\ mp'.spec = mp.spec /\ mp'.timers \subseteq m.timers
        /\ mp'.child \in {mp.child, NoChild} /\ mp'.state \in {"failed", "dead"}
        /\ mp'.stopPromise = Res(m.stopPromise) /\ (mp.killFailed => mp'.killFailed)
    BY <2>1 DEF KilledInVain, Becomes
  <2>3. Undisturbed => Used \subseteq closed
    BY <1>7, ExitKnown
  <2> QED BY <1>2, <1>3, <1>4, <1>5, <1>7, <2>2, <2>3, StopEnds
<1>8. CASE mp' = KillFails(m) /\ Wake(KillFails(m), {k})
  <2>1. KilledInVain(m, mp')
    BY <1>8, KillFailsFacts
  <2>2. /\ MPOK(mp') /\ mp'.spec = mp.spec /\ mp'.timers \subseteq m.timers
        /\ mp'.child = mp.child /\ mp'.state = "failed"
        /\ mp'.stopPromise = Res(m.stopPromise) /\ mp'.killFailed
    BY <2>1 DEF KilledInVain
  <2> QED BY <1>2, <1>3, <1>4, <1>5, <1>8, <2>2, StopEnds
<1> QED BY <1>6, <1>7, <1>8 DEF Signal

\* A call of stop() keeps the invariant, in each of its five cases.
LEMMA CallStopPInv ==
  ASSUME PInv, NEW k \in Callers, CallStop(k)
  PROVE  PInv'
<1> DEFINE m == StopBegins(mp)
<1>0. /\ Quiet /\ registered /\ call[k] = "idle"
      /\ target' = [target EXCEPT ![k] = mp.child]
      /\ UNCHANGED <<proc, closed, deaf, starting, byTimer, registered>>
  BY DEF CallStop
<1>1. /\ Used # {} /\ call \in [Callers -> CallStates]
      /\ target \in [Callers -> Spawns \cup {NoChild}] /\ mp.child \in Spawns \cup {NoChild}
      /\ mp.stopPromise \in Promises
  BY <1>0, Parts DEF PInv, Untouched
<1>2. /\ target' \in [Callers -> Spawns \cup {NoChild}]
      /\ \A j \in Callers \ {k} : target'[j] = target[j]
  BY <1>0, <1>1
<1>3. Becomes(mp, m, "stopping", mp.child, {}, "pending")
  BY Parts, StopBeginsFacts
<1> HIDE DEF m
<1>4. \A j \in Callers : call[j] # "ready"
  BY <1>0 DEF Quiet
<1>5. Used' = Used
  BY <1>0 DEF Used
<1>6. ASSUME NEW s \in {"ready", "awaiting"}, call' = [call EXCEPT ![k] = s], UNCHANGED mp,
             s = "awaiting" => mp.stopPromise # "none",
             Undisturbed /\ NoneRefused /\ s = "ready" /\ ~mp.killFailed => Over
      PROVE  PInv'
  <2>1. /\ call' \in [Callers -> CallStates] /\ call'[k] = s
        /\ \A j \in Callers \ {k} : call'[j] = call[j]
    BY <1>1, <1>6 DEF CallStates
  <2>2. ASSUME Undisturbed PROVE Tracked'
    <3>1. Tracked
      BY <2>2 DEF PInv
    <3>2. \A j \in Callers : Active(j)' => Active(j) /\ j # k
      BY <2>1 DEF Active
    <3>3. \A j \in Callers : call'[j] \in {"awaiting", "preStop"} => call'[j] = call[j] \/ (j = k /\ s = "awaiting")
      BY <2>1
    <3>4. UNCHANGED <<mp, proc, closed, starting>>
      BY <1>0, <1>6
    <3> QED BY <1>2, <1>5, <1>6, <3>1, <3>2, <3>3, <3>4 DEF Tracked
  <2>3. ASSUME Undisturbed, NoneRefused PROVE Held'
    <3>1. Held /\ (Over => Over')
      BY <1>0, <1>5, <1>6, <2>3 DEF PInv, Over
    <3> QED BY <1>0, <1>4, <1>6, <2>1, <2>3, <3>1 DEF Held
  <2>4. /\ MPOK(mp') /\ mp'.spec = mp.spec /\ mp'.timers \subseteq mp.timers
        /\ mp'.child \in {mp.child, NoChild} /\ mp'.state = mp.state /\ mp'.child = mp.child
        /\ (mp'.killFailed => mp.killFailed)
    BY <1>6, Parts
  <2>5. call[k] # "safety" /\ call[k] \notin {"ready", "refused"} /\ call'[k] \notin {"idle", "preStop"}
    BY <1>0, <2>1
  <2> QED BY <1>0, <1>1, <1>2, <2>1, <2>2, <2>3, <2>4, <2>5, StopStep
<1>7. CASE mp.state = "dead" /\ call' = [call EXCEPT ![k] = "ready"] /\ UNCHANGED mp
  <2>1. Undisturbed => Over
    BY <1>7 DEF PInv, Tracked, Over
  <2> QED BY <1>6, <1>7, <2>1
<1>8. CASE /\ mp.stopPromise # "none" /\ UNCHANGED mp
           /\ call' = [call EXCEPT ![k] = IF mp.stopPromise = "pending" THEN "awaiting" ELSE "ready"]
  <2>1. mp.stopPromise # "pending" => mp.stopPromise = "resolved"
    BY <1>1, <1>8 DEF Promises
  <2>2. Undisturbed /\ NoneRefused /\ mp.stopPromise # "pending" /\ ~mp.killFailed => Over
    BY <2>1 DEF PInv, Held
  <2>3. CASE mp.stopPromise = "pending"
    BY <1>6, <1>8, <2>3
  <2>4. CASE mp.stopPromise # "pending"
    BY <1>6, <1>8, <2>2, <2>4
  <2> QED BY <2>3, <2>4
<1>9. CASE /\ mp.stopPromise = "none" /\ (m.child = NoChild \/ HasExitCode(m.child))
           /\ mp' = Finalize(m) /\ Wake(Finalize(m), {k})
  <2>1. Becomes(m, mp', "dead", NoChild, {}, Res(m.stopPromise))
    BY <1>3, <1>9, FinalizeFacts DEF Becomes
  <2>2. /\ MPOK(mp') /\ mp'.spec = mp.spec /\ mp'.timers = {} /\ mp'.child = NoChild
        /\ mp'.state = "dead" /\ mp'.stopPromise = "resolved" /\ mp'.killFailed = mp.killFailed
    BY <1>3, <2>1 DEF Becomes, Res
  <2>3. Undisturbed => Used \subseteq closed
    <3>1. m.child = mp.child
      BY <1>3 DEF Becomes
    <3> QED BY <1>0, <1>9, <3>1, ExitKnown
  <2>4. Undisturbed => \A j \in Callers : Active(j) => j = k
    BY <1>9 DEF PInv, Tracked
  <2>5. mp'.timers \subseteq mp.timers /\ RestartTimer \notin mp'.timers /\ Wake(mp', {k})
    BY <1>9, <2>2
  <2> QED BY <1>0, <1>1, <1>2, <2>2, <2>3, <2>4, <2>5, StopEnds
<1>10. CASE /\ mp.stopPromise = "none" /\ mp.spec.preStop
            /\ mp' = m /\ call' = [call EXCEPT ![k] = "preStop"]
  <2>1. /\ call' \in [Callers -> CallStates] /\ call'[k] = "preStop"
        /\ \A j \in Callers \ {k} : call'[j] = call[j]
    BY <1>1, <1>10 DEF CallStates
  <2>2. /\ MPOK(mp') /\ mp'.spec = mp.spec /\ mp'.timers = {} /\ mp'.child = mp.child
        /\ mp'.state = "stopping" /\ mp'.stopPromise = "pending" /\ mp'.killFailed = mp.killFailed
    BY <1>3, <1>10 DEF Becomes
  <2>3. Undisturbed => \A j \in Callers : Active(j) => j = k
    BY <1>10 DEF PInv, Tracked
  <2>4. "preStop" \in {"preStop", "grace", "safety"} /\ call[k] # "safety" /\ mp'.timers \subseteq mp.timers
        /\ RestartTimer \notin mp'.timers /\ (\A j \in Callers : call'[j] = "ready" => call[j] = "ready")
    BY <1>0, <2>1, <2>2
  <2> QED BY <1>0, <1>1, <1>10, <2>1, <2>2, <2>3, <2>4, StopGoesOn
<1>11. CASE mp.stopPromise = "none" /\ Signal(k, m, m.child)
  <2>1. /\ MPOK(m) /\ m.spec = mp.spec /\ m.child = mp.child /\ m.timers = {}
        /\ m.killFailed = mp.killFailed /\ m.state = "stopping" /\ m.stopPromise = "pending"
    BY <1>3 DEF Becomes
  <2>2. m.timers \subseteq mp.timers /\ RestartTimer \notin m.timers
        /\ mp.child \in {m.child, NoChild}
    BY <2>1
  <2> QED BY <1>0, <1>1, <1>11, <2>1, <2>2, SignalPInv
<1> QED BY <1>7, <1>8, <1>9, <1>10, <1>11 DEF CallStop, JoinsStop, m

\* The end of the pre-stop command keeps the invariant.
LEMMA PreStopEndsPInv ==
  ASSUME PInv, NEW k \in Callers, PreStopEnds(k)
  PROVE  PInv'
<1>0. /\ Quiet /\ call[k] = "preStop" /\ Signal(k, mp, target[k]) /\ target' = target
      /\ UNCHANGED <<proc, closed, deaf, starting, byTimer, registered>>
  BY DEF PreStopEnds
<1>1. Used # {} /\ Active(k)
  BY <1>0 DEF PInv, Untouched, Active
<1>2. Undisturbed => RestartTimer \notin mp.timers /\ mp.child \in {target[k], NoChild}
  BY <1>1 DEF PInv, Tracked
<1>3. MPOK(mp) /\ mp.timers \subseteq mp.timers
  BY Parts
<1> QED BY <1>0, <1>1, <1>2, <1>3, SignalPInv

\* The end of the grace period keeps the invariant.
LEMMA GraceExpiresPInv ==
  ASSUME PInv, NEW k \in Callers, GraceExpires(k)
  PROVE  PInv'
<1>0. /\ call[k] = "grace" /\ target' = target
      /\ UNCHANGED <<proc, closed, deaf, starting, byTimer, registered>>
  BY DEF GraceExpires
<1>1. Used # {} /\ Active(k) /\ call \in [Callers -> CallStates] /\ mp.stopPromise \in Promises
  BY <1>0, Parts DEF PInv, Untouched, Active
<1>2. CASE ~Undisturbed
  <2>1. /\ call' \in [Callers -> CallStates] /\ call'[k] = "safety"
        /\ \A j \in Callers \ {k} : call'[j] = call[j] \/ (call[j] = "awaiting" /\ call'[j] = "ready")
    BY <1>1 DEF GraceExpires, CallStates
  <2>2. mp' = mp \/ KilledInVain(mp, mp')
    BY Parts, KillFailsFacts DEF GraceExpires
  <2>3. /\ MPOK(mp') /\ mp'.spec = mp.spec /\ mp'.timers \subseteq mp.timers
        /\ mp'.child \in {mp.child, NoChild}
        /\ mp'.state \in {"stopping", "failed", "dead"} \/ (mp'.state = mp.state /\ mp'.child = mp.child)
    BY <2>2, Parts DEF KilledInVain
  <2>4. target' \in [Callers -> Spawns \cup {NoChild}]
    BY <1>0, Parts
  <2> QED BY <1>0, <1>1, <1>2, <2>1, <2>3, <2>4, StopStep
<1>3. CASE Undisturbed
  <2>0. /\ RestartTimer \notin mp.timers /\ mp.stopPromise # "none"
        /\ \A j \in Callers : Active(j) => j = k
    BY <1>1, <1>3 DEF PInv, Tracked
  <2>1. "safety" \in {"preStop", "grace", "safety"}
    OBVIOUS
  <2>2. CASE call' = [call EXCEPT ![k] = "safety"] /\ UNCHANGED mp
    <3>1. /\ call' \in [Callers -> CallStates] /\ call'[k] = "safety"
          /\ \A j \in Callers \ {k} : call'[j] = call[j]
      BY <1>1, <2>2 DEF CallStates
    <3>2. /\ MPOK(mp') /\ mp'.spec = mp.spec /\ mp'.timers \subseteq mp.timers /\ mp'.child = mp.child
          /\ mp'.state \in {"stopping", "failed", mp.state} /\ mp'.stopPromise = mp.stopPromise
          /\ mp'.killFailed = mp.killFailed /\ mp'.timers = mp.timers
      BY <2>2, Parts
    <3>3. \A j \in Callers : call'[j] = "ready" => call[j] = "ready"
      BY <3>1
    <3> QED BY <1>0, <1>1, <2>0, <2>1, <3>1, <3>2, <3>3, StopGoesOn
  <2>3. CASE /\ mp' = KillFails(mp)
             /\ call' = [j \in Callers |-> IF j = k THEN "safety"
                                           ELSE IF call[j] = "awaiting" THEN "ready" ELSE call[j]]
    <3>1. /\ call' \in [Callers -> CallStates] /\ call'[k] = "safety"
          /\ \A j \in Callers \ {k} : call'[j] = call[j] \/ (call[j] = "awaiting" /\ call'[j] = "ready")
      BY <1>1, <2>3 DEF CallStates
    <3>2. KilledInVain(mp, mp')
      BY <2>3, Parts, KillFailsFacts
    <3>3. /\ MPOK(mp') /\ mp'.spec = mp.spec /\ mp'.timers = mp.timers /\ mp'.child = mp.child
          /\ mp'.state \in {"stopping", "failed", mp.state} /\ mp'.stopPromise # "none"
          /\ mp'.killFailed /\ mp'.timers \subseteq mp.timers
      BY <2>0, <3>2 DEF KilledInVain, Res
    <3> QED BY <1>0, <1>1, <2>0, <2>1, <3>1, <3>3, StopGoesOn
  <2> QED BY <2>2, <2>3 DEF GraceExpires
<1> QED BY <1>2, <1>3

\* The safety timeout keeps the invariant: it reports a failed kill.
LEMMA SafetyExpiresPInv ==
  ASSUME PInv, NEW k \in Callers, SafetyExpires(k)
  PROVE  PInv'
<1> DEFINE m == [mp EXCEPT !.killFailed = TRUE]
<1>0. /\ call[k] = "safety" /\ mp' = AfterWait(m) /\ Wake(mp', {k}) /\ target' = target
      /\ UNCHANGED <<proc, closed, deaf, starting, byTimer, registered>>
  BY DEF SafetyExpires
<1>1. /\ MPOK(m) /\ m.killFailed /\ m.spec = mp.spec /\ m.child = mp.child
      /\ m.timers = mp.timers /\ m.stopPromise = mp.stopPromise
  <2> DEFINE A == Spawns \cup {NoChild}
             B == SUBSET Timers
             N == Nat
             K == BOOLEAN
  <2>1. /\ MP = [spec : Specs, state : States, child : A, timers : B, stopPromise : Promises,
                  killFailed : K, failures : N, healthRetries : N, matched : K]
        /\ TRUE \in K /\ mp \in MP /\ mp.failures <= mp.spec.maxRetries
    BY Parts DEF MPOK, MP
  <2> HIDE DEF A, B, N, K
  <2> QED BY <2>1 DEF MPOK
<1> HIDE DEF m
<1>2. KilledInVain(m, mp')
  BY <1>0, <1>1, AfterWaitFacts
<1>3. /\ MPOK(mp') /\ mp'.spec = mp.spec /\ mp'.timers = mp.timers /\ mp'.child = mp.child
      /\ mp'.state = "failed" /\ mp'.killFailed /\ mp'.stopPromise = Res(mp.stopPromise)
  BY <1>1, <1>2 DEF KilledInVain
<1>4. mp'.stopPromise = "resolved" \/ (mp'.stopPromise = mp.stopPromise /\ mp.stopPromise # "pending")
  BY <1>3 DEF Res
<1>5. Used # {} /\ Active(k) /\ target' \in [Callers -> Spawns \cup {NoChild}]
  BY <1>0, Parts DEF PInv, Untouched, Active
<1>6. Undisturbed => RestartTimer \notin mp.timers /\ \A j \in Callers : Active(j) => j = k
  BY <1>5 DEF PInv, Tracked
<1>7. mp'.timers \subseteq mp.timers
  BY <1>3
<1> QED BY <1>0, <1>3, <1>4, <1>5, <1>6, <1>7, StopEnds

\* ProcessManager.stop deregisters the process only when the stop has held.
LEMMA StopReturnsPInv ==
  ASSUME PInv, NEW k \in StopCalls, StopReturns(k)
  PROVE  PInv'
<1>0. /\ call[k] = "ready" /\ k \in Callers
      /\ call' = [call EXCEPT ![k] = IF mp.killFailed THEN "refused" ELSE "done"]
      /\ registered' = (registered /\ mp.killFailed)
      /\ UNCHANGED <<mp, proc, closed, deaf, starting, byTimer, target>>
  BY DEF StopReturns, Callers
<1>1. Used # {} /\ call \in [Callers -> CallStates] /\ registered \in BOOLEAN /\ mp.killFailed \in BOOLEAN
  BY <1>0, Parts DEF PInv, Untouched, CallOK
<1>2. Used' = Used /\ Gone' = Gone
  BY <1>0 DEF Used, Gone
<1>3. /\ call' \in [Callers -> CallStates] /\ call'[k] \in {"done", "refused"}
      /\ mp.killFailed <=> call'[k] = "refused"
      /\ \A j \in Callers \ {k} : call'[j] = call[j]
  BY <1>0, <1>1 DEF CallStates
<1>4. CallOK'
  BY <1>0, <1>1, <1>3, Parts DEF CallOK
<1>5. MPOK(mp') /\ ProcOK' /\ Numbered' /\ Untouched' /\ Begun' /\ ChildKnown'
  BY <1>0, <1>1, <1>2 DEF PInv, ProcOK, Numbered, Untouched, Begun, ChildKnown
<1>6. StopsKnown'
  BY <1>0, <1>3 DEF PInv, StopsKnown
<1>7. Undisturbed' => Undisturbed
  <2>1. k \notin RestartCalls
    BY SpecAssumption
  <2> QED BY <1>0, <1>3, <2>1 DEF Undisturbed, Callers
<1>8. ASSUME Undisturbed PROVE Tracked'
  <2>1. Tracked
    BY <1>8 DEF PInv
  <2>2. \A j \in Callers : (Active(j)' => Active(j)) /\ (call'[j] \in {"awaiting", "preStop"} => call'[j] = call[j])
    BY <1>3 DEF Active
  <2> QED BY <1>0, <1>2, <2>1, <2>2 DEF Tracked
<1>9. ASSUME Undisturbed, NoneRefused' PROVE Held'
  <2>1. ~mp.killFailed /\ NoneRefused
    BY <1>0, <1>3, <1>9 DEF NoneRefused
  <2>2. Over
    BY <1>0, <1>9, <2>1 DEF PInv, Held
  <2>3. Over'
    BY <1>0, <1>2, <2>2 DEF Over
  <2> QED BY <2>3 DEF Held
<1> QED BY <1>4, <1>5, <1>6, <1>7, <1>8, <1>9 DEF PInv

-----------------------------------------------------------------------------
(* The end of a child.                                                     *)

\* The close event of a child that _spawn has let go.
LEMMA CloseDeaf ==
  ASSUME PInv, NEW c \in deaf, c \in Gone, closed' = closed \cup {c},
         UNCHANGED <<mp, call, proc, deaf, starting, byTimer, target, registered>>
  PROVE  PInv'
<1>1. Used' = Used /\ Gone' = Gone
  BY DEF Used, Gone
<1>2. mp.child # c
  BY DEF PInv, ChildKnown
<1>3. /\ MPOK(mp') /\ ProcOK' /\ CallOK' /\ Numbered' /\ Untouched' /\ Begun' /\ ChildKnown'
      /\ StopsKnown'
  BY <1>1, <1>2 DEF PInv, ProcOK, CallOK, Numbered, Untouched, Begun, ChildKnown, StopsKnown
<1>4. (Undisturbed' => Undisturbed) /\ (NoneRefused' => NoneRefused) /\ (Over => Over')
  BY <1>1 DEF Undisturbed, NoneRefused, Over
<1>5. Tracked => Tracked'
  BY <1>1 DEF Tracked, Active
<1>6. Held => Held'
  BY <1>1, <1>4 DEF Held
<1> QED BY <1>3, <1>4, <1>5, <1>6 DEF PInv

\* The close event of the child: a stop() body that waits for it ends, and otherwise
\* none is under way when a restart is scheduled.
LEMMA ClosePInv ==
  ASSUME PInv, NEW c \in Spawns, Close(c)
  PROVE  PInv'
<1> DEFINE waiting == {k \in Callers : call[k] \in {"grace", "safety"} /\ target[k] = c}
           m == OnExit(mp, proc[c])
           n == IF waiting = {} THEN m ELSE AfterWait(m)
<1>0. /\ c \in Gone /\ c \notin closed /\ closed' = closed \cup {c}
      /\ UNCHANGED <<proc, deaf, starting, byTimer, target, registered>>
      /\ IF c \in deaf THEN UNCHANGED <<mp, call>> ELSE mp' = n /\ Wake(n, waiting)
  BY DEF Close
<1>1. CASE c \in deaf
  BY <1>0, <1>1, CloseDeaf
<1>2. CASE c \notin deaf
  <2>0. /\ Used' = Used /\ Gone' = Gone /\ c \in Used /\ Used # {}
        /\ call \in [Callers -> CallStates]
    BY <1>0, Parts DEF Used, Gone
  <2>1. \/ Becomes(mp, m, "dead", NoChild, {}, Res(mp.stopPromise))
        \/ /\ Becomes(mp, m, "exited", mp.child, {RestartTimer}, mp.stopPromise)
           /\ mp.state # "stopping"
    BY Parts, OnExitFacts
  <2>2. MPOK(m) /\ m.killFailed = mp.killFailed /\ mp.killFailed \in BOOLEAN
    BY <2>1, Parts DEF Becomes
  <2>3. mp' = n /\ Wake(mp', waiting) /\ (waiting = {} => mp' = m) /\ (waiting # {} => mp' = AfterWait(m))
    BY <1>0, <1>2
  <2>4. ASSUME waiting # {}
        PROVE  \/ KilledInVain(m, mp') /\ mp.killFailed
               \/ Becomes(m, mp', "dead", NoChild, {}, Res(m.stopPromise)) /\ ~mp.killFailed
    BY <2>2, <2>3, <2>4, AfterWaitFacts
  <2> DEFINE ends == Becomes(mp, mp', "dead", NoChild, {}, Res(mp.stopPromise))
             fails == /\ waiting # {} /\ mp.killFailed /\ mp'.killFailed /\ MPOK(mp')
                      /\ mp'.spec = mp.spec /\ mp'.state = "failed"
                      /\ mp'.child \in {mp.child, NoChild} /\ mp'.timers \subseteq {RestartTimer}
                      /\ mp'.stopPromise = Res(mp.stopPromise)
             again == /\ Becomes(mp, mp', "exited", mp.child, {RestartTimer}, mp.stopPromise)
                      /\ mp.state # "stopping" /\ waiting = {}
  <2> HIDE DEF m, n
  <2>5. Res(Res(mp.stopPromise)) = Res(mp.stopPromise)
    BY DEF Res
  <2>6. ends \/ fails \/ again
    <3>1. CASE waiting = {}
      BY <2>1, <2>3, <3>1
    <3>2. CASE waiting # {}
      <4>1. /\ m.spec = mp.spec /\ m.child \in {mp.child, NoChild} /\ m.timers \subseteq {RestartTimer}
            /\ m.stopPromise \in {mp.stopPromise, Res(mp.stopPromise)} /\ m.killFailed = mp.killFailed
        BY <2>1 DEF Becomes
      <4>2. Res(m.stopPromise) = Res(mp.stopPromise)
        BY <2>5, <4>1
      <4> QED BY <2>4, <3>2, <4>1, <4>2 DEF KilledInVain, Becomes
    <3> QED BY <3>1, <3>2
  <2>7. /\ call' \in [Callers -> CallStates]
        /\ \A j \in Callers : call'[j] = IF call[j] = "awaiting" \/ j \in waiting
                                         THEN IF mp'.stopPromise = "pending" THEN "awaiting" ELSE "ready"
                                         ELSE call[j]
    BY <2>3, WakeFacts
  <2>8. /\ \A j \in waiting : j \in Callers /\ call[j] \in {"grace", "safety"} /\ target[j] = c
        /\ \A j \in Callers : call[j] \in {"grace", "safety"} /\ target[j] = c => j \in waiting
    OBVIOUS
  <2> HIDE DEF waiting
  <2>9. /\ MPOK(mp') /\ mp'.spec = mp.spec /\ mp'.killFailed = mp.killFailed
        /\ mp'.child \in {mp.child, NoChild} /\ mp'.timers \subseteq {RestartTimer}
        /\ mp'.state \in {"dead", "failed", "exited"}
        /\ waiting # {} => mp'.stopPromise # "pending"
    BY <2>2, <2>6 DEF Becomes, Res
  <2> HIDE DEF ends, fails, again
  <2>10. \A j \in Callers : /\ Active(j)' => Active(j) /\ j \notin waiting /\ call'[j] = call[j]
                            /\ call'[j] = "awaiting" => call[j] = "awaiting" /\ mp'.stopPromise = "pending"
                            /\ call'[j] = "ready" => \/ call[j] = "ready" \/ j \in waiting
                                                     \/ call[j] = "awaiting" /\ mp'.stopPromise # "pending"
    BY <2>7, <2>8, <2>9 DEF Active
  <2>11. /\ ProcOK' /\ CallOK' /\ Numbered' /\ Untouched' /\ Begun'
    <3>1. \A d \in Spawns : AttemptTimer(d) \notin mp'.timers
      BY <2>9, TimerNames
    <3> QED BY <1>0, <2>0, <2>7, <2>9, <3>1
            DEF PInv, ProcOK, CallOK, Numbered, Untouched, Begun
  <2>12. ChildKnown'
    <3>1. NoChild \notin deaf
      BY Parts
    <3> QED BY <1>0, <2>0, <2>9, <3>1 DEF PInv, ChildKnown
  <2>13. StopsKnown'
    <3>1. ASSUME mp.killFailed PROVE \E j \in Callers : call'[j] \in {"ready", "refused", "safety"}
      <4>1. PICK j \in Callers : call[j] \in {"ready", "refused", "safety"}
        BY <3>1 DEF PInv, StopsKnown
      <4> QED BY <2>7, <2>8, <2>9, <4>1
    <3>2. \A j \in Callers : call'[j] = "preStop" => call[j] = "preStop"
      BY <2>7
    <3> QED BY <2>9, <3>1, <3>2 DEF PInv, StopsKnown
  <2>14. (Undisturbed' => Undisturbed) /\ (NoneRefused' => NoneRefused)
    <3>1. \A j \in Callers : /\ call'[j] = "idle" => call[j] = "idle"
                             /\ call[j] = "refused" => call'[j] = "refused"
      BY <2>7, <2>8
    <3> QED BY <2>9, <3>1 DEF Undisturbed, NoneRefused, Callers
  <2>15. ASSUME Undisturbed
         PROVE  /\ Tracked /\ mp.child = c /\ Used' \subseteq closed'
                /\ mp.state # "dead"
                /\ again => \A j \in Callers : ~Active(j)
    <3>1. Tracked
      BY <2>15 DEF PInv
    <3>2. mp.child = c /\ Used' \subseteq closed' /\ mp.state # "dead" /\ c # NoChild
      BY <1>0, <2>0, <3>1, Parts DEF Tracked
    <3>3. ASSUME again, NEW j \in Callers, Active(j) PROVE FALSE
      <4>1. call[j] # "preStop"
        BY <3>1, <3>2, <3>3 DEF Tracked, again
      <4>2. target[j] = c
        BY <3>1, <3>2, <3>3 DEF Tracked
      <4> QED BY <2>8, <3>3, <4>1, <4>2 DEF Active, again
    <3> QED BY <3>1, <3>2, <3>3
  <2>16. ASSUME Undisturbed PROVE Tracked'
    <3>1. \A j \in Callers : Active(j)' \/ call'[j] = "awaiting" => mp'.stopPromise # "none"
      <4>1. mp.stopPromise # "none" => mp'.stopPromise # "none"
        BY <2>6 DEF ends, fails, again, Becomes, Res
      <4> QED BY <2>10, <2>15, <2>16, <4>1 DEF Tracked
    <3>2. \A j, k \in Callers : Active(j)' /\ Active(k)' => j = k
      BY <2>10, <2>15, <2>16 DEF Tracked
    <3>3. RestartTimer \in mp'.timers => mp'.state \in {"exited", "failed"}
      BY <2>6 DEF ends, fails, again, Becomes
    <3>4. \A j \in Callers : Active(j)' => ends
      <4>1. ASSUME NEW j \in Callers, Active(j)', fails PROVE FALSE
        <5>1. PICK i \in Callers : i \in waiting /\ Active(i)
          BY <2>8, <4>1 DEF fails, Active
        <5>2. i = j
          BY <2>10, <2>15, <2>16, <4>1, <5>1 DEF Tracked
        <5> QED BY <2>10, <4>1, <5>1, <5>2
      <4> QED BY <2>6, <2>10, <2>15, <2>16, <4>1
    <3>5. \A j \in Callers : Active(j)' => /\ mp'.child \in {target'[j], NoChild}
                                           /\ RestartTimer \notin mp'.timers /\ mp'.state = "dead"
      BY <3>4 DEF ends, Becomes
    <3>6. \A j \in Callers : call'[j] = "preStop" =>
            /\ mp'.state \in {"stopping", "dead"}
            /\ \A d \in Spawns : proc'[d] # "spawning" /\ starting'[d] # "erroring"
      <4>1. \A j \in Callers : call'[j] = "preStop" => Active(j)' /\ call[j] = "preStop"
        BY <2>7, <2>10 DEF Active
      <4> QED BY <1>0, <2>15, <2>16, <3>5, <4>1 DEF Tracked
    <3> QED BY <2>15, <2>16, <3>1, <3>2, <3>3, <3>5, <3>6 DEF Tracked
  <2>17. ASSUME Undisturbed, NoneRefused PROVE Held'
    <3>1. Held /\ ~Over
      BY <1>0, <2>0, <2>17 DEF PInv, Over
    <3>2. CASE ends
      <4>1. Over'
        BY <2>15, <2>17, <3>2 DEF Over, ends, Becomes
      <4> QED BY <4>1 DEF Held
    <3>3. CASE fails
      BY <1>0, <2>0, <3>1, <3>3 DEF Held, fails
    <3>4. CASE again
      <4>1. /\ mp'.stopPromise = mp.stopPromise /\ mp'.killFailed = mp.killFailed /\ waiting = {}
        BY <3>4 DEF again, Becomes
      <4>2. \A j \in Callers : call[j] = "awaiting" => mp.stopPromise # "none"
        BY <2>15, <2>17 DEF Tracked
      <4>3. mp.stopPromise \in {"none", "pending", "resolved"}
        BY Parts DEF Promises
      <4> QED BY <1>0, <2>0, <2>10, <3>1, <4>1, <4>2, <4>3 DEF Held
    <3> QED BY <2>6, <3>2, <3>3, <3>4
  <2> QED BY <2>9, <2>11, <2>12, <2>13, <2>14, <2>16, <2>17 DEF PInv
<1> QED BY <1>1, <1>2

-----------------------------------------------------------------------------
(* The theorems.                                                           *)

\* Every step keeps the invariant.
LEMMA NextPInv ==
  ASSUME PInv, [Next]_vars
  PROVE  PInv'
<1>1. CASE Start
  BY <1>1, StartPInv
<1>2. CASE RestartFires
  BY <1>2, RestartFiresPInv
<1>3. CASE ResetFires
  BY <1>3, ResetFiresPInv
<1>4. ASSUME NEW c \in Spawns, ChildStep(c) \/ StdoutMatches(c) PROVE PInv'
  BY <1>4, SpawnedPInv, SpawnErrorPInv, StartFailsPInv, StdoutCheckPInv, AttemptPInv,
     ProbeSucceedsPInv, ProbeFailsPInv, ClosePInv, StdoutMatchesPInv DEF ChildStep
<1>5. ASSUME NEW c \in Spawns, NEW how \in {"exit0", "exit1", "signalled"}, ChildExits(c, how)
      PROVE  PInv'
  BY <1>5, ChildExitsPInv
<1>6. ASSUME NEW k \in Callers, CallStep(k) PROVE PInv'
  BY <1>6, PreStopEndsPInv, GraceExpiresPInv, SafetyExpiresPInv DEF CallStep
<1>7. ASSUME NEW k \in StopCalls, CallStop(k) \/ StopReturns(k) PROVE PInv'
  BY <1>7, CallStopPInv, StopReturnsPInv DEF Callers
<1>8. ASSUME NEW k \in RestartCalls, CallRestart(k) \/ RestartReturns(k) PROVE PInv'
  BY <1>8, CallStopPInv, RestartReturnsPInv DEF Callers, CallRestart
<1>9. CASE UNCHANGED vars
  <2>1. UNCHANGED <<mp, proc, closed, deaf, starting, byTimer, call, target, registered>>
    BY <1>9 DEF vars
  <2>2. Used' = Used /\ Gone' = Gone
    BY <2>1 DEF Used, Gone
  <2> QED BY <2>1, <2>2 DEF PInv, ProcOK, CallOK, Numbered, Untouched, Begun, ChildKnown, StopsKnown,
                            Undisturbed, NoneRefused, Tracked, Held, Active, Over
<1> QED BY <1>1, <1>2, <1>3, <1>4, <1>5, <1>6, <1>7, <1>8, <1>9 DEF Next

\* The invariant holds whatever the specifications, the calls and the number of spawns.
THEOREM ProcessInvariance == Spec => []PInv
BY InitPInv, NextPInv, PTL DEF Spec

\* What the invariant says of the properties.
LEMMA PInvTracks ==
  ASSUME PInv
  PROVE  ChildTracked /\ StopHolds
<1>1. TypeOK
  BY TypeOKIsTyping DEF PInv
<1>2. Live \subseteq Used \ closed
  BY DEF PInv, ProcOK, Live, Used, Gone
<1>3. TracksLiveChild
  BY <1>2 DEF PInv, TracksLiveChild, NeverOrphans, Tracked
<1>4. RunningHasChild
  BY DEF PInv, RunningHasChild, ChildKnown, Untouched
<1>5. StoppedForGood
  BY <1>2 DEF PInv, StoppedForGood, StaysStopped, Held, Over
<1>6. RestartPending
  BY <1>2 DEF PInv, RestartPending, Tracked
<1> QED BY <1>1, <1>3, <1>4, <1>5, <1>6 DEF ChildTracked, StopHolds

\* A running process has a child whose end has not been handled, and an undisturbed
\* object never loses sight of a child that runs: _spawn lets go of a child only after
\* its close event, and no late event changes that.
THEOREM ChildIsTracked == Spec => []ChildTracked
BY ProcessInvariance, PInvTracks, PTL

\* A stop of an undisturbed process holds: no restart timer, close event or second
\* stop() call brings it back, and a restart is due only when no child is left.
THEOREM StopsHold == Spec => []StopHolds
BY ProcessInvariance, PInvTracks, PTL
==============================================================================
