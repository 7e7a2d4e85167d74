-------------------------- MODULE ModelCallsProofs --------------------------
(***************************************************************************)
(* Safety of the model calls for any number of calls, any chain of         *)
(* providers and any limits: slots, waiters, the budget of requests, and   *)
(* what an aborted call may still do.                                      *)
(***************************************************************************)
EXTENDS ModelCalls, FiniteSetTheorems, SequenceTheorems, TLAPS

Places == {"idle", "enter", "cooldown", "admitted", "queued", "flight", "delay", "reading", "empty"}
             \cup Settled
Attempts == 0..MaxRetries
Empties == 0..EmptyRetries
Delays == 0..(MaxDelay + Jitter)
Slots == 0..MaxConcurrent
Backoffs == 0..MaxBackoff

CallStates == [at : Places, hop : Hops, attempt : Attempts, empties : Empties, forced : BOOLEAN,
               timer : Delays, sent : Nat]
Managers == [inFlight : Slots, waitQueue : Seq(Calls), backoff : Backoffs, cooldown : Delays,
             asked : Nat]

Typed ==
  /\ call \in [Calls -> CallStates]
  /\ aborted \subseteq Calls
  /\ mgr \in [Providers -> Managers]

\* The counter of a provider counts the calls that hold its slots.
SlotsOK(p) ==
  /\ IsFiniteSet(In(p, "flight"))
  /\ mgr[p].inFlight = Cardinality(In(p, "flight"))

\* The queue of a provider lists the calls that wait for it, each once, and there is
\* one only while every slot is held.
QueueOK(p) ==
  LET q == mgr[p].waitQueue IN
  /\ \A i, j \in 1..Len(q) : q[i] = q[j] => i = j
  /\ {q[i] : i \in 1..Len(q)} = In(p, "queued")
  /\ IsFiniteSet(In(p, "queued"))
  /\ Len(q) = Cardinality(In(p, "queued"))
  /\ q # <<>> => mgr[p].inFlight = MaxConcurrent

\* A call that is to make a request has not used up its budget.
Unsent == {"idle", "enter", "cooldown", "admitted", "queued", "delay", "empty"}
Budget(c) == (MaxRetries + 1) * Rounds(c) + c.attempt
BudgetOK(c) ==
  /\ c.at \in Unsent => c.sent <= Budget(c)
  /\ c.sent <= Budget(c) + 1

\* The inductive invariant.
IInv ==
  /\ Typed
  /\ \A p \in Providers : SlotsOK(p) /\ QueueOK(p)
  /\ \A r \in Calls : BudgetOK(call[r])

-----------------------------------------------------------------------------
(* The constants and the operators of the backoff.                         *)

LEMMA Constants ==
  /\ MaxRetries \in Nat /\ EmptyRetries \in Nat /\ BaseDelay \in Nat /\ MaxDelay \in Nat
  /\ Jitter \in Nat /\ MaxBackoff \in Nat /\ MaxConcurrent \in Nat /\ MaxConcurrent # 0
  /\ Len(Chain) \in Nat /\ Len(Chain) # 0
<1>1. /\ MaxRetries \in Nat /\ EmptyRetries \in Nat /\ BaseDelay \in Nat /\ MaxDelay \in Nat
      /\ Jitter \in Nat /\ MaxBackoff \in Nat /\ MaxConcurrent \in Nat /\ MaxConcurrent # 0
  BY ModelCallsAssumption
<1>2. Len(Chain) \in Nat /\ Len(Chain) # 0
  BY ModelCallsAssumption, EmptySeq
<1> QED
  BY <1>1, <1>2

LEMMA MinOfTwo ==
  ASSUME NEW a \in Nat, NEW b \in Nat
  PROVE  Min({a, b}) = IF a <= b THEN a ELSE b
<1> DEFINE m == IF a <= b THEN a ELSE b
<1>1. m \in {a, b} /\ \A y \in {a, b} : m <= y
  OBVIOUS
<1>2. \A x \in {a, b} : (\A y \in {a, b} : x <= y) => x = m
  OBVIOUS
<1> QED
  BY <1>1, <1>2 DEF Min

LEMMA MaxOfTwo ==
  ASSUME NEW a \in Nat, NEW b \in Nat
  PROVE  Max({a, b}) = IF a >= b THEN a ELSE b
<1> DEFINE m == IF a >= b THEN a ELSE b
<1>1. m \in {a, b} /\ \A y \in {a, b} : m >= y
  OBVIOUS
<1>2. \A x \in {a, b} : (\A y \in {a, b} : x >= y) => x = m
  OBVIOUS
<1> QED
  BY <1>1, <1>2 DEF Max

\* The delay of the backoff never exceeds the configured maximum and its jitter.
LEMMA DelayBounded ==
  ASSUME NEW n \in Backoffs, NEW jitter \in 0..Jitter
  PROVE  BackoffDelay(n, jitter, 0) \in Delays
<1> DEFINE grown == BaseDelay * 2^n
           cut == Min({MaxDelay, grown})
<1>1. grown \in Nat
  <2>1. 2^n \in Nat
    BY ModelCallsAssumption DEF Backoffs
  <2> DEFINE power == 2^n
  <2> HIDE DEF power
  <2>2. power \in Nat
    BY <2>1 DEF power
  <2>3. BaseDelay * power \in Nat
    BY <2>2, Constants
  <2> QED
    BY <2>3 DEF power
<1> HIDE DEF grown
<1>2. cut \in Nat /\ cut <= MaxDelay
  BY <1>1, Constants, MinOfTwo
<1> HIDE DEF cut
<1>3. cut + jitter \in Delays /\ cut + jitter \in Nat
  BY <1>2, Constants DEF Delays
<1>4. Max({cut + jitter, 0}) = cut + jitter
  BY <1>3, MaxOfTwo
<1> QED
  BY <1>3, <1>4 DEF BackoffDelay, cut, grown

LEMMA BackoffBounded ==
  ASSUME NEW n \in Backoffs
  PROVE  Min({n + 1, MaxBackoff}) \in Backoffs
  BY Constants, MinOfTwo DEF Backoffs

LEMMA SmallFacts ==
  /\ 0 \in Attempts /\ 0 \in Empties /\ 0 \in Delays /\ 0 \in Slots /\ 0 \in Backoffs
  /\ 1 \in Hops /\ (\A h \in Hops : h < Len(Chain) => h + 1 \in Hops)
  /\ \A n \in Attempts : n \in Nat /\ n <= MaxRetries /\ (n < MaxRetries => n + 1 \in Attempts)
  /\ \A n \in Empties : n \in Nat /\ (n < EmptyRetries => n + 1 \in Empties)
  /\ \A n \in Delays : Less(n) \in Delays
  /\ \A h \in Hops : Chain[h] \in Providers
<1>1. /\ 0 \in Attempts /\ 0 \in Empties /\ 0 \in Delays /\ 0 \in Slots /\ 0 \in Backoffs
  BY Constants DEF Attempts, Empties, Delays, Slots, Backoffs
<1>2. 1 \in Hops /\ (\A h \in Hops : h < Len(Chain) => h + 1 \in Hops)
  BY Constants DEF Hops
<1>3. \A n \in Attempts : n \in Nat /\ n <= MaxRetries /\ (n < MaxRetries => n + 1 \in Attempts)
  BY Constants DEF Attempts
<1>4. \A n \in Empties : n \in Nat /\ (n < EmptyRetries => n + 1 \in Empties)
  BY Constants DEF Empties
<1>5. \A n \in Delays : Less(n) \in Delays
  BY Constants DEF Delays, Less
<1>6. \A h \in Hops : Chain[h] \in Providers
  BY DEF Hops, Providers
<1> QED
  BY <1>1, <1>2, <1>3, <1>4, <1>5, <1>6

-----------------------------------------------------------------------------
(* Queues without duplicates.                                              *)

Distinct(q) == \A i, j \in 1..Len(q) : q[i] = q[j] => i = j
Members(q) == {q[i] : i \in 1..Len(q)}

LEMMA TailOfQueue ==
  ASSUME NEW q \in Seq(Calls), q # <<>>, Distinct(q)
  PROVE  /\ Tail(q) \in Seq(Calls) /\ Distinct(Tail(q)) /\ Len(Tail(q)) = Len(q) - 1
         /\ Head(q) \in Members(q) /\ Members(Tail(q)) = Members(q) \ {Head(q)}
<1>1. /\ Tail(q) \in Seq(Calls) /\ Len(Tail(q)) = Len(q) - 1
      /\ \A i \in 1..Len(Tail(q)) : Tail(q)[i] = q[i + 1]
      /\ Len(q) \in Nat /\ Len(q) # 0
  BY HeadTailProperties, EmptySeq
<1>2. Head(q) = q[1]
  OBVIOUS
<1> DEFINE t == Tail(q)
<1> HIDE DEF t
<1>3. Distinct(t)
  BY <1>1 DEF Distinct, t
<1>4. Head(q) \in Members(q)
  BY <1>1, <1>2 DEF Members
<1>5. ASSUME NEW x \in Members(t) PROVE x \in Members(q) \ {Head(q)}
  <2>1. PICK i \in 1..Len(t) : x = t[i]
    BY DEF Members
  <2>2. x = q[i + 1] /\ i + 1 \in 1..Len(q) /\ i + 1 # 1 /\ 1 \in 1..Len(q)
    BY <1>1, <2>1 DEF t
  <2> QED
    BY <1>2, <2>2 DEF Members, Distinct
<1>6. ASSUME NEW x \in Members(q), x # Head(q) PROVE x \in Members(t)
  <2>1. PICK i \in 1..Len(q) : x = q[i]
    BY DEF Members
  <2>2. i # 1
    BY <1>2, <1>6, <2>1
  <2>3. i - 1 \in 1..Len(t) /\ t[i - 1] = q[i]
    BY <1>1, <2>1, <2>2 DEF t
  <2> QED
    BY <2>1, <2>3 DEF Members
<1> QED
  BY <1>1, <1>3, <1>4, <1>5, <1>6 DEF t

LEMMA AppendToQueue ==
  ASSUME NEW q \in Seq(Calls), Distinct(q), NEW r \in Calls, r \notin Members(q)
  PROVE  /\ Append(q, r) \in Seq(Calls) /\ Distinct(Append(q, r))
         /\ Len(Append(q, r)) = Len(q) + 1 /\ Append(q, r) # <<>>
         /\ Members(Append(q, r)) = Members(q) \cup {r}
<1> DEFINE a == Append(q, r)
<1>1. /\ a \in Seq(Calls) /\ a # <<>> /\ Len(a) = Len(q) + 1
      /\ \A i \in 1..Len(q) : a[i] = q[i]
      /\ a[Len(q) + 1] = r /\ Len(q) \in Nat
  BY AppendProperties
<1> HIDE DEF a
<1>2. \A i \in 1..Len(a) : i = Len(q) + 1 \/ (i \in 1..Len(q) /\ i # Len(q) + 1)
  BY <1>1
<1>3. \A i \in 1..Len(q) : q[i] # r
  BY DEF Members
<1>4. Distinct(a)
  <2> SUFFICES ASSUME NEW i \in 1..Len(a), NEW j \in 1..Len(a), a[i] = a[j] PROVE i = j
    BY DEF Distinct
  <2> QED
    BY <1>1, <1>2, <1>3 DEF Distinct
<1>5. Members(a) = Members(q) \cup {r}
  <2>1. \A x \in Members(a) : x \in Members(q) \cup {r}
    BY <1>1, <1>2 DEF Members
  <2>2. \A x \in Members(q) : x \in Members(a)
    BY <1>1 DEF Members
  <2>3. r \in Members(a)
    <3>1. Len(q) + 1 \in 1..Len(a)
      BY <1>1
    <3> QED
      BY <1>1, <3>1 DEF Members
  <2> QED
    BY <2>1, <2>2, <2>3
<1> QED
  BY <1>1, <1>4, <1>5 DEF a

-----------------------------------------------------------------------------
(* Steps by what they do to the slots and the queues.                      *)

LEMMA InitIInv == Init => IInv
<1> SUFFICES ASSUME Init PROVE IInv
  OBVIOUS
<1> DEFINE c0 == [at |-> "idle", hop |-> 1, attempt |-> 0, empties |-> 0, forced |-> FALSE,
                  timer |-> 0, sent |-> 0]
           m0 == [inFlight |-> 0, waitQueue |-> <<>>, backoff |-> 0, cooldown |-> 0, asked |-> 0]
<1>1. /\ c0 \in CallStates /\ c0.at = "idle" /\ c0.attempt = 0 /\ c0.empties = 0 /\ c0.sent = 0
      /\ c0.forced = FALSE
  BY SmallFacts DEF CallStates, Places
<1>2. m0 \in Managers /\ m0.inFlight = 0 /\ m0.waitQueue = <<>>
  BY SmallFacts DEF Managers
<1>3. call = [r \in Calls |-> c0] /\ aborted = {} /\ mgr = [p \in Providers |-> m0]
  BY DEF Init
<1> HIDE DEF c0, m0
<1>4. Typed
  BY <1>1, <1>2, <1>3 DEF Typed
<1>5. ASSUME NEW p \in Providers PROVE SlotsOK(p) /\ QueueOK(p)
  <2>1. In(p, "flight") = {} /\ In(p, "queued") = {}
    BY <1>1, <1>3 DEF In
  <2>2. mgr[p].inFlight = 0 /\ mgr[p].waitQueue = <<>>
    BY <1>2, <1>3
  <2>3. IsFiniteSet({}) /\ Cardinality({}) = 0
    BY FS_EmptySet
  <2>4. Len(<<>>) = 0 /\ 1..0 = {}
    OBVIOUS
  <2> QED
    BY <2>1, <2>2, <2>3, <2>4 DEF SlotsOK, QueueOK
<1>6. BudgetOK(c0)
  BY <1>1, Constants DEF BudgetOK, Budget, Rounds
<1> QED
  BY <1>3, <1>4, <1>5, <1>6 DEF IInv

\* A provider whose calls in flight and in the queue stay as they are.
LEMMA ProviderKept ==
  ASSUME NEW p, SlotsOK(p), QueueOK(p),
         In(p, "flight")' = In(p, "flight"), In(p, "queued")' = In(p, "queued"),
         mgr'[p].inFlight = mgr[p].inFlight, mgr'[p].waitQueue = mgr[p].waitQueue
  PROVE  SlotsOK(p)' /\ QueueOK(p)'
<1>1. SlotsOK(p)'
  BY DEF SlotsOK
<1>2. QueueOK(p)'
  BY DEF QueueOK
<1> QED
  BY <1>1, <1>2

\* A provider whose queue is another one.
LEMMA QueueBuilt ==
  ASSUME NEW p, NEW q, mgr'[p].waitQueue = q, Distinct(q), Members(q) = In(p, "queued")',
         IsFiniteSet(In(p, "queued")'), Len(q) = Cardinality(In(p, "queued")'),
         q # <<>> => mgr'[p].inFlight = MaxConcurrent
  PROVE  QueueOK(p)'
  BY DEF QueueOK, Distinct, Members

LEMMA OneCall ==
  ASSUME Typed, NEW r \in Calls, NEW c \in CallStates, call' = [call EXCEPT ![r] = c]
  PROVE  /\ call' \in [Calls -> CallStates] /\ call'[r] = c
         /\ \A q \in Calls : q # r => call'[q] = call[q]
  BY DEF Typed

\* A call moves that neither holds a slot nor waits for one, before or after.
LEMMA QuietStep ==
  ASSUME IInv, NEW r \in Calls, NEW c \in CallStates, call' = [call EXCEPT ![r] = c],
         call[r].at \notin {"flight", "queued"}, c.at \notin {"flight", "queued"}, BudgetOK(c),
         aborted' \subseteq Calls, mgr' \in [Providers -> Managers],
         \A p \in Providers : /\ mgr'[p].inFlight = mgr[p].inFlight
                              /\ mgr'[p].waitQueue = mgr[p].waitQueue
  PROVE  IInv'
<1>1. /\ call' \in [Calls -> CallStates] /\ call'[r] = c
      /\ \A q \in Calls : q # r => call'[q] = call[q]
  BY OneCall DEF IInv
<1>2. Typed'
  BY <1>1 DEF Typed
<1>3. \A p : In(p, "flight")' = In(p, "flight") /\ In(p, "queued")' = In(p, "queued")
  BY <1>1 DEF In, ProviderOf
<1>4. \A p \in Providers : SlotsOK(p)' /\ QueueOK(p)'
  BY <1>3, ProviderKept DEF IInv
<1>5. \A q \in Calls : BudgetOK(call[q])'
  <2>1. \A q \in Calls : BudgetOK(call'[q])
    BY <1>1 DEF IInv
  <2> QED
    BY <2>1 DEF BudgetOK, Budget, Rounds
<1> QED
  BY <1>2, <1>4, <1>5 DEF IInv

\* The provider of a call is one of the chain's.
LEMMA ProviderKnown ==
  ASSUME Typed, NEW r \in Calls
  PROVE  ProviderOf(r) \in Providers /\ mgr[ProviderOf(r)] \in Managers
  BY SmallFacts DEF Typed, CallStates, ProviderOf

LEMMA RoundsCounted ==
  ASSUME NEW c \in CallStates
  PROVE  Rounds(c) \in Nat
<1>1. c.empties \in Nat
  BY SmallFacts DEF CallStates
<1>2. CASE c.forced
  BY <1>1, <1>2 DEF Rounds
<1>3. CASE ~c.forced
  BY <1>1, <1>3 DEF Rounds
<1> QED
  BY <1>2, <1>3

\* The record of a call whose request goes out.
LEMMA SentCall ==
  ASSUME NEW c \in CallStates, c.at \in Unsent, BudgetOK(c)
  PROVE  Sent(c) \in CallStates /\ Sent(c).at = "flight" /\ Sent(c).hop = c.hop /\ BudgetOK(Sent(c))
<1> DEFINE n == c.sent + 1
           d == [c EXCEPT !.at = "flight", !.sent = n]
<1>1. n \in Nat /\ "flight" \in Places
  BY DEF CallStates, Places
<1>2. n <= Budget(c) + 1
  <2>1. Rounds(c) \in Nat /\ c.attempt \in Nat
    BY RoundsCounted, SmallFacts DEF CallStates
  <2>2. Budget(c) \in Nat /\ c.sent <= Budget(c)
    BY <2>1, Constants DEF BudgetOK, Budget
  <2> QED
    BY <2>2 DEF CallStates
<1>3. Sent(c) = d
  BY DEF Sent, CallStates
<1> HIDE DEF n
<1>4. /\ d \in CallStates /\ d.at = "flight" /\ d.hop = c.hop /\ d.sent = n
      /\ d.attempt = c.attempt /\ d.empties = c.empties /\ d.forced = c.forced
  BY <1>1 DEF CallStates
<1> HIDE DEF d
<1>5. BudgetOK(d)
  BY <1>2, <1>4 DEF BudgetOK, Budget, Rounds, Unsent
<1> QED
  BY <1>3, <1>4, <1>5

\* A call gives its slot back: to nobody, or to the first that waits.
LEMMA ReleaseStep ==
  ASSUME IInv, NEW r \in Calls, NEW p, p = ProviderOf(r), call[r].at = "flight",
         NEW c \in CallStates, c.at \notin {"flight", "queued"}, BudgetOK(c),
         NEW n \in Managers, mgr' = [mgr EXCEPT ![p] = n],
         n.inFlight = IF mgr[p].waitQueue = <<>> THEN mgr[p].inFlight - 1 ELSE mgr[p].inFlight,
         n.waitQueue = IF mgr[p].waitQueue = <<>> THEN <<>> ELSE Tail(mgr[p].waitQueue),
         call' = Woken(p, [call EXCEPT ![r] = c]), aborted' = aborted
  PROVE  /\ IInv'
         /\ call'[r] = c
         /\ \A q \in Calls : q # r => call'[q].hop = call[q].hop
                                      /\ (call'[q].at = call[q].at \/ call'[q].at = "flight")
<1> DEFINE wq == mgr[p].waitQueue
           fl == In(p, "flight")
           qu == In(p, "queued")
<1>1. p \in Providers /\ wq \in Seq(Calls) /\ Typed
  BY ProviderKnown DEF IInv, Managers
<1>2. mgr'[p] = n /\ mgr' \in [Providers -> Managers] /\ \A o \in Providers : o # p => mgr'[o] = mgr[o]
  BY <1>1 DEF Typed
<1>3. /\ IsFiniteSet(fl) /\ mgr[p].inFlight = Cardinality(fl) /\ r \in fl
      /\ Distinct(wq) /\ Members(wq) = qu /\ IsFiniteSet(qu) /\ Len(wq) = Cardinality(qu)
      /\ wq # <<>> => mgr[p].inFlight = MaxConcurrent
  BY <1>1 DEF IInv, SlotsOK, QueueOK, In, Distinct, Members
<1>4. IsFiniteSet(fl \ {r}) /\ Cardinality(fl \ {r}) = Cardinality(fl) - 1 /\ Cardinality(fl) \in Nat
  BY <1>3, FS_RemoveElement, FS_CardinalityType
<1>5. CASE wq = <<>>
  <2>1. /\ call' \in [Calls -> CallStates] /\ call'[r] = c
        /\ \A q \in Calls : q # r => call'[q] = call[q]
    BY <1>1, <1>5, OneCall DEF Woken
  <2>2. /\ fl' = fl \ {r} /\ qu' = qu
        /\ \A o \in Providers : o # p => /\ In(o, "flight")' = In(o, "flight")
                                         /\ In(o, "queued")' = In(o, "queued")
    <3>1. ASSUME NEW o PROVE /\ In(o, "flight")' = In(o, "flight") \ {r}
                             /\ In(o, "queued")' = In(o, "queued")
      BY <2>1 DEF In, ProviderOf
    <3>2. \A o : o # p => r \notin In(o, "flight")
      BY DEF In
    <3> QED
      BY <3>1, <3>2
  <2>3. SlotsOK(p)'
    BY <1>2, <1>3, <1>4, <1>5, <2>2 DEF SlotsOK
  <2>4. QueueOK(p)'
    BY <1>2, <1>3, <1>5, <2>2 DEF QueueOK, Members
  <2>5. \A o \in Providers : o # p => SlotsOK(o)' /\ QueueOK(o)'
    BY <1>2, <2>2, ProviderKept DEF IInv
  <2>6. \A q \in Calls : BudgetOK(call[q])'
    <3>1. \A q \in Calls : BudgetOK(call'[q])
      BY <2>1 DEF IInv
    <3> QED
      BY <3>1 DEF BudgetOK, Budget, Rounds
  <2> QED
    BY <1>1, <1>2, <2>1, <2>3, <2>4, <2>5, <2>6 DEF IInv, Typed
<1>6. CASE wq # <<>>
  <2> DEFINE w == Head(wq)
             d == Sent(call[w])
  <2>1. /\ Tail(wq) \in Seq(Calls) /\ Distinct(Tail(wq)) /\ Len(Tail(wq)) = Len(wq) - 1
        /\ w \in Members(wq) /\ Members(Tail(wq)) = Members(wq) \ {w}
    BY <1>1, <1>3, <1>6, TailOfQueue
  <2>2. w \in qu /\ w \in Calls /\ call[w].at = "queued" /\ ProviderOf(w) = p /\ w # r
    BY <1>3, <2>1 DEF In
  <2>3. d \in CallStates /\ d.at = "flight" /\ d.hop = call[w].hop /\ BudgetOK(d)
    BY <1>1, <2>2, SentCall DEF IInv, Typed, Unsent
  <2>4. call' = [[call EXCEPT ![r] = c] EXCEPT ![w] = d]
    <3> DEFINE C == [call EXCEPT ![r] = c]
    <3>1. C[w] = call[w]
      BY <1>1, <2>2 DEF Typed
    <3>2. call' = Woken(p, C)
      OBVIOUS
    <3> HIDE DEF C
    <3>3. call' = [C EXCEPT ![w] = Sent(C[w])]
      BY <1>6, <3>2 DEF Woken
    <3> QED
      BY <3>1, <3>3 DEF C
  <2> HIDE DEF d, w
  <2>5. /\ call' \in [Calls -> CallStates] /\ call'[r] = c /\ call'[w] = d
        /\ \A q \in Calls : q # r /\ q # w => call'[q] = call[q]
    BY <1>1, <2>2, <2>3, <2>4 DEF Typed
  <2>6. /\ fl' = (fl \ {r}) \cup {w} /\ qu' = qu \ {w}
        /\ \A o \in Providers : o # p => /\ In(o, "flight")' = In(o, "flight")
                                         /\ In(o, "queued")' = In(o, "queued")
    <3>1. ASSUME NEW o, NEW x \in Calls
          PROVE  /\ x \in In(o, "flight")' <=> (x \in In(o, "flight") /\ x # r) \/ (x = w /\ o = p)
                 /\ x \in In(o, "queued")' <=> x \in In(o, "queued") /\ x # w
      <4>1. CASE x = r
        BY <2>2, <2>5, <4>1 DEF In, ProviderOf
      <4>2. CASE x = w
        BY <2>2, <2>3, <2>5, <4>2 DEF In, ProviderOf
      <4>3. CASE x # r /\ x # w
        BY <2>5, <4>3 DEF In, ProviderOf
      <4> QED
        BY <4>1, <4>2, <4>3
    <3>2. \A o : o # p => r \notin In(o, "flight") /\ w \notin In(o, "queued")
      BY <2>2 DEF In
    <3>3. \A o : /\ In(o, "flight") \subseteq Calls /\ In(o, "flight")' \subseteq Calls
                 /\ In(o, "queued") \subseteq Calls /\ In(o, "queued")' \subseteq Calls
      BY DEF In
    <3>4. fl' = (fl \ {r}) \cup {w}
      BY <2>2, <3>1, <3>3
    <3>5. qu' = qu \ {w}
      BY <3>1, <3>3
    <3>6. ASSUME NEW o \in Providers, o # p
          PROVE  In(o, "flight")' = In(o, "flight") /\ In(o, "queued")' = In(o, "queued")
      BY <3>1, <3>2, <3>3, <3>6
    <3> QED
      BY <3>4, <3>5, <3>6
  <2>7. SlotsOK(p)'
    <3>1. w \notin fl \ {r}
      BY <2>2 DEF In
    <3>2. IsFiniteSet(fl') /\ Cardinality(fl') = Cardinality(fl)
      BY <1>4, <2>6, <3>1, FS_AddElement
    <3> QED
      BY <1>2, <1>3, <1>6, <3>2 DEF SlotsOK
  <2>8. QueueOK(p)'
    <3>1. IsFiniteSet(qu') /\ Cardinality(qu') = Cardinality(qu) - 1
      BY <1>3, <2>2, <2>6, FS_RemoveElement
    <3>2. mgr'[p].waitQueue = Tail(wq) /\ mgr'[p].inFlight = MaxConcurrent
      BY <1>2, <1>3, <1>6
    <3>3. Distinct(Tail(wq)) /\ Members(Tail(wq)) = qu' /\ Len(Tail(wq)) = Cardinality(qu')
      BY <1>3, <2>1, <2>6, <3>1
    <3> QED
      BY <3>1, <3>2, <3>3, QueueBuilt
  <2>9. \A o \in Providers : o # p => SlotsOK(o)' /\ QueueOK(o)'
    BY <1>2, <2>6, ProviderKept DEF IInv
  <2>10. \A q \in Calls : BudgetOK(call[q])'
    <3>1. \A q \in Calls : BudgetOK(call'[q])
      BY <2>3, <2>5 DEF IInv
    <3> QED
      BY <3>1 DEF BudgetOK, Budget, Rounds
  <2> QED
    BY <1>1, <1>2, <2>3, <2>5, <2>7, <2>8, <2>9, <2>10 DEF IInv, Typed
<1> QED
  BY <1>5, <1>6

\* A call takes a free slot.
LEMMA TakeStep ==
  ASSUME IInv, NEW r \in Calls, NEW p, p = ProviderOf(r), call[r].at = "admitted",
         mgr[p].inFlight < MaxConcurrent,
         mgr' = [mgr EXCEPT ![p] = [mgr[p] EXCEPT !.inFlight = mgr[p].inFlight + 1]],
         call' = [call EXCEPT ![r] = Sent(call[r])],
         aborted' = aborted
  PROVE  IInv'
<1> DEFINE d == Sent(call[r])
           k == mgr[p].inFlight + 1
           n == [mgr[p] EXCEPT !.inFlight = k]
           fl == In(p, "flight")
<1>1. p \in Providers /\ mgr[p] \in Managers /\ Typed
  BY ProviderKnown DEF IInv
<1>2. k \in Slots
  BY <1>1, Constants DEF Managers, Slots
<1>3. d \in CallStates /\ d.at = "flight" /\ d.hop = call[r].hop /\ BudgetOK(d)
  BY <1>1, SentCall DEF IInv, Typed, Unsent
<1>4. mgr' = [mgr EXCEPT ![p] = n] /\ call' = [call EXCEPT ![r] = d]
  OBVIOUS
<1> HIDE DEF k, d
<1>5. n \in Managers /\ n.inFlight = k /\ n.waitQueue = mgr[p].waitQueue
  BY <1>1, <1>2 DEF Managers
<1> HIDE DEF n
<1>6. /\ mgr'[p] = n /\ mgr' \in [Providers -> Managers]
      /\ \A o \in Providers : o # p => mgr'[o] = mgr[o]
  BY <1>1, <1>4, <1>5 DEF Typed
<1>7. /\ call' \in [Calls -> CallStates] /\ call'[r] = d
      /\ \A q \in Calls : q # r => call'[q] = call[q]
  BY <1>1, <1>3, <1>4, OneCall
<1>8. /\ fl' = fl \cup {r} /\ r \notin fl /\ In(p, "queued")' = In(p, "queued")
      /\ \A o \in Providers : o # p => /\ In(o, "flight")' = In(o, "flight")
                                       /\ In(o, "queued")' = In(o, "queued")
  BY <1>3, <1>7 DEF In, ProviderOf
<1>9. SlotsOK(p)'
  <2>1. IsFiniteSet(fl) /\ mgr[p].inFlight = Cardinality(fl)
    BY <1>1 DEF IInv, SlotsOK
  <2>2. IsFiniteSet(fl') /\ Cardinality(fl') = Cardinality(fl) + 1
    BY <1>8, <2>1, FS_AddElement
  <2> QED
    BY <1>5, <1>6, <2>1, <2>2 DEF SlotsOK, k
<1>10. QueueOK(p)'
  <2>1. mgr[p].waitQueue = <<>>
    BY <1>1, Constants DEF IInv, QueueOK, Managers, Slots
  <2> QED
    BY <1>1, <1>5, <1>6, <1>8, <2>1 DEF IInv, QueueOK
<1>11. \A o \in Providers : o # p => SlotsOK(o)' /\ QueueOK(o)'
  BY <1>6, <1>8, ProviderKept DEF IInv
<1>12. \A q \in Calls : BudgetOK(call[q])'
  <2>1. \A q \in Calls : BudgetOK(call'[q])
    BY <1>3, <1>7 DEF IInv
  <2> QED
    BY <2>1 DEF BudgetOK, Budget, Rounds
<1> QED
  BY <1>1, <1>6, <1>7, <1>9, <1>10, <1>11, <1>12 DEF IInv, Typed

\* A call joins the queue.
LEMMA JoinStep ==
  ASSUME IInv, NEW r \in Calls, NEW p, p = ProviderOf(r), call[r].at = "admitted",
         mgr[p].inFlight >= MaxConcurrent,
         mgr' = [mgr EXCEPT ![p] = [mgr[p] EXCEPT !.waitQueue = Append(mgr[p].waitQueue, r)]],
         call' = [call EXCEPT ![r] = [call[r] EXCEPT !.at = "queued"]],
         aborted' = aborted
  PROVE  IInv'
<1> DEFINE d == [call[r] EXCEPT !.at = "queued"]
           wq == mgr[p].waitQueue
           q2 == Append(wq, r)
           n == [mgr[p] EXCEPT !.waitQueue = q2]
           qu == In(p, "queued")
<1>1. p \in Providers /\ mgr[p] \in Managers /\ Typed /\ wq \in Seq(Calls)
  BY ProviderKnown DEF IInv, Managers
<1>2. /\ Distinct(wq) /\ Members(wq) = qu /\ IsFiniteSet(qu) /\ Len(wq) = Cardinality(qu)
      /\ r \notin qu
  BY <1>1 DEF IInv, QueueOK, Distinct, Members, In
<1>3. /\ q2 \in Seq(Calls) /\ Distinct(q2) /\ Len(q2) = Len(wq) + 1 /\ q2 # <<>>
      /\ Members(q2) = Members(wq) \cup {r}
  BY <1>1, <1>2, AppendToQueue
<1>4. /\ d \in CallStates /\ d.at = "queued" /\ d.hop = call[r].hop /\ d.sent = call[r].sent
      /\ d.attempt = call[r].attempt /\ d.empties = call[r].empties
      /\ d.forced = call[r].forced
  BY <1>1 DEF Typed, CallStates, Places
<1>5. BudgetOK(d)
  <2>1. BudgetOK(call[r])
    BY DEF IInv
  <2> HIDE DEF d
  <2> QED
    BY <1>4, <2>1 DEF BudgetOK, Budget, Rounds, Unsent
<1>6. mgr' = [mgr EXCEPT ![p] = n] /\ call' = [call EXCEPT ![r] = d]
  OBVIOUS
<1> HIDE DEF d, q2
<1>7. n \in Managers /\ n.inFlight = mgr[p].inFlight /\ n.waitQueue = q2
  BY <1>1, <1>3 DEF Managers
<1> HIDE DEF n
<1>8. /\ mgr'[p] = n /\ mgr' \in [Providers -> Managers]
      /\ \A o \in Providers : o # p => mgr'[o] = mgr[o]
  BY <1>1, <1>6, <1>7 DEF Typed
<1>9. /\ call' \in [Calls -> CallStates] /\ call'[r] = d
      /\ \A q \in Calls : q # r => call'[q] = call[q]
  BY <1>1, <1>4, <1>6, OneCall
<1>10. /\ qu' = qu \cup {r} /\ In(p, "flight")' = In(p, "flight")
       /\ \A o \in Providers : o # p => /\ In(o, "flight")' = In(o, "flight")
                                        /\ In(o, "queued")' = In(o, "queued")
  BY <1>4, <1>9 DEF In, ProviderOf
<1>11. SlotsOK(p)'
  BY <1>1, <1>7, <1>8, <1>10 DEF IInv, SlotsOK
<1>12. QueueOK(p)'
  <2>1. IsFiniteSet(qu') /\ Cardinality(qu') = Cardinality(qu) + 1
    BY <1>2, <1>10, FS_AddElement
  <2>2. mgr[p].inFlight = MaxConcurrent
    BY <1>1, Constants DEF Managers, Slots
  <2>3. Members(q2) = qu' /\ Len(q2) = Cardinality(qu')
    BY <1>2, <1>3, <1>10, <2>1
  <2> QED
    BY <1>3, <1>7, <1>8, <2>1, <2>2, <2>3, QueueBuilt
<1>13. \A o \in Providers : o # p => SlotsOK(o)' /\ QueueOK(o)'
  BY <1>8, <1>10, ProviderKept DEF IInv
<1>14. \A q \in Calls : BudgetOK(call[q])'
  <2>1. \A q \in Calls : BudgetOK(call'[q])
    BY <1>5, <1>9 DEF IInv
  <2> QED
    BY <2>1 DEF BudgetOK, Budget, Rounds
<1> QED
  BY <1>1, <1>8, <1>9, <1>11, <1>12, <1>13, <1>14 DEF IInv, Typed

-----------------------------------------------------------------------------
(* The records the actions build.                                          *)

LEMMA MovedCall ==
  ASSUME NEW c \in CallStates, BudgetOK(c), NEW a \in Places, a \in Unsent => c.at \in Unsent,
         NEW t \in Delays
  PROVE  LET d == [c EXCEPT !.at = a, !.timer = t]
         IN  d \in CallStates /\ d.at = a /\ d.hop = c.hop /\ BudgetOK(d)
<1> DEFINE d == [c EXCEPT !.at = a, !.timer = t]
<1>1. /\ d \in CallStates /\ d.at = a /\ d.hop = c.hop /\ d.sent = c.sent
      /\ d.attempt = c.attempt /\ d.empties = c.empties /\ d.forced = c.forced
  BY DEF CallStates
<1>2. BudgetOK(d)
  <2> HIDE DEF d
  <2> QED
    BY <1>1 DEF BudgetOK, Budget, Rounds
<1> QED
  BY <1>1, <1>2

\* The same without a timer.
LEMMA PlacedCall ==
  ASSUME NEW c \in CallStates, BudgetOK(c), NEW a \in Places, a \in Unsent => c.at \in Unsent
  PROVE  LET d == [c EXCEPT !.at = a]
         IN  d \in CallStates /\ d.at = a /\ d.hop = c.hop /\ BudgetOK(d)
<1> DEFINE d == [c EXCEPT !.at = a]
<1>1. /\ d \in CallStates /\ d.at = a /\ d.hop = c.hop /\ d.sent = c.sent
      /\ d.attempt = c.attempt /\ d.empties = c.empties /\ d.forced = c.forced
  BY DEF CallStates
<1>2. BudgetOK(d)
  <2> HIDE DEF d
  <2> QED
    BY <1>1 DEF BudgetOK, Budget, Rounds
<1> QED
  BY <1>1, <1>2

LEMMA LeftHop ==
  ASSUME NEW c \in CallStates, BudgetOK(c), NEW eligible \in BOOLEAN
  PROVE  /\ LeaveHop(c, eligible) \in CallStates /\ BudgetOK(LeaveHop(c, eligible))
         /\ LeaveHop(c, eligible).at \in {"enter", "failed"}
<1>1. CASE eligible /\ c.hop < Len(Chain)
  <2> DEFINE h == c.hop + 1
             d == [c EXCEPT !.at = "enter", !.hop = h, !.attempt = 0, !.empties = 0,
                            !.forced = FALSE, !.sent = 0]
  <2>1. h \in Hops /\ "enter" \in Places
    BY <1>1, SmallFacts DEF CallStates, Places
  <2>2. LeaveHop(c, eligible) = d
    BY <1>1 DEF LeaveHop, CallStates
  <2> HIDE DEF h
  <2>3. /\ d \in CallStates /\ d.at = "enter" /\ d.attempt = 0 /\ d.empties = 0 /\ d.sent = 0
        /\ d.forced = FALSE
    BY <2>1, SmallFacts DEF CallStates
  <2> HIDE DEF d
  <2>4. BudgetOK(d)
    BY <2>3, Constants DEF BudgetOK, Budget, Rounds
  <2> QED
    BY <2>2, <2>3, <2>4
<1>2. CASE ~(eligible /\ c.hop < Len(Chain))
  <2>1. LeaveHop(c, eligible) = [c EXCEPT !.at = "failed"]
    BY <1>2 DEF LeaveHop
  <2>2. "failed" \in Places /\ "failed" \notin Unsent
    BY DEF Places, Settled, Unsent
  <2> QED
    BY <2>1, <2>2, PlacedCall
<1> QED
  BY <1>1, <1>2

LEMMA RetriedCall ==
  ASSUME NEW c \in CallStates, BudgetOK(c), c.attempt < MaxRetries, NEW t \in Delays
  PROVE  LET d == [c EXCEPT !.at = "delay", !.timer = t, !.attempt = c.attempt + 1]
         IN  d \in CallStates /\ d.at = "delay" /\ d.hop = c.hop /\ BudgetOK(d)
<1> DEFINE n == c.attempt + 1
           d == [c EXCEPT !.at = "delay", !.timer = t, !.attempt = n]
<1>1. n \in Attempts /\ "delay" \in Places
  BY SmallFacts DEF CallStates, Places
<1>2. c.attempt \in Nat /\ Rounds(c) \in Nat /\ c.sent \in Nat /\ n = c.attempt + 1
  BY RoundsCounted, SmallFacts DEF CallStates
<1> HIDE DEF n
<1>3. /\ d \in CallStates /\ d.at = "delay" /\ d.hop = c.hop /\ d.sent = c.sent
      /\ d.attempt = n /\ d.empties = c.empties /\ d.forced = c.forced
  BY <1>1 DEF CallStates
<1> DEFINE base == (MaxRetries + 1) * Rounds(c)
<1>4. base \in Nat
  BY <1>2, Constants
<1>5. c.sent <= base + c.attempt + 1
  BY DEF BudgetOK, Budget
<1>6. c.sent <= base + n /\ c.sent <= base + n + 1
  <2> HIDE DEF base
  <2> QED
    BY <1>2, <1>4, <1>5
<1>7. BudgetOK(d)
  <2>1. (MaxRetries + 1) * Rounds(d) = base
    BY <1>3 DEF Rounds
  <2> HIDE DEF d, base
  <2> QED
    BY <1>3, <1>6, <2>1 DEF BudgetOK, Budget
<1> QED
  BY <1>3, <1>7 DEF n

\* An answer asks for another one: the budget grows by the requests it takes.
LEMMA RoundMore ==
  ASSUME NEW c \in CallStates, BudgetOK(c), NEW d \in CallStates, d.at # "flight",
         d.sent = c.sent, d.attempt = 0, Rounds(d) = Rounds(c) + 1
  PROVE  BudgetOK(d)
<1> DEFINE base == (MaxRetries + 1) * Rounds(c)
<1>1. c.attempt \in Nat /\ c.attempt <= MaxRetries /\ Rounds(c) \in Nat /\ c.sent \in Nat
  BY RoundsCounted, SmallFacts DEF CallStates
<1>2. base \in Nat
  BY <1>1, Constants
<1>3. c.sent <= base + c.attempt + 1
  BY DEF BudgetOK, Budget
<1>4. (MaxRetries + 1) * Rounds(d) = base + (MaxRetries + 1)
  <2>1. \A x, y \in Nat : x * (y + 1) = x * y + x
    OBVIOUS
  <2> QED
    BY <1>1, <2>1, Constants
<1> HIDE DEF base
<1>5. c.sent <= base + (MaxRetries + 1)
  BY <1>1, <1>2, <1>3, Constants
<1>6. Budget(d) = base + (MaxRetries + 1)
  BY <1>2, <1>4, Constants DEF Budget
<1> QED
  BY <1>1, <1>2, <1>5, <1>6, Constants DEF BudgetOK

LEMMA EmptiedCall ==
  ASSUME NEW c \in CallStates, BudgetOK(c), c.empties < EmptyRetries, NEW t \in Delays
  PROVE  LET d == [c EXCEPT !.at = "empty", !.timer = t, !.empties = c.empties + 1, !.attempt = 0]
         IN  d \in CallStates /\ d.at = "empty" /\ d.hop = c.hop /\ BudgetOK(d)
<1> DEFINE n == c.empties + 1
           d == [c EXCEPT !.at = "empty", !.timer = t, !.empties = n, !.attempt = 0]
<1>1. n \in Empties /\ "empty" \in Places /\ c.empties \in Nat
  BY SmallFacts DEF CallStates, Places
<1> HIDE DEF n
<1>2. /\ d \in CallStates /\ d.at = "empty" /\ d.hop = c.hop /\ d.sent = c.sent
      /\ d.attempt = 0 /\ d.empties = n /\ d.forced = c.forced
  BY <1>1, SmallFacts DEF CallStates
<1> HIDE DEF d
<1>3. Rounds(d) = Rounds(c) + 1
  BY <1>1, <1>2 DEF Rounds, n
<1> QED
  BY <1>2, <1>3, RoundMore DEF d, n

LEMMA ForcedCall ==
  ASSUME NEW c \in CallStates, BudgetOK(c), ~c.forced
  PROVE  LET d == [c EXCEPT !.at = "enter", !.forced = TRUE, !.attempt = 0]
         IN  d \in CallStates /\ d.at = "enter" /\ BudgetOK(d)
<1> DEFINE d == [c EXCEPT !.at = "enter", !.forced = TRUE, !.attempt = 0]
<1>1. "enter" \in Places /\ c.empties \in Nat
  BY SmallFacts DEF CallStates, Places
<1>2. /\ d \in CallStates /\ d.at = "enter" /\ d.sent = c.sent
      /\ d.attempt = 0 /\ d.empties = c.empties /\ d.forced = TRUE
  BY <1>1, SmallFacts DEF CallStates
<1> HIDE DEF d
<1>3. Rounds(d) = Rounds(c) + 1
  BY <1>1, <1>2 DEF Rounds
<1> QED
  BY <1>2, <1>3, RoundMore DEF d

LEMMA RecordedManager ==
  ASSUME NEW m \in Managers, NEW delay \in Delays
  PROVE  /\ RecordSuccess(m) \in Managers
         /\ RecordSuccess(m).inFlight = m.inFlight /\ RecordSuccess(m).waitQueue = m.waitQueue
         /\ RecordFailure(m, delay) \in Managers
         /\ RecordFailure(m, delay).inFlight = m.inFlight
         /\ RecordFailure(m, delay).waitQueue = m.waitQueue
<1> DEFINE b == Min({m.backoff + 1, MaxBackoff})
<1>1. b \in Backoffs
  BY BackoffBounded DEF Managers
<1> HIDE DEF b
<1>2. RecordFailure(m, delay) = [m EXCEPT !.cooldown = delay, !.backoff = b]
  BY DEF RecordFailure, b, Managers
<1> QED
  BY <1>1, <1>2, SmallFacts DEF RecordSuccess, Managers

LEMMA ReleasedManager ==
  ASSUME NEW m \in Managers, m.inFlight # 0, NEW ra \in Nat
  PROVE  /\ Release(m) \in Managers
         /\ Release(m).inFlight = IF m.waitQueue = <<>> THEN m.inFlight - 1 ELSE m.inFlight
         /\ Release(m).waitQueue = IF m.waitQueue = <<>> THEN <<>> ELSE Tail(m.waitQueue)
         /\ Asked(Release(m), ra) \in Managers
         /\ Asked(Release(m), ra).inFlight = Release(m).inFlight
         /\ Asked(Release(m), ra).waitQueue = Release(m).waitQueue
<1> DEFINE k == m.inFlight - 1
<1>1. k \in Slots /\ m.inFlight - 1 + 1 = m.inFlight
  BY Constants DEF Slots, Managers
<1>2. m.waitQueue # <<>> => Tail(m.waitQueue) \in Seq(Calls)
  BY HeadTailProperties DEF Managers
<1> HIDE DEF k
<1>3. /\ Release(m) \in Managers
      /\ Release(m).inFlight = IF m.waitQueue = <<>> THEN k ELSE m.inFlight
      /\ Release(m).waitQueue = IF m.waitQueue = <<>> THEN <<>> ELSE Tail(m.waitQueue)
  <2>1. CASE m.waitQueue = <<>>
    <3>1. Release(m) = [m EXCEPT !.inFlight = k]
      BY <2>1 DEF Release, k
    <3> QED
      BY <1>1, <2>1, <3>1 DEF Managers
  <2>2. CASE m.waitQueue # <<>>
    <3> DEFINE t == Tail(m.waitQueue)
               i == m.inFlight
    <3>1. Release(m) = [m EXCEPT !.inFlight = i, !.waitQueue = t]
      BY <1>1, <2>2 DEF Release, Managers
    <3>2. t \in Seq(Calls) /\ i \in Slots
      BY <1>2, <2>2 DEF Managers
    <3> HIDE DEF t, i
    <3>3. Release(m) \in Managers /\ Release(m).inFlight = i /\ Release(m).waitQueue = t
      BY <3>1, <3>2 DEF Managers
    <3> QED
      BY <2>2, <3>3 DEF t, i
  <2> QED
    BY <2>1, <2>2
<1>4. ASSUME NEW x \in Managers
      PROVE  /\ Asked(x, ra) \in Managers
             /\ Asked(x, ra).inFlight = x.inFlight
             /\ Asked(x, ra).waitQueue = x.waitQueue
  <2> DEFINE y == Max({x.asked, ra})
  <2>1. y \in Nat
    BY MaxOfTwo DEF Managers
  <2> HIDE DEF y
  <2>2. [x EXCEPT !.asked = y] \in Managers
    BY <2>1 DEF Managers
  <2> QED
    BY <2>2 DEF Asked, Managers, y
<1> QED
  BY <1>3, <1>4 DEF k

-----------------------------------------------------------------------------
(* The actions.  Each keeps the invariant, and none of them lets a call    *)
(* whose signal has fired hop or settle as anything but aborted.           *)

AbortHeld ==
  \A q \in aborted :
     /\ call'[q].hop = call[q].hop
     /\ call[q].at \notin Settled /\ call'[q].at \in Settled => call'[q].at = "aborted"

\* What an action may make of the record of the call that takes it.
Obedient(r, c) ==
  r \in aborted => c.hop = call[r].hop /\ (c.at \in Settled => c.at = "aborted")

LEMMA QuietAction ==
  ASSUME IInv, NEW r \in Calls, NEW c \in CallStates, call' = [call EXCEPT ![r] = c],
         call[r].at \notin {"flight", "queued"}, c.at \notin {"flight", "queued"}, BudgetOK(c),
         aborted' \subseteq Calls, mgr' \in [Providers -> Managers],
         \A p \in Providers : /\ mgr'[p].inFlight = mgr[p].inFlight
                              /\ mgr'[p].waitQueue = mgr[p].waitQueue,
         Obedient(r, c)
  PROVE  IInv' /\ AbortHeld
<1>1. IInv'
  BY QuietStep
<1>2. call'[r] = c /\ \A q \in Calls : q # r => call'[q] = call[q]
  BY OneCall DEF IInv
<1>3. aborted \subseteq Calls
  BY DEF IInv, Typed
<1> QED
  BY <1>1, <1>2, <1>3 DEF AbortHeld, Obedient

LEMMA ReleaseAction ==
  ASSUME IInv, NEW r \in Calls, NEW p, p = ProviderOf(r), call[r].at = "flight",
         NEW c \in CallStates, c.at \notin {"flight", "queued"}, BudgetOK(c),
         NEW n \in Managers, mgr' = [mgr EXCEPT ![p] = n],
         n.inFlight = IF mgr[p].waitQueue = <<>> THEN mgr[p].inFlight - 1 ELSE mgr[p].inFlight,
         n.waitQueue = IF mgr[p].waitQueue = <<>> THEN <<>> ELSE Tail(mgr[p].waitQueue),
         call' = Woken(p, [call EXCEPT ![r] = c]), aborted' = aborted,
         Obedient(r, c)
  PROVE  IInv' /\ AbortHeld
<1>1. /\ IInv'
      /\ call'[r] = c
      /\ \A q \in Calls : q # r => call'[q].hop = call[q].hop
                                   /\ (call'[q].at = call[q].at \/ call'[q].at = "flight")
  BY ReleaseStep
<1>2. aborted \subseteq Calls
  BY DEF IInv, Typed
<1> QED
  BY <1>1, <1>2 DEF AbortHeld, Obedient, Settled

\* A call in flight holds a slot of its provider.
LEMMA SlotHeld ==
  ASSUME IInv, NEW r \in Calls, call[r].at = "flight"
  PROVE  /\ ProviderOf(r) \in Providers /\ mgr[ProviderOf(r)] \in Managers
         /\ mgr[ProviderOf(r)].inFlight # 0
<1> DEFINE p == ProviderOf(r)
           fl == In(p, "flight")
<1>1. p \in Providers /\ mgr[p] \in Managers
  BY ProviderKnown DEF IInv
<1>2. IsFiniteSet(fl) /\ mgr[p].inFlight = Cardinality(fl) /\ r \in fl
  BY <1>1 DEF IInv, SlotsOK, In
<1>3. Cardinality(fl) # 0
  BY <1>2, FS_EmptySet
<1> QED
  BY <1>1, <1>2, <1>3

LEMMA CallKnown ==
  ASSUME IInv, NEW r \in Calls
  PROVE  call[r] \in CallStates /\ BudgetOK(call[r]) /\ call \in [Calls -> CallStates]
  BY DEF IInv, Typed

\* A call moves to another place and the managers stay as they are.
LEMMA PlaceAction ==
  ASSUME IInv, NEW r \in Calls, NEW a \in Places, call' = [call EXCEPT ![r].at = a],
         call[r].at \notin {"flight", "queued"}, a \notin {"flight", "queued"},
         a \in Unsent => call[r].at \in Unsent, r \in aborted /\ a \in Settled => a = "aborted",
         aborted' = aborted, mgr' = mgr
  PROVE  IInv' /\ AbortHeld
<1> DEFINE c == [call[r] EXCEPT !.at = a]
<1>1. c \in CallStates /\ c.at = a /\ c.hop = call[r].hop /\ BudgetOK(c)
  BY CallKnown, PlacedCall
<1>2. call' = [call EXCEPT ![r] = c]
  OBVIOUS
<1> HIDE DEF c
<1>3. Obedient(r, c)
  BY <1>1 DEF Obedient
<1>4. aborted' \subseteq Calls /\ mgr' \in [Providers -> Managers]
  BY DEF IInv, Typed
<1> QED
  BY <1>1, <1>2, <1>3, <1>4, QuietAction

LEMMA CallStep ==
  ASSUME IInv, NEW r \in Calls, Call(r)
  PROVE  IInv' /\ AbortHeld
<1>1. "enter" \in Places /\ "enter" \notin Settled
  BY DEF Places, Settled
<1>2. call[r].at \in Unsent /\ call[r].at \notin {"flight", "queued"}
  BY DEF Call, Unsent
<1> QED
  BY <1>1, <1>2, PlaceAction DEF Call

LEMMA AbortStep ==
  ASSUME IInv, NEW r \in Calls, Abort(r)
  PROVE  IInv' /\ AbortHeld
<1>1. call' = call /\ mgr' = mgr /\ aborted' = aborted \cup {r}
  BY DEF Abort
<1>2. Typed'
  BY <1>1 DEF IInv, Typed
<1>3. \A p \in Providers : SlotsOK(p)' /\ QueueOK(p)'
  <2>1. \A p : In(p, "flight")' = In(p, "flight") /\ In(p, "queued")' = In(p, "queued")
    BY <1>1 DEF In, ProviderOf
  <2> QED
    BY <1>1, <2>1, ProviderKept DEF IInv
<1>4. \A q \in Calls : BudgetOK(call[q])'
  BY <1>1 DEF IInv, BudgetOK, Budget, Rounds
<1>5. AbortHeld
  BY <1>1 DEF AbortHeld
<1> QED
  BY <1>2, <1>3, <1>4, <1>5 DEF IInv

LEMMA EnterGateStep ==
  ASSUME IInv, NEW r \in Calls, EnterGate(r)
  PROVE  IInv' /\ AbortHeld
<1> DEFINE left == mgr[ProviderOf(r)].cooldown
           a == IF left > 0 THEN "cooldown" ELSE "admitted"
           c == [call[r] EXCEPT !.at = a, !.timer = left]
<1>1. call[r].at = "enter" /\ mgr' = mgr /\ aborted' = aborted
  BY DEF EnterGate
<1>2. left \in Delays
  BY ProviderKnown DEF IInv, Managers
<1>3. a \in Places /\ a \in Unsent /\ a \notin {"flight", "queued"} /\ a \notin Settled
  BY DEF Places, Unsent, Settled
<1>4. call' = [call EXCEPT ![r] = c]
  BY DEF EnterGate
<1> HIDE DEF left, a
<1>5. c \in CallStates /\ c.at = a /\ c.hop = call[r].hop /\ BudgetOK(c)
  <2>1. call[r].at \in Unsent
    BY <1>1 DEF Unsent
  <2> QED
    BY <1>2, <1>3, <2>1, CallKnown, MovedCall
<1> HIDE DEF c
<1>6. Obedient(r, c)
  BY <1>3, <1>5 DEF Obedient
<1>7. aborted' \subseteq Calls /\ mgr' \in [Providers -> Managers]
  BY <1>1 DEF IInv, Typed
<1> QED
  BY <1>1, <1>3, <1>4, <1>5, <1>6, <1>7, QuietAction

LEMMA AcquireStep ==
  ASSUME IInv, NEW r \in Calls, Acquire(r)
  PROVE  IInv' /\ AbortHeld
<1> DEFINE p == ProviderOf(r)
<1>1. call[r].at = "admitted" /\ aborted' = aborted
  BY DEF Acquire
<1>2. call \in [Calls -> CallStates] /\ p \in Providers /\ mgr \in [Providers -> Managers]
      /\ aborted \subseteq Calls
  BY CallKnown, ProviderKnown DEF IInv, Typed
<1>3. CASE /\ mgr[p].inFlight < MaxConcurrent
           /\ mgr' = [mgr EXCEPT ![p].inFlight = @ + 1]
           /\ call' = [call EXCEPT ![r] = Sent(@)]
  <2>1. mgr' = [mgr EXCEPT ![p] = [mgr[p] EXCEPT !.inFlight = mgr[p].inFlight + 1]]
    BY <1>2, <1>3
  <2>2. call' = [call EXCEPT ![r] = Sent(call[r])]
    BY <1>2, <1>3
  <2>3. IInv'
    <3> HIDE DEF p
    <3>1. p = ProviderOf(r)
      BY DEF p
    <3> QED
      BY <1>1, <1>3, <2>1, <2>2, <3>1, TakeStep
  <2>4. Sent(call[r]).at = "flight" /\ Sent(call[r]).hop = call[r].hop
    BY <1>1, CallKnown, SentCall DEF Unsent
  <2>5. AbortHeld
    BY <1>2, <2>2, <2>4 DEF AbortHeld, Settled
  <2> QED
    BY <2>3, <2>5
<1>4. CASE /\ mgr[p].inFlight >= MaxConcurrent
           /\ mgr' = [mgr EXCEPT ![p].waitQueue = Append(@, r)]
           /\ call' = [call EXCEPT ![r].at = "queued"]
  <2>1. mgr' = [mgr EXCEPT ![p] = [mgr[p] EXCEPT !.waitQueue = Append(mgr[p].waitQueue, r)]]
    BY <1>2, <1>4
  <2>2. call' = [call EXCEPT ![r] = [call[r] EXCEPT !.at = "queued"]]
    BY <1>2, <1>4
  <2>3. IInv'
    <3> HIDE DEF p
    <3>1. p = ProviderOf(r)
      BY DEF p
    <3> QED
      BY <1>1, <1>4, <2>1, <2>2, <3>1, JoinStep
  <2>4. AbortHeld
    BY <1>2, <2>2 DEF AbortHeld, Settled, CallStates
  <2> QED
    BY <2>3, <2>4
<1> QED
  BY <1>3, <1>4 DEF Acquire

LEMMA TimerFiresStep ==
  ASSUME IInv, NEW r \in Calls, TimerFires(r)
  PROVE  IInv' /\ AbortHeld
<1> DEFINE a == IF call[r].at = "cooldown" THEN "admitted" ELSE "enter"
<1>1. call[r].at \in Waiting /\ mgr' = mgr /\ aborted' = aborted
  BY DEF TimerFires
<1>2. call' = [call EXCEPT ![r].at = a]
  BY CallKnown DEF TimerFires
<1>3. a \in Places /\ a \notin Settled /\ a \notin {"flight", "queued"}
  BY DEF Places, Settled
<1>4. call[r].at \in Unsent /\ call[r].at \notin {"flight", "queued"}
  BY <1>1 DEF Waiting, Unsent
<1> HIDE DEF a
<1> QED
  BY <1>1, <1>2, <1>3, <1>4, PlaceAction

LEMMA HeadersStep ==
  ASSUME IInv, NEW r \in Calls, Headers(r)
  PROVE  IInv' /\ AbortHeld
<1> DEFINE p == ProviderOf(r)
           c == [call[r] EXCEPT !.at = "reading"]
           m == RecordSuccess(mgr[p])
           n == Release(m)
<1>1. call[r].at = "flight" /\ r \notin aborted /\ aborted' = aborted
  BY DEF Headers
<1>2. p \in Providers /\ mgr[p] \in Managers /\ mgr[p].inFlight # 0 /\ p = ProviderOf(r)
  BY <1>1, SlotHeld
<1>3. call' = Woken(p, [call EXCEPT ![r] = c])
  BY CallKnown DEF Headers
<1>4. mgr' = [mgr EXCEPT ![p] = n]
  BY DEF Headers
<1> HIDE DEF p
<1>5. c \in CallStates /\ c.at = "reading" /\ BudgetOK(c)
  <2>1. "reading" \in Places /\ "reading" \notin Unsent
    BY DEF Places, Unsent
  <2> QED
    BY <2>1, CallKnown, PlacedCall
<1>6. m \in Managers /\ m.inFlight = mgr[p].inFlight /\ m.waitQueue = mgr[p].waitQueue
  BY <1>2, SmallFacts, RecordedManager
<1> HIDE DEF m, c
<1>7. /\ n \in Managers
      /\ n.inFlight = IF mgr[p].waitQueue = <<>> THEN mgr[p].inFlight - 1 ELSE mgr[p].inFlight
      /\ n.waitQueue = IF mgr[p].waitQueue = <<>> THEN <<>> ELSE Tail(mgr[p].waitQueue)
  BY <1>2, <1>6, ReleasedManager
<1> HIDE DEF n
<1>8. Obedient(r, c)
  BY <1>1 DEF Obedient
<1> QED
  BY <1>1, <1>2, <1>3, <1>4, <1>5, <1>7, <1>8, ReleaseAction

LEMMA GateRetryStep ==
  ASSUME IInv, NEW r \in Calls, NEW kind \in Kinds, NEW jitter \in 0..Jitter,
         NEW ra \in RetryAfters, GateRetry(r, kind, jitter, ra)
  PROVE  IInv' /\ AbortHeld
<1> DEFINE p == ProviderOf(r)
           t == BackoffDelay(mgr[p].backoff, jitter, 0)
           c == [call[r] EXCEPT !.at = "delay", !.timer = t, !.attempt = call[r].attempt + 1]
           m == RecordFailure(mgr[p], t)
           n == Asked(Release(m), ra)
<1>1. /\ call[r].at = "flight" /\ r \notin aborted /\ aborted' = aborted
      /\ call[r].attempt < MaxRetries
  BY DEF GateRetry
<1>2. p \in Providers /\ mgr[p] \in Managers /\ mgr[p].inFlight # 0 /\ p = ProviderOf(r)
  BY <1>1, SlotHeld
<1>3. t \in Delays
  BY <1>2, DelayBounded DEF Managers
<1>4. mgr' = [mgr EXCEPT ![p] = n]
  BY DEF GateRetry, ExtractRetryAfter
<1>5. call' = Woken(p, [call EXCEPT ![r].at = "delay", ![r].timer = t, ![r].attempt = @ + 1])
  BY DEF GateRetry, ExtractRetryAfter
<1> HIDE DEF p, t
<1>6. [call EXCEPT ![r].at = "delay", ![r].timer = t, ![r].attempt = @ + 1]
        = [call EXCEPT ![r] = c]
  BY CallKnown DEF CallStates
<1>7. c \in CallStates /\ c.at = "delay" /\ BudgetOK(c)
  BY <1>1, <1>3, CallKnown, RetriedCall
<1>8. m \in Managers /\ m.inFlight = mgr[p].inFlight /\ m.waitQueue = mgr[p].waitQueue
  BY <1>2, <1>3, RecordedManager
<1> HIDE DEF m, c
<1>9. /\ n \in Managers
      /\ n.inFlight = IF mgr[p].waitQueue = <<>> THEN mgr[p].inFlight - 1 ELSE mgr[p].inFlight
      /\ n.waitQueue = IF mgr[p].waitQueue = <<>> THEN <<>> ELSE Tail(mgr[p].waitQueue)
  <2>1. ra \in Nat
    BY ModelCallsAssumption
  <2> QED
    BY <1>2, <1>8, <2>1, ReleasedManager
<1> HIDE DEF n
<1>10. Obedient(r, c)
  BY <1>1 DEF Obedient
<1> QED
  BY <1>1, <1>2, <1>4, <1>5, <1>6, <1>7, <1>9, <1>10, ReleaseAction

LEMMA GateThrowStep ==
  ASSUME IInv, NEW r \in Calls, NEW kind \in Kinds, GateThrow(r, kind)
  PROVE  IInv' /\ AbortHeld
<1> DEFINE p == ProviderOf(r)
           c == LeaveHop(call[r], Eligible(kind))
           n == Release(mgr[p])
<1>1. call[r].at = "flight" /\ r \notin aborted /\ aborted' = aborted
  BY DEF GateThrow
<1>2. p \in Providers /\ mgr[p] \in Managers /\ mgr[p].inFlight # 0 /\ p = ProviderOf(r)
  BY <1>1, SlotHeld
<1>3. call' = Woken(p, [call EXCEPT ![r] = c]) /\ mgr' = [mgr EXCEPT ![p] = n]
  BY DEF GateThrow
<1> HIDE DEF p
<1>4. c \in CallStates /\ c.at \in {"enter", "failed"} /\ BudgetOK(c)
  <2>1. Eligible(kind) \in BOOLEAN
    BY DEF Eligible
  <2> QED
    BY <2>1, CallKnown, LeftHop
<1> HIDE DEF c
<1>5. /\ n \in Managers
      /\ n.inFlight = IF mgr[p].waitQueue = <<>> THEN mgr[p].inFlight - 1 ELSE mgr[p].inFlight
      /\ n.waitQueue = IF mgr[p].waitQueue = <<>> THEN <<>> ELSE Tail(mgr[p].waitQueue)
  BY <1>2, ReleasedManager
<1> HIDE DEF n
<1>6. Obedient(r, c)
  BY <1>1 DEF Obedient
<1> QED
  BY <1>1, <1>2, <1>3, <1>4, <1>5, <1>6, ReleaseAction

LEMMA AbortFlightStep ==
  ASSUME IInv, NEW r \in Calls, AbortFlight(r)
  PROVE  IInv' /\ AbortHeld
<1> DEFINE p == ProviderOf(r)
           c == [call[r] EXCEPT !.at = "aborted"]
           n == Release(mgr[p])
<1>1. call[r].at = "flight" /\ aborted' = aborted
  BY DEF AbortFlight
<1>2. p \in Providers /\ mgr[p] \in Managers /\ mgr[p].inFlight # 0 /\ p = ProviderOf(r)
  BY <1>1, SlotHeld
<1>3. call' = Woken(p, [call EXCEPT ![r] = c])
  BY CallKnown DEF AbortFlight
<1>4. mgr' = [mgr EXCEPT ![p] = n]
  BY DEF AbortFlight
<1> HIDE DEF p
<1>5. c \in CallStates /\ c.at = "aborted" /\ c.hop = call[r].hop /\ BudgetOK(c)
  <2>1. "aborted" \in Places /\ "aborted" \notin Unsent
    BY DEF Places, Settled, Unsent
  <2> QED
    BY <2>1, CallKnown, PlacedCall
<1> HIDE DEF c
<1>6. /\ n \in Managers
      /\ n.inFlight = IF mgr[p].waitQueue = <<>> THEN mgr[p].inFlight - 1 ELSE mgr[p].inFlight
      /\ n.waitQueue = IF mgr[p].waitQueue = <<>> THEN <<>> ELSE Tail(mgr[p].waitQueue)
  BY <1>2, ReleasedManager
<1> HIDE DEF n
<1>7. Obedient(r, c)
  BY <1>5 DEF Obedient
<1> QED
  BY <1>1, <1>2, <1>3, <1>4, <1>5, <1>6, <1>7, ReleaseAction

LEMMA ReadAllStep ==
  ASSUME IInv, NEW r \in Calls, ReadAll(r)
  PROVE  IInv' /\ AbortHeld
<1>1. "done" \in Places /\ "done" \notin Unsent
  BY DEF Places, Settled, Unsent
<1> QED
  BY <1>1, PlaceAction DEF ReadAll

LEMMA ReadTextStep ==
  ASSUME IInv, NEW r \in Calls, ReadText(r)
  PROVE  IInv' /\ AbortHeld
<1> DEFINE c == [call[r] EXCEPT !.at = "enter", !.forced = TRUE, !.attempt = 0]
<1>1. /\ call[r].at = "reading" /\ ~call[r].forced /\ r \notin aborted
      /\ mgr' = mgr /\ aborted' = aborted
  BY DEF ReadText
<1>2. c \in CallStates /\ c.at = "enter" /\ BudgetOK(c)
  BY <1>1, CallKnown, ForcedCall
<1>3. call' = [call EXCEPT ![r] = c]
  BY CallKnown DEF ReadText, CallStates
<1> HIDE DEF c
<1>4. Obedient(r, c)
  BY <1>1 DEF Obedient
<1>5. aborted' \subseteq Calls /\ mgr' \in [Providers -> Managers]
  BY <1>1 DEF IInv, Typed
<1> QED
  BY <1>1, <1>2, <1>3, <1>4, <1>5, QuietAction

LEMMA AbortReadingStep ==
  ASSUME IInv, NEW r \in Calls, AbortReading(r)
  PROVE  IInv' /\ AbortHeld
<1>1. "aborted" \in Places /\ "aborted" \notin Unsent
  BY DEF Places, Settled, Unsent
<1> QED
  BY <1>1, PlaceAction DEF AbortReading

\* The error of a body leaves the hop.
LEMMA LeaveAction ==
  ASSUME IInv, NEW r \in Calls, NEW eligible \in BOOLEAN, call[r].at = "reading", r \notin aborted,
         call' = [call EXCEPT ![r] = LeaveHop(call[r], eligible)], mgr' = mgr, aborted' = aborted
  PROVE  IInv' /\ AbortHeld
<1> DEFINE c == LeaveHop(call[r], eligible)
<1>1. c \in CallStates /\ c.at \in {"enter", "failed"} /\ BudgetOK(c)
  BY CallKnown, LeftHop
<1>2. call' = [call EXCEPT ![r] = c]
  OBVIOUS
<1> HIDE DEF c
<1>3. Obedient(r, c)
  BY DEF Obedient
<1>4. aborted' \subseteq Calls /\ mgr' \in [Providers -> Managers]
  BY DEF IInv, Typed
<1> QED
  BY <1>1, <1>2, <1>3, <1>4, QuietAction

LEMMA ReadEmptyStep ==
  ASSUME IInv, NEW r \in Calls, NEW jitter \in 0..Jitter, ReadEmpty(r, jitter)
  PROVE  IInv' /\ AbortHeld
<1> DEFINE p == ProviderOf(r)
           t == BackoffDelay(mgr[p].backoff, jitter, 0)
           c == [call[r] EXCEPT !.at = "empty", !.timer = t, !.empties = call[r].empties + 1,
                                !.attempt = 0]
           m == RecordFailure(mgr[p], t)
<1>1. call[r].at = "reading" /\ r \notin aborted /\ aborted' = aborted
  BY DEF ReadEmpty
<1>2. p \in Providers /\ mgr[p] \in Managers
  BY ProviderKnown DEF IInv
<1>3. t \in Delays
  BY <1>2, DelayBounded DEF Managers
<1>4. CASE /\ call[r].empties < EmptyRetries
           /\ call' = [call EXCEPT ![r].at = "empty", ![r].timer = t, ![r].empties = @ + 1,
                                   ![r].attempt = 0]
           /\ mgr' = [mgr EXCEPT ![p] = m]
  <2> HIDE DEF p, t
  <2>1. call' = [call EXCEPT ![r] = c]
    BY <1>4, CallKnown DEF CallStates
  <2>2. c \in CallStates /\ c.at = "empty" /\ BudgetOK(c)
    BY <1>3, <1>4, CallKnown, EmptiedCall
  <2>3. m \in Managers /\ m.inFlight = mgr[p].inFlight /\ m.waitQueue = mgr[p].waitQueue
    BY <1>2, <1>3, RecordedManager
  <2> HIDE DEF c, m
  <2>4. /\ mgr' \in [Providers -> Managers]
        /\ \A o \in Providers : /\ mgr'[o].inFlight = mgr[o].inFlight
                                /\ mgr'[o].waitQueue = mgr[o].waitQueue
    BY <1>2, <1>4, <2>3 DEF IInv, Typed
  <2>5. Obedient(r, c)
    BY <1>1 DEF Obedient
  <2>6. aborted' \subseteq Calls
    BY <1>1 DEF IInv, Typed
  <2> QED
    BY <1>1, <2>1, <2>2, <2>4, <2>5, <2>6, QuietAction
<1>5. CASE call' = [call EXCEPT ![r] = LeaveHop(@, TRUE)] /\ mgr' = mgr
  BY <1>1, <1>5, LeaveAction
<1> QED
  BY <1>4, <1>5 DEF ReadEmpty

LEMMA ReadBrokenStep ==
  ASSUME IInv, NEW r \in Calls, NEW cut \in BOOLEAN, ReadBroken(r, cut)
  PROVE  IInv' /\ AbortHeld
<1>1. (~cut) \in BOOLEAN
  OBVIOUS
<1>2. /\ call[r].at = "reading" /\ r \notin aborted /\ mgr' = mgr /\ aborted' = aborted
      /\ call' = [call EXCEPT ![r] = LeaveHop(call[r], ~cut)]
  BY DEF ReadBroken
<1> QED
  BY <1>1, <1>2, LeaveAction

LEMMA TickStep ==
  ASSUME IInv, Tick
  PROVE  IInv' /\ AbortHeld
<1>1. ASSUME NEW r \in Calls
      PROVE  /\ call'[r] \in CallStates /\ call'[r].at = call[r].at /\ call'[r].hop = call[r].hop
             /\ call'[r].sent = call[r].sent /\ call'[r].attempt = call[r].attempt
             /\ call'[r].empties = call[r].empties /\ call'[r].forced = call[r].forced
  <2> DEFINE t == Less(call[r].timer)
  <2>1. t \in Delays /\ call[r] \in CallStates
    BY CallKnown, SmallFacts DEF CallStates
  <2>2. call'[r] = [call[r] EXCEPT !.timer = t] \/ call'[r] = call[r]
    BY DEF Tick
  <2> HIDE DEF t
  <2> QED
    BY <2>1, <2>2 DEF CallStates
<1>2. ASSUME NEW p \in Providers
      PROVE  /\ mgr'[p] \in Managers /\ mgr'[p].inFlight = mgr[p].inFlight
             /\ mgr'[p].waitQueue = mgr[p].waitQueue
  <2> DEFINE t == Less(mgr[p].cooldown)
             a == Less(mgr[p].asked)
  <2>1. mgr[p] \in Managers
    BY DEF IInv, Typed
  <2>2. t \in Delays
    BY <2>1, SmallFacts DEF Managers
  <2>3. a \in Nat
    BY <2>1 DEF Managers, Less
  <2>4. mgr'[p] = [mgr[p] EXCEPT !.cooldown = t, !.asked = a]
    BY DEF Tick
  <2> HIDE DEF t, a
  <2> QED
    BY <2>1, <2>2, <2>3, <2>4 DEF Managers
<1>3. /\ call' = [r \in Calls |-> call'[r]] /\ mgr' = [p \in Providers |-> mgr'[p]]
      /\ aborted' = aborted
  BY DEF Tick
<1>4. Typed'
  BY <1>1, <1>2, <1>3 DEF IInv, Typed
<1>5. \A p : In(p, "flight")' = In(p, "flight") /\ In(p, "queued")' = In(p, "queued")
  BY <1>1 DEF In, ProviderOf
<1>6. \A p \in Providers : SlotsOK(p)' /\ QueueOK(p)'
  BY <1>2, <1>5, ProviderKept DEF IInv
<1>7. \A q \in Calls : BudgetOK(call[q])'
  BY <1>1 DEF IInv, BudgetOK, Budget, Rounds
<1>8. AbortHeld
  BY <1>1 DEF AbortHeld, IInv, Typed
<1> QED
  BY <1>4, <1>6, <1>7, <1>8 DEF IInv

LEMMA Stutter ==
  ASSUME IInv, UNCHANGED vars
  PROVE  IInv' /\ AbortHeld
<1>1. call' = call /\ mgr' = mgr /\ aborted' = aborted
  BY DEF vars
<1>2. Typed'
  BY <1>1 DEF IInv, Typed
<1>3. \A p : In(p, "flight")' = In(p, "flight") /\ In(p, "queued")' = In(p, "queued")
  BY <1>1 DEF In, ProviderOf
<1>4. \A p \in Providers : SlotsOK(p)' /\ QueueOK(p)'
  BY <1>1, <1>3, ProviderKept DEF IInv
<1>5. \A q \in Calls : BudgetOK(call[q])'
  BY <1>1 DEF IInv, BudgetOK, Budget, Rounds
<1>6. AbortHeld
  BY <1>1 DEF AbortHeld
<1> QED
  BY <1>2, <1>4, <1>5, <1>6 DEF IInv

LEMMA NextIInv == IInv /\ [Next]_vars => IInv' /\ AbortHeld
<1> SUFFICES ASSUME IInv, [Next]_vars PROVE IInv' /\ AbortHeld
  OBVIOUS
<1>1. CASE UNCHANGED vars
  BY <1>1, Stutter
<1>2. CASE Tick
  BY <1>2, TickStep
<1>3. ASSUME NEW r \in Calls, Call(r) \/ Abort(r) \/ EnterGate(r) \/ Acquire(r) \/ TimerFires(r)
      PROVE  IInv' /\ AbortHeld
  BY <1>3, CallStep, AbortStep, EnterGateStep, AcquireStep, TimerFiresStep
<1>4. ASSUME NEW r \in Calls, Answer(r) PROVE IInv' /\ AbortHeld
  BY <1>4, HeadersStep, GateRetryStep, GateThrowStep, AbortFlightStep DEF Answer
<1>5. ASSUME NEW r \in Calls, Read(r) PROVE IInv' /\ AbortHeld
  BY <1>5, ReadAllStep, ReadTextStep, ReadEmptyStep, ReadBrokenStep, AbortReadingStep DEF Read
<1> QED
  BY <1>1, <1>2, <1>3, <1>4, <1>5 DEF Next, Step

-----------------------------------------------------------------------------
\* What the invariant says of the slots, the queues and the budget.
LEMMA IInvConserves == IInv => SlotsConserved
<1> SUFFICES ASSUME IInv PROVE SlotsConserved
  OBVIOUS
<1>1. TypeOK
  <2>1. call \in [Calls -> CallStates] /\ aborted \subseteq Calls
    BY DEF IInv, Typed
  <2>2. \A p \in Providers : /\ mgr[p].inFlight \in Slots /\ mgr[p].waitQueue \in Seq(Calls)
                             /\ mgr[p].backoff \in Backoffs /\ mgr[p].cooldown \in Delays
    BY DEF IInv, Typed, Managers
  <2> QED
    BY <2>1, <2>2 DEF TypeOK, CallStates, Places, Attempts, Empties, Delays, Slots, Backoffs
<1>2. SlotsExact
  <2>1. \A p \in Providers : mgr[p].inFlight <= MaxConcurrent
    BY Constants DEF IInv, Typed, Managers, Slots
  <2> QED
    BY <2>1 DEF IInv, SlotsOK, SlotsExact
<1>3. NoLostWakeup
  BY DEF IInv, QueueOK, NoLostWakeup
<1>4. SendBudget
  BY DEF IInv, BudgetOK, Budget, SendBudget
<1> QED
  BY <1>1, <1>2, <1>3, <1>4 DEF SlotsConserved

\* The inductive invariant holds in every state the calls can reach.
THEOREM CallsInvariance == Spec => []IInv
<1>1. Init => IInv
  BY InitIInv
<1>2. IInv /\ [Next]_vars => IInv'
  BY NextIInv
<1> QED
  BY <1>1, <1>2, PTL DEF Spec

\* Slots, waiters and the budget of requests are conserved (executeWithResilience and the
\* ConcurrencyLimiter), whatever the number of calls, the chain and the limits.
THEOREM SlotsAreConserved == Spec => []SlotsConserved
  BY CallsInvariance, IInvConserves, PTL

\* A call whose signal has fired never hops to the next provider and settles as nothing but
\* aborted (iterateFailoverChain).
THEOREM AbortsHold == Spec => AbortStops
<1>1. ASSUME IInv, [Next]_vars
      PROVE  [\A r \in aborted :
                 /\ call'[r].hop = call[r].hop
                 /\ call[r].at \notin Settled /\ call'[r].at \in Settled
                      => call'[r].at = "aborted"]_vars
  BY <1>1, NextIInv DEF AbortHeld
<1> QED
  BY <1>1, CallsInvariance, PTL DEF Spec, AbortStops
=============================================================================
