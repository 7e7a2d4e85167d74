------------------------------ MODULE ModelCalls ------------------------------
(***************************************************************************)
(* Calls to model providers: the failover loop that walks a chain of       *)
(* providers (iterateFailoverChain), the retry of empty answers inside one *)
(* hop (withEmptyResponseRetry), the forced request that follows a text    *)
(* where structured output was asked for (structuredOutputFollowUp), the   *)
(* resilience gate that retries one HTTP request (executeWithResilience)   *)
(* and the per-provider manager the calls of every session share: a        *)
(* counter of requests in flight with a queue of waiters, and a backoff    *)
(* state with a cool-down.                                                 *)
(*                                                                         *)
(* Every await of the code is a place another call may run.  A call is     *)
(*   idle      not made yet                                                *)
(*   enter     about to look at the cool-down (acquireSlot)                *)
(*   cooldown  asleep for what was left of the cool-down                   *)
(*   admitted  past the cool-down, about to take a slot                    *)
(*   queued    in the manager's waitQueue                                  *)
(*   flight    its HTTP request is out, a slot is held                     *)
(*   delay     between two attempts of the gate, no slot held              *)
(*   reading   the headers were good, the body is being read, no slot held *)
(*   empty     between two attempts after an empty body                    *)
(*   done, failed, aborted: its promise has settled.                       *)
(* Time is relative: Tick takes one unit off every timer and cool-down; a  *)
(* timer that reached zero may fire late.                                  *)
(***************************************************************************)
EXTENDS Naturals, FiniteSets, Sequences, FiniteSetsExt

CONSTANTS Calls,          \* the calls of all sessions
          Chain,          \* the failover chain: a sequence of providers
          MaxConcurrent,  \* slots of a provider (concurrency)
          MaxRetries,     \* retries of the gate (maxRetries)
          EmptyRetries,   \* retries of an empty answer (the code's 2)
          BaseDelay, MaxDelay, Jitter,  \* the backoff's configuration
          MaxBackoff,     \* bound: failures counted before the delay is constant
          RetryAfters     \* waits a provider asks for with a 429 (0: none)

ASSUME ModelCallsAssumption ==
    /\ Chain # <<>> /\ Chain \in Seq({Chain[i] : i \in DOMAIN Chain})
    /\ MaxConcurrent \in Nat \ {0}
    /\ {MaxRetries, EmptyRetries, BaseDelay, MaxDelay, Jitter, MaxBackoff} \subseteq Nat
    /\ RetryAfters \subseteq Nat /\ RetryAfters # {}
    /\ BaseDelay * 2^MaxBackoff >= MaxDelay
    /\ \A n \in 0..MaxBackoff : 2^n \in Nat

VARIABLES call,     \* the state of each call
          aborted,  \* the calls whose AbortSignal has fired
          mgr       \* the ProviderResilienceManager of each provider

vars == <<call, aborted, mgr>>

Providers == {Chain[i] : i \in 1..Len(Chain)}
Hops == 1..Len(Chain)
Settled == {"done", "failed", "aborted"}
Waiting == {"cooldown", "delay", "empty"}     \* asleep on a timer

ProviderOf(r) == Chain[call[r].hop]
In(p, place) == {r \in Calls : call[r].at = place /\ ProviderOf(r) = p}

Init ==
    /\ call = [r \in Calls |-> [at |-> "idle", hop |-> 1, attempt |-> 0, empties |-> 0,
                                forced |-> FALSE, timer |-> 0, sent |-> 0]]
    /\ aborted = {}
    /\ mgr = [p \in Providers |-> [inFlight |-> 0, waitQueue |-> <<>>, backoff |-> 0,
                                   cooldown |-> 0, asked |-> 0]]

-----------------------------------------------------------------------------
(* BackoffState and computeBackoffDelay.  The counter saturates where the  *)
(* delay no longer grows.                                                  *)
BackoffDelay(n, jitter, retryAfter) ==
    Max({Min({MaxDelay, BaseDelay * 2^n}) + jitter, retryAfter})

(* A ModelHttpError carries the status, the message and a snippet of the   *)
(* body, so extractRetryAfter finds no Retry-After in it.                  *)
ExtractRetryAfter == 0

RecordFailure(m, delay) ==
    [m EXCEPT !.cooldown = delay, !.backoff = Min({@ + 1, MaxBackoff})]

RecordSuccess(m) == [m EXCEPT !.cooldown = 0, !.backoff = 0]

(* Faulty variants: the waiter does not count itself; the waiter stays at  *)
(* the head of the queue.                                                  *)
ReleaseUncounted(m) ==
    [m EXCEPT !.inFlight = @ - 1, !.waitQueue = IF @ = <<>> THEN @ ELSE Tail(@)]
ReleaseKeeps(m) ==
    IF m.waitQueue = <<>> THEN [m EXCEPT !.inFlight = @ - 1] ELSE m

(* release: the slot goes to the first waiter, whose entry takes it again. *)
Release(m) ==
    IF m.waitQueue = <<>>
    THEN [m EXCEPT !.inFlight = @ - 1]
    ELSE [m EXCEPT !.inFlight = @ - 1 + 1, !.waitQueue = Tail(@)]

(* How much longer a provider has asked its callers to wait.               *)
Asked(m, retryAfter) == [m EXCEPT !.asked = Max({@, retryAfter})]

(* A call with a slot makes its request: fn().                             *)
Sent(c) == [c EXCEPT !.at = "flight", !.sent = @ + 1]

(* Faulty variant: the waiter is taken off the queue and never resumed.    *)
WokenNever(p, c) == c

(* The waiter that release resumes goes straight on to its request: the    *)
(* cool-down is not looked at again.                                       *)
Woken(p, c) ==
    IF mgr[p].waitQueue = <<>>
    THEN c
    ELSE [c EXCEPT ![Head(mgr[p].waitQueue)] = Sent(@)]

(* What a call does with an error that leaves the hop: the next entry of   *)
(* the chain when the error is eligible for failover, else the caller.     *)
LeaveHop(c, eligible) ==
    IF eligible /\ c.hop < Len(Chain)
    THEN [c EXCEPT !.at = "enter", !.hop = @ + 1, !.attempt = 0, !.empties = 0,
                   !.forced = FALSE, !.sent = 0]
    ELSE [c EXCEPT !.at = "failed"]

(* The statuses a provider may answer with, by what the code tells apart.  *)
Kinds == {"retryable", "rate_limited", "fatal"}
Eligible(kind) == kind # "fatal"

-----------------------------------------------------------------------------
(* A session calls complete or completeWithTools.                          *)
Call(r) ==
    /\ call[r].at = "idle"
    /\ call' = [call EXCEPT ![r].at = "enter"]
    /\ UNCHANGED <<aborted, mgr>>

(* The turn is aborted: the signal fires, and stays fired.                 *)
Abort(r) ==
    /\ call[r].at \notin {"idle"} \cup Settled
    /\ aborted' = aborted \cup {r}
    /\ UNCHANGED <<call, mgr>>

(* waitForCooldown: look at the cool-down once, sleep for what is left.    *)
EnterGate(r) ==
    /\ call[r].at = "enter"
    /\ LET left == mgr[ProviderOf(r)].cooldown IN
       call' = [call EXCEPT ![r].at = IF left > 0 THEN "cooldown" ELSE "admitted",
                            ![r].timer = left]
    /\ UNCHANGED <<aborted, mgr>>

(* acquire, then fn(): take a free slot and send, or wait for one.         *)
Acquire(r) ==
    LET p == ProviderOf(r) IN
    /\ call[r].at = "admitted"
    /\ \/ /\ mgr[p].inFlight < MaxConcurrent
          /\ mgr' = [mgr EXCEPT ![p].inFlight = @ + 1]
          /\ call' = [call EXCEPT ![r] = Sent(@)]
       \/ /\ mgr[p].inFlight >= MaxConcurrent
          /\ mgr' = [mgr EXCEPT ![p].waitQueue = Append(@, r)]
          /\ call' = [call EXCEPT ![r].at = "queued"]
    /\ UNCHANGED aborted

(* A timer fires.  After the cool-down the call goes on to acquire without *)
(* looking again; after a delay it goes round the loop to acquireSlot.     *)
TimerFires(r) ==
    /\ call[r].at \in Waiting
    /\ call[r].timer = 0
    /\ call' = [call EXCEPT ![r].at = IF @ = "cooldown" THEN "admitted" ELSE "enter"]
    /\ UNCHANGED <<aborted, mgr>>

(* The headers of a good answer: recordSuccess and the slot is released    *)
(* while the body is still to be read.                                     *)
Headers(r) ==
    LET p == ProviderOf(r) IN
    /\ call[r].at = "flight"
    /\ r \notin aborted
    /\ call' = Woken(p, [call EXCEPT ![r].at = "reading"])
    /\ mgr' = [mgr EXCEPT ![p] = Release(RecordSuccess(@))]
    /\ UNCHANGED aborted

(* Faulty variant: one retry too many.                                     *)
GateRetryOffByOne(r, kind, jitter, retryAfter) ==
    LET p == ProviderOf(r)
        delay == BackoffDelay(mgr[p].backoff, jitter, ExtractRetryAfter)
    IN /\ call[r].at = "flight"
       /\ r \notin aborted
       /\ Eligible(kind)
       /\ call[r].attempt <= MaxRetries
       /\ kind # "rate_limited" => retryAfter = 0
       /\ call' = Woken(p, [call EXCEPT ![r].at = "delay", ![r].timer = delay,
                                        ![r].attempt = @ + 1])
       /\ mgr' = [mgr EXCEPT ![p] = Asked(Release(RecordFailure(@, delay)), retryAfter)]
       /\ UNCHANGED aborted

(* A request fails and the gate has retries left: record the failure,      *)
(* release the slot, sleep.                                                *)
GateRetry(r, kind, jitter, retryAfter) ==
    LET p == ProviderOf(r)
        delay == BackoffDelay(mgr[p].backoff, jitter, ExtractRetryAfter)
    IN /\ call[r].at = "flight"
       /\ r \notin aborted
       /\ Eligible(kind)
       /\ call[r].attempt < MaxRetries
       /\ kind # "rate_limited" => retryAfter = 0
       /\ call' = Woken(p, [call EXCEPT ![r].at = "delay", ![r].timer = delay,
                                        ![r].attempt = @ + 1])
       /\ mgr' = [mgr EXCEPT ![p] = Asked(Release(RecordFailure(@, delay)), retryAfter)]
       /\ UNCHANGED aborted

(* A request fails for good: the error leaves the hop, no failure is       *)
(* recorded.                                                               *)
GateThrow(r, kind) ==
    LET p == ProviderOf(r) IN
    /\ call[r].at = "flight"
    /\ r \notin aborted
    /\ kind = "fatal" \/ call[r].attempt >= MaxRetries
    /\ call' = Woken(p, [call EXCEPT ![r] = LeaveHop(@, Eligible(kind))])
    /\ mgr' = [mgr EXCEPT ![p] = Release(@)]
    /\ UNCHANGED aborted

(* Faulty variant: an aborted request counts as one that may fail over.    *)
AbortFlightFailsOver(r) ==
    LET p == ProviderOf(r) IN
    /\ call[r].at = "flight"
    /\ r \in aborted
    /\ call' = Woken(p, [call EXCEPT ![r] = LeaveHop(@, TRUE)])
    /\ mgr' = [mgr EXCEPT ![p] = Release(@)]
    /\ UNCHANGED aborted

(* A request whose signal has fired is rejected by fetch: no retry, no     *)
(* failover.                                                               *)
AbortFlight(r) ==
    LET p == ProviderOf(r) IN
    /\ call[r].at = "flight"
    /\ r \in aborted
    /\ call' = Woken(p, [call EXCEPT ![r].at = "aborted"])
    /\ mgr' = [mgr EXCEPT ![p] = Release(@)]
    /\ UNCHANGED aborted

(* The body is read to its end and has what was asked for: the call        *)
(* returns.                                                                *)
ReadAll(r) ==
    /\ call[r].at = "reading"
    /\ r \notin aborted
    /\ call' = [call EXCEPT ![r].at = "done"]
    /\ UNCHANGED <<aborted, mgr>>

(* Faulty variant: a text in answer to the forced request is answered with *)
(* another one.                                                            *)
ReadTextAgain(r) ==
    /\ call[r].at = "reading"
    /\ r \notin aborted
    /\ call' = [call EXCEPT ![r].at = "enter", ![r].forced = TRUE, ![r].attempt = 0]
    /\ UNCHANGED <<aborted, mgr>>

(* A text and no tool call, where the call has a response schema: in the   *)
(* same hop a second request, which must call the structured-output tool,  *)
(* goes through the gate with retries of its own.                          *)
ReadText(r) ==
    /\ call[r].at = "reading" /\ ~call[r].forced
    /\ r \notin aborted
    /\ call' = [call EXCEPT ![r].at = "enter", ![r].forced = TRUE, ![r].attempt = 0]
    /\ UNCHANGED <<aborted, mgr>>

(* An empty body: EmptyModelResponseError.  While retries are left the     *)
(* failure is recorded and the whole request is made again, the gate's own *)
(* count of attempts starting over; then the error is a 502.  The answer   *)
(* to the forced request is not looked at for being empty.                 *)
ReadEmpty(r, jitter) ==
    LET p == ProviderOf(r)
        delay == BackoffDelay(mgr[p].backoff, jitter, 0)
    IN /\ call[r].at = "reading" /\ ~call[r].forced
       /\ r \notin aborted
       /\ \/ /\ call[r].empties < EmptyRetries
             /\ call' = [call EXCEPT ![r].at = "empty", ![r].timer = delay,
                                     ![r].empties = @ + 1, ![r].attempt = 0]
             /\ mgr' = [mgr EXCEPT ![p] = RecordFailure(@, delay)]
          \/ /\ call[r].empties >= EmptyRetries
             /\ call' = [call EXCEPT ![r] = LeaveHop(@, TRUE)]
             /\ UNCHANGED mgr
       /\ UNCHANGED aborted

(* A body that does not parse is a 502 and fails over; a connection cut    *)
(* while the body is read, or an answer that does not meet the response    *)
(* schema, after the forced request as well, is an error that does not.    *)
ReadBroken(r, cut) ==
    /\ call[r].at = "reading"
    /\ r \notin aborted
    /\ call' = [call EXCEPT ![r] = LeaveHop(@, ~cut)]
    /\ UNCHANGED <<aborted, mgr>>

(* readStreamChunkOrAbort: the stream is cancelled and the call ends.      *)
AbortReading(r) ==
    /\ call[r].at = "reading"
    /\ r \in aborted
    /\ call' = [call EXCEPT ![r].at = "aborted"]
    /\ UNCHANGED <<aborted, mgr>>

(* One unit of time.                                                       *)
Less(n) == IF n > 0 THEN n - 1 ELSE 0
Tick ==
    /\ \/ \E r \in Calls : call[r].at \in Waiting /\ call[r].timer > 0
       \/ \E p \in Providers : mgr[p].cooldown > 0 \/ mgr[p].asked > 0
    /\ call' = [r \in Calls |-> IF call[r].at \in Waiting
                                THEN [call[r] EXCEPT !.timer = Less(@)] ELSE call[r]]
    /\ mgr' = [p \in Providers |->
                 [mgr[p] EXCEPT !.cooldown = Less(@), !.asked = Less(@)]]
    /\ UNCHANGED aborted

Answer(r) ==
    \/ Headers(r)
    \/ \E kind \in Kinds, jitter \in 0..Jitter, ra \in RetryAfters :
          GateRetry(r, kind, jitter, ra)
    \/ \E kind \in Kinds : GateThrow(r, kind)
    \/ AbortFlight(r)

Read(r) ==
    \/ ReadAll(r)
    \/ ReadText(r)
    \/ \E jitter \in 0..Jitter : ReadEmpty(r, jitter)
    \/ \E cut \in BOOLEAN : ReadBroken(r, cut)
    \/ AbortReading(r)

Step(r) == EnterGate(r) \/ Acquire(r) \/ TimerFires(r) \/ Answer(r) \/ Read(r)

Next == Tick \/ \E r \in Calls : Call(r) \/ Abort(r) \/ Step(r)

Spec == Init /\ [][Next]_vars

(* Microtasks and timers run; fetch settles every request and every body,  *)
(* at the latest through undici's headers and body timeouts.               *)
FairSpec == Spec /\ WF_vars(Tick) /\ \A r \in Calls : WF_vars(Step(r))

-----------------------------------------------------------------------------
TypeOK ==
    /\ call \in [Calls -> [at : {"idle", "enter", "cooldown", "admitted", "queued", "flight",
                                 "delay", "reading", "empty"} \cup Settled,
                           hop : Hops, attempt : 0..MaxRetries, empties : 0..EmptyRetries,
                           forced : BOOLEAN, timer : 0..(MaxDelay + Jitter), sent : Nat]]
    /\ aborted \subseteq Calls
    /\ \A p \in Providers :
          /\ mgr[p].inFlight \in 0..MaxConcurrent
          /\ mgr[p].waitQueue \in Seq(Calls)
          /\ mgr[p].backoff \in 0..MaxBackoff
          /\ mgr[p].cooldown \in 0..(MaxDelay + Jitter)

(* The counter of a provider is exactly the number of requests that hold   *)
(* one of its slots, and never above its concurrency: no path through a    *)
(* retry, an error, an abort or a failover releases a slot twice or keeps  *)
(* one (executeWithResilience's slotReleased and finally).                 *)
SlotsExact ==
    \A p \in Providers : /\ mgr[p].inFlight = Cardinality(In(p, "flight"))
                         /\ mgr[p].inFlight <= MaxConcurrent

(* No wake-up is lost: a call waits in a provider's queue only while all   *)
(* its slots are held, it is in exactly one queue, once, and a call that   *)
(* is not waiting is in none (acquire against release).                    *)
NoLostWakeup ==
    \A p \in Providers :
       LET q == mgr[p].waitQueue IN
       /\ q # <<>> => mgr[p].inFlight = MaxConcurrent
       /\ {q[i] : i \in 1..Len(q)} = In(p, "queued")
       /\ Len(q) = Cardinality(In(p, "queued"))

(* The answers a call has asked for in this hop, before the one it is at.  *)
Rounds(c) == c.empties + IF c.forced THEN 1 ELSE 0

(* The retry loops are nested, and their counts multiply and no more: one  *)
(* hop of a call makes at most (maxRetries + 1) requests for each of the   *)
(* answers withEmptyResponseRetry lets it ask for, and as many again for   *)
(* one forced answer (structuredOutputFollowUp).                           *)
SendBudget ==
    \A r \in Calls :
       call[r].sent <= (MaxRetries + 1) * Rounds(call[r]) + call[r].attempt + 1

(* The gate conserves what the calls of all sessions share: slots, waiters *)
(* and the number of requests a call may make, through every mixture of    *)
(* retries, empty answers, errors, aborts and hops.                        *)
SlotsConserved == TypeOK /\ SlotsExact /\ NoLostWakeup /\ SendBudget

(* An aborted turn stops: from the moment its signal fires a call never    *)
(* hops to the next provider, and the only way it settles is as aborted    *)
(* ("an aborted turn must stop, not hop to the next provider").            *)
AbortStops ==
    [][\A r \in aborted :
          /\ call'[r].hop = call[r].hop
          /\ call[r].at \notin Settled /\ call'[r].at \in Settled => call'[r].at = "aborted"]_vars

(* Every call settles, through the queue, the cool-downs, the retries and  *)
(* the chain, whatever the other calls of the same providers do.           *)
EveryCallSettles ==
    \A r \in Calls : call[r].at = "enter" ~> call[r].at \in Settled

-----------------------------------------------------------------------------
(* Claims of the documentation that the code does not keep.                *)

(* "acquireSlot(): wait for cooldown, then acquire a concurrency slot": no *)
(* request is sent while its provider is cooling down.                     *)
SentOutsideCooldown ==
    [][\A r \in Calls : call[r].at # "flight" /\ call'[r].at = "flight"
                           => mgr'[ProviderOf(r)].cooldown = 0]_vars

(* "If the server sends Retry-After and it exceeds the computed delay, the *)
(* Retry-After value is used instead": a call whose request was answered   *)
(* with a 429 sleeps at least as long as the provider asked.               *)
RetryAfterHonoured ==
    [][\A r \in Calls : call[r].at = "delay" /\ call'[r].at = "enter"
                           => mgr[ProviderOf(r)].asked = 0]_vars

(* "max: 5 in-flight requests": the requests of a provider whose answer is *)
(* not complete are never more than its concurrency.                       *)
WireBounded ==
    \A p \in Providers :
       Cardinality(In(p, "flight") \cup In(p, "reading")) <= MaxConcurrent

(* The signal aborts the request: a call whose turn was aborted does not   *)
(* sleep on (abortableDelay rejects when its signal fires).                *)
AbortEndsSleep ==
    [][\A r \in aborted :
          call[r].at \in {"delay", "empty"} => call'[r].timer = call[r].timer]_vars
=============================================================================
