--------------------------- MODULE SessionProofs ---------------------------
(***************************************************************************)
(* Proofs about a session.  First its turn queue, TurnQueue, for every set *)
(* of turns, every depth and every starvation threshold.  Then the turns   *)
(* it runs, AgentTurn, for every number of turns, calls, retries, steers   *)
(* and compaction requests: the histories, the channels and the abort.     *)
(***************************************************************************)
EXTENDS TurnQueue, AgentTurn, FiniteSetTheorems, SequenceTheorems, TLAPS

\* The values sq takes: TypeOK's first two conjuncts.
SQ == [live : BOOLEAN, high : Seq(SystemTurns), normal : Seq(UserTurns),
       runningEntry : Turns \cup {NoEntry}, consecutiveHighTurns : Nat]

Shallow(q) == Len(q.high) <= MaxDepth /\ Len(q.normal) <= MaxDepth

-----------------------------------------------------------------------------
(* What the synchronous helpers do to a SessionQueue.                      *)

\* Updating fields of a SessionQueue within their sets leaves a SessionQueue.
LEMMA SQUpdates ==
  ASSUME NEW q \in SQ, NEW h \in Seq(SystemTurns), NEW n \in Seq(UserTurns),
         NEW r \in Turns \cup {NoEntry}, NEW c \in Nat
  PROVE  /\ [q EXCEPT !.runningEntry = r, !.normal = n,
                      !.consecutiveHighTurns = c] \in SQ
         /\ [q EXCEPT !.runningEntry = r, !.high = h,
                      !.consecutiveHighTurns = c] \in SQ
         /\ [q EXCEPT !.runningEntry = r] \in SQ
         /\ [q EXCEPT !.live = TRUE] \in SQ
         /\ [q EXCEPT !.high = h] \in SQ
         /\ [q EXCEPT !.normal = n] \in SQ
         /\ [q EXCEPT !.high = h, !.normal = n] \in SQ
<1> DEFINE H == Seq(SystemTurns)
           N == Seq(UserTurns)
           R == Turns \cup {NoEntry}
           C == Nat
<1>1. /\ SQ = [live : BOOLEAN, high : H, normal : N, runningEntry : R,
               consecutiveHighTurns : C]
      /\ h \in H /\ n \in N /\ r \in R /\ c \in C
  BY DEF SQ
<1> HIDE DEF H, N, R, C
<1> QED BY <1>1

\* The fields of a SessionQueue and their sets.
LEMMA SQFields ==
  ASSUME NEW q \in SQ
  PROVE  /\ q.live \in BOOLEAN
         /\ q.high \in Seq(SystemTurns) /\ q.normal \in Seq(UserTurns)
         /\ q.runningEntry \in Turns \cup {NoEntry} /\ q.consecutiveHighTurns \in Nat
         /\ Len(q.high) \in Nat /\ Len(q.normal) \in Nat
BY LenProperties DEF SQ

\* cleanup() returns a SessionQueue whose tiers are those it was given.
LEMMA CleanupFacts ==
  ASSUME NEW q \in SQ
  PROVE  /\ Cleanup(q) \in SQ
         /\ Cleanup(q).high = q.high /\ Cleanup(q).normal = q.normal
         /\ Cleanup(q).runningEntry = q.runningEntry
         /\ ~Running(q) /\ Empty(q) => Cleanup(q) = NoSession
         /\ Running(q) \/ ~Empty(q) => Cleanup(q) = q
BY TurnsAssumption DEF SQ, Cleanup, NoSession, Running, Empty

\* pickNext() takes the head of one tier, and passes over a waiting user turn
\* only while the counter is below the threshold.
LEMMA PickNextFacts ==
  ASSUME NEW q \in SQ, ~Empty(q)
  PROVE  /\ PickNext(q) \in SQ
         /\ Running(PickNext(q))
         /\ Len(PickNext(q).high) <= Len(q.high)
         /\ Len(PickNext(q).normal) <= Len(q.normal)
         /\ \/ /\ PickNext(q).runningEntry \in UserTurns
               /\ PickNext(q).consecutiveHighTurns = 0
            \/ /\ PickNext(q).consecutiveHighTurns = q.consecutiveHighTurns + 1
               /\ PickNext(q).normal = q.normal
               /\ q.normal # <<>> => q.consecutiveHighTurns < StarvationThreshold
<1>1. CASE PicksNormal(q)
  <2>1. /\ q.normal \in Seq(UserTurns) /\ q.normal # <<>>
    BY <1>1 DEF SQ, PicksNormal
  <2>2. /\ Head(q.normal) \in UserTurns /\ Tail(q.normal) \in Seq(UserTurns)
        /\ Len(Tail(q.normal)) <= Len(q.normal)
    BY <2>1, HeadTailProperties
  <2>3. PickNext(q) = [q EXCEPT !.runningEntry = Head(q.normal),
                                !.normal = Tail(q.normal),
                                !.consecutiveHighTurns = 0]
    BY <1>1 DEF PickNext
  <2>4. /\ PickNext(q).runningEntry = Head(q.normal)
        /\ PickNext(q).normal = Tail(q.normal)
        /\ PickNext(q).high = q.high
        /\ PickNext(q).consecutiveHighTurns = 0
    BY <2>3 DEF SQ
  <2>5. PickNext(q) \in SQ
    <3> DEFINE r == Head(q.normal)
               n == Tail(q.normal)
    <3>1. r \in Turns \cup {NoEntry} /\ n \in Seq(UserTurns) /\ 0 \in Nat
      BY <2>2 DEF Turns
    <3>2. q.high \in Seq(SystemTurns)
      BY SQFields
    <3> HIDE DEF r, n
    <3>3. [q EXCEPT !.runningEntry = r, !.normal = n, !.consecutiveHighTurns = 0] \in SQ
      BY <3>1, <3>2, SQUpdates
    <3> QED BY <2>3, <3>3 DEF r, n
  <2>6. Len(q.high) <= Len(q.high)
    BY LenProperties DEF SQ
  <2> QED
    BY <2>2, <2>4, <2>5, <2>6, TurnsAssumption DEF Running, Turns
<1>2. CASE ~PicksNormal(q)
  <2>1. /\ q.high \in Seq(SystemTurns) /\ q.high # <<>>
    BY <1>2 DEF SQ, PicksNormal, Empty
  <2>2. /\ Head(q.high) \in SystemTurns /\ Tail(q.high) \in Seq(SystemTurns)
        /\ Len(Tail(q.high)) <= Len(q.high)
    BY <2>1, HeadTailProperties
  <2>3. q.normal # <<>> => q.consecutiveHighTurns < StarvationThreshold
    BY <1>2, <2>1, BoundsAssumption DEF PicksNormal, SQ
  <2>4. PickNext(q) = [q EXCEPT !.runningEntry = Head(q.high),
                                !.high = Tail(q.high),
                                !.consecutiveHighTurns = q.consecutiveHighTurns + 1]
    BY <1>2 DEF PickNext
  <2>5. /\ PickNext(q).runningEntry = Head(q.high)
        /\ PickNext(q).high = Tail(q.high)
        /\ PickNext(q).normal = q.normal
        /\ PickNext(q).consecutiveHighTurns = q.consecutiveHighTurns + 1
    BY <2>4 DEF SQ
  <2>6. PickNext(q) \in SQ
    <3> DEFINE r == Head(q.high)
               h == Tail(q.high)
               c == q.consecutiveHighTurns + 1
    <3>1. /\ r \in Turns \cup {NoEntry} /\ h \in Seq(SystemTurns)
          /\ q.normal \in Seq(UserTurns)
      BY <2>2, SQFields DEF Turns
    <3>2. c \in Nat
      BY SQFields
    <3> HIDE DEF r, h, c
    <3>3. [q EXCEPT !.runningEntry = r, !.high = h, !.consecutiveHighTurns = c] \in SQ
      BY <3>1, <3>2, SQUpdates
    <3> QED BY <2>4, <3>3 DEF r, h, c
  <2>7. Len(q.normal) <= Len(q.normal)
    BY LenProperties DEF SQ
  <2> QED
    BY <2>2, <2>3, <2>5, <2>6, <2>7, TurnsAssumption DEF Running, Turns
<1> QED BY <1>1, <1>2

\* pump() either leaves the record, forgets it, or starts a turn.
LEMMA PumpFacts ==
  ASSUME NEW q \in SQ, Shallow(q), NEW block \in BOOLEAN
  PROVE  /\ Pump(q, block) \in SQ /\ Shallow(Pump(q, block))
         /\ ~block /\ ~Running(Pump(q, block)) => Pump(q, block) = NoSession
         /\ block => Pump(q, block) = q
         /\ Running(q) => Pump(q, block) = q
<1>1. CASE block \/ Running(q)
  BY <1>1 DEF Pump
<1>2. CASE ~(block \/ Running(q)) /\ Empty(q)
  BY <1>2, CleanupFacts DEF Pump, Shallow
<1>3. CASE ~(block \/ Running(q)) /\ ~Empty(q)
  <2>1. Pump(q, block) = PickNext(q)
    BY <1>3 DEF Pump
  <2>2. /\ PickNext(q) \in SQ /\ Running(PickNext(q))
        /\ Len(PickNext(q).high) <= Len(q.high)
        /\ Len(PickNext(q).normal) <= Len(q.normal)
    BY <1>3, PickNextFacts
  <2>3. /\ q.high \in Seq(SystemTurns) /\ q.normal \in Seq(UserTurns)
        /\ PickNext(q).high \in Seq(SystemTurns) /\ PickNext(q).normal \in Seq(UserTurns)
    BY <2>2 DEF SQ
  <2>4. /\ Len(q.high) \in Nat /\ Len(q.normal) \in Nat
        /\ Len(PickNext(q).high) \in Nat /\ Len(PickNext(q).normal) \in Nat
    BY <2>3, LenProperties
  <2> QED BY <1>3, <2>1, <2>2, <2>4, BoundsAssumption DEF Shallow
<1> QED BY <1>1, <1>2, <1>3

\* Gluing the part of a sequence before a cut to the part after it gives a
\* sequence that is no longer.
LEMMA SpliceFacts ==
  ASSUME NEW S, NEW s \in Seq(S), NEW a \in Nat, NEW b \in Nat,
         a < b, a <= Len(s)
  PROVE  /\ SubSeq(s, 1, a) \o SubSeq(s, b, Len(s)) \in Seq(S)
         /\ Len(SubSeq(s, 1, a) \o SubSeq(s, b, Len(s))) <= Len(s)
<1> DEFINE x == SubSeq(s, 1, a)
           y == SubSeq(s, b, Len(s))
<1>1. Len(s) \in Nat
  BY LenProperties
<1>2. x \in Seq(S) /\ Len(x) = a
  BY <1>1, SubSeqProperties
<1>3. y \in Seq(S) /\ Len(y) <= Len(s) - a /\ Len(y) \in Nat
  <2>1. CASE b <= Len(s)
    BY <1>1, <2>1, SubSeqProperties
  <2>2. CASE b > Len(s)
    BY <1>1, <2>2, SubSeqProperties
  <2> QED BY <1>1, <2>1, <2>2
<1> HIDE DEF x, y
<1>4. x \o y \in Seq(S) /\ Len(x \o y) = Len(x) + Len(y)
  BY <1>2, <1>3, ConcatProperties
<1>5. Len(x \o y) <= Len(s)
  BY <1>1, <1>2, <1>3, <1>4
<1> QED BY <1>4, <1>5 DEF x, y

\* A removal by range leaves a shorter tier, whatever the bounds.
LEMMA CutFacts ==
  ASSUME NEW S, NEW s \in Seq(S)
  PROVE  /\ \A start, end \in Nat :
              /\ CutOut(s, start, end) \in Seq(S)
              /\ Len(CutOut(s, start, end)) <= Len(s)
         /\ \A first, last \in Int :
              /\ CutPlaces(s, first, last) \in Seq(S)
              /\ Len(CutPlaces(s, first, last)) <= Len(s)
         /\ \A i \in 1 .. Len(s) :
              RemoveAt(s, i) \in Seq(S) /\ Len(RemoveAt(s, i)) <= Len(s)
<1>0. Len(s) \in Nat
  BY LenProperties
<1>1. ASSUME NEW start \in Nat, NEW end \in Nat
      PROVE  CutOut(s, start, end) \in Seq(S) /\ Len(CutOut(s, start, end)) <= Len(s)
  <2>1. CeilDiv(start) \in Nat /\ end \div Grain \in Nat
    BY BoundsAssumption DEF CeilDiv
  <2>2. CASE CeilDiv(start) > end \div Grain \/ CeilDiv(start) >= Len(s)
    BY <1>0, <2>2 DEF CutOut
  <2>3. CASE ~(CeilDiv(start) > end \div Grain \/ CeilDiv(start) >= Len(s))
    <3> DEFINE a == CeilDiv(start)
               b == (end \div Grain) + 2
    <3>1. a \in Nat /\ b \in Nat /\ a < b /\ a <= Len(s)
      BY <1>0, <2>1, <2>3
    <3>2. CutOut(s, start, end) = SubSeq(s, 1, a) \o SubSeq(s, b, Len(s))
      BY <2>3 DEF CutOut
    <3> HIDE DEF a, b
    <3> QED BY <3>1, <3>2, SpliceFacts
  <2> QED BY <2>2, <2>3
<1>2. ASSUME NEW first \in Int, NEW last \in Int
      PROVE  CutPlaces(s, first, last) \in Seq(S) /\ Len(CutPlaces(s, first, last)) <= Len(s)
  <2>1. CASE first > last \/ first >= Len(s) \/ last < 0
    <3>1. CutPlaces(s, first, last) = s
      BY <2>1 DEF CutPlaces
    <3> QED BY <1>0, <3>1
  <2>2. CASE ~(first > last \/ first >= Len(s) \/ last < 0)
    <3> DEFINE a == IF first < 0 THEN 0 ELSE first
               b == last + 2
    <3>1. a \in Nat /\ b \in Nat /\ a < b /\ a <= Len(s)
      BY <1>0, <2>2
    <3>2. CutPlaces(s, first, last) = SubSeq(s, 1, a) \o SubSeq(s, b, Len(s))
      BY <2>2 DEF CutPlaces
    <3> HIDE DEF a, b
    <3> QED BY <3>1, <3>2, SpliceFacts
  <2> QED BY <2>1, <2>2
<1>3. ASSUME NEW i \in 1 .. Len(s)
      PROVE  RemoveAt(s, i) \in Seq(S) /\ Len(RemoveAt(s, i)) <= Len(s)
  <2> DEFINE a == i - 1
             b == i + 1
  <2>1. a \in Nat /\ b \in Nat /\ a < b /\ a <= Len(s)
    BY <1>0
  <2>2. RemoveAt(s, i) = SubSeq(s, 1, a) \o SubSeq(s, b, Len(s))
    BY DEF RemoveAt
  <2> HIDE DEF a, b
  <2> QED BY <2>1, <2>2, SpliceFacts
<1> QED BY <1>1, <1>2, <1>3

-----------------------------------------------------------------------------
(* Anti-starvation: what a pump does to the count of bypasses.             *)

\* The value CountBypass gives to bypassed, from a count c.
Bypass(q, p, c) ==
  IF p.normal = <<>> \/ Started(q, p) \cap UserTurns # {} THEN 0
  ELSE IF Started(q, p) # {} THEN c + 1 ELSE c

\* The scheduler's own counter bounds the bypasses, and so does the threshold.
Bounded(q, c) == c <= q.consecutiveHighTurns /\ c <= StarvationThreshold

\* A pump keeps the count bounded: it passes over a waiting user turn only
\* while the counter is below the threshold.
LEMMA BypassFacts ==
  ASSUME NEW q \in SQ, NEW block \in BOOLEAN, NEW c \in Nat, Bounded(q, c)
  PROVE  /\ Bypass(q, Pump(q, block), c) \in Nat
         /\ Bounded(Pump(q, block), Bypass(q, Pump(q, block), c))
<1> DEFINE p == Pump(q, block)
<1>0. q.consecutiveHighTurns \in Nat /\ StarvationThreshold \in Nat
  BY SQFields, BoundsAssumption
<1>1. CASE block \/ Running(q)
  <2>1. p = q
    BY <1>1 DEF Pump
  <2>2. Started(q, q) = {}
    BY DEF Started
  <2> QED BY <1>0, <2>1, <2>2 DEF Bypass, Bounded
<1>2. CASE ~(block \/ Running(q)) /\ Empty(q)
  <2>1. p = NoSession
    BY <1>2, CleanupFacts DEF Pump
  <2>2. p.normal = <<>> /\ p.consecutiveHighTurns = 0
    BY <2>1 DEF NoSession
  <2> QED BY <1>0, <2>2 DEF Bypass, Bounded
<1>3. CASE ~(block \/ Running(q)) /\ ~Empty(q)
  <2>1. p = PickNext(q)
    BY <1>3 DEF Pump
  <2>2. Started(q, p) = {p.runningEntry}
    BY <1>3, <2>1, PickNextFacts DEF Started
  <2>3. CASE p.runningEntry \in UserTurns /\ p.consecutiveHighTurns = 0
    <3>1. Started(q, p) \cap UserTurns # {}
      BY <2>2, <2>3
    <3> QED BY <1>0, <2>3, <3>1 DEF Bypass, Bounded
  <2>4. CASE /\ p.consecutiveHighTurns = q.consecutiveHighTurns + 1
             /\ p.normal = q.normal
             /\ q.normal # <<>> => q.consecutiveHighTurns < StarvationThreshold
    <3>1. CASE Bypass(q, p, c) = 0
      BY <1>0, <2>4, <3>1 DEF Bounded
    <3>2. CASE Bypass(q, p, c) = c + 1 /\ p.normal # <<>>
      BY <1>0, <2>4, <3>2 DEF Bounded
    <3> QED BY <2>2, <3>1, <3>2 DEF Bypass
  <2> QED BY <1>3, <2>1, <2>3, <2>4, PickNextFacts
<1> QED BY <1>1, <1>2, <1>3

-----------------------------------------------------------------------------
(* The records the actions hand to pump() and cleanup().                   *)

Same(q, p) == /\ p.runningEntry = q.runningEntry
              /\ p.consecutiveHighTurns = q.consecutiveHighTurns

\* enqueue() with room: the turn is appended to its tier.
LEMMA PushFacts ==
  ASSUME NEW q \in SQ, Shallow(q), NEW t \in Turns,
         Len(IF t \in SystemTurns THEN q.high ELSE q.normal) < MaxDepth
  PROVE  /\ PushEntry(GetOrCreate(q), t) \in SQ
         /\ Shallow(PushEntry(GetOrCreate(q), t))
         /\ Same(q, PushEntry(GetOrCreate(q), t))
<1> DEFINE g == GetOrCreate(q)
<1>0. /\ g \in SQ /\ g.high = q.high /\ g.normal = q.normal /\ Same(q, g)
  <2>1. g \in SQ
    BY SQFields, SQUpdates DEF GetOrCreate
  <2> QED BY <2>1 DEF GetOrCreate, Same, SQ
<1>1. /\ g.high \in Seq(SystemTurns) /\ g.normal \in Seq(UserTurns)
      /\ g.runningEntry \in Turns \cup {NoEntry} /\ g.consecutiveHighTurns \in Nat
      /\ Len(g.high) \in Nat /\ Len(g.normal) \in Nat /\ MaxDepth \in Nat
  BY <1>0, SQFields, BoundsAssumption
<1> HIDE DEF g
<1>2. CASE t \in SystemTurns
  <2> DEFINE h == Append(g.high, t)
  <2>1. h \in Seq(SystemTurns) /\ Len(h) = Len(g.high) + 1
    BY <1>1, <1>2, AppendProperties
  <2> HIDE DEF h
  <2>2. [g EXCEPT !.high = h] \in SQ
    BY <1>0, <1>1, <2>1, SQUpdates
  <2>3. /\ [g EXCEPT !.high = h].high = h /\ [g EXCEPT !.high = h].normal = g.normal
        /\ Same(g, [g EXCEPT !.high = h])
    BY <1>0 DEF SQ, Same
  <2>4. PushEntry(g, t) = [g EXCEPT !.high = h]
    BY <1>2 DEF PushEntry, h
  <2>5. Len(h) <= MaxDepth
    BY <1>0, <1>1, <1>2, <2>1
  <2> QED BY <1>0, <2>2, <2>3, <2>4, <2>5 DEF Shallow, Same, g
<1>3. CASE t \notin SystemTurns
  <2> DEFINE n == Append(g.normal, t)
  <2>1. n \in Seq(UserTurns) /\ Len(n) = Len(g.normal) + 1
    BY <1>1, <1>3, AppendProperties DEF Turns
  <2> HIDE DEF n
  <2>2. [g EXCEPT !.normal = n] \in SQ
    BY <1>0, <1>1, <2>1, SQUpdates
  <2>3. /\ [g EXCEPT !.normal = n].normal = n /\ [g EXCEPT !.normal = n].high = g.high
        /\ Same(g, [g EXCEPT !.normal = n])
    BY <1>0 DEF SQ, Same
  <2>4. PushEntry(g, t) = [g EXCEPT !.normal = n]
    BY <1>3 DEF PushEntry, n
  <2>5. Len(n) <= MaxDepth
    BY <1>0, <1>1, <1>3, <2>1
  <2> QED BY <1>0, <2>2, <2>3, <2>4, <2>5 DEF Shallow, Same, g
<1> QED BY <1>2, <1>3

\* Clearing the running slot.
LEMMA ReleasedFacts ==
  ASSUME NEW q \in SQ, Shallow(q)
  PROVE  /\ Released(q) \in SQ /\ Shallow(Released(q))
         /\ Released(q).runningEntry = NoEntry
         /\ Released(q).consecutiveHighTurns = q.consecutiveHighTurns
<1>1. Released(q) \in SQ
  BY SQFields, SQUpdates DEF Released
<1>2. /\ Released(q).high = q.high /\ Released(q).normal = q.normal
      /\ Released(q).runningEntry = NoEntry
      /\ Released(q).consecutiveHighTurns = q.consecutiveHighTurns
  BY DEF Released, SQ
<1> QED BY <1>1, <1>2 DEF Shallow

\* Shortening the tiers.
LEMMA ShortenFacts ==
  ASSUME NEW q \in SQ, Shallow(q), NEW h \in Seq(SystemTurns), NEW n \in Seq(UserTurns),
         Len(h) <= Len(q.high), Len(n) <= Len(q.normal)
  PROVE  /\ [q EXCEPT !.high = h, !.normal = n] \in SQ
         /\ Shallow([q EXCEPT !.high = h, !.normal = n])
         /\ Same(q, [q EXCEPT !.high = h, !.normal = n])
         /\ [q EXCEPT !.high = h] = [q EXCEPT !.high = h, !.normal = q.normal]
         /\ [q EXCEPT !.normal = n] = [q EXCEPT !.high = q.high, !.normal = n]
<1> DEFINE p == [q EXCEPT !.high = h, !.normal = n]
<1>1. p \in SQ
  BY SQFields, SQUpdates
<1>2. p.high = h /\ p.normal = n /\ Same(q, p)
  BY DEF SQ, Same
<1>3. /\ [q EXCEPT !.high = h] = [q EXCEPT !.high = h, !.normal = q.normal]
      /\ [q EXCEPT !.normal = n] = [q EXCEPT !.high = q.high, !.normal = n]
  BY DEF SQ
<1>4. Len(h) \in Nat /\ Len(n) \in Nat /\ Len(q.high) \in Nat /\ Len(q.normal) \in Nat
  BY SQFields, LenProperties
<1>5. Shallow(p)
  BY <1>2, <1>4, BoundsAssumption DEF Shallow
<1> QED BY <1>1, <1>2, <1>3, <1>5

-----------------------------------------------------------------------------
(* The inductive invariant.                                                *)

\* A turn inside a rewrite is executing.
RewriterRuns == \A t \in Turns : compaction[t] \in Compacting => exec[t] = "running"

\* A block taken without owning the slot is remembered in strayed.
StrayKnown == \A t \in Turns : compaction[t] = "other" => strayed

\* Until then at most one rewrite believes it froze the queue.
OneFreeze ==
  ~strayed => \A t, u \in Turns : compaction[t] = "own" /\ compaction[u] = "own" => t = u

SlotInv == /\ sq \in SQ /\ Shallow(sq)
           /\ bypassed \in Nat /\ Bounded(sq, bypassed)
           /\ IdleMeansForgotten

TurnInv == /\ blocked \in BOOLEAN
           /\ exec \in [Turns -> ExecStates]
           /\ promise \in [Turns -> Outcomes]
           /\ dequeued \in [Turns -> BOOLEAN]
           /\ compaction \in [Turns -> Compacting \cup {"none", "over"}]
           /\ strayed \in BOOLEAN
           /\ silent \subseteq Turns

FreezeInv == RewriterRuns /\ FreezeOwned /\ StrayKnown /\ FreezeHolds /\ OneFreeze

IInv == SlotInv /\ TurnInv /\ FreezeInv

\* TypeOK is the typing part of the inductive invariant.
LEMMA TypeOKIsTyping ==
  TypeOK <=> sq \in SQ /\ Shallow(sq) /\ bypassed \in Nat /\ TurnInv
BY DEF TypeOK, SQ, Shallow, TurnInv

\* The invariant holds of a session not yet in the Map.
LEMMA InitIInv == Init => IInv
<1> SUFFICES ASSUME Init PROVE IInv
  OBVIOUS
<1>1. sq \in SQ /\ Shallow(sq) /\ sq.consecutiveHighTurns = 0
  <2>1. /\ <<>> \in Seq(SystemTurns) /\ <<>> \in Seq(UserTurns) /\ Len(<<>>) = 0
    OBVIOUS
  <2> QED BY <2>1, BoundsAssumption DEF Init, NoSession, SQ, Shallow
<1>2. SlotInv
  BY <1>1, BoundsAssumption DEF Init, SlotInv, Bounded, IdleMeansForgotten
<1>3. TurnInv
  BY DEF Init, TurnInv, ExecStates, Outcomes
<1>4. FreezeInv
  BY DEF Init, FreezeInv, RewriterRuns, FreezeOwned, StrayKnown, FreezeHolds,
         OwnerKeepsFreeze, OneFreeze, Compacting, Holding
<1> QED BY <1>2, <1>3, <1>4 DEF IInv

\* A step that pumps a well-formed record keeps the queue's invariant.
LEMMA PumpStep ==
  ASSUME SlotInv, NEW q \in SQ, Shallow(q), Bounded(q, bypassed),
         NEW block \in BOOLEAN, sq' = Pump(q, block), CountBypass(q, sq'),
         block => blocked'
  PROVE  SlotInv'
<1>1. sq' \in SQ /\ Shallow(sq')
  BY PumpFacts
<1>2. bypassed' \in Nat /\ Bounded(sq', bypassed')
  <2>1. bypassed' = Bypass(q, Pump(q, block), bypassed)
    BY DEF CountBypass, Bypass
  <2> QED BY <2>1, BypassFacts DEF SlotInv
<1>3. IdleMeansForgotten'
  BY PumpFacts DEF IdleMeansForgotten
<1> QED BY <1>1, <1>2, <1>3 DEF SlotInv, Shallow, Bounded
\* Every step that leaves the freeze variables alone, and only lets turns start
\* in the running slot when the session is not frozen, keeps the freeze.
LEMMA FreezeStep ==
  ASSUME FreezeInv, TurnInv, TurnInv',
         UNCHANGED <<blocked, compaction, strayed>>,
         \A t \in Turns : exec[t] = "running" => exec'[t] = "running",
         blocked => sq'.runningEntry \in {sq.runningEntry, NoEntry}
  PROVE  FreezeInv'
<1>1. RewriterRuns'
  BY DEF FreezeInv, RewriterRuns
<1>2. FreezeOwned'
  BY DEF FreezeInv, FreezeOwned
<1>3. StrayKnown' /\ OneFreeze'
  BY DEF FreezeInv, StrayKnown, OneFreeze
<1>4. FreezeHolds'
  BY DEF FreezeInv, FreezeHolds, OwnerKeepsFreeze
<1> QED BY <1>1, <1>2, <1>3, <1>4 DEF FreezeInv

\* enqueue() with room keeps the invariant.
LEMMA EnqueueIInv ==
  ASSUME IInv, NEW t \in Turns, Enqueue(t)
  PROVE  IInv'
<1> DEFINE q == PushEntry(GetOrCreate(sq), t)
<1>1. q \in SQ /\ Shallow(q) /\ Same(sq, q)
  BY PushFacts DEF IInv, SlotInv, Enqueue, HasRoom, TierOf
<1>2. /\ sq' = Pump(q, blocked) /\ CountBypass(q, sq') /\ StartTurns(Started(q, sq'))
      /\ silent' \subseteq silent \cup {t}
      /\ dequeued' = [u \in Turns |-> dequeued[u] \/ u \in Started(q, sq')]
      /\ promise' = [promise EXCEPT ![t] = "pending"]
      /\ UNCHANGED <<blocked, compaction, strayed>>
  BY DEF Enqueue
<1> HIDE DEF q
<1>3. SlotInv'
  BY <1>1, <1>2, PumpStep DEF IInv, SlotInv, TurnInv, Bounded, Same
<1>4. TurnInv'
  BY <1>2 DEF IInv, TurnInv, StartTurns, ExecStates, Outcomes
<1>5. FreezeInv'
  <2>1. blocked => sq' = q
    BY <1>1, <1>2, PumpFacts DEF IInv, TurnInv
  <2>2. blocked => sq'.runningEntry \in {sq.runningEntry, NoEntry}
    BY <1>1, <2>1 DEF Same
  <2>3. \A u \in Turns : exec[u] = "running" => exec'[u] = "running"
    BY <1>2 DEF StartTurns
  <2> QED BY <1>2, <1>4, <2>2, <2>3, FreezeStep DEF IInv
<1> QED BY <1>3, <1>4, <1>5 DEF IInv

\* enqueue() into a full tier keeps it.
LEMMA EnqueueRefusedIInv ==
  ASSUME IInv, NEW t \in Turns, EnqueueRefused(t)
  PROVE  IInv'
<1>1. /\ sq' \in SQ /\ Shallow(sq') /\ Same(sq, sq')
      /\ sq'.high = sq.high /\ sq'.normal = sq.normal
  <2>1. sq' \in SQ
    BY SQFields, SQUpdates DEF IInv, SlotInv, EnqueueRefused, GetOrCreate
  <2>2. /\ sq'.high = sq.high /\ sq'.normal = sq.normal /\ Same(sq, sq')
    BY DEF IInv, SlotInv, EnqueueRefused, GetOrCreate, Same, SQ
  <2> QED BY <2>1, <2>2 DEF IInv, SlotInv, Shallow
<1>2. UNCHANGED <<blocked, exec, dequeued, compaction, strayed, silent, bypassed>>
  BY DEF EnqueueRefused
<1>3. sq # NoSession
  <2>1. SUFFICES ASSUME sq = NoSession PROVE FALSE
    OBVIOUS
  <2>2. Len(TierOf(t)) = 0
    BY <2>1 DEF TierOf, NoSession
  <2> QED BY <2>2, BoundsAssumption DEF EnqueueRefused, HasRoom
<1>4. SlotInv'
  <2>1. IdleMeansForgotten'
    BY <1>1, <1>2, <1>3 DEF IInv, SlotInv, IdleMeansForgotten, Same, Running
  <2> QED BY <1>1, <1>2, <2>1 DEF IInv, SlotInv, Bounded, Same, Shallow
<1>5. TurnInv'
  BY <1>2 DEF IInv, TurnInv, EnqueueRefused, Outcomes
<1>6. FreezeInv'
  BY <1>1, <1>2, <1>5, FreezeStep DEF IInv, Same
<1> QED BY <1>4, <1>5, <1>6 DEF IInv

\* So does the settlement of an execute(),
LEMMA ExecSettlesIInv ==
  ASSUME IInv, NEW t \in Turns, ExecSettles(t)
  PROVE  IInv'
<1>1. UNCHANGED <<sq, blocked, dequeued, compaction, strayed, silent, bypassed>>
  BY DEF ExecSettles
<1>2. SlotInv'
  BY <1>1 DEF IInv, SlotInv, IdleMeansForgotten, Bounded, Shallow, Running
<1>3. TurnInv'
  BY <1>1 DEF IInv, TurnInv, ExecSettles, ExecStates, Outcomes
<1>4. \A u \in Turns : compaction[u] \in Compacting => exec'[u] = exec[u]
  BY DEF ExecSettles, IInv, TurnInv
<1>5. RewriterRuns' /\ FreezeOwned'
  BY <1>1, <1>4 DEF IInv, FreezeInv, RewriterRuns, FreezeOwned, Compacting
<1>6. StrayKnown' /\ OneFreeze' /\ FreezeHolds'
  BY <1>1 DEF IInv, FreezeInv, StrayKnown, OneFreeze, FreezeHolds, OwnerKeepsFreeze
<1> QED BY <1>2, <1>3, <1>5, <1>6 DEF IInv, FreezeInv

\* the finally handler of the turn that owns the slot,
LEMMA TurnEndIInv ==
  ASSUME IInv, NEW t \in Turns, TurnEnd(t)
  PROVE  IInv'
<1> DEFINE q == Released(sq)
<1>1. q \in SQ /\ Shallow(q) /\ q.consecutiveHighTurns = sq.consecutiveHighTurns
  BY ReleasedFacts DEF IInv, SlotInv
<1>2. /\ sq' = Pump(q, FALSE) /\ CountBypass(q, sq') /\ blocked' = FALSE
      /\ exec' = [u \in Turns |-> IF u = t THEN "done"
                                  ELSE IF u \in Started(q, sq') THEN "running"
                                  ELSE exec[u]]
      /\ dequeued' = [u \in Turns |-> dequeued[u] \/ u \in Started(q, sq')]
      /\ compaction' = [compaction EXCEPT ![t] = "none"]
      /\ UNCHANGED <<promise, strayed, silent>>
      /\ exec[t] = "settled" /\ sq.runningEntry = t
  BY DEF TurnEnd, OwnsSlot
<1> HIDE DEF q
<1>3. SlotInv'
  BY <1>1, <1>2, PumpStep DEF IInv, SlotInv, Bounded
<1>4. TurnInv'
  BY <1>2 DEF IInv, TurnInv, ExecStates
<1>5. RewriterRuns' /\ FreezeOwned' /\ StrayKnown' /\ OneFreeze'
  BY <1>2 DEF IInv, TurnInv, FreezeInv, RewriterRuns, FreezeOwned, StrayKnown, OneFreeze,
              Compacting, Holding
<1>6. FreezeHolds'
  \* No rewrite holds the queue: its turn would be executing in the slot, which
  \* the ending turn owns.
  <2>1. SUFFICES ASSUME ~strayed, NEW u \in Turns, compaction'[u] = "own"
                 PROVE  FALSE
    BY <1>2 DEF FreezeHolds, OwnerKeepsFreeze
  <2>2. u # t /\ compaction[u] = "own"
    BY <1>2, <2>1 DEF IInv, TurnInv
  <2>3. sq.runningEntry \in {u, NoEntry}
    BY <2>1, <2>2 DEF IInv, FreezeInv, FreezeHolds, OwnerKeepsFreeze
  <2> QED BY <1>2, <2>2, <2>3, TurnsAssumption
<1> QED BY <1>3, <1>4, <1>5, <1>6 DEF IInv, FreezeInv

\* the finally handler of one that was force-released,
LEMMA TurnEndStaleIInv ==
  ASSUME IInv, NEW t \in Turns, TurnEndStale(t)
  PROVE  IInv'
<1>1. /\ UNCHANGED <<sq, blocked, promise, dequeued, strayed, silent, bypassed>>
      /\ exec[t] = "settled" /\ exec' = [exec EXCEPT ![t] = "done"]
      /\ compaction' = [compaction EXCEPT ![t] = "none"]
  BY DEF TurnEndStale
<1>2. SlotInv'
  BY <1>1 DEF IInv, SlotInv, IdleMeansForgotten, Bounded, Shallow, Running
<1>3. TurnInv'
  BY <1>1 DEF IInv, TurnInv, ExecStates
<1>4. RewriterRuns' /\ StrayKnown' /\ OneFreeze'
  BY <1>1 DEF IInv, TurnInv, FreezeInv, RewriterRuns, StrayKnown, OneFreeze,
              Compacting, Holding
<1>5. FreezeOwned'
  BY <1>1 DEF IInv, TurnInv, FreezeInv, FreezeOwned
<1>6. FreezeHolds'
  BY <1>1 DEF IInv, TurnInv, FreezeInv, FreezeHolds, OwnerKeepsFreeze
<1> QED BY <1>2, <1>3, <1>4, <1>5, <1>6 DEF IInv, FreezeInv

\* beginTurnQueueBlock,
LEMMA BeginCompactionIInv ==
  ASSUME IInv, NEW t \in Turns, BeginCompaction(t)
  PROVE  IInv'
<1> DEFINE c == IF ~Running(sq) \/ blocked THEN "unheld"
                ELSE IF sq.runningEntry = t THEN "own" ELSE "other"
<1>1. /\ exec[t] = "running" /\ compaction[t] = "none"
      /\ compaction' = [compaction EXCEPT ![t] = c]
      /\ blocked' = (blocked \/ Running(sq))
      /\ UNCHANGED <<sq, exec, promise, dequeued, silent, bypassed>>
  BY DEF BeginCompaction
<1>2. strayed' = (strayed \/ c = "other")
  BY <1>1 DEF BeginCompaction, IInv, TurnInv
<1>3. c \in Compacting
  BY DEF Compacting, Holding
<1>4. SlotInv'
  BY <1>1 DEF IInv, SlotInv, IdleMeansForgotten, Bounded, Shallow, Running
<1>5. TurnInv'
  BY <1>1, <1>2, <1>3 DEF IInv, TurnInv
<1>6. RewriterRuns' /\ StrayKnown'
  BY <1>1, <1>2 DEF IInv, TurnInv, FreezeInv, RewriterRuns, StrayKnown
<1>7. FreezeOwned'
  <2>1. CASE blocked
    BY <1>1, <2>1 DEF IInv, TurnInv, FreezeInv, FreezeOwned, Holding
  <2>2. CASE ~blocked /\ Running(sq)
    BY <1>1, <2>2 DEF IInv, TurnInv, FreezeOwned, Holding
  <2>3. CASE ~blocked /\ ~Running(sq)
    BY <1>1, <2>3 DEF FreezeOwned
  <2> QED BY <2>1, <2>2, <2>3
<1>8. OneFreeze' /\ FreezeHolds'
  <2>1. SUFFICES ASSUME ~strayed' PROVE OneFreeze' /\ FreezeHolds'
    BY DEF OneFreeze, FreezeHolds
  <2>2. CASE c = "own"
    \* The freeze was free, so nobody else believes to hold it.
    <3>1. \A u \in Turns : compaction[u] # "own"
      BY <1>2, <2>1, <2>2 DEF IInv, FreezeInv, FreezeHolds, OwnerKeepsFreeze
    <3> QED BY <1>1, <2>2, <3>1 DEF IInv, TurnInv, OneFreeze, FreezeHolds, OwnerKeepsFreeze
  <2>3. CASE c # "own"
    <3>1. \A u \in Turns : compaction'[u] = "own" => compaction[u] = "own"
      BY <1>1, <2>3 DEF IInv, TurnInv
    <3> QED BY <1>1, <1>2, <2>1, <3>1 DEF IInv, FreezeInv, OneFreeze, FreezeHolds,
                                          OwnerKeepsFreeze
  <2> QED BY <2>2, <2>3
<1> QED BY <1>4, <1>5, <1>6, <1>7, <1>8 DEF IInv, FreezeInv

\* endTurnQueueBlock,
LEMMA EndCompactionIInv ==
  ASSUME IInv, NEW t \in Turns, EndCompaction(t)
  PROVE  IInv'
<1>1. /\ exec[t] = "running" /\ compaction[t] \in Compacting
      /\ compaction' = [compaction EXCEPT ![t] = "over"]
      /\ blocked' = (blocked /\ ~Unfreezes(t))
      /\ StartTurns(Started(sq, sq'))
      /\ dequeued' = [u \in Turns |-> dequeued[u] \/ u \in Started(sq, sq')]
      /\ CountBypass(sq, sq')
      /\ UNCHANGED <<promise, strayed, silent>>
  BY DEF EndCompaction
<1>2. TurnInv'
  BY <1>1 DEF IInv, TurnInv, StartTurns, ExecStates
<1>3. RewriterRuns' /\ StrayKnown' /\ OneFreeze'
  BY <1>1 DEF IInv, TurnInv, StartTurns, FreezeInv, RewriterRuns, StrayKnown, OneFreeze,
              Compacting, Holding
<1>4. CASE Unfreezes(t)
  <2>1. sq' = Pump(sq, FALSE) /\ ~blocked'
    BY <1>1, <1>4 DEF EndCompaction
  <2>2. SlotInv'
    BY <1>1, <2>1, PumpStep DEF IInv, SlotInv
  <2>3. FreezeOwned'
    BY <2>1 DEF FreezeOwned
  <2>4. FreezeHolds'
    BY <1>1, <1>4 DEF IInv, TurnInv, FreezeInv, OneFreeze, StrayKnown, FreezeHolds,
                      OwnerKeepsFreeze, Unfreezes, Holding
  <2> QED BY <1>2, <1>3, <2>2, <2>3, <2>4 DEF IInv, FreezeInv
<1>5. CASE ~Unfreezes(t)
  <2>1. sq' = sq /\ blocked' = blocked
    BY <1>1, <1>5 DEF EndCompaction, IInv, TurnInv
  <2>2. Started(sq, sq') = {}
    BY <2>1 DEF Started
  <2>3. SlotInv'
    <3>1. bypassed' \in {0, bypassed}
      BY <1>1, <2>2 DEF CountBypass
    <3>2. sq.consecutiveHighTurns \in Nat
      BY SQFields DEF IInv, SlotInv
    <3> QED BY <2>1, <3>1, <3>2, BoundsAssumption
            DEF IInv, SlotInv, IdleMeansForgotten, Bounded, Shallow, Running
  <2>4. exec' = exec
    BY <1>1, <2>2 DEF StartTurns, IInv, TurnInv
  <2>5. FreezeOwned'
    BY <1>1, <1>5, <2>1, <2>4 DEF IInv, TurnInv, FreezeInv, FreezeOwned, Unfreezes, Holding
  <2>6. FreezeHolds'
    BY <1>1, <2>1 DEF IInv, TurnInv, FreezeInv, FreezeHolds, OwnerKeepsFreeze
  <2> QED BY <1>2, <1>3, <2>3, <2>5, <2>6 DEF IInv, FreezeInv
<1> QED BY <1>4, <1>5

\* A removal never touches the running slot, and leaves nothing behind only
\* when it also forgets the session.
LEMMA DropIInv ==
  ASSUME IInv, NEW S, NEW h \in Seq(SystemTurns), NEW n \in Seq(UserTurns),
         Len(h) <= Len(sq.high), Len(n) <= Len(sq.normal),
         Drop([sq EXCEPT !.high = h, !.normal = n], S)
  PROVE  IInv'
<1> DEFINE q == [sq EXCEPT !.high = h, !.normal = n]
<1>1. q \in SQ /\ Shallow(q) /\ Same(sq, q)
  BY ShortenFacts DEF IInv, SlotInv
<1>2. /\ sq.live /\ sq' = Cleanup(q) /\ Settle(S)
      /\ dequeued' = [t \in Turns |-> dequeued[t] \/ t \in S]
      /\ bypassed' = IF q.normal = <<>> THEN 0 ELSE bypassed
      /\ UNCHANGED <<blocked, exec, compaction, strayed, silent>>
  BY DEF Drop
<1> HIDE DEF q
<1>3. /\ sq' \in SQ /\ Shallow(sq') /\ sq'.runningEntry = sq.runningEntry
      /\ (sq' = NoSession /\ q.normal = <<>>) \/ sq' = q
  BY <1>1, <1>2, CleanupFacts DEF Shallow, Same, Empty
<1>4. bypassed' \in Nat /\ Bounded(sq', bypassed')
  <2>1. sq.consecutiveHighTurns \in Nat /\ sq'.consecutiveHighTurns \in Nat
    BY <1>3, SQFields DEF IInv, SlotInv
  <2>2. CASE q.normal = <<>>
    BY <1>2, <2>1, <2>2, BoundsAssumption DEF Bounded
  <2>3. CASE q.normal # <<>>
    BY <1>1, <1>2, <1>3, <2>1, <2>3 DEF IInv, SlotInv, Bounded, Same
  <2> QED BY <2>2, <2>3
<1>5. IdleMeansForgotten'
  <2>1. sq # NoSession
    BY <1>2 DEF NoSession
  <2> QED BY <1>2, <1>3, <2>1 DEF IInv, SlotInv, IdleMeansForgotten, Running
<1>6. SlotInv'
  BY <1>3, <1>4, <1>5 DEF SlotInv, Shallow, Bounded
<1>7. TurnInv'
  BY <1>2 DEF IInv, TurnInv, Settle, Outcomes
<1>8. FreezeInv'
  BY <1>2, <1>3, <1>7, FreezeStep DEF IInv
<1> QED BY <1>6, <1>7, <1>8 DEF IInv

\* Every operator removal is such a step.
LEMMA RemovalIInv ==
  ASSUME IInv,
         \/ \E start, end \in Places : \/ RemoveByRange(start, end)
                                       \/ RemoveByRangeAll(start, end)
         \/ RemoveById
         \/ Clear
  PROVE  IInv'
<1>0. /\ sq \in SQ /\ Shallow(sq)
      /\ sq.high \in Seq(SystemTurns) /\ sq.normal \in Seq(UserTurns)
      /\ Len(sq.high) \in Nat /\ Len(sq.normal) \in Nat
  BY SQFields DEF IInv, SlotInv
<1>1. ASSUME NEW h \in Seq(SystemTurns), Len(h) <= Len(sq.high), NEW S,
             Drop([sq EXCEPT !.high = h], S)
      PROVE  IInv'
  <2>1. Drop([sq EXCEPT !.high = h, !.normal = sq.normal], S)
    BY <1>0, <1>1, ShortenFacts
  <2>2. Len(sq.normal) <= Len(sq.normal)
    BY <1>0
  <2> QED BY <1>0, <1>1, <2>1, <2>2, DropIInv, Zenon
<1>2. ASSUME NEW n \in Seq(UserTurns), Len(n) <= Len(sq.normal), NEW S,
             Drop([sq EXCEPT !.normal = n], S)
      PROVE  IInv'
  <2>1. Drop([sq EXCEPT !.high = sq.high, !.normal = n], S)
    BY <1>0, <1>2, ShortenFacts
  <2>2. Len(sq.high) <= Len(sq.high)
    BY <1>0
  <2> QED BY <1>0, <1>2, <2>1, <2>2, DropIInv, Zenon
<1>3. ASSUME NEW start \in Places, NEW end \in Places, RemoveByRange(start, end)
      PROVE  IInv'
  <2>1. start \in Nat /\ end \in Nat
    BY BoundsAssumption DEF Places
  <2>2. /\ CutOut(sq.high, start, end) \in Seq(SystemTurns)
        /\ Len(CutOut(sq.high, start, end)) <= Len(sq.high)
        /\ CutOut(sq.normal, start, end) \in Seq(UserTurns)
        /\ Len(CutOut(sq.normal, start, end)) <= Len(sq.normal)
    BY <1>0, <2>1, CutFacts
  <2> QED BY <1>1, <1>2, <1>3, <2>2 DEF RemoveByRange
<1>4. ASSUME NEW start \in Places, NEW end \in Places, RemoveByRangeAll(start, end)
      PROVE  IInv'
  <2> DEFINE first == start \div Grain
             last == end \div Grain
             h == CutPlaces(sq.high, first, last)
             n == CutPlaces(sq.normal, first - Len(sq.high), last - Len(sq.high))
  <2>1. first \in Int /\ last \in Int
    BY BoundsAssumption DEF Places
  <2>2. Drop([sq EXCEPT !.high = h, !.normal = n], Slice(sq.high \o sq.normal, start, end))
    BY <1>4 DEF RemoveByRangeAll
  <2> HIDE DEF first, last
  <2>3. h \in Seq(SystemTurns) /\ Len(h) <= Len(sq.high)
    BY <1>0, <2>1, CutFacts
  <2>4. n \in Seq(UserTurns) /\ Len(n) <= Len(sq.normal)
    <3>1. first - Len(sq.high) \in Int /\ last - Len(sq.high) \in Int
      BY <1>0, <2>1
    <3> QED BY <1>0, <3>1, CutFacts
  <2> HIDE DEF h, n
  <2> QED BY <2>2, <2>3, <2>4, DropIInv
<1>5. ASSUME RemoveById
      PROVE  IInv'
  <2>1. CASE \E i \in 1 .. Len(sq.high) :
               Drop([sq EXCEPT !.high = RemoveAt(sq.high, i)], {sq.high[i]})
    <3>1. PICK i \in 1 .. Len(sq.high) :
                 Drop([sq EXCEPT !.high = RemoveAt(sq.high, i)], {sq.high[i]})
      BY <2>1
    <3> DEFINE h == RemoveAt(sq.high, i)
    <3>2. h \in Seq(SystemTurns) /\ Len(h) <= Len(sq.high)
      BY <1>0, CutFacts
    <3> HIDE DEF h
    <3> QED BY <1>1, <3>1, <3>2 DEF h
  <2>2. CASE \E i \in 1 .. Len(sq.normal) :
               Drop([sq EXCEPT !.normal = RemoveAt(sq.normal, i)], {sq.normal[i]})
    <3>1. PICK i \in 1 .. Len(sq.normal) :
                 Drop([sq EXCEPT !.normal = RemoveAt(sq.normal, i)], {sq.normal[i]})
      BY <2>2
    <3> DEFINE n == RemoveAt(sq.normal, i)
    <3>2. n \in Seq(UserTurns) /\ Len(n) <= Len(sq.normal)
      BY <1>0, CutFacts
    <3> HIDE DEF n
    <3> QED BY <1>2, <3>1, <3>2 DEF n
  <2> QED BY <1>5, <2>1, <2>2 DEF RemoveById
<1>6. ASSUME Clear
      PROVE  IInv'
  <2>1. /\ <<>> \in Seq(SystemTurns) /\ <<>> \in Seq(UserTurns)
        /\ Len(<<>>) <= Len(sq.high) /\ Len(<<>>) <= Len(sq.normal)
    BY <1>0
  <2>2. CASE Drop([sq EXCEPT !.high = <<>>], Contents(sq.high))
    BY <1>1, <2>1, <2>2
  <2>3. CASE Drop([sq EXCEPT !.normal = <<>>], Contents(sq.normal))
    BY <1>2, <2>1, <2>3
  <2>4. CASE Drop([sq EXCEPT !.high = <<>>, !.normal = <<>>], Queued)
    BY <2>1, <2>4, DropIInv
  <2> QED BY <1>6, <2>2, <2>3, <2>4 DEF Clear
<1> QED BY <1>3, <1>4, <1>5, <1>6

\* forceReleaseRunning()
LEMMA ForceReleaseIInv ==
  ASSUME IInv, ForceReleaseRunning
  PROVE  IInv'
<1> DEFINE q == Released(sq)
<1>1. /\ q \in SQ /\ Shallow(q) /\ q.runningEntry = NoEntry
      /\ q.consecutiveHighTurns = sq.consecutiveHighTurns
  BY ReleasedFacts DEF IInv, SlotInv
<1>2. /\ sq' = Pump(q, blocked) /\ CountBypass(q, sq') /\ StartTurns(Started(q, sq'))
      /\ Settle({sq.runningEntry})
      /\ dequeued' = [u \in Turns |-> dequeued[u] \/ u \in Started(q, sq')]
      /\ UNCHANGED <<blocked, compaction, strayed, silent>>
  BY DEF ForceReleaseRunning
<1> HIDE DEF q
<1>3. SlotInv'
  BY <1>1, <1>2, PumpStep DEF IInv, SlotInv, TurnInv, Bounded
<1>4. TurnInv'
  BY <1>2 DEF IInv, TurnInv, StartTurns, Settle, ExecStates, Outcomes
<1>5. FreezeInv'
  <2>1. blocked => sq' = q
    BY <1>1, <1>2, PumpFacts DEF IInv, TurnInv
  <2>2. \A u \in Turns : exec[u] = "running" => exec'[u] = "running"
    BY <1>2 DEF StartTurns
  <2> QED BY <1>1, <1>2, <1>4, <2>1, <2>2, FreezeStep DEF IInv
<1> QED BY <1>3, <1>4, <1>5 DEF IInv

\* and session_kill.
LEMMA SessionKillIInv ==
  ASSUME IInv, SessionKill
  PROVE  IInv'
<1> DEFINE c == [sq EXCEPT !.high = <<>>, !.normal = <<>>]
           q == Released(c)
<1>0. sq \in SQ /\ Shallow(sq) /\ Len(sq.high) \in Nat /\ Len(sq.normal) \in Nat
  BY SQFields DEF IInv, SlotInv
<1>1. c \in SQ /\ Shallow(c)
  <2>1. /\ <<>> \in Seq(SystemTurns) /\ <<>> \in Seq(UserTurns)
        /\ Len(<<>>) <= Len(sq.high) /\ Len(<<>>) <= Len(sq.normal)
    BY <1>0
  <2> QED BY <1>0, <2>1, ShortenFacts
<1>2. /\ sq' = Pump(q, blocked) /\ bypassed' = 0
      /\ Settle(Queued \cup {sq.runningEntry})
      /\ dequeued' = [t \in Turns |-> dequeued[t] \/ t \in Queued]
      /\ UNCHANGED <<blocked, exec, compaction, strayed, silent>>
  BY DEF SessionKill
<1> HIDE DEF c
<1>3. q \in SQ /\ Shallow(q) /\ q.runningEntry = NoEntry
  BY <1>1, ReleasedFacts
<1> HIDE DEF q
<1>4. sq' \in SQ /\ Shallow(sq') /\ (~blocked /\ ~Running(sq') => sq' = NoSession)
  BY <1>2, <1>3, PumpFacts DEF IInv, TurnInv
<1>5. SlotInv'
  <2>1. Bounded(sq', bypassed') /\ bypassed' \in Nat
    BY <1>2, <1>4, SQFields, BoundsAssumption DEF Bounded
  <2>2. IdleMeansForgotten'
    BY <1>2, <1>4 DEF IdleMeansForgotten
  <2> QED BY <1>4, <2>1, <2>2 DEF SlotInv, Shallow, Bounded
<1>6. TurnInv'
  BY <1>2 DEF IInv, TurnInv, Settle, Outcomes
<1>7. FreezeInv'
  <2>1. blocked => sq' = q
    BY <1>2, <1>3, PumpFacts DEF IInv, TurnInv
  <2> QED BY <1>2, <1>3, <1>6, <2>1, FreezeStep DEF IInv
<1> QED BY <1>5, <1>6, <1>7 DEF IInv

\* Every step keeps the invariant.
LEMMA NextIInv == IInv /\ [Next]_vars => IInv'
<1> SUFFICES ASSUME IInv, [Next]_vars PROVE IInv'
  OBVIOUS
<1>1. CASE UNCHANGED vars
  BY <1>1 DEF vars, IInv, SlotInv, TurnInv, FreezeInv, Shallow, Bounded,
              IdleMeansForgotten, Running, RewriterRuns, FreezeOwned, StrayKnown,
              FreezeHolds, OwnerKeepsFreeze, OneFreeze
<1>2. CASE Next
  BY <1>2, EnqueueIInv, EnqueueRefusedIInv, ExecSettlesIInv, TurnEndIInv,
     TurnEndStaleIInv, BeginCompactionIInv, EndCompactionIInv, RemovalIInv,
     ForceReleaseIInv, SessionKillIInv DEF Next, TurnStep
<1> QED BY <1>1, <1>2

\* The inductive invariant holds in every reachable state, for every set of turns.
THEOREM Invariance == Spec => []IInv
BY InitIInv, NextIInv, PTL DEF Spec

-----------------------------------------------------------------------------
(* The properties that follow from it.                                     *)

\* TypeOK holds in every reachable state, for every set of turns: in
\* particular enqueue()'s depth check keeps each tier within maxDepth.
THEOREM TypeCorrect == Spec => []TypeOK
<1>1. IInv => TypeOK
  BY TypeOKIsTyping DEF IInv, SlotInv
<1> QED BY <1>1, Invariance, PTL

\* pickNext() never starts more than StarvationThreshold system turns in a row
\* past a waiting user turn, whatever is enqueued, removed or released.
THEOREM NoStarvation == Spec => []StarvationBound
<1>1. IInv => StarvationBound
  BY DEF IInv, SlotInv, Bounded, StarvationBound
<1> QED BY <1>1, Invariance, PTL

\* No wake-up is lost: a session with no running turn and no block has been
\* removed from the Map, so it has no backlog.
THEOREM NoLostWakeup == Spec => []IdleMeansForgotten
<1>1. IInv => IdleMeansForgotten
  BY DEF IInv, SlotInv
<1> QED BY <1>1, Invariance, PTL

\* A block is always owned by a turn inside its rewrite, which will lift it.
THEOREM NoOrphanFreeze == Spec => []FreezeOwned
<1>1. IInv => FreezeOwned
  BY DEF IInv, FreezeInv
<1> QED BY <1>1, Invariance, PTL

\* Until a force-released turn takes a block of its own, a rewrite that froze
\* the queue keeps it frozen to its end.
THEOREM FreezeIsKept == Spec => []FreezeHolds
<1>1. IInv => FreezeHolds
  BY DEF IInv, FreezeInv
<1> QED BY <1>1, Invariance, PTL

-----------------------------------------------------------------------------
(* Order and membership of tiers.                                          *)

\* No element stands in two places.
NoRepeat(s) == \A t : ~Ahead(s, t, t)

\* p is s with some places left out.
Thinned(s, p) ==
  /\ Contents(p) \subseteq Contents(s)
  /\ \A t, u : Ahead(p, t, u) => Ahead(s, t, u)

\* The turns in the tiers of a record.
InTiers(q) == Contents(q.high) \cup Contents(q.normal)

\* What has become of a turn t whose execute() is at e and whose promise is at p, with d
\* the flag of its hook, when the record is q.
TurnOK(q, t, e, p, d) ==
  /\ e = "idle" => p \in {"none", "pending", "dropped", "full"}
                   /\ (p = "pending" => t \in InTiers(q))
  /\ e = "running" => p \in {"pending", "dropped"} /\ (q.runningEntry # t => p = "dropped")
  /\ e \in {"settled", "done"} => p \in {"settled", "dropped"}
  /\ q.runningEntry = t => e \in {"running", "settled"}
  /\ t \in InTiers(q) => /\ e = "idle" /\ p \in {"pending", "dropped"}
                         /\ Grain = 1 => p = "pending" /\ ~d
  /\ p = "none" => ~d

Accounted(q, ex, pr, dq) ==
  /\ NoRepeat(q.high) /\ NoRepeat(q.normal)
  /\ \A t \in Turns : TurnOK(q, t, ex[t], pr[t], dq[t])

\* The inductive invariant of the accounts.
AInv == Accounted(sq, exec, promise, dequeued)

\* Taking the head of a tier thins it, and the head stood ahead of all the others.
LEMMA TailThins ==
  ASSUME NEW S, NEW s \in Seq(S), s # <<>>
  PROVE  /\ Thinned(s, Tail(s))
         /\ Head(s) \in Contents(s) /\ Contents(s) = Contents(Tail(s)) \cup {Head(s)}
         /\ \A t \in Contents(Tail(s)) : Ahead(s, Head(s), t)
<1> DEFINE p == Tail(s)
<1>1. /\ Len(p) = Len(s) - 1 /\ Len(s) \in Nat /\ Len(s) # 0 /\ Head(s) = s[1]
      /\ \A i \in 1 .. Len(p) : p[i] = s[i + 1]
  BY HeadTailProperties, EmptySeq, LenProperties
<1> HIDE DEF p
<1>2. 1 \in 1 .. Len(s) /\ \A i \in 1 .. Len(p) : i + 1 \in 1 .. Len(s) /\ 1 < i + 1
  BY <1>1
<1>3. \A i \in 1 .. Len(s) : i = 1 \/ (i - 1 \in 1 .. Len(p) /\ p[i - 1] = s[i])
  BY <1>1
<1>4. Head(s) \in Contents(s) /\ Contents(p) \subseteq Contents(s)
  BY <1>1, <1>2 DEF Contents
<1>5. Contents(s) \subseteq Contents(p) \cup {Head(s)}
  BY <1>1, <1>3 DEF Contents
<1>6. \A t \in Contents(p) : Ahead(s, Head(s), t)
  BY <1>1, <1>2 DEF Contents, Ahead
<1>7. ASSUME NEW t, NEW u, Ahead(p, t, u) PROVE Ahead(s, t, u)
  <2>1. PICK i \in 1 .. Len(p), j \in 1 .. Len(p) : i < j /\ p[i] = t /\ p[j] = u
    BY <1>7 DEF Ahead
  <2>2. i + 1 \in 1 .. Len(s) /\ j + 1 \in 1 .. Len(s) /\ i + 1 < j + 1
    BY <1>2, <2>1
  <2> QED BY <1>1, <2>1, <2>2 DEF Ahead
<1> QED BY <1>4, <1>5, <1>6, <1>7 DEF Thinned, p

\* A push adds one element, behind all the others.
LEMMA AppendOrder ==
  ASSUME NEW S, NEW s \in Seq(S), NEW t \in S
  PROVE  /\ Contents(Append(s, t)) = Contents(s) \cup {t}
         /\ \A u, v : Ahead(Append(s, t), u, v)
                        => Ahead(s, u, v) \/ (v = t /\ u \in Contents(s))
<1> DEFINE p == Append(s, t)
<1>1. /\ Len(p) = Len(s) + 1 /\ Len(s) \in Nat /\ p[Len(s) + 1] = t
      /\ \A i \in 1 .. Len(s) : p[i] = s[i]
  BY AppendProperties, LenProperties
<1> HIDE DEF p
<1>2. \A i \in 1 .. Len(p) : i \in 1 .. Len(s) \/ i = Len(s) + 1
  BY <1>1
<1>3. Len(s) + 1 \in 1 .. Len(p) /\ \A i \in 1 .. Len(s) : i \in 1 .. Len(p)
  BY <1>1
<1>4. Contents(p) = Contents(s) \cup {t}
  <2>1. Contents(p) \subseteq Contents(s) \cup {t}
    BY <1>1, <1>2 DEF Contents
  <2>2. Contents(s) \subseteq Contents(p)
    BY <1>1, <1>3 DEF Contents
  <2>3. t \in Contents(p)
    BY <1>1, <1>3 DEF Contents
  <2> QED BY <2>1, <2>2, <2>3
<1>5. ASSUME NEW u, NEW v, Ahead(p, u, v)
      PROVE  Ahead(s, u, v) \/ (v = t /\ u \in Contents(s))
  <2>1. PICK i \in 1 .. Len(p), j \in 1 .. Len(p) : i < j /\ p[i] = u /\ p[j] = v
    BY <1>5 DEF Ahead
  <2>2. i \in 1 .. Len(s) /\ s[i] = u
    BY <1>1, <1>2, <2>1
  <2>3. CASE j \in 1 .. Len(s)
    BY <1>1, <2>1, <2>2, <2>3 DEF Ahead
  <2>4. CASE j = Len(s) + 1
    BY <1>1, <2>1, <2>2, <2>4 DEF Contents
  <2> QED BY <1>2, <2>3, <2>4
<1> QED BY <1>4, <1>5 DEF p

\* The elements of s in the places after a and before b.
Between(s, a, b) == {s[i] : i \in {j \in 1 .. Len(s) : a < j /\ j < b}}

\* p is what a removal of the turns in D leaves of s; with fractional places a turn
\* reported in D may stay.
Cut(s, p, D) ==
  /\ Thinned(s, p)
  /\ D \subseteq Contents(s) /\ Contents(s) \subseteq Contents(p) \cup D
  /\ Grain = 1 /\ NoRepeat(s) => Contents(p) \cap D = {}

\* Gluing what stands before a gap to what stands after it drops the gap.
LEMMA SpliceCuts ==
  ASSUME NEW S, NEW s \in Seq(S), NEW a \in Nat, NEW b \in Nat, a < b, a <= Len(s)
  PROVE  Cut(s, SubSeq(s, 1, a) \o SubSeq(s, b, Len(s)), Between(s, a, b))
<1> DEFINE x == SubSeq(s, 1, a)
           y == SubSeq(s, b, Len(s))
           p == x \o y
           g(i) == IF i <= a THEN i ELSE i - a + (b - 1)
<1>1. Len(s) \in Nat
  BY LenProperties
<1>2. x \in Seq(S) /\ Len(x) = a /\ \A i \in 1 .. a : x[i] = s[i]
  BY <1>1, SubSeqProperties
<1>3. /\ y \in Seq(S) /\ Len(y) \in Nat
      /\ Len(y) = IF b <= Len(s) THEN Len(s) - b + 1 ELSE 0
      /\ \A i \in 1 .. Len(y) : y[i] = s[b + i - 1]
  <2>1. CASE b <= Len(s)
    BY <1>1, <2>1, SubSeqProperties
  <2>2. CASE b > Len(s)
    <3>1. y = <<>>
      BY <1>1, <2>2, SubSeqEmpty
    <3> QED BY <1>1, <2>2, <3>1
  <2> QED BY <1>1, <2>1, <2>2
<1> HIDE DEF x, y
<1>4. /\ Len(p) = a + Len(y)
      /\ \A i \in 1 .. a + Len(y) : p[i] = IF i <= a THEN x[i] ELSE y[i - a]
  BY <1>2, <1>3, ConcatProperties
<1> HIDE DEF p
\* The place in s of each place of p.
<1>5. \A i \in 1 .. Len(p) : /\ g(i) \in 1 .. Len(s) /\ p[i] = s[g(i)]
                             /\ ~(a < g(i) /\ g(i) < b)
  <2> SUFFICES ASSUME NEW i \in 1 .. Len(p)
               PROVE  /\ g(i) \in 1 .. Len(s) /\ p[i] = s[g(i)] /\ ~(a < g(i) /\ g(i) < b)
    OBVIOUS
  <2>1. CASE i <= a
    BY <1>1, <1>2, <1>3, <1>4, <2>1
  <2>2. CASE i > a
    <3>0. i - a \in 1 .. Len(y)
      BY <1>3, <1>4, <2>2
    <3>1. i - a \in 1 .. Len(y) /\ p[i] = y[i - a] /\ b <= Len(s)
      <4>1. b <= Len(s)
        BY <1>1, <1>3, <3>0
      <4>2. p[i] = y[i - a]
        BY <1>3, <1>4, <2>2
      <4> QED BY <3>0, <4>1, <4>2
    <3>2. y[i - a] = s[b + (i - a) - 1] /\ b + (i - a) - 1 = i - a + (b - 1)
      BY <1>1, <1>3, <3>1
    <3> QED BY <1>1, <1>3, <1>4, <2>2, <3>1, <3>2
  <2> QED BY <1>3, <1>4, <2>1, <2>2
<1>6. \A i, j \in 1 .. Len(p) : i < j => g(i) < g(j)
  BY <1>3, <1>4
<1>7. \A k \in 1 .. Len(s) : (a < k /\ k < b) \/ \E i \in 1 .. Len(p) : g(i) = k
  <2> SUFFICES ASSUME NEW k \in 1 .. Len(s), ~(a < k /\ k < b)
               PROVE  \E i \in 1 .. Len(p) : g(i) = k
    OBVIOUS
  <2>1. CASE k <= a
    <3>1. k \in 1 .. Len(p) /\ g(k) = k
      BY <1>1, <1>3, <1>4, <2>1
    <3> QED BY <3>1
  <2>2. CASE k >= b
    <3>1. k - (b - 1) + a \in 1 .. Len(p) /\ g(k - (b - 1) + a) = k
      BY <1>1, <1>3, <1>4, <2>2
    <3> QED BY <3>1
  <2> QED BY <1>1, <2>1, <2>2
<1> HIDE DEF g
<1>8. Thinned(s, p)
  <2>1. Contents(p) \subseteq Contents(s)
    BY <1>5 DEF Contents
  <2>2. ASSUME NEW t, NEW u, Ahead(p, t, u) PROVE Ahead(s, t, u)
    <3>1. PICK i \in 1 .. Len(p), j \in 1 .. Len(p) : i < j /\ p[i] = t /\ p[j] = u
      BY <2>2 DEF Ahead
    <3>2. g(i) \in 1 .. Len(s) /\ g(j) \in 1 .. Len(s) /\ g(i) < g(j) /\ s[g(i)] = t /\ s[g(j)] = u
      BY <1>5, <1>6, <3>1
    <3> QED BY <3>2 DEF Ahead
  <2> QED BY <2>1, <2>2 DEF Thinned
<1>9. Between(s, a, b) \subseteq Contents(s)
  BY DEF Between, Contents
<1>10. Contents(s) \subseteq Contents(p) \cup Between(s, a, b)
  <2> SUFFICES ASSUME NEW k \in 1 .. Len(s) PROVE s[k] \in Contents(p) \cup Between(s, a, b)
    BY DEF Contents
  <2>1. CASE a < k /\ k < b
    BY <2>1 DEF Between
  <2>2. CASE \E i \in 1 .. Len(p) : g(i) = k
    BY <1>5, <2>2 DEF Contents
  <2> QED BY <1>7, <2>1, <2>2
<1>11. ASSUME NoRepeat(s), NEW t \in Contents(p), t \in Between(s, a, b) PROVE FALSE
  <2>1. PICK i \in 1 .. Len(p) : p[i] = t
    BY <1>11 DEF Contents
  <2>2. PICK k \in 1 .. Len(s) : a < k /\ k < b /\ s[k] = t
    BY <1>11 DEF Between
  <2>3. g(i) \in 1 .. Len(s) /\ s[g(i)] = t /\ g(i) # k
    BY <1>5, <2>1, <2>2
  <2>4. g(i) < k \/ k < g(i)
    BY <2>3
  <2> QED BY <1>11, <2>2, <2>3, <2>4 DEF NoRepeat, Ahead
<1> QED BY <1>8, <1>9, <1>10, <1>11 DEF Cut, p, x, y

\* Keeping a sequence is a cut of nothing, or of anything when places are fractional.
LEMMA KeepCuts ==
  ASSUME NEW s, NEW D, D \subseteq Contents(s), Grain = 1 => D = {}
  PROVE  Cut(s, s, D)
BY DEF Cut, Thinned

\* Emptying a tier drops all of it.
LEMMA EmptyCuts ==
  ASSUME NEW s
  PROVE  Cut(s, <<>>, Contents(s))
<1>1. Len(<<>>) = 0
  OBVIOUS
<1>2. Contents(<<>>) = {} /\ \A t, u : ~Ahead(<<>>, t, u)
  BY <1>1 DEF Contents, Ahead
<1> QED BY <1>2 DEF Cut, Thinned

\* The elements of s in the 0-based places from first to last.
Window(s, first, last) ==
  {s[i] : i \in {j \in 1 .. Len(s) : first <= j - 1 /\ j - 1 <= last}}

\* The removal by range of one tier drops what Array.prototype.slice reports.
LEMMA CutOutCuts ==
  ASSUME NEW S, NEW s \in Seq(S), NEW start \in Nat, NEW end \in Nat
  PROVE  Cut(s, CutOut(s, start, end), Slice(s, start, end))
<1> DEFINE a == CeilDiv(start)
           d == end \div Grain
           f == start \div Grain
           D == Slice(s, start, end)
<1>0. Len(s) \in Nat
  BY LenProperties
<1>1. a \in Nat /\ d \in Nat /\ f \in Nat
  BY BoundsAssumption DEF CeilDiv
<1>2. f <= a /\ (Grain = 1 => f = a)
  <2>1. Grain \in Nat \ {0}
    BY BoundsAssumption
  <2>2. f <= a
    BY <2>1 DEF CeilDiv
  <2>3. Grain = 1 => f = a
    BY <2>1 DEF CeilDiv
  <2> QED BY <2>2, <2>3
<1>3. D = Window(s, f, d)
  BY DEF Slice, Window
<1>4. CutOut(s, start, end) = IF a > d \/ a >= Len(s) THEN s
                              ELSE SubSeq(s, 1, a) \o SubSeq(s, d + 2, Len(s))
  BY DEF CutOut
<1> HIDE DEF a, d, f, D
<1>5. D \subseteq Contents(s)
  BY <1>3 DEF Window, Contents
<1>6. CASE a > d \/ a >= Len(s)
  <2>1. Grain = 1 => D = {}
    BY <1>0, <1>1, <1>2, <1>3, <1>6 DEF Window
  <2>2. CutOut(s, start, end) = s
    BY <1>4, <1>6
  <2> QED BY <1>5, <2>1, <2>2, KeepCuts DEF D
<1>7. CASE ~(a > d \/ a >= Len(s))
  <2> DEFINE b == d + 2
             p == SubSeq(s, 1, a) \o SubSeq(s, b, Len(s))
  <2>1. b \in Nat /\ a < b /\ a <= Len(s)
    BY <1>0, <1>1, <1>7
  <2>2. CutOut(s, start, end) = p
    BY <1>4, <1>7
  <2>3. Between(s, a, b) \subseteq D
    BY <1>0, <1>1, <1>2, <1>3, SMTT(60) DEF Between, Window
  <2>4. Grain = 1 => Between(s, a, b) = D
    BY <1>0, <1>1, <1>2, <1>3, SMTT(60) DEF Between, Window
  <2> HIDE DEF b
  <2>5. Cut(s, p, Between(s, a, b))
    BY <1>1, <2>1, SpliceCuts
  <2> HIDE DEF p
  <2> QED BY <1>5, <2>2, <2>3, <2>4, <2>5 DEF Cut, D
<1> QED BY <1>6, <1>7

\* The removal by id of a window of the listing drops that window of a tier.
LEMMA CutPlacesCuts ==
  ASSUME NEW S, NEW s \in Seq(S), NEW first \in Int, NEW last \in Int
  PROVE  Cut(s, CutPlaces(s, first, last), Window(s, first, last))
<1>0. Len(s) \in Nat
  BY LenProperties
<1>1. CASE first > last \/ first >= Len(s) \/ last < 0
  <2>1. CutPlaces(s, first, last) = s
    BY <1>1 DEF CutPlaces
  <2>2. Window(s, first, last) = {}
    BY <1>0, <1>1 DEF Window
  <2> QED BY <2>1, <2>2, KeepCuts
<1>2. CASE ~(first > last \/ first >= Len(s) \/ last < 0)
  <2> DEFINE a == IF first < 0 THEN 0 ELSE first
             b == last + 2
  <2>1. a \in Nat /\ b \in Nat /\ a < b /\ a <= Len(s)
    BY <1>0, <1>2
  <2>2. CutPlaces(s, first, last) = SubSeq(s, 1, a) \o SubSeq(s, b, Len(s))
    BY <1>2 DEF CutPlaces
  <2>3. \A j \in 1 .. Len(s) : (a < j /\ j < b) <=> (first <= j - 1 /\ j - 1 <= last)
    BY <1>0
  <2> HIDE DEF a, b
  <2>4. Between(s, a, b) = Window(s, first, last)
    BY <2>3 DEF Between, Window
  <2> QED BY <2>1, <2>2, <2>4, SpliceCuts
<1> QED BY <1>1, <1>2

\* The removal of one id drops that turn.
LEMMA RemoveAtCuts ==
  ASSUME NEW S, NEW s \in Seq(S), NEW i \in 1 .. Len(s)
  PROVE  Cut(s, RemoveAt(s, i), {s[i]})
<1> DEFINE a == i - 1
           b == i + 1
<1>1. a \in Nat /\ b \in Nat /\ a < b /\ a <= Len(s)
  BY LenProperties
<1>2. RemoveAt(s, i) = SubSeq(s, 1, a) \o SubSeq(s, b, Len(s))
  BY DEF RemoveAt
<1>3. \A j \in 1 .. Len(s) : (a < j /\ j < b) <=> j = i
  BY LenProperties
<1> HIDE DEF a, b
<1>4. Between(s, a, b) = {s[i]}
  BY <1>3 DEF Between
<1> QED BY <1>1, <1>2, <1>4, SpliceCuts

\* A slice of the listing high followed by normal is a window of each.
LEMMA ListingSlice ==
  ASSUME NEW S, NEW T, NEW h \in Seq(S), NEW n \in Seq(T), NEW start \in Nat, NEW end \in Nat
  PROVE  Slice(h \o n, start, end)
           = Window(h, start \div Grain, end \div Grain)
             \cup Window(n, (start \div Grain) - Len(h), (end \div Grain) - Len(h))
<1> DEFINE f == start \div Grain
           d == end \div Grain
           l == h \o n
<1>1. f \in Int /\ d \in Int
  BY BoundsAssumption
<1>2. Slice(l, start, end) = Window(l, f, d)
  BY DEF Slice, Window
<1> HIDE DEF f, d
<1>3. h \in Seq(S \cup T) /\ n \in Seq(S \cup T)
  <2>1. /\ \A i \in 1 .. Len(h) : h[i] \in S \cup T
        /\ \A i \in 1 .. Len(n) : n[i] \in S \cup T
    BY ElementOfSeq
  <2>2. h = [i \in 1 .. Len(h) |-> h[i]] /\ n = [i \in 1 .. Len(n) |-> n[i]]
    BY LenProperties
  <2> QED BY <2>1, <2>2, LenProperties, IsASeq
<1>4. /\ Len(h) \in Nat /\ Len(n) \in Nat /\ Len(l) = Len(h) + Len(n)
      /\ \A i \in 1 .. Len(h) + Len(n) : l[i] = IF i <= Len(h) THEN h[i] ELSE n[i - Len(h)]
  BY <1>3, ConcatProperties, LenProperties
<1> HIDE DEF l
<1>5. ASSUME NEW i \in 1 .. Len(l), f <= i - 1, i - 1 <= d
      PROVE  l[i] \in Window(h, f, d) \cup Window(n, f - Len(h), d - Len(h))
  <2>1. CASE i <= Len(h)
    <3>1. i \in 1 .. Len(h) /\ l[i] = h[i]
      BY <1>4, <2>1
    <3> QED BY <1>5, <3>1 DEF Window
  <2>2. CASE i > Len(h)
    <3> DEFINE j == i - Len(h)
    <3>1. /\ j \in 1 .. Len(n) /\ f - Len(h) <= j - 1 /\ j - 1 <= d - Len(h)
      BY <1>1, <1>4, <1>5, <2>2
    <3>2. l[i] = n[j]
      BY <1>4, <1>5, <2>2
    <3> HIDE DEF j
    <3> QED BY <3>1, <3>2 DEF Window
  <2> QED BY <1>4, <2>1, <2>2
<1>6. ASSUME NEW i \in 1 .. Len(h), f <= i - 1, i - 1 <= d
      PROVE  h[i] \in Window(l, f, d)
  <2>1. i \in 1 .. Len(l) /\ l[i] = h[i]
    BY <1>4
  <2> QED BY <1>6, <2>1 DEF Window
<1>7. ASSUME NEW i \in 1 .. Len(n), f - Len(h) <= i - 1, i - 1 <= d - Len(h)
      PROVE  n[i] \in Window(l, f, d)
  <2> DEFINE j == i + Len(h)
  <2>1. /\ j \in 1 .. Len(l) /\ j > Len(h) /\ j - Len(h) = i /\ f <= j - 1 /\ j - 1 <= d
    BY <1>1, <1>4, <1>7
  <2> HIDE DEF j
  <2>2. l[j] = n[i]
    BY <1>4, <2>1
  <2> QED BY <2>1, <2>2 DEF Window
<1>8. Window(l, f, d) \subseteq Window(h, f, d) \cup Window(n, f - Len(h), d - Len(h))
  BY <1>5 DEF Window
<1>9. Window(h, f, d) \subseteq Window(l, f, d)
  BY <1>6 DEF Window
<1>10. Window(n, f - Len(h), d - Len(h)) \subseteq Window(l, f, d)
  BY <1>7 DEF Window
<1> QED BY <1>2, <1>8, <1>9, <1>10 DEF f, d, l

-----------------------------------------------------------------------------
(* Every turn is accounted for, and the tiers are first in, first out.      *)

\* Leaving places out repeats nothing.
LEMMA ThinnedKeeps ==
  ASSUME NEW s, NEW p, Thinned(s, p), NoRepeat(s)
  PROVE  NoRepeat(p)
BY DEF Thinned, NoRepeat

\* A tier holds turns of its own priority.
LEMMA TierMembers ==
  ASSUME NEW q \in SQ
  PROVE  Contents(q.high) \subseteq SystemTurns /\ Contents(q.normal) \subseteq UserTurns
BY SQFields, ElementOfSeq DEF Contents

\* r leaves the head of its tier of q for the slot of p.
Served(q, p, r) ==
  /\ ~Running(q) /\ p.runningEntry = r /\ Started(q, p) = {r}
  /\ InTiers(q) = InTiers(p) \cup {r}
  /\ NoRepeat(q.high) /\ NoRepeat(q.normal) => r \notin InTiers(p)
  /\ r \in SystemTurns => \A t \in Contents(p.high) : Ahead(q.high, r, t)
  /\ r \in UserTurns => \A t \in Contents(p.normal) : Ahead(q.normal, r, t)

\* pump() serves the head of a tier or nobody.
LEMMA PumpServes ==
  ASSUME NEW q \in SQ, NEW block \in BOOLEAN, NEW p, p = Pump(q, block)
  PROVE  /\ Thinned(q.high, p.high) /\ Thinned(q.normal, p.normal)
         /\ \/ /\ Started(q, p) = {} /\ p.runningEntry = q.runningEntry
               /\ p.high = q.high /\ p.normal = q.normal
            \/ \E r \in Turns : Served(q, p, r)
<1>1. CASE block \/ Running(q)
  BY <1>1 DEF Pump, Thinned, Started
<1>2. CASE ~(block \/ Running(q)) /\ Empty(q)
  BY <1>2, CleanupFacts DEF Pump, Thinned, Started, Running
<1>3. CASE ~(block \/ Running(q)) /\ ~Empty(q)
  <2>0. p = PickNext(q)
    BY <1>3 DEF Pump
  <2>1. Running(p) /\ Started(q, p) = {p.runningEntry}
    BY <1>3, <2>0, PickNextFacts DEF Started
  <2>2. CASE PicksNormal(q)
    <3> DEFINE r == Head(q.normal)
    <3>1. q.normal \in Seq(UserTurns) /\ q.normal # <<>>
      BY <2>2 DEF SQ, PicksNormal
    <3>2. p.runningEntry = r /\ p.normal = Tail(q.normal) /\ p.high = q.high
      BY <2>0, <2>2 DEF PickNext, SQ
    <3>3. /\ Thinned(q.normal, p.normal) /\ Contents(q.normal) = Contents(p.normal) \cup {r}
          /\ \A t \in Contents(p.normal) : Ahead(q.normal, r, t)
          /\ r \in UserTurns
      <4>1. r \in UserTurns
        BY <3>1, HeadTailProperties
      <4> QED BY <3>1, <3>2, <4>1, TailThins
    <3> HIDE DEF r
    <3>4. r \in Turns /\ r \notin SystemTurns /\ r \notin Contents(p.high)
      BY <3>2, <3>3, TierMembers, TurnsAssumption DEF Turns
    <3>5. NoRepeat(q.normal) => r \notin Contents(p.normal)
      BY <3>3 DEF NoRepeat
    <3>6. Thinned(q.high, p.high)
      BY <3>2 DEF Thinned
    <3>7. InTiers(q) = InTiers(p) \cup {r}
      BY <3>2, <3>3 DEF InTiers
    <3>8. Served(q, p, r)
      BY <1>3, <2>1, <3>2, <3>3, <3>4, <3>5, <3>7 DEF Served, InTiers
    <3> QED BY <3>3, <3>4, <3>6, <3>8
  <2>3. CASE ~PicksNormal(q)
    <3> DEFINE r == Head(q.high)
    <3>1. q.high \in Seq(SystemTurns) /\ q.high # <<>>
      BY <1>3, <2>3 DEF SQ, PicksNormal, Empty
    <3>2. p.runningEntry = r /\ p.high = Tail(q.high) /\ p.normal = q.normal
      BY <2>0, <2>3 DEF PickNext, SQ
    <3>3. /\ Thinned(q.high, p.high) /\ Contents(q.high) = Contents(p.high) \cup {r}
          /\ \A t \in Contents(p.high) : Ahead(q.high, r, t)
          /\ r \in SystemTurns
      <4>1. r \in SystemTurns
        BY <3>1, HeadTailProperties
      <4> QED BY <3>1, <3>2, <4>1, TailThins
    <3> HIDE DEF r
    <3>4. r \in Turns /\ r \notin UserTurns /\ r \notin Contents(p.normal)
      BY <3>2, <3>3, TierMembers, TurnsAssumption DEF Turns
    <3>5. NoRepeat(q.high) => r \notin Contents(p.high)
      BY <3>3 DEF NoRepeat
    <3>6. Thinned(q.normal, p.normal)
      BY <3>2 DEF Thinned
    <3>7. InTiers(q) = InTiers(p) \cup {r}
      BY <3>2, <3>3 DEF InTiers
    <3>8. Served(q, p, r)
      BY <1>3, <2>1, <3>2, <3>3, <3>4, <3>5, <3>7 DEF Served, InTiers
    <3> QED BY <3>3, <3>4, <3>6, <3>8
  <2> QED BY <2>2, <2>3
<1> QED BY <1>1, <1>2, <1>3

\* A pump keeps the accounts: the turn it serves was waiting, and no longer is.
LEMMA PumpAccounts ==
  ASSUME NEW q \in SQ, NEW block \in BOOLEAN, NEW p, p = Pump(q, block),
         NEW ex, NEW pr, NEW dq \in [Turns -> BOOLEAN], Accounted(q, ex, pr, dq),
         NEW ex2, ex2 = [t \in Turns |-> IF t \in Started(q, p) THEN "running" ELSE ex[t]],
         NEW dq2, dq2 = [t \in Turns |-> dq[t] \/ t \in Started(q, p)]
  PROVE  Accounted(p, ex2, pr, dq2)
<1>1. NoRepeat(p.high) /\ NoRepeat(p.normal)
  BY PumpServes, ThinnedKeeps DEF Accounted
<1>2. CASE /\ Started(q, p) = {} /\ p.runningEntry = q.runningEntry
           /\ p.high = q.high /\ p.normal = q.normal
  <2>1. \A t \in Turns : ex2[t] = ex[t] /\ dq2[t] = dq[t]
    BY <1>2
  <2>2. InTiers(p) = InTiers(q)
    BY <1>2 DEF InTiers
  <2> QED BY <1>1, <1>2, <2>1, <2>2 DEF Accounted, TurnOK
<1>3. CASE \E r \in Turns : Served(q, p, r)
  <2>1. PICK r \in Turns : Served(q, p, r)
    BY <1>3
  <2>2. /\ p.runningEntry = r /\ q.runningEntry = NoEntry /\ r \notin InTiers(p)
        /\ InTiers(q) = InTiers(p) \cup {r} /\ Started(q, p) = {r}
    BY <2>1 DEF Served, Accounted, Running
  <2>3. ASSUME NEW t \in Turns PROVE TurnOK(p, t, ex2[t], pr[t], dq2[t])
    <3>1. TurnOK(q, t, ex[t], pr[t], dq[t]) /\ t # NoEntry
      BY TurnsAssumption DEF Accounted
    <3>2. CASE t = r
      <4>1. ex2[t] = "running" /\ pr[t] \in {"pending", "dropped"}
        BY <2>2, <3>1, <3>2 DEF TurnOK
      <4> QED BY <2>2, <3>2, <4>1 DEF TurnOK
    <3>3. CASE t # r
      <4>1. ex2[t] = ex[t] /\ dq2[t] = dq[t] /\ (t \in InTiers(p) <=> t \in InTiers(q))
        BY <2>2, <3>3
      <4> QED BY <2>2, <3>1, <3>3, <4>1 DEF TurnOK
    <3> QED BY <3>2, <3>3
  <2> QED BY <1>1, <2>3 DEF Accounted
<1> QED BY <1>2, <1>3, PumpServes

\* FifoWithinTier's step formula.
Fifo == /\ NoOvertaking(sq.high, sq'.high, SystemTurns)
        /\ NoOvertaking(sq.normal, sq'.normal, UserTurns)

\* A pump of a record whose tiers keep the waiting turns in order overtakes nobody.
LEMMA PumpFifo ==
  ASSUME NEW q \in SQ, NEW block \in BOOLEAN, sq' = Pump(q, block),
         \A u \in Turns : Starts(u) => u \in Started(q, sq'),
         \A t \in Contents(sq.high) : \A u : Ahead(q.high, u, t) => Ahead(sq.high, u, t),
         \A t \in Contents(sq.normal) : \A u : Ahead(q.normal, u, t) => Ahead(sq.normal, u, t)
  PROVE  Fifo
<1> DEFINE p == sq'
<1>0. p = Pump(q, block) /\ \A u \in Turns : Starts(u) => u \in Started(q, p)
  OBVIOUS
<1> HIDE DEF p
<1>1. Thinned(q.high, p.high) /\ Thinned(q.normal, p.normal)
  BY <1>0, PumpServes
<1>2. ASSUME NEW t \in Contents(p.high), NEW u \in SystemTurns, Starts(u)
      PROVE  Ahead(q.high, u, t)
  <2>1. u \in Started(q, p)
    BY <1>0, <1>2 DEF Turns
  <2> QED BY <1>0, <1>2, <2>1, PumpServes DEF Served
<1>3. ASSUME NEW t \in Contents(p.normal), NEW u \in UserTurns, Starts(u)
      PROVE  Ahead(q.normal, u, t)
  <2>1. u \in Started(q, p)
    BY <1>0, <1>3 DEF Turns
  <2> QED BY <1>0, <1>3, <2>1, PumpServes DEF Served
<1>4. NoOvertaking(sq.high, p.high, SystemTurns)
  BY <1>1, <1>2 DEF NoOvertaking, Thinned
<1>5. NoOvertaking(sq.normal, p.normal, UserTurns)
  BY <1>1, <1>3 DEF NoOvertaking, Thinned
<1> QED BY <1>4, <1>5 DEF Fifo, p

\* Neither does a step that only thins the tiers and starts nobody.
LEMMA ThinFifo ==
  ASSUME Thinned(sq.high, sq'.high), Thinned(sq.normal, sq'.normal),
         \A u \in Turns : ~Starts(u)
  PROVE  Fifo
BY DEF Fifo, NoOvertaking, Thinned, Turns

\* The invariant, read for one turn.
LEMMA AInvReads ==
  ASSUME AInv, NEW t \in Turns
  PROVE  TurnOK(sq, t, exec[t], promise[t], dequeued[t])
BY DEF AInv, Accounted

\* A turn never enqueued is nowhere.
LEMMA NewTurn ==
  ASSUME IInv, AInv, NEW t \in Turns, promise[t] = "none"
  PROVE  exec[t] = "idle" /\ t \notin InTiers(sq) /\ sq.runningEntry # t /\ ~dequeued[t]
<1>1. TurnOK(sq, t, exec[t], promise[t], dequeued[t]) /\ exec[t] \in ExecStates
  BY AInvReads DEF IInv, TurnInv
<1> QED BY <1>1 DEF TurnOK, ExecStates

\* The tiers after a push.
LEMMA PushTiers ==
  ASSUME NEW q \in SQ, NEW t \in Turns, NEW p, p = PushEntry(GetOrCreate(q), t)
  PROVE  /\ p.runningEntry = q.runningEntry
         /\ \/ t \in SystemTurns /\ p.high = Append(q.high, t) /\ p.normal = q.normal
            \/ t \in UserTurns /\ p.normal = Append(q.normal, t) /\ p.high = q.high
BY DEF PushEntry, GetOrCreate, SQ, Turns

\* enqueue() with room keeps the accounts and overtakes nobody.
LEMMA EnqueueAccounts ==
  ASSUME IInv, AInv, NEW t \in Turns, Enqueue(t)
  PROVE  AInv' /\ Fifo
<1> DEFINE q == PushEntry(GetOrCreate(sq), t)
<1>1. q \in SQ
  BY PushFacts DEF IInv, SlotInv, Enqueue, HasRoom, TierOf
<1>2. /\ sq' = Pump(q, blocked) /\ promise[t] = "none"
      /\ exec' = [u \in Turns |-> IF u \in Started(q, sq') THEN "running" ELSE exec[u]]
      /\ dequeued' = [u \in Turns |-> dequeued[u] \/ u \in Started(q, sq')]
      /\ promise' = [promise EXCEPT ![t] = "pending"]
  BY DEF Enqueue, StartTurns
<1>3. /\ q.runningEntry = sq.runningEntry
      /\ \/ t \in SystemTurns /\ q.high = Append(sq.high, t) /\ q.normal = sq.normal
         \/ t \in UserTurns /\ q.normal = Append(sq.normal, t) /\ q.high = sq.high
  BY PushTiers DEF IInv, SlotInv
<1> HIDE DEF q
<1>4. sq.high \in Seq(SystemTurns) /\ sq.normal \in Seq(UserTurns) /\ blocked \in BOOLEAN
  BY SQFields DEF IInv, SlotInv, TurnInv
<1>5. exec[t] = "idle" /\ t \notin InTiers(sq) /\ sq.runningEntry # t /\ ~dequeued[t]
  BY <1>2, NewTurn
<1>6. /\ InTiers(q) = InTiers(sq) \cup {t}
      /\ \A u, v : Ahead(q.high, u, v) => Ahead(sq.high, u, v) \/ (v = t /\ u \in Contents(sq.high))
      /\ \A u, v : Ahead(q.normal, u, v)
                    => Ahead(sq.normal, u, v) \/ (v = t /\ u \in Contents(sq.normal))
  <2>1. CASE t \in SystemTurns /\ q.high = Append(sq.high, t) /\ q.normal = sq.normal
    <3>1. /\ Contents(q.high) = Contents(sq.high) \cup {t}
          /\ \A u, v : Ahead(q.high, u, v)
                        => Ahead(sq.high, u, v) \/ (v = t /\ u \in Contents(sq.high))
      BY <1>4, <2>1, AppendOrder
    <3> QED BY <2>1, <3>1 DEF InTiers
  <2>2. CASE t \in UserTurns /\ q.normal = Append(sq.normal, t) /\ q.high = sq.high
    <3>1. /\ Contents(q.normal) = Contents(sq.normal) \cup {t}
          /\ \A u, v : Ahead(q.normal, u, v)
                        => Ahead(sq.normal, u, v) \/ (v = t /\ u \in Contents(sq.normal))
      BY <1>4, <2>2, AppendOrder
    <3> QED BY <2>2, <3>1 DEF InTiers
  <2> QED BY <1>3, <2>1, <2>2
<1>7. /\ \A v \in Contents(sq.high) : \A u : Ahead(q.high, u, v) => Ahead(sq.high, u, v)
      /\ \A v \in Contents(sq.normal) : \A u : Ahead(q.normal, u, v) => Ahead(sq.normal, u, v)
  BY <1>5, <1>6 DEF InTiers
<1>8. NoRepeat(q.high) /\ NoRepeat(q.normal)
  BY <1>5, <1>6 DEF AInv, Accounted, NoRepeat, InTiers
<1>9. Accounted(q, exec, promise', dequeued)
  <2>1. ASSUME NEW u \in Turns PROVE TurnOK(q, u, exec[u], promise'[u], dequeued[u])
    <3>1. TurnOK(sq, u, exec[u], promise[u], dequeued[u])
      BY AInvReads
    <3>2. CASE u = t
      BY <1>2, <1>3, <1>5, <1>6, <3>2 DEF TurnOK, IInv, TurnInv
    <3>3. CASE u # t
      <4>1. promise'[u] = promise[u] /\ (u \in InTiers(q) <=> u \in InTiers(sq))
        BY <1>2, <1>6, <3>3
      <4> QED BY <1>3, <3>1, <4>1 DEF TurnOK
    <3> QED BY <3>2, <3>3
  <2> QED BY <1>8, <2>1 DEF Accounted
<1>10. AInv'
  <2>1. dequeued \in [Turns -> BOOLEAN]
    BY DEF IInv, TurnInv
  <2>2. Accounted(sq', exec', promise', dequeued')
    BY <1>1, <1>2, <1>4, <1>9, <2>1, PumpAccounts
  <2> QED BY <2>2 DEF AInv
<1>11. Fifo
  <2>1. \A u \in Turns : Starts(u) => u \in Started(q, sq')
    BY <1>2 DEF Starts
  <2> QED BY <1>1, <1>2, <1>4, <1>7, <2>1, PumpFifo
<1> QED BY <1>10, <1>11

\* enqueue() into a full tier answers its caller and touches no tier.
LEMMA EnqueueRefusedAccounts ==
  ASSUME IInv, AInv, NEW t \in Turns, EnqueueRefused(t)
  PROVE  AInv' /\ Fifo
<1>1. /\ sq'.high = sq.high /\ sq'.normal = sq.normal /\ sq'.runningEntry = sq.runningEntry
      /\ promise[t] = "none" /\ promise' = [promise EXCEPT ![t] = "full"]
      /\ exec' = exec /\ dequeued' = dequeued
  BY DEF IInv, SlotInv, EnqueueRefused, GetOrCreate, SQ
<1>2. exec[t] = "idle" /\ t \notin InTiers(sq) /\ sq.runningEntry # t /\ ~dequeued[t]
  BY <1>1, NewTurn
<1>3. InTiers(sq') = InTiers(sq)
  BY <1>1 DEF InTiers
<1>4. ASSUME NEW u \in Turns PROVE TurnOK(sq', u, exec'[u], promise'[u], dequeued'[u])
  <2>1. TurnOK(sq, u, exec[u], promise[u], dequeued[u])
    BY AInvReads
  <2>2. CASE u = t
    BY <1>1, <1>2, <1>3, <2>2 DEF TurnOK, IInv, TurnInv
  <2>3. CASE u # t
    BY <1>1, <1>3, <2>1, <2>3 DEF TurnOK
  <2> QED BY <2>2, <2>3
<1>5. AInv'
  BY <1>1, <1>4 DEF AInv, Accounted
<1>6. Fifo
  BY <1>1, ThinFifo DEF Thinned, Starts
<1> QED BY <1>5, <1>6

\* execute() settles its caller exactly when nobody else has.
LEMMA ExecSettlesAccounts ==
  ASSUME IInv, AInv, NEW t \in Turns, ExecSettles(t)
  PROVE  AInv' /\ Fifo
<1>1. /\ exec[t] = "running" /\ exec' = [exec EXCEPT ![t] = "settled"]
      /\ promise' = [promise EXCEPT ![t] = IF promise[t] = "pending" THEN "settled"
                                           ELSE promise[t]]
      /\ sq' = sq /\ dequeued' = dequeued
  BY DEF ExecSettles, IInv, TurnInv
<1>2. ASSUME NEW u \in Turns PROVE TurnOK(sq, u, exec'[u], promise'[u], dequeued[u])
  <2>1. TurnOK(sq, u, exec[u], promise[u], dequeued[u])
    BY AInvReads
  <2>2. CASE u = t
    <3>1. exec'[u] = "settled" /\ promise'[u] \in {"settled", "dropped"}
      BY <1>1, <2>1, <2>2 DEF TurnOK, IInv, TurnInv
    <3> QED BY <1>1, <2>1, <2>2, <3>1 DEF TurnOK
  <2>3. CASE u # t
    BY <1>1, <2>1, <2>3
  <2> QED BY <2>2, <2>3
<1>3. AInv'
  BY <1>1, <1>2 DEF AInv, Accounted
<1>4. Fifo
  BY <1>1, ThinFifo DEF Thinned, Starts, IInv, TurnInv
<1> QED BY <1>3, <1>4

\* The record with its slot cleared.
LEMMA ReleasedTiers ==
  ASSUME NEW q \in SQ
  PROVE  /\ Released(q).high = q.high /\ Released(q).normal = q.normal
         /\ Released(q).runningEntry = NoEntry /\ InTiers(Released(q)) = InTiers(q)
BY DEF Released, SQ, InTiers

\* The turn that owns the slot hands it to the next one.
LEMMA TurnEndAccounts ==
  ASSUME IInv, AInv, NEW t \in Turns, TurnEnd(t)
  PROVE  AInv' /\ Fifo
<1> DEFINE q == Released(sq)
           ex == [exec EXCEPT ![t] = "done"]
<1>1. /\ q \in SQ /\ q.runningEntry = NoEntry /\ InTiers(q) = InTiers(sq)
      /\ q.high = sq.high /\ q.normal = sq.normal
  BY ReleasedFacts, ReleasedTiers DEF IInv, SlotInv
<1>2. /\ sq' = Pump(q, FALSE) /\ promise' = promise
      /\ exec' = [u \in Turns |-> IF u = t THEN "done"
                                  ELSE IF u \in Started(q, sq') THEN "running"
                                  ELSE exec[u]]
      /\ dequeued' = [u \in Turns |-> dequeued[u] \/ u \in Started(q, sq')]
      /\ exec[t] = "settled" /\ sq.runningEntry = t
  BY DEF TurnEnd, OwnsSlot
<1> HIDE DEF q
<1>3. dequeued \in [Turns -> BOOLEAN]
  BY DEF IInv, TurnInv
<1>b. PICK b \in BOOLEAN : sq' = Pump(q, b)
  BY <1>2, Zenon
<1>4. Accounted(q, ex, promise, dequeued)
  <2>1. ASSUME NEW u \in Turns PROVE TurnOK(q, u, ex[u], promise[u], dequeued[u])
    <3>1. TurnOK(sq, u, exec[u], promise[u], dequeued[u]) /\ u # NoEntry
      BY AInvReads, TurnsAssumption
    <3>2. CASE u = t
      <4>1. ex[u] = "done" /\ exec[u] = "settled"
        BY <1>2, <3>2 DEF IInv, TurnInv
      <4> QED BY <1>1, <3>1, <4>1 DEF TurnOK
    <3>3. CASE u # t
      <4>1. ex[u] = exec[u]
        BY <3>3 DEF IInv, TurnInv
      <4> QED BY <1>1, <1>2, <3>1, <3>3, <4>1 DEF TurnOK
    <3> QED BY <3>2, <3>3
  <2> QED BY <1>1, <2>1 DEF AInv, Accounted
<1>5. t \notin Started(q, sq')
  <2>1. t \notin InTiers(q)
    BY <1>1, <1>2, AInvReads DEF TurnOK
  <2> DEFINE p == sq'
  <2>2. p = Pump(q, b)
    BY <1>b
  <2> HIDE DEF p
  <2>3. t \notin Started(q, p)
    BY <1>1, <2>1, <2>2, PumpServes DEF Served
  <2> QED BY <2>3 DEF p
<1>6. exec' = [u \in Turns |-> IF u \in Started(q, sq') THEN "running" ELSE ex[u]]
  BY <1>2, <1>5 DEF IInv, TurnInv
<1> HIDE DEF ex
<1>7. AInv'
  <2>0. /\ Accounted(q, ex, promise', dequeued) /\ q \in SQ
        /\ dequeued' = [u \in Turns |-> dequeued[u] \/ u \in Started(q, sq')]
    BY <1>1, <1>2, <1>4
  <2>1. Accounted(sq', exec', promise', dequeued')
    BY <1>b, <1>3, <1>6, <2>0, PumpAccounts
  <2> QED BY <2>1 DEF AInv
<1>8. Fifo
  <2>1. \A u \in Turns : Starts(u) => u \in Started(q, sq')
    BY <1>2 DEF Starts
  <2> QED BY <1>1, <1>2, <2>1, PumpFifo
<1> QED BY <1>7, <1>8

\* A force-released turn that ends touches no tier.
LEMMA TurnEndStaleAccounts ==
  ASSUME IInv, AInv, NEW t \in Turns, TurnEndStale(t)
  PROVE  AInv' /\ Fifo
<1>1. /\ exec[t] = "settled" /\ sq.runningEntry # t /\ exec' = [exec EXCEPT ![t] = "done"]
      /\ sq' = sq /\ promise' = promise /\ dequeued' = dequeued
  BY DEF TurnEndStale, OwnsSlot
<1>2. ASSUME NEW u \in Turns PROVE TurnOK(sq, u, exec'[u], promise[u], dequeued[u])
  <2>1. TurnOK(sq, u, exec[u], promise[u], dequeued[u])
    BY AInvReads
  <2>2. CASE u = t
    <3>1. exec'[u] = "done"
      BY <1>1, <2>2 DEF IInv, TurnInv
    <3> QED BY <1>1, <2>1, <2>2, <3>1 DEF TurnOK
  <2>3. CASE u # t
    BY <1>1, <2>1, <2>3
  <2> QED BY <2>2, <2>3
<1>3. AInv'
  BY <1>1, <1>2 DEF AInv, Accounted
<1>4. Fifo
  BY <1>1, ThinFifo DEF Thinned, Starts, IInv, TurnInv
<1> QED BY <1>3, <1>4

\* Steps that leave the queue and the turns alone, beginTurnQueueBlock among them.
LEMMA StandStillAccounts ==
  ASSUME AInv, UNCHANGED <<sq, exec, promise, dequeued>>
  PROVE  AInv' /\ Fifo
<1>1. AInv'
  BY DEF AInv
<1>2. Fifo
  BY ThinFifo DEF Thinned, Starts
<1> QED BY <1>1, <1>2

\* endTurnQueueBlock pumps the tiers the freeze held back, or does nothing.
LEMMA EndCompactionAccounts ==
  ASSUME IInv, AInv, NEW t \in Turns, EndCompaction(t)
  PROVE  AInv' /\ Fifo
<1>1. /\ exec' = [u \in Turns |-> IF u \in Started(sq, sq') THEN "running" ELSE exec[u]]
      /\ dequeued' = [u \in Turns |-> dequeued[u] \/ u \in Started(sq, sq')]
      /\ promise' = promise
  BY DEF EndCompaction, StartTurns
<1>2. /\ sq \in SQ /\ dequeued \in [Turns -> BOOLEAN] /\ exec \in [Turns -> ExecStates]
      /\ Accounted(sq, exec, promise', dequeued)
  BY <1>1 DEF IInv, SlotInv, TurnInv, AInv
<1>3. CASE sq' = Pump(sq, FALSE)
  <2>b. PICK b \in BOOLEAN : sq' = Pump(sq, b)
    BY <1>3, Zenon
  <2>1. Accounted(sq', exec', promise', dequeued')
    BY <1>1, <1>2, <2>b, PumpAccounts
  <2>2. AInv'
    BY <2>1 DEF AInv
  <2>3. \A u \in Turns : Starts(u) => u \in Started(sq, sq')
    BY <1>1 DEF Starts
  <2>4. Fifo
    BY <1>2, <1>3, <2>3, PumpFifo
  <2> QED BY <2>2, <2>4
<1>4. CASE sq' = sq
  <2>1. Started(sq, sq') = {}
    BY <1>4 DEF Started
  <2>2. exec' = exec /\ dequeued' = dequeued
    BY <1>1, <1>2, <2>1
  <2> QED BY <1>1, <1>4, <2>2, StandStillAccounts
<1> QED BY <1>3, <1>4 DEF EndCompaction

\* A removal keeps the accounts: the turns it drops were waiting, and with whole places
\* those that stay are not among them.
LEMMA DropAccounts ==
  ASSUME IInv, AInv, NEW S, NEW D, NEW E,
         NEW h \in Seq(SystemTurns), NEW n \in Seq(UserTurns),
         Cut(sq.high, h, D), Cut(sq.normal, n, E), S = D \cup E,
         Drop([sq EXCEPT !.high = h, !.normal = n], S)
  PROVE  AInv' /\ Fifo
<1> DEFINE q == [sq EXCEPT !.high = h, !.normal = n]
<1>1. /\ q \in SQ /\ q.high = h /\ q.normal = n /\ q.runningEntry = sq.runningEntry
  <2>1. q \in SQ
    BY SQFields, SQUpdates DEF IInv, SlotInv
  <2> QED BY <2>1 DEF IInv, SlotInv, SQ
<1>2. /\ sq' = Cleanup(q) /\ exec' = exec
      /\ promise' = [t \in Turns |-> IF t \in S /\ promise[t] = "pending"
                                     THEN "dropped" ELSE promise[t]]
      /\ dequeued' = [t \in Turns |-> dequeued[t] \/ t \in S]
  BY DEF Drop, Settle
<1> HIDE DEF q
<1>3. sq'.high = h /\ sq'.normal = n /\ sq'.runningEntry = sq.runningEntry
  BY <1>1, <1>2, CleanupFacts
<1>4. /\ Thinned(sq.high, h) /\ Thinned(sq.normal, n)
      /\ D \subseteq Contents(sq.high) /\ Contents(sq.high) \subseteq Contents(h) \cup D
      /\ E \subseteq Contents(sq.normal) /\ Contents(sq.normal) \subseteq Contents(n) \cup E
      /\ Grain = 1 => Contents(h) \cap D = {} /\ Contents(n) \cap E = {}
  BY DEF Cut, AInv, Accounted
<1>5. /\ InTiers(sq') \subseteq InTiers(sq) /\ S \subseteq InTiers(sq)
      /\ InTiers(sq) \subseteq InTiers(sq') \cup S
  BY <1>3, <1>4 DEF InTiers, Thinned
<1>6. Grain = 1 => InTiers(sq') \cap S = {}
  <2>1. Contents(sq.high) \cap Contents(sq.normal) = {}
    BY TierMembers, TurnsAssumption DEF IInv, SlotInv
  <2>2. Contents(h) \subseteq Contents(sq.high) /\ Contents(n) \subseteq Contents(sq.normal)
    BY <1>4 DEF Thinned
  <2> QED BY <1>3, <1>4, <2>1, <2>2 DEF InTiers
<1>7. NoRepeat(sq'.high) /\ NoRepeat(sq'.normal)
  <2>1. NoRepeat(h) /\ NoRepeat(n)
    BY <1>4, ThinnedKeeps DEF AInv, Accounted
  <2> QED BY <1>3, <2>1
<1>8. ASSUME NEW t \in Turns PROVE TurnOK(sq', t, exec'[t], promise'[t], dequeued'[t])
  <2>1. TurnOK(sq, t, exec[t], promise[t], dequeued[t])
    BY AInvReads
  <2>2. exec'[t] = exec[t] /\ promise[t] \in Outcomes
    BY <1>2 DEF IInv, TurnInv
  <2>3. CASE t \in S
    <3>1. t \in InTiers(sq)
      BY <1>5, <2>3
    <3>2. exec[t] = "idle" /\ promise[t] \in {"pending", "dropped"} /\ sq.runningEntry # t
      BY <2>1, <3>1 DEF TurnOK
    <3>3. promise'[t] = "dropped"
      BY <1>2, <2>3, <3>2
    <3>4. Grain = 1 => t \notin InTiers(sq')
      BY <1>6, <2>3
    <3> QED BY <1>3, <2>2, <3>2, <3>3, <3>4 DEF TurnOK
  <2>4. CASE t \notin S
    <3>1. promise'[t] = promise[t] /\ dequeued'[t] = dequeued[t]
      BY <1>2, <2>4 DEF IInv, TurnInv
    <3>2. t \in InTiers(sq') <=> t \in InTiers(sq)
      BY <1>5, <2>4
    <3> QED BY <1>3, <2>1, <2>2, <3>1, <3>2 DEF TurnOK
  <2> QED BY <2>3, <2>4
<1>9. AInv'
  BY <1>7, <1>8 DEF AInv, Accounted
<1>10. Fifo
  BY <1>2, <1>3, <1>4, ThinFifo DEF Starts
<1> QED BY <1>9, <1>10

\* Every operator removal is a cut of the tiers that drops what it reports.
LEMMA RemovalAccounts ==
  ASSUME IInv, AInv,
         \/ \E start, end \in Places : \/ RemoveByRange(start, end)
                                       \/ RemoveByRangeAll(start, end)
         \/ RemoveById
         \/ Clear
  PROVE  AInv' /\ Fifo
<1>0. /\ sq \in SQ /\ sq.high \in Seq(SystemTurns) /\ sq.normal \in Seq(UserTurns)
      /\ Len(sq.high) \in Nat /\ Len(sq.normal) \in Nat
  BY SQFields DEF IInv, SlotInv
<1>k. Cut(sq.high, sq.high, {}) /\ Cut(sq.normal, sq.normal, {})
  BY KeepCuts
<1>1. ASSUME NEW h \in Seq(SystemTurns), NEW S, Cut(sq.high, h, S),
             Drop([sq EXCEPT !.high = h], S)
      PROVE  AInv' /\ Fifo
  <2>1. [sq EXCEPT !.high = h] = [sq EXCEPT !.high = h, !.normal = sq.normal]
    BY <1>0 DEF SQ
  <2>2. Drop([sq EXCEPT !.high = h, !.normal = sq.normal], S) /\ S = S \cup {}
    BY <1>1, <2>1
  <2> QED BY <1>0, <1>k, <1>1, <2>2, DropAccounts, Zenon
<1>2. ASSUME NEW n \in Seq(UserTurns), NEW S, Cut(sq.normal, n, S),
             Drop([sq EXCEPT !.normal = n], S)
      PROVE  AInv' /\ Fifo
  <2>1. [sq EXCEPT !.normal = n] = [sq EXCEPT !.high = sq.high, !.normal = n]
    BY <1>0 DEF SQ
  <2>2. Drop([sq EXCEPT !.high = sq.high, !.normal = n], S) /\ S = {} \cup S
    BY <1>2, <2>1
  <2> QED BY <1>0, <1>k, <1>2, <2>2, DropAccounts, Zenon
<1>3. ASSUME NEW start \in Places, NEW end \in Places, RemoveByRange(start, end)
      PROVE  AInv' /\ Fifo
  <2>1. start \in Nat /\ end \in Nat
    BY BoundsAssumption DEF Places
  <2> DEFINE h == CutOut(sq.high, start, end)
             n == CutOut(sq.normal, start, end)
             D == Slice(sq.high, start, end)
             E == Slice(sq.normal, start, end)
  <2>2. /\ h \in Seq(SystemTurns) /\ n \in Seq(UserTurns)
        /\ Cut(sq.high, h, D) /\ Cut(sq.normal, n, E)
    BY <1>0, <2>1, CutFacts, CutOutCuts
  <2>3. Drop([sq EXCEPT !.high = h], D) \/ Drop([sq EXCEPT !.normal = n], E)
    BY <1>3 DEF RemoveByRange
  <2> HIDE DEF h, n, D, E
  <2> QED BY <1>1, <1>2, <2>2, <2>3
<1>4. ASSUME NEW start \in Places, NEW end \in Places, RemoveByRangeAll(start, end)
      PROVE  AInv' /\ Fifo
  <2> DEFINE f == start \div Grain
             l == end \div Grain
             k == Len(sq.high)
             h == CutPlaces(sq.high, f, l)
             n == CutPlaces(sq.normal, f - k, l - k)
             D == Window(sq.high, f, l)
             E == Window(sq.normal, f - k, l - k)
             S == Slice(sq.high \o sq.normal, start, end)
  <2>0. start \in Nat /\ end \in Nat
    BY BoundsAssumption DEF Places
  <2>1. f \in Int /\ l \in Int
    BY BoundsAssumption, <2>0
  <2>2. Drop([sq EXCEPT !.high = h, !.normal = n], S)
    BY <1>4 DEF RemoveByRangeAll
  <2>3. S = D \cup E
    BY <1>0, <2>0, ListingSlice
  <2> HIDE DEF f, l, S
  <2>4. h \in Seq(SystemTurns) /\ Cut(sq.high, h, D)
    BY <1>0, <2>1, CutFacts, CutPlacesCuts
  <2>5. n \in Seq(UserTurns) /\ Cut(sq.normal, n, E)
    <3>1. f - k \in Int /\ l - k \in Int
      BY <1>0, <2>1
    <3> HIDE DEF k
    <3> QED BY <1>0, <3>1, CutFacts, CutPlacesCuts
  <2> HIDE DEF h, n, D, E
  <2> QED BY <2>2, <2>3, <2>4, <2>5, DropAccounts
<1>5. ASSUME RemoveById
      PROVE  AInv' /\ Fifo
  <2>1. ASSUME NEW i \in 1 .. Len(sq.high),
               Drop([sq EXCEPT !.high = RemoveAt(sq.high, i)], {sq.high[i]})
        PROVE  AInv' /\ Fifo
    <3> DEFINE h == RemoveAt(sq.high, i)
               D == {sq.high[i]}
    <3>1. h \in Seq(SystemTurns) /\ Cut(sq.high, h, D)
      BY <1>0, CutFacts, RemoveAtCuts
    <3>2. Drop([sq EXCEPT !.high = h], D)
      BY <2>1
    <3> HIDE DEF h, D
    <3> QED BY <1>1, <3>1, <3>2
  <2>2. ASSUME NEW i \in 1 .. Len(sq.normal),
               Drop([sq EXCEPT !.normal = RemoveAt(sq.normal, i)], {sq.normal[i]})
        PROVE  AInv' /\ Fifo
    <3> DEFINE n == RemoveAt(sq.normal, i)
               E == {sq.normal[i]}
    <3>1. n \in Seq(UserTurns) /\ Cut(sq.normal, n, E)
      BY <1>0, CutFacts, RemoveAtCuts
    <3>2. Drop([sq EXCEPT !.normal = n], E)
      BY <2>2
    <3> HIDE DEF n, E
    <3> QED BY <1>2, <3>1, <3>2
  <2> QED BY <1>5, <2>1, <2>2 DEF RemoveById
<1>6. ASSUME Clear
      PROVE  AInv' /\ Fifo
  <2> DEFINE e == <<>>
             D == Contents(sq.high)
             E == Contents(sq.normal)
  <2>1. /\ e \in Seq(SystemTurns) /\ e \in Seq(UserTurns)
        /\ Cut(sq.high, e, D) /\ Cut(sq.normal, e, E)
    BY EmptyCuts
  <2>2. \/ Drop([sq EXCEPT !.high = e], D)
        \/ Drop([sq EXCEPT !.normal = e], E)
        \/ Drop([sq EXCEPT !.high = e, !.normal = e], D \cup E)
    BY <1>6 DEF Clear, Queued
  <2> HIDE DEF e, D, E
  <2> QED BY <1>1, <1>2, <2>1, <2>2, DropAccounts
<1> QED BY <1>3, <1>4, <1>5, <1>6

\* forceReleaseRunning() drops the wedged turn and hands its slot on.
LEMMA ForceReleaseAccounts ==
  ASSUME IInv, AInv, ForceReleaseRunning
  PROVE  AInv' /\ Fifo
<1> DEFINE q == Released(sq)
<1>1. /\ q \in SQ /\ q.runningEntry = NoEntry /\ InTiers(q) = InTiers(sq)
      /\ q.high = sq.high /\ q.normal = sq.normal
  BY ReleasedFacts, ReleasedTiers DEF IInv, SlotInv
<1>2. /\ sq' = Pump(q, blocked)
      /\ exec' = [u \in Turns |-> IF u \in Started(q, sq') THEN "running" ELSE exec[u]]
      /\ dequeued' = [u \in Turns |-> dequeued[u] \/ u \in Started(q, sq')]
      /\ promise' = [t \in Turns |-> IF t \in {sq.runningEntry} /\ promise[t] = "pending"
                                     THEN "dropped" ELSE promise[t]]
  BY DEF ForceReleaseRunning, Settle, StartTurns
<1> HIDE DEF q
<1>3. dequeued \in [Turns -> BOOLEAN] /\ blocked \in BOOLEAN
  BY DEF IInv, TurnInv
<1>4. Accounted(q, exec, promise', dequeued)
  <2>1. ASSUME NEW u \in Turns PROVE TurnOK(q, u, exec[u], promise'[u], dequeued[u])
    <3>1. TurnOK(sq, u, exec[u], promise[u], dequeued[u]) /\ u # NoEntry
      BY AInvReads, TurnsAssumption
    <3>2. CASE u = sq.runningEntry
      <4>1. promise'[u] = IF promise[u] = "pending" THEN "dropped" ELSE promise[u]
        BY <1>2, <3>2
      <4>2. /\ exec[u] \in {"running", "settled"} /\ u \notin InTiers(q)
            /\ exec[u] = "running" => promise'[u] = "dropped"
            /\ promise'[u] \in {"settled", "dropped"}
        BY <1>1, <3>1, <3>2, <4>1 DEF TurnOK
      <4> QED BY <1>1, <3>1, <4>2 DEF TurnOK
    <3>3. CASE u # sq.runningEntry
      <4>1. promise'[u] = promise[u]
        BY <1>2, <3>3
      <4> QED BY <1>1, <3>1, <3>3, <4>1 DEF TurnOK
    <3> QED BY <3>2, <3>3
  <2> QED BY <1>1, <2>1 DEF AInv, Accounted
<1>5. AInv'
  <2>1. Accounted(sq', exec', promise', dequeued')
    BY <1>1, <1>2, <1>3, <1>4, PumpAccounts
  <2> QED BY <2>1 DEF AInv
<1>6. Fifo
  <2>1. \A u \in Turns : Starts(u) => u \in Started(q, sq')
    BY <1>2 DEF Starts
  <2> QED BY <1>1, <1>2, <1>3, <2>1, PumpFifo
<1> QED BY <1>5, <1>6

\* session_kill drops every turn that waited and the one in the slot.
LEMMA SessionKillAccounts ==
  ASSUME IInv, AInv, SessionKill
  PROVE  AInv' /\ Fifo
<1> DEFINE c == [sq EXCEPT !.high = <<>>, !.normal = <<>>]
           q == Released(c)
<1>1. /\ q \in SQ /\ q.high = <<>> /\ q.normal = <<>> /\ q.runningEntry = NoEntry
  <2>1. c \in SQ /\ c.high = <<>> /\ c.normal = <<>>
    <3>1. <<>> \in Seq(SystemTurns) /\ <<>> \in Seq(UserTurns)
      OBVIOUS
    <3>2. c \in SQ
      BY <3>1, SQFields, SQUpdates DEF IInv, SlotInv
    <3> QED BY <3>2 DEF IInv, SlotInv, SQ
  <2> HIDE DEF c
  <2>2. q \in SQ
    BY <2>1, SQFields, SQUpdates DEF Released
  <2> QED BY <2>1, <2>2, ReleasedTiers
<1>2. /\ sq' = Pump(q, blocked) /\ exec' = exec
      /\ promise' = [t \in Turns |-> IF t \in Queued \cup {sq.runningEntry}
                                          /\ promise[t] = "pending"
                                     THEN "dropped" ELSE promise[t]]
      /\ dequeued' = [t \in Turns |-> dequeued[t] \/ t \in Queued]
  BY DEF SessionKill, Settle
<1> HIDE DEF q
<1>3. sq'.high = <<>> /\ sq'.normal = <<>> /\ sq'.runningEntry = NoEntry
  <2>1. sq' \in {q, Cleanup(q)}
    BY <1>1, <1>2 DEF Pump, Empty
  <2> QED BY <1>1, <2>1, CleanupFacts
<1>4. /\ InTiers(sq') = {} /\ NoRepeat(sq'.high) /\ NoRepeat(sq'.normal)
      /\ Thinned(sq.high, sq'.high) /\ Thinned(sq.normal, sq'.normal)
  <2>1. Contents(<<>>) = {} /\ \A t, u : ~Ahead(<<>>, t, u)
    <3>1. Len(<<>>) = 0
      OBVIOUS
    <3> QED BY <3>1 DEF Contents, Ahead
  <2> QED BY <1>3, <2>1 DEF InTiers, NoRepeat, Thinned
<1>5. ASSUME NEW t \in Turns PROVE TurnOK(sq', t, exec'[t], promise'[t], dequeued'[t])
  <2>1. TurnOK(sq, t, exec[t], promise[t], dequeued[t]) /\ t # NoEntry
    BY AInvReads, TurnsAssumption
  <2>2. Queued = InTiers(sq)
    BY DEF Queued, InTiers
  <2>3. exec'[t] = exec[t] /\ promise[t] \in Outcomes
    BY <1>2 DEF IInv, TurnInv
  <2>4. CASE t \in InTiers(sq) \cup {sq.runningEntry}
    <3>1. promise'[t] = IF promise[t] = "pending" THEN "dropped" ELSE promise[t]
      BY <1>2, <2>2, <2>4
    <3>2. promise'[t] \in {"dropped", "settled"} /\ (exec[t] # "settled" => promise'[t] = "dropped")
      BY <2>1, <2>4, <3>1 DEF TurnOK
    <3> QED BY <1>3, <1>4, <2>1, <2>3, <2>4, <3>2 DEF TurnOK
  <2>5. CASE t \notin InTiers(sq) \cup {sq.runningEntry}
    <3>1. promise'[t] = promise[t] /\ dequeued'[t] = dequeued[t]
      BY <1>2, <2>2, <2>5 DEF IInv, TurnInv
    <3> QED BY <1>3, <1>4, <2>1, <2>3, <2>5, <3>1 DEF TurnOK
  <2> QED BY <2>4, <2>5
<1>6. AInv'
  BY <1>4, <1>5 DEF AInv, Accounted
<1>7. Fifo
  BY <1>2, <1>4, ThinFifo DEF Starts
<1> QED BY <1>6, <1>7

\* Before the first enqueue() no turn is anywhere.
LEMMA InitAccounts == Init => AInv
<1> SUFFICES ASSUME Init PROVE AInv
  OBVIOUS
<1>1. sq.high = <<>> /\ sq.normal = <<>> /\ sq.runningEntry = NoEntry
  BY DEF Init, NoSession
<1>2. InTiers(sq) = {} /\ NoRepeat(sq.high) /\ NoRepeat(sq.normal)
  <2>1. Len(<<>>) = 0
    OBVIOUS
  <2> QED BY <1>1, <2>1 DEF InTiers, NoRepeat, Contents, Ahead
<1>3. ASSUME NEW t \in Turns PROVE TurnOK(sq, t, exec[t], promise[t], dequeued[t])
  BY <1>1, <1>2, TurnsAssumption DEF Init, TurnOK
<1> QED BY <1>2, <1>3 DEF AInv, Accounted

\* Every step keeps the accounts and overtakes nobody.
LEMMA NextAccounts ==
  ASSUME IInv, AInv, [Next]_vars
  PROVE  AInv' /\ (Fifo \/ UNCHANGED vars)
<1>1. CASE UNCHANGED vars
  BY <1>1 DEF vars, AInv
<1>2. ASSUME NEW t \in Turns, BeginCompaction(t) PROVE AInv' /\ Fifo
  <2>1. UNCHANGED <<sq, exec, promise, dequeued>>
    BY <1>2 DEF BeginCompaction
  <2> QED BY <2>1, StandStillAccounts
<1>3. CASE Next
  BY <1>2, <1>3, EnqueueAccounts, EnqueueRefusedAccounts, ExecSettlesAccounts,
     TurnEndAccounts, TurnEndStaleAccounts, EndCompactionAccounts, RemovalAccounts,
     ForceReleaseAccounts, SessionKillAccounts DEF Next, TurnStep
<1> QED BY <1>1, <1>3

\* Both inductive invariants hold in every reachable state, for every set of turns and
\* every Grain.
THEOREM AccountsInvariance == Spec => [](IInv /\ AInv)
<1>1. IInv /\ AInv /\ [Next]_vars => (IInv /\ AInv)'
  BY NextIInv, NextAccounts
<1> QED BY <1>1, InitIInv, InitAccounts, PTL DEF Spec

\* Turns run one at a time, and no turn whose caller still waits is lost, whatever is
\* enqueued, removed, released or ended in whatever order; this holds of fractional
\* places too.
THEOREM NoTurnIsLost == Spec => [](SlotExclusive /\ NoTurnLost)
<1>1. IInv /\ AInv => SlotExclusive /\ NoTurnLost
  <2> SUFFICES ASSUME IInv, AInv, NEW t \in Turns
               PROVE  /\ exec[t] = "running" /\ sq.runningEntry # t => promise[t] = "dropped"
                      /\ sq.runningEntry = t => exec[t] \in {"running", "settled"}
                      /\ promise[t] = "pending" => t \in Queued \/ t = sq.runningEntry
    BY DEF SlotExclusive, NoTurnLost
  <2>1. TurnOK(sq, t, exec[t], promise[t], dequeued[t]) /\ exec[t] \in ExecStates
    BY AInvReads DEF IInv, TurnInv
  <2> QED BY <2>1 DEF TurnOK, ExecStates, InTiers, Queued
<1> QED BY <1>1, AccountsInvariance, PTL

\* When clients send whole-number places, every turn is accounted for:
\* a queued turn has in addition neither run nor been reported dropped, and no turn
\* stands in two places.
THEOREM TurnsAreAccounted ==
  ASSUME Grain = 1
  PROVE  Spec => []TurnsAccounted
<1>1. IInv /\ AInv => QueuedIsPending
  <2> SUFFICES ASSUME IInv, AInv PROVE QueuedIsPending
    OBVIOUS
  <2>0. Len(sq.high) \in Nat /\ Len(sq.normal) \in Nat
    BY SQFields DEF IInv, SlotInv
  <2>1. ASSUME NEW t \in Queued
        PROVE  promise[t] = "pending" /\ ~dequeued[t] /\ exec[t] = "idle"
    <3>1. t \in Turns /\ t \in InTiers(sq)
      BY TierMembers DEF Queued, InTiers, Turns, IInv, SlotInv
    <3> QED BY <3>1, AInvReads DEF TurnOK
  <2>2. ASSUME NEW s, NoRepeat(s), Len(s) \in Nat
        PROVE  \A i, j \in 1 .. Len(s) : s[i] = s[j] => i = j
    <3> SUFFICES ASSUME NEW i \in 1 .. Len(s), NEW j \in 1 .. Len(s), s[i] = s[j], i # j
                 PROVE  FALSE
      OBVIOUS
    <3>1. i < j \/ j < i
      BY <2>2
    <3> QED BY <2>2, <3>1 DEF NoRepeat, Ahead
  <2>3. NoRepeat(sq.high) /\ NoRepeat(sq.normal)
    BY DEF AInv, Accounted
  <2> QED BY <2>0, <2>1, <2>2, <2>3 DEF QueuedIsPending
<1>2. SlotExclusive /\ NoTurnLost /\ QueuedIsPending => TurnsAccounted
  BY DEF TurnsAccounted
<1> QED BY <1>1, <1>2, NoTurnIsLost, AccountsInvariance, PTL

\* Nobody gets ahead of a turn that goes on waiting in its tier, be it in the queue or
\* into the running slot.
THEOREM FifoHolds == Spec => FifoWithinTier
<1>1. ASSUME IInv, AInv, [Next]_vars
      PROVE  [/\ NoOvertaking(sq.high, sq'.high, SystemTurns)
              /\ NoOvertaking(sq.normal, sq'.normal, UserTurns)]_vars
  BY <1>1, NextAccounts DEF Fifo
<1> QED BY <1>1, AccountsInvariance, PTL DEF Spec, FifoWithinTier

-----------------------------------------------------------------------------
(* The transcript: what may stand behind what.                              *)

\* The rows a segment holds when its calls have the ids 1..n.
RowsOf(n) == {User} \cup {Ask(c) : c \in SUBSET (1 .. n)} \cup {Answer(i) : i \in 1 .. n}

IsResult(row) == row.role = "tool"

\* No call is asked for by two rows, and no call is answered by two rows.
AskedOnce(rows) ==
  \A i, j \in DOMAIN rows : i # j => rows[i].calls \cap rows[j].calls = {}
AnsweredOnce(rows) ==
  \A i, j \in DOMAIN rows :
    IsResult(rows[i]) /\ IsResult(rows[j]) /\ rows[i].id = rows[j].id => i = j

\* Row i belongs to the batch that row j asks for: nothing but results stands between.
InBatch(rows, j, i) == rows[i].id \in rows[j].calls /\ \A k \in j + 1 .. i : IsResult(rows[k])

\* Every result belongs to the batch right in front of it.
Owned(rows) == \A i \in DOMAIN rows : IsResult(rows[i]) => \E j \in 1 .. i - 1 : InBatch(rows, j, i)

\* A batch is answered in full before anything but its results follows it.
ClosedBefore(rows) ==
  \A i, k \in DOMAIN rows : i < k /\ ~IsResult(rows[k]) =>
    \A c \in rows[i].calls : \E m \in i + 1 .. k - 1 : IsResult(rows[m]) /\ rows[m].id = c

\* A history whose only open calls are those of its last batch.
Neat(rows, n) ==
  /\ rows \in Seq(RowsOf(n))
  /\ AskedOnce(rows) /\ AnsweredOnce(rows) /\ Owned(rows) /\ ClosedBefore(rows)

-----------------------------------------------------------------------------
(* The inductive invariants.                                                *)

InCall == {"call", "pre", "wait", "exec", "post"}

\* Where the loop is, and what it holds there.
ControlInv ==
  /\ pc \in {"idle", "setup", "queued"} => run # "running"
  /\ then # "none" <=> pc \in {"drain", "compact"}
  /\ todo # {} <=> pc \in InCall
  /\ todo \subseteq 1 .. used
  /\ then # "end" => invalid <= InvalidLimit /\ attempt <= Retries
  /\ pc \notin {"idle", "queued"} => turn >= 1
  /\ aborted => Open
  /\ IsFiniteSet(channel)

LoopInv == TurnTypeOK /\ ControlInv /\ EventAccounted

\* The model client's messages matter until the loop is left.
Replying == pc \notin {"idle", "queued"} /\ then # "end"

HistoryInv ==
  taint = {} =>
    /\ Neat(tx, used)
    /\ pc \in {"compact", "guard", "queued"} => pass = tx
    /\ Replying => /\ Neat(mem, used)
                   /\ Unanswered(mem) = todo
                   /\ todo \subseteq Unanswered(tx)

-----------------------------------------------------------------------------
(* Rows.                                                                    *)

\* What the rows are made of.
LEMMA MadeRows ==
  ASSUME NEW n \in Nat
  PROVE  /\ User \in RowsOf(n) /\ ~IsResult(User) /\ User.calls = {}
         /\ Say \in RowsOf(n) /\ ~IsResult(Say) /\ Say.calls = {}
         /\ \A c \in SUBSET (1 .. n) : Ask(c) \in RowsOf(n) /\ ~IsResult(Ask(c)) /\ Ask(c).calls = c
         /\ \A i \in 1 .. n : /\ Answer(i) \in RowsOf(n) /\ IsResult(Answer(i))
                              /\ Answer(i).id = i /\ Answer(i).calls = {}
<1>1. Say = Ask({}) /\ {} \in SUBSET (1 .. n)
  BY DEF Say, Ask
<1> QED BY <1>1 DEF RowsOf, IsResult, User, Say, Ask, Answer

\* What a row of a history tells.
LEMMA RowFacts ==
  ASSUME NEW n \in Nat, NEW row \in RowsOf(n)
  PROVE  /\ row.calls \in SUBSET (1 .. n)
         /\ IsResult(row) \in BOOLEAN
         /\ IsResult(row) => row.calls = {} /\ row.id \in 1 .. n
         /\ ~IsResult(row) => row.id = 0
<1>1. CASE row = User
  BY <1>1 DEF IsResult, User
<1>2. ASSUME NEW c \in SUBSET (1 .. n), row = Ask(c)
      PROVE  row.calls = c /\ ~IsResult(row) /\ row.id = 0
  BY <1>2 DEF IsResult, Ask
<1>3. ASSUME NEW i \in 1 .. n, row = Answer(i)
      PROVE  row.calls = {} /\ IsResult(row) /\ row.id = i
  BY <1>3 DEF IsResult, Answer
<1>4. IsResult(row) \in BOOLEAN
  BY DEF IsResult
<1> QED BY <1>1, <1>2, <1>3, <1>4 DEF RowsOf

\* More calls, more rows.
LEMMA RowsGrow ==
  ASSUME NEW m \in Nat, NEW n \in Nat, m <= n
  PROVE  RowsOf(m) \subseteq RowsOf(n)
<1>1. 1 .. m \subseteq 1 .. n
  OBVIOUS
<1> QED BY <1>1 DEF RowsOf

\* The rows of a history by their places.
LEMMA PlaceFacts ==
  ASSUME NEW n \in Nat, NEW rows \in Seq(RowsOf(n))
  PROVE  /\ Len(rows) \in Nat /\ DOMAIN rows = 1 .. Len(rows)
         /\ \A i \in 1 .. Len(rows) :
              /\ rows[i] \in RowsOf(n)
              /\ rows[i].calls \in SUBSET (1 .. n)
              /\ IsResult(rows[i]) \in BOOLEAN
              /\ IsResult(rows[i]) => rows[i].calls = {} /\ rows[i].id \in 1 .. n
              /\ ~IsResult(rows[i]) => rows[i].id = 0
<1>1. Len(rows) \in Nat /\ DOMAIN rows = 1 .. Len(rows)
  BY LenProperties
<1>2. \A i \in 1 .. Len(rows) : rows[i] \in RowsOf(n)
  BY ElementOfSeq
<1> QED BY <1>1, <1>2, RowFacts

\* Call c was asked for by row i, only results follow, and none of them is its own.
OpenAt(rows, i, c) ==
  /\ c \in rows[i].calls
  /\ \A k \in i + 1 .. Len(rows) : IsResult(rows[k]) /\ rows[k].id # c

\* The open calls of a history, one by one.
LEMMA InUnanswered ==
  ASSUME NEW n \in Nat, NEW rows \in Seq(RowsOf(n)), NEW c
  PROVE  c \in Unanswered(rows) <=> \E i \in 1 .. Len(rows) : OpenAt(rows, i, c)
<1> USE PlaceFacts
<1> DEFINE last == {i \in DOMAIN rows : /\ rows[i].calls # {}
                                        /\ \A k \in DOMAIN rows : k > i => rows[k].role = "tool"}
           behind(i) == {rows[k].id : k \in {j \in DOMAIN rows : j > i}}
<1>1. Unanswered(rows) = UNION {rows[i].calls \ behind(i) : i \in last}
  BY DEF Unanswered
<1>2. c \in Unanswered(rows) <=> \E i \in last : c \in rows[i].calls /\ c \notin behind(i)
  <2> DEFINE left(i) == rows[i].calls \ behind(i)
  <2>1. Unanswered(rows) = UNION {left(i) : i \in last}
    BY <1>1
  <2>2. \A i \in last : c \in left(i) <=> c \in rows[i].calls /\ c \notin behind(i)
    OBVIOUS
  <2> HIDE DEF left, last, behind
  <2> QED BY <2>1, <2>2
<1>3. ASSUME NEW i \in 1 .. Len(rows)
      PROVE  i \in last /\ c \in rows[i].calls /\ c \notin behind(i) <=> OpenAt(rows, i, c)
  <2>1. {j \in DOMAIN rows : j > i} = i + 1 .. Len(rows)
    OBVIOUS
  <2>2. c \notin behind(i) <=> \A k \in i + 1 .. Len(rows) : rows[k].id # c
    BY <2>1
  <2>3. c \in rows[i].calls => rows[i].calls # {}
    OBVIOUS
  <2> QED BY <2>1, <2>2, <2>3 DEF OpenAt, IsResult
<1>4. last \subseteq 1 .. Len(rows)
  OBVIOUS
<1> QED BY <1>2, <1>3, <1>4

-----------------------------------------------------------------------------
(* Neat histories and the rows that keep them so.                           *)

\* Open calls belong to one row.
LEMMA OneOpenBatch ==
  ASSUME NEW n \in Nat, NEW rows \in Seq(RowsOf(n)),
         NEW i \in 1 .. Len(rows), NEW j \in 1 .. Len(rows), NEW c, NEW d,
         OpenAt(rows, i, c), OpenAt(rows, j, d)
  PROVE  i = j
<1> USE PlaceFacts
<1>1. ~IsResult(rows[i]) /\ ~IsResult(rows[j])
  BY DEF OpenAt
<1>2. ~(i < j) /\ ~(j < i)
  BY <1>1 DEF OpenAt
<1> QED BY <1>2

\* An open call is answered by no row.
LEMMA OpenHasNoAnswer ==
  ASSUME NEW n \in Nat, NEW rows, Neat(rows, n), NEW c \in Unanswered(rows),
         NEW k \in 1 .. Len(rows), IsResult(rows[k])
  PROVE  rows[k].id # c
<1>1. rows \in Seq(RowsOf(n))
  BY DEF Neat
<1> USE PlaceFacts, <1>1
<1> SUFFICES ASSUME rows[k].id = c PROVE FALSE
  OBVIOUS
<1>2. PICK i \in 1 .. Len(rows) : OpenAt(rows, i, c)
  BY InUnanswered
<1>3. PICK j \in 1 .. k - 1 : InBatch(rows, j, k)
  BY DEF Neat, Owned
<1>4. j \in DOMAIN rows /\ i \in DOMAIN rows /\ c \in rows[i].calls \cap rows[j].calls
  BY <1>2, <1>3 DEF OpenAt, InBatch
<1>5. i = j
  BY <1>4 DEF Neat, AskedOnce
<1>6. k \in i + 1 .. Len(rows)
  BY <1>5
<1> QED BY <1>2, <1>6 DEF OpenAt

\* Results of open calls, each once, may follow.
LEMMA AddResults ==
  ASSUME NEW n \in Nat, NEW rows, Neat(rows, n), NEW q \in Seq(RowsOf(n)),
         \A k \in 1 .. Len(q) : IsResult(q[k]) /\ q[k].id \in Unanswered(rows),
         \A k, l \in 1 .. Len(q) : q[k].id = q[l].id => k = l
  PROVE  /\ Neat(rows \o q, n)
         /\ Unanswered(rows \o q) = Unanswered(rows) \ {q[k].id : k \in 1 .. Len(q)}
<1> DEFINE all == rows \o q
           L == Len(rows)
           M == Len(q)
<1>1. rows \in Seq(RowsOf(n))
  BY DEF Neat
<1>2. /\ L \in Nat /\ M \in Nat
      /\ DOMAIN rows = 1 .. L
      /\ \A k \in 1 .. L : rows[k].calls \in SUBSET (1 .. n) /\ IsResult(rows[k]) \in BOOLEAN
      /\ \A k \in 1 .. L : IsResult(rows[k]) => rows[k].calls = {}
      /\ \A k \in 1 .. M : q[k].calls = {} /\ IsResult(q[k]) /\ q[k].id \in Unanswered(rows)
      /\ \A k, l \in 1 .. M : q[k].id = q[l].id => k = l
  BY <1>1, PlaceFacts
<1>3. all \in Seq(RowsOf(n)) /\ Len(all) = L + M /\ DOMAIN all = 1 .. L + M
  <2>1. all \in Seq(RowsOf(n)) /\ Len(all) = L + M
    BY <1>1, ConcatProperties
  <2> QED BY <2>1, LenProperties
<1>4. /\ \A k \in 1 .. L : all[k] = rows[k]
      /\ \A k \in L + 1 .. L + M : all[k] = q[k - L] /\ k - L \in 1 .. M
  <2>1. \A k \in 1 .. L + M : all[k] = IF k <= L THEN rows[k] ELSE q[k - L]
    BY <1>1, ConcatProperties
  <2> QED BY <2>1, <1>2
<1> HIDE DEF all, L, M
<1>5. /\ \A k \in L + 1 .. L + M :
           IsResult(all[k]) /\ all[k].calls = {} /\ all[k].id \in Unanswered(rows)
      /\ \A k, l \in L + 1 .. L + M : all[k].id = all[l].id => k = l
  <2>1. ASSUME NEW k \in L + 1 .. L + M
        PROVE  IsResult(all[k]) /\ all[k].calls = {} /\ all[k].id \in Unanswered(rows)
    BY <1>2, <1>4
  <2>2. ASSUME NEW k \in L + 1 .. L + M, NEW l \in L + 1 .. L + M, all[k].id = all[l].id
        PROVE  k = l
    <3>1. k - L \in 1 .. M /\ l - L \in 1 .. M /\ q[k - L].id = q[l - L].id
      BY <1>4, <2>2
    <3>2. k - L = l - L
      BY <3>1, <1>2
    <3> QED BY <3>2, <1>2
  <2> QED BY <2>1, <2>2
<1>6. AskedOnce(all)
  <2>1. \A i, j \in 1 .. L : i # j => all[i].calls \cap all[j].calls = {}
    BY <1>2, <1>4 DEF Neat, AskedOnce
  <2>2. \A i \in 1 .. L + M : i \in 1 .. L \/ i \in L + 1 .. L + M
    BY <1>2
  <2>3. \A i, j \in 1 .. L + M : i # j => all[i].calls \cap all[j].calls = {}
    BY <2>1, <2>2, <1>5
  <2> QED BY <2>3, <1>3 DEF AskedOnce
<1>7. AnsweredOnce(all)
  <2>1. \A k \in 1 .. L, l \in L + 1 .. L + M : IsResult(rows[k]) => rows[k].id # all[l].id
    BY <1>5, OpenHasNoAnswer DEF L
  <2>2. \A k, l \in 1 .. L :
          IsResult(rows[k]) /\ IsResult(rows[l]) /\ rows[k].id = rows[l].id => k = l
    BY <1>2 DEF Neat, AnsweredOnce
  <2> QED BY <1>2, <1>3, <1>4, <1>5, <2>1, <2>2 DEF AnsweredOnce
<1>8. Owned(all)
  <2> SUFFICES ASSUME NEW i \in 1 .. L + M, IsResult(all[i])
               PROVE  \E j \in 1 .. i - 1 : InBatch(all, j, i)
    BY <1>3 DEF Owned
  <2>1. CASE i <= L
    <3>1. PICK j \in 1 .. i - 1 : InBatch(rows, j, i)
      BY <2>1, <1>2, <1>4 DEF Neat, Owned
    <3>2. InBatch(all, j, i)
      BY <3>1, <2>1, <1>2, <1>4 DEF InBatch
    <3> QED BY <3>2
  <2>2. CASE i > L
    <3>1. i \in L + 1 .. L + M
      BY <2>2, <1>2
    <3>2. PICK j \in 1 .. L : OpenAt(rows, j, all[i].id)
      BY <3>1, <1>1, <1>5, InUnanswered DEF L
    <3>3. \A k \in j + 1 .. i : IsResult(all[k])
      BY <3>1, <3>2, <1>2, <1>4, <1>5 DEF OpenAt
    <3>4. all[i].id \in all[j].calls
      BY <3>2, <1>2, <1>4 DEF OpenAt
    <3>5. j \in 1 .. i - 1
      BY <3>1, <1>2
    <3> QED BY <3>3, <3>4, <3>5 DEF InBatch
  <2> QED BY <2>1, <2>2, <1>2
<1>9. ClosedBefore(all)
  <2> SUFFICES ASSUME NEW i \in 1 .. L + M, NEW k \in 1 .. L + M, i < k, ~IsResult(all[k]),
                      NEW c \in all[i].calls
               PROVE  \E m \in i + 1 .. k - 1 : IsResult(all[m]) /\ all[m].id = c
    BY <1>3 DEF ClosedBefore
  <2>1. k \in 1 .. L /\ i \in 1 .. L
    BY <1>2, <1>5
  <2>2. PICK m \in i + 1 .. k - 1 : IsResult(rows[m]) /\ rows[m].id = c
    <3>1. i \in DOMAIN rows /\ k \in DOMAIN rows /\ ~IsResult(rows[k]) /\ c \in rows[i].calls
      BY <2>1, <1>2, <1>4
    <3>2. ClosedBefore(rows)
      BY DEF Neat
    <3> QED BY <3>1, <3>2 DEF ClosedBefore
  <2> QED BY <2>1, <2>2, <1>2, <1>4
<1>10. \A c : c \in Unanswered(all) <=> c \in Unanswered(rows) /\ \A k \in 1 .. M : q[k].id # c
  <2> TAKE c
  <2>1. c \in Unanswered(all) <=> \E i \in 1 .. L + M : OpenAt(all, i, c)
    BY <1>3, InUnanswered
  <2>2. c \in Unanswered(rows) <=> \E i \in 1 .. L : OpenAt(rows, i, c)
    BY <1>1, InUnanswered DEF L
  <2>3. \A i \in L + 1 .. L + M : ~OpenAt(all, i, c)
    BY <1>5 DEF OpenAt
  <2>4. (\A k \in L + 1 .. L + M : all[k].id # c) <=> \A k \in 1 .. M : q[k].id # c
    <3>1. \A k \in 1 .. M : k + L \in L + 1 .. L + M /\ (k + L) - L = k
      BY <1>2
    <3> QED BY <3>1, <1>4
  <2>5. ASSUME NEW i \in 1 .. L
        PROVE  OpenAt(all, i, c) <=> OpenAt(rows, i, c) /\ \A k \in 1 .. M : q[k].id # c
    <3>1. all[i] = rows[i] /\ i + 1 .. L + M = (i + 1 .. L) \cup (L + 1 .. L + M)
          /\ i + 1 .. L \subseteq 1 .. L
      BY <1>2, <1>4
    <3>2. (\A k \in i + 1 .. L + M : IsResult(all[k]) /\ all[k].id # c)
            <=> /\ \A k \in i + 1 .. L : IsResult(rows[k]) /\ rows[k].id # c
                /\ \A k \in L + 1 .. L + M : all[k].id # c
      BY <3>1, <1>4, <1>5
    <3> QED BY <3>1, <3>2, <2>4, <1>3 DEF OpenAt, L
  <2> QED BY <2>1, <2>2, <2>3, <2>5, <1>2
<1>11. Unanswered(all) = Unanswered(rows) \ {q[k].id : k \in 1 .. M}
  BY <1>10
<1> QED BY <1>3, <1>6, <1>7, <1>8, <1>9, <1>11 DEF Neat, all, M

\* After a history without open calls a row that is no result may follow, if it asks
\* for new calls.
LEMMA AddRow ==
  ASSUME NEW n \in Nat, NEW m \in Nat, n <= m, NEW rows, Neat(rows, n), Unanswered(rows) = {},
         NEW row \in RowsOf(m), ~IsResult(row), row.calls \cap (1 .. n) = {}
  PROVE  /\ Neat(Append(rows, row), m)
         /\ Unanswered(Append(rows, row)) = row.calls
<1> DEFINE all == Append(rows, row)
           L == Len(rows)
<1>1. rows \in Seq(RowsOf(n))
  BY DEF Neat
<1>2. /\ L \in Nat
      /\ DOMAIN rows = 1 .. L
      /\ \A k \in 1 .. L : rows[k].calls \in SUBSET (1 .. n) /\ IsResult(rows[k]) \in BOOLEAN
      /\ \A k \in 1 .. L : IsResult(rows[k]) => rows[k].calls = {}
  BY <1>1, PlaceFacts
<1>3. all \in Seq(RowsOf(m)) /\ Len(all) = L + 1 /\ DOMAIN all = 1 .. L + 1
      /\ (\A k \in 1 .. L : all[k] = rows[k]) /\ all[L + 1] = row
  <2>1. rows \in Seq(RowsOf(m))
    BY <1>1, RowsGrow, SeqMonotonic
  <2>2. all \in Seq(RowsOf(m)) /\ Len(all) = L + 1
        /\ (\A k \in 1 .. L : all[k] = rows[k]) /\ all[L + 1] = row
    BY <2>1, AppendProperties
  <2> QED BY <2>2, LenProperties
<1> HIDE DEF all, L
<1>4. AskedOnce(all)
  BY <1>2, <1>3 DEF Neat, AskedOnce
<1>5. AnsweredOnce(all)
  <2>1. \A k, l \in 1 .. L :
          IsResult(rows[k]) /\ IsResult(rows[l]) /\ rows[k].id = rows[l].id => k = l
    BY <1>2 DEF Neat, AnsweredOnce
  <2> QED BY <1>2, <1>3, <2>1 DEF AnsweredOnce
<1>6. Owned(all)
  <2> SUFFICES ASSUME NEW i \in 1 .. L, IsResult(rows[i])
               PROVE  \E j \in 1 .. i - 1 : InBatch(all, j, i)
    BY <1>2, <1>3 DEF Owned
  <2>1. PICK j \in 1 .. i - 1 : InBatch(rows, j, i)
    BY <1>2 DEF Neat, Owned
  <2>2. InBatch(all, j, i)
    BY <2>1, <1>2, <1>3 DEF InBatch
  <2> QED BY <2>2
<1>7. ClosedBefore(all)
  <2> SUFFICES ASSUME NEW i \in 1 .. L + 1, NEW k \in 1 .. L + 1, i < k, ~IsResult(all[k]),
                      NEW c \in all[i].calls
               PROVE  \E l \in i + 1 .. k - 1 : IsResult(all[l]) /\ all[l].id = c
    BY <1>3 DEF ClosedBefore
  <2>1. i \in 1 .. L /\ c \in rows[i].calls
    BY <1>2, <1>3
  <2>2. CASE k <= L
    <3>1. PICK l \in i + 1 .. k - 1 : IsResult(rows[l]) /\ rows[l].id = c
      BY <2>1, <2>2, <1>2, <1>3, SMTT(60) DEF Neat, ClosedBefore
    <3> QED BY <2>1, <2>2, <3>1, <1>2, <1>3
  <2>3. CASE k = L + 1
    <3>1. ~OpenAt(rows, i, c)
      BY <1>1, <2>1, InUnanswered DEF L
    <3>2. PICK l \in i + 1 .. L : ~(IsResult(rows[l]) /\ rows[l].id # c)
      BY <2>1, <3>1 DEF OpenAt, L
    <3>3. CASE IsResult(rows[l])
      BY <2>1, <2>3, <3>2, <3>3, <1>2, <1>3
    <3>4. CASE ~IsResult(rows[l])
      <4>1. PICK o \in i + 1 .. l - 1 : IsResult(rows[o]) /\ rows[o].id = c
        BY <2>1, <3>2, <3>4, <1>2, SMTT(60) DEF Neat, ClosedBefore
      <4> QED BY <2>1, <2>3, <3>2, <4>1, <1>2, <1>3
    <3> QED BY <3>3, <3>4
  <2> QED BY <2>2, <2>3, <1>2
<1>8. \A c : c \in Unanswered(all) <=> c \in row.calls
  <2> TAKE c
  <2>1. c \in Unanswered(all) <=> \E i \in 1 .. L + 1 : OpenAt(all, i, c)
    BY <1>3, InUnanswered
  <2>2. \A i \in 1 .. L : ~OpenAt(all, i, c)
    BY <1>2, <1>3 DEF OpenAt
  <2>3. OpenAt(all, L + 1, c) <=> c \in row.calls
    BY <1>2, <1>3 DEF OpenAt
  <2> QED BY <2>1, <2>2, <2>3, <1>2
<1> QED BY <1>3, <1>4, <1>5, <1>6, <1>7, <1>8 DEF Neat, all

-----------------------------------------------------------------------------
(* Answers, repairOrphaned, append and appendAll.                           *)

\* A set of numbers has a least one.
LEMMA LeastNumber ==
  ASSUME NEW S \in SUBSET Nat, S # {}
  PROVE  \E m \in S : \A k \in S : m <= k
<1> DEFINE R == OpToRel(<, Nat)
<1>1. R = {ss \in Nat \X Nat : ss[1] < ss[2]} /\ IsWellFoundedOn(R, Nat)
  BY NatLessThanWellFounded DEF OpToRel
<1> HIDE DEF R
<1>2. PICK x \in S : \A y \in S : ~ (<<y, x>> \in R)
  BY <1>1, WFMin
<1>3. \A y \in S : ~ (y < x)
  BY <1>1, <1>2
<1> QED BY <1>3

\* What holds at 0 and goes on from each number to the next holds up to N.
LEMMA StepByStep ==
  ASSUME NEW N \in Nat, NEW Good, 0 \in Good,
         \A k \in 0 .. N : k \in Good /\ k < N => k + 1 \in Good
  PROVE  \A k \in 0 .. N : k \in Good
<1> DEFINE Bad == {k \in 0 .. N : k \notin Good}
<1> SUFFICES ASSUME Bad # {} PROVE FALSE
  OBVIOUS
<1>1. PICK m \in Bad : \A k \in Bad : m <= k
  <2>1. Bad \in SUBSET Nat
    OBVIOUS
  <2> HIDE DEF Bad
  <2> QED BY <2>1, LeastNumber
<1>2. m # 0 /\ m - 1 \in 0 .. N /\ m - 1 < N /\ m - 1 \notin Bad /\ (m - 1) + 1 = m
  BY <1>1
<1> QED BY <1>1, <1>2

\* Answers is a row for each call of the batch, and each call has one.
LEMMA AnswersFacts ==
  ASSUME NEW n \in Nat, NEW ids \in SUBSET (1 .. n)
  PROVE  /\ Answers(ids) \in Seq(RowsOf(n))
         /\ \A k \in 1 .. Len(Answers(ids)) :
              IsResult(Answers(ids)[k]) /\ Answers(ids)[k].id \in ids
         /\ \A k, l \in 1 .. Len(Answers(ids)) : Answers(ids)[k].id = Answers(ids)[l].id => k = l
         /\ {Answers(ids)[k].id : k \in 1 .. Len(Answers(ids))} = ids
<1> DEFINE upTo(i) == {j \in ids : j <= i}
           rank == [i \in ids |-> Cardinality(upTo(i))]
           N == Cardinality(ids)
           call(k) == CHOOSE i \in ids : Cardinality(upTo(i)) = k
           q == [k \in 1 .. N |-> Answer(call(k))]
<1>1. IsFiniteSet(ids) /\ N \in Nat
  <2>1. IsFiniteSet(1 .. n)
    BY FS_Interval
  <2>2. IsFiniteSet(ids)
    BY <2>1, FS_Subset
  <2> QED BY <2>2, FS_CardinalityType
<1>2. \A i \in ids : IsFiniteSet(upTo(i)) /\ Cardinality(upTo(i)) \in 1 .. N
  <2> TAKE i \in ids
  <2>1. upTo(i) \in SUBSET ids /\ i \in upTo(i)
    OBVIOUS
  <2> HIDE DEF upTo
  <2>2. IsFiniteSet(upTo(i)) /\ Cardinality(upTo(i)) <= N /\ Cardinality(upTo(i)) \in Nat
    BY <1>1, <2>1, FS_Subset, FS_CardinalityType
  <2>3. Cardinality(upTo(i)) # 0
    BY <2>1, <2>2, FS_EmptySet
  <2> QED BY <1>1, <2>2, <2>3
<1>3. \A i, j \in ids : i < j => Cardinality(upTo(i)) # Cardinality(upTo(j))
  <2> SUFFICES ASSUME NEW i \in ids, NEW j \in ids, i < j,
                      Cardinality(upTo(i)) = Cardinality(upTo(j))
               PROVE  FALSE
    OBVIOUS
  <2>1. upTo(i) \in SUBSET upTo(j) /\ j \in upTo(j) /\ j \notin upTo(i)
    <3>1. i \in Int /\ j \in Int /\ ~(j <= i) /\ j <= j
      OBVIOUS
    <3>2. \A k \in ids : k <= i => k <= j
      OBVIOUS
    <3> QED BY <3>1, <3>2
  <2> HIDE DEF upTo
  <2>2. upTo(i) = upTo(j)
    BY <1>2, <2>1, FS_Subset
  <2> QED BY <2>1, <2>2
<1>4. rank \in Injection(ids, 1 .. N)
  <2>1. rank \in [ids -> 1 .. N]
    BY <1>2
  <2>2. \A i, j \in ids : rank[i] = rank[j] => i = j
    <3>1. \A i, j \in ids : i < j \/ j < i \/ i = j
      OBVIOUS
    <3> QED BY <1>3, <3>1
  <2> HIDE DEF rank
  <2> QED BY <2>1, <2>2 DEF Injection, IsInjective
<1>5. rank \in Surjection(ids, 1 .. N)
  <2>1. IsFiniteSet(1 .. N) /\ Cardinality(1 .. N) = N
    BY <1>1, FS_Interval
  <2> HIDE DEF rank
  <2> QED BY <1>4, <2>1, FS_Injection
<1>6. \A k \in 1 .. N : \E i \in ids : Cardinality(upTo(i)) = k
  <2>1. \A k \in 1 .. N : \E i \in ids : rank[i] = k
    <3> HIDE DEF rank
    <3> QED BY <1>5 DEF Surjection
  <2> QED BY <2>1
<1>7. \A k \in 1 .. N : call(k) \in ids /\ Cardinality(upTo(call(k))) = k
  <2> HIDE DEF upTo
  <2> QED BY <1>6
<1>8. \A i \in ids : Cardinality(upTo(i)) \in 1 .. N /\ call(Cardinality(upTo(i))) = i
  <2> TAKE i \in ids
  <2>1. Cardinality(upTo(i)) \in 1 .. N
    BY <1>2
  <2>2. call(Cardinality(upTo(i))) \in ids
        /\ Cardinality(upTo(call(Cardinality(upTo(i))))) = Cardinality(upTo(i))
    BY <1>7, <2>1
  <2> HIDE DEF call, upTo
  <2>3. \A j \in ids : Cardinality(upTo(j)) = Cardinality(upTo(i)) => j = i
    <3>1. \A j \in ids : i < j \/ j < i \/ i = j
      OBVIOUS
    <3> QED BY <1>3, <3>1
  <2> QED BY <2>1, <2>2, <2>3
<1>9. Answers(ids) = q
  BY DEF Answers
<1> HIDE DEF call, upTo
<1>10. q \in Seq(RowsOf(n)) /\ Len(q) = N
  <2>1. \A k \in 1 .. N : Answer(call(k)) \in RowsOf(n)
    BY <1>7, MadeRows
  <2>2. q \in Seq(RowsOf(n))
    BY <1>1, <2>1, IsASeq
  <2>3. DOMAIN q = 1 .. Len(q) /\ DOMAIN q = 1 .. N /\ Len(q) \in Nat
    BY <2>2, LenProperties
  <2> QED BY <1>1, <2>2, <2>3
<1>11. \A k \in 1 .. N : IsResult(q[k]) /\ q[k].id = call(k)
  BY <1>7, MadeRows
<1> HIDE DEF q, N
<1>12. \A k, l \in 1 .. N : q[k].id = q[l].id => k = l
  <2>1. \A k, l \in 1 .. N : call(k) = call(l) => k = l
    BY <1>7
  <2> QED BY <1>11, <2>1
<1>13. {q[k].id : k \in 1 .. N} = ids
  <2>1. \A i \in ids : \E k \in 1 .. N : q[k].id = i
    BY <1>8, <1>11
  <2>2. \A k \in 1 .. N : q[k].id \in ids
    BY <1>7, <1>11
  <2> QED BY <2>1, <2>2
<1> QED BY <1>7, <1>9, <1>10, <1>11, <1>12, <1>13

\* Open calls are calls of the history.
LEMMA UnansweredIds ==
  ASSUME NEW n \in Nat, NEW rows \in Seq(RowsOf(n))
  PROVE  Unanswered(rows) \in SUBSET (1 .. n)
<1>1. ASSUME NEW c \in Unanswered(rows)
      PROVE  c \in 1 .. n
  <2>1. PICK i \in 1 .. Len(rows) : OpenAt(rows, i, c)
    BY InUnanswered
  <2> QED BY <2>1, PlaceFacts DEF OpenAt
<1> QED BY <1>1

\* repairOrphaned answers what is open.
LEMMA Repaired ==
  ASSUME NEW n \in Nat, NEW rows, Neat(rows, n)
  PROVE  /\ Neat(repairOrphaned(rows), n)
         /\ Unanswered(repairOrphaned(rows)) = {}
<1>1. rows \in Seq(RowsOf(n)) /\ Unanswered(rows) \in SUBSET (1 .. n)
  BY UnansweredIds DEF Neat
<1> DEFINE q == Answers(Unanswered(rows))
<1>2. /\ q \in Seq(RowsOf(n))
      /\ \A k \in 1 .. Len(q) : IsResult(q[k]) /\ q[k].id \in Unanswered(rows)
      /\ \A k, l \in 1 .. Len(q) : q[k].id = q[l].id => k = l
      /\ {q[k].id : k \in 1 .. Len(q)} = Unanswered(rows)
  BY <1>1, AnswersFacts
<1> HIDE DEF q
<1>3. Neat(rows \o q, n) /\ Unanswered(rows \o q) = Unanswered(rows) \ {q[k].id : k \in 1 .. Len(q)}
  BY <1>2, AddResults
<1>4. repairOrphaned(rows) = rows \o q
  BY DEF repairOrphaned, q
<1> QED BY <1>2, <1>3, <1>4

\* A result is appended as it is.
LEMMA AppendedResult ==
  ASSUME NEW rows, NEW row, IsResult(row)
  PROVE  append(rows, row) = Append(rows, row)
BY DEF append, IsResult

\* A result of an open call keeps the history neat.
LEMMA AppendResult ==
  ASSUME NEW n \in Nat, NEW rows, Neat(rows, n), NEW c \in Unanswered(rows)
  PROVE  /\ append(rows, Answer(c)) = rows \o <<Answer(c)>>
         /\ Append(rows, Answer(c)) = rows \o <<Answer(c)>>
         /\ Neat(rows \o <<Answer(c)>>, n)
         /\ Unanswered(rows \o <<Answer(c)>>) = Unanswered(rows) \ {c}
<1>1. rows \in Seq(RowsOf(n)) /\ c \in 1 .. n
  BY UnansweredIds DEF Neat
<1>2. Answer(c) \in RowsOf(n) /\ IsResult(Answer(c)) /\ Answer(c).id = c
  BY <1>1, MadeRows
<1> DEFINE q == <<Answer(c)>>
<1>3. q \in Seq(RowsOf(n)) /\ Len(q) = 1 /\ q[1] = Answer(c)
  BY <1>2
<1>4. Append(rows, Answer(c)) = rows \o q
  BY <1>1, <1>2, AppendIsConcat
<1>5. append(rows, Answer(c)) = rows \o q
  BY <1>2, <1>4, AppendedResult
<1> HIDE DEF q
<1>6. {q[k].id : k \in 1 .. Len(q)} = {c}
  BY <1>2, <1>3
<1>7. Neat(rows \o q, n) /\ Unanswered(rows \o q) = Unanswered(rows) \ {q[k].id : k \in 1 .. Len(q)}
  BY <1>2, <1>3, AddResults
<1> QED BY <1>4, <1>5, <1>6, <1>7 DEF q

\* Any other row keeps it neat when its calls are new: what was open is closed first.
LEMMA AppendOther ==
  ASSUME NEW n \in Nat, NEW m \in Nat, n <= m, NEW rows, Neat(rows, n),
         NEW row \in RowsOf(m), ~IsResult(row), row.calls \cap (1 .. n) = {}
  PROVE  /\ Neat(append(rows, row), m)
         /\ Unanswered(append(rows, row)) = row.calls
<1>1. append(rows, row) = Append(repairOrphaned(rows), row)
  BY DEF append, IsResult
<1> QED BY <1>1, Repaired, AddRow

\* The values that appendAll goes through.
LEMMA AppendAllSteps ==
  ASSUME NEW rows, NEW new, Len(new) \in Nat
  PROVE  \E q : /\ q[0] = rows
                /\ \A k \in 1 .. Len(new) : q[k] = append(q[k - 1], new[k])
                /\ appendAll(rows, new) = q[Len(new)]
<1> DEFINE N == Len(new)
           Steps(f, n) == f = [k \in 0 .. n |-> IF k = 0 THEN rows ELSE append(f[k - 1], new[k])]
           Good == {n \in 0 .. N : \E f : Steps(f, n)}
<1>1. 0 \in Good
  <2> DEFINE f == [k \in 0 .. 0 |-> rows]
  <2>1. f = [k \in 0 .. 0 |-> IF k = 0 THEN rows ELSE append(f[k - 1], new[k])]
    OBVIOUS
  <2>2. Steps(f, 0)
    BY <2>1
  <2> HIDE DEF f
  <2> QED BY <2>2
<1>2. ASSUME NEW n \in 0 .. N, n \in Good, n < N
      PROVE  n + 1 \in Good
  <2>1. PICK f : Steps(f, n)
    BY <1>2
  <2> DEFINE g == [k \in 0 .. n + 1 |-> IF k <= n THEN f[k] ELSE append(f[n], new[n + 1])]
  <2>2. f[0] = rows /\ \A k \in 1 .. n : f[k] = append(f[k - 1], new[k])
    <3> HIDE DEF N
    <3>1. \A k \in 0 .. n : f[k] = IF k = 0 THEN rows ELSE append(f[k - 1], new[k])
      BY <2>1
    <3> QED BY <3>1
  <2>3. \A k \in 0 .. n + 1 : g[k] = IF k = 0 THEN rows ELSE append(g[k - 1], new[k])
    <3> TAKE k \in 0 .. n + 1
    <3>1. CASE k = 0
      BY <2>2, <3>1
    <3>2. CASE k \in 1 .. n
      <4>1. g[k] = f[k] /\ g[k - 1] = f[k - 1] /\ k # 0
        BY <3>2
      <4> QED BY <2>2, <3>2, <4>1
    <3>3. CASE k = n + 1
      <4>1. g[k] = append(f[n], new[n + 1]) /\ g[k - 1] = f[n] /\ k # 0
        BY <3>3
      <4> QED BY <3>3, <4>1
    <3> QED BY <3>1, <3>2, <3>3
  <2>4. DOMAIN g = 0 .. n + 1 /\ g = [k \in 0 .. n + 1 |-> g[k]]
    OBVIOUS
  <2> HIDE DEF g
  <2>5. Steps(g, n + 1)
    BY <2>3, <2>4
  <2> QED BY <1>2, <2>5
<1>3. N \in Good
  <2> HIDE DEF Good
  <2>1. \A k \in 0 .. N : k \in Good
    BY <1>1, <1>2, StepByStep
  <2> QED BY <2>1
<1> DEFINE q == CHOOSE f : Steps(f, N)
<1>4. Steps(q, N)
  <2>1. \E f : Steps(f, N)
    BY <1>3
  <2> HIDE DEF Steps
  <2> QED BY <2>1
<1>5. appendAll(rows, new) = q[N]
  BY DEF appendAll
<1> HIDE DEF q
<1>6. \A k \in 0 .. N : q[k] = IF k = 0 THEN rows ELSE append(q[k - 1], new[k])
  BY <1>4
<1> HIDE DEF N
<1>7. q[0] = rows /\ \A k \in 1 .. N : q[k] = append(q[k - 1], new[k])
  <2>1. N \in Nat
    BY DEF N
  <2> QED BY <1>6, <2>1
<1> QED BY <1>5, <1>7 DEF N

\* appendAll is the end of any sequence of such steps.
LEMMA AppendAllIs ==
  ASSUME NEW rows, NEW new, Len(new) \in Nat, NEW q, q[0] = rows,
         \A k \in 1 .. Len(new) : q[k] = append(q[k - 1], new[k])
  PROVE  appendAll(rows, new) = q[Len(new)]
<1> DEFINE N == Len(new)
<1>1. PICK p : /\ p[0] = rows
               /\ \A k \in 1 .. N : p[k] = append(p[k - 1], new[k])
               /\ appendAll(rows, new) = p[N]
  BY AppendAllSteps
<1> DEFINE Good == {k \in 0 .. N : p[k] = q[k]}
<1>2. 0 \in Good
  BY <1>1
<1>3. ASSUME NEW k \in 0 .. N, k \in Good, k < N
      PROVE  k + 1 \in Good
  <2>1. k + 1 \in 1 .. N /\ (k + 1) - 1 = k
    BY <1>3
  <2>2. p[k + 1] = append(p[k], new[k + 1]) /\ q[k + 1] = append(q[k], new[k + 1])
    BY <1>1, <2>1
  <2> QED BY <1>3, <2>1, <2>2
<1>4. \A k \in 0 .. N : k \in Good
  <2> HIDE DEF Good
  <2> QED BY <1>2, <1>3, StepByStep
<1> QED BY <1>1, <1>4

\* One row.
LEMMA AppendAllOne ==
  ASSUME NEW rows, NEW row
  PROVE  appendAll(rows, <<row>>) = append(rows, row)
<1> DEFINE q == [k \in 0 .. 1 |-> IF k = 0 THEN rows ELSE append(rows, row)]
           new == <<row>>
<1>1. Len(new) = 1 /\ new[1] = row
  OBVIOUS
<1>2. q[0] = rows /\ q[1] = append(rows, row)
  OBVIOUS
<1> HIDE DEF q, new
<1>3. \A k \in 1 .. Len(new) : q[k] = append(q[k - 1], new[k])
  <2>1. \A k \in 1 .. 1 : k = 1 /\ k - 1 = 0
    OBVIOUS
  <2> QED BY <1>1, <1>2, <2>1
<1>4. appendAll(rows, new) = q[Len(new)]
  <2>1. Len(new) \in Nat
    BY <1>1
  <2> QED BY <1>2, <1>3, <2>1, AppendAllIs
<1> QED BY <1>1, <1>2, <1>4 DEF new

\* First some rows, then others.
LEMMA AppendAllConcat ==
  ASSUME NEW S, NEW a \in Seq(S), NEW b \in Seq(S), NEW rows
  PROVE  appendAll(rows, a \o b) = appendAll(appendAll(rows, a), b)
<1> DEFINE A == Len(a)
           B == Len(b)
           new == a \o b
<1>1. A \in Nat /\ B \in Nat
  BY LenProperties
<1>2. Len(new) = A + B /\ \A k \in 1 .. A + B : new[k] = IF k <= A THEN a[k] ELSE b[k - A]
  BY ConcatProperties
<1>3. PICK p : /\ p[0] = rows
               /\ \A k \in 1 .. A : p[k] = append(p[k - 1], a[k])
               /\ appendAll(rows, a) = p[A]
  BY <1>1, AppendAllSteps, ZenonT(60)
<1>4. PICK r : /\ r[0] = p[A]
               /\ \A k \in 1 .. B : r[k] = append(r[k - 1], b[k])
               /\ appendAll(p[A], b) = r[B]
  BY <1>1, AppendAllSteps
<1> DEFINE q == [k \in 0 .. A + B |-> IF k <= A THEN p[k] ELSE r[k - A]]
<1> HIDE DEF A, B, new
<1>5. \A k \in 0 .. A + B : q[k] = IF k <= A THEN p[k] ELSE r[k - A]
  OBVIOUS
<1> HIDE DEF q
<1>6. q[0] = rows
  BY <1>1, <1>3, <1>5
<1>7. ASSUME NEW k \in 1 .. A + B
      PROVE  q[k] = append(q[k - 1], new[k])
  <2>1. k \in 0 .. A + B /\ k - 1 \in 0 .. A + B
    BY <1>1
  <2>2. CASE k <= A
    <3>1. k \in 1 .. A /\ k - 1 <= A
      BY <2>2, <1>1
    <3>2. q[k] = p[k] /\ q[k - 1] = p[k - 1] /\ new[k] = a[k]
      BY <2>1, <2>2, <3>1, <1>2, <1>5
    <3> QED BY <3>1, <3>2, <1>3
  <2>3. CASE k = A + 1
    <3>1. ~(k <= A) /\ k - A = 1 /\ k - 1 = A /\ 1 \in 1 .. B /\ 1 - 1 = 0
      BY <2>3, <1>1
    <3>2. q[k] = r[1] /\ q[k - 1] = p[A] /\ new[k] = b[1]
      BY <2>1, <3>1, <1>1, <1>2, <1>5
    <3>3. r[1] = append(r[1 - 1], b[1])
      BY <3>1, <1>4
    <3> QED BY <3>1, <3>2, <3>3, <1>4
  <2>4. CASE k > A + 1
    <3>1. ~(k <= A) /\ ~(k - 1 <= A) /\ k - A \in 1 .. B /\ (k - 1) - A = (k - A) - 1
      BY <2>4, <1>1
    <3>2. q[k] = r[k - A] /\ q[k - 1] = r[(k - A) - 1] /\ new[k] = b[k - A]
      BY <2>1, <3>1, <1>2, <1>5
    <3> QED BY <3>1, <3>2, <1>4
  <2> QED BY <2>2, <2>3, <2>4, <1>1
<1>8. appendAll(rows, new) = q[A + B]
  <2>1. Len(new) \in Nat
    BY <1>1, <1>2
  <2> QED BY <1>2, <1>6, <1>7, <2>1, AppendAllIs
<1>9. q[A + B] = r[B]
  <2>1. CASE B = 0
    BY <2>1, <1>1, <1>4, <1>5
  <2>2. CASE B > 0
    <3>1. A + B \in 0 .. A + B /\ ~(A + B <= A) /\ (A + B) - A = B
      BY <2>2, <1>1
    <3> QED BY <3>1, <1>5
  <2> QED BY <2>1, <2>2, <1>1
<1> QED BY <1>3, <1>4, <1>8, <1>9 DEF new

\* A row behind a concatenation is a row behind its second part.
LEMMA AppendBehind ==
  ASSUME NEW S, NEW u \in Seq(S), NEW v \in Seq(S), NEW e \in S
  PROVE  Append(u \o v, e) = u \o Append(v, e)
BY SMTT(60)

\* A beginning grows row by row.
LEMMA BeginningGrows ==
  ASSUME NEW S, NEW new \in Seq(S), NEW k \in 1 .. Len(new)
  PROVE  /\ SubSeq(new, 1, k - 1) \in Seq(S) /\ new[k] \in S
         /\ SubSeq(new, 1, k) = Append(SubSeq(new, 1, k - 1), new[k])
<1>1. Len(new) \in Nat /\ \A i \in 1 .. Len(new) : new[i] \in S
  BY LenProperties, ElementOfSeq
<1>2. SubSeq(new, 1, k - 1) \in Seq(S)
  <2>1. \A i \in 1 .. k - 1 : new[i] \in S
    BY <1>1
  <2> QED BY <1>1, <2>1, SubSeqProperties
<1> QED BY <1>1, <1>2

\* A concatenation, row by row.
LEMMA ConcatSteps ==
  ASSUME NEW S, NEW rows \in Seq(S), NEW new \in Seq(S)
  PROVE  /\ rows \o SubSeq(new, 1, 0) = rows
         /\ \A k \in 1 .. Len(new) :
              rows \o SubSeq(new, 1, k) = Append(rows \o SubSeq(new, 1, k - 1), new[k])
         /\ rows \o SubSeq(new, 1, Len(new)) = rows \o new
<1>1. SubSeq(new, 1, 0) = <<>> /\ rows \o <<>> = rows
  BY SubSeqEmpty, ConcatEmptySeq
<1>2. ASSUME NEW k \in 1 .. Len(new)
      PROVE  rows \o SubSeq(new, 1, k) = Append(rows \o SubSeq(new, 1, k - 1), new[k])
  <2>1. /\ SubSeq(new, 1, k - 1) \in Seq(S) /\ new[k] \in S
        /\ SubSeq(new, 1, k) = Append(SubSeq(new, 1, k - 1), new[k])
    BY BeginningGrows
  <2> QED BY <2>1, AppendBehind
<1> QED BY <1>1, <1>2, SubSeqFull

\* Results are appended as they are.
LEMMA AppendAllResults ==
  ASSUME NEW S, NEW rows \in Seq(S), NEW new \in Seq(S),
         \A k \in 1 .. Len(new) : IsResult(new[k])
  PROVE  appendAll(rows, new) = rows \o new
<1> DEFINE N == Len(new)
           q == [k \in 0 .. N |-> rows \o SubSeq(new, 1, k)]
<1>1. N \in Nat
  BY LenProperties
<1>2. q[0] = rows
  BY <1>1, ConcatSteps
<1>3. \A k \in 1 .. N : q[k] = append(q[k - 1], new[k])
  <2> TAKE k \in 1 .. N
  <2>1. k \in 0 .. N /\ k - 1 \in 0 .. N
    BY <1>1
  <2>2. q[k] = rows \o SubSeq(new, 1, k) /\ q[k - 1] = rows \o SubSeq(new, 1, k - 1)
    BY <2>1
  <2> HIDE DEF q
  <2>3. q[k] = Append(q[k - 1], new[k])
    BY <2>2, ConcatSteps, SMTT(60)
  <2> QED BY <2>3, AppendedResult
<1>4. q[N] = rows \o new
  BY <1>1, ConcatSteps
<1> HIDE DEF q
<1> QED BY <1>1, <1>2, <1>3, <1>4, AppendAllIs

-----------------------------------------------------------------------------
(* The transcript and the model client's messages, side by side.            *)

\* Both are neat, the model's open calls are those of the batch that are not yet
\* dispatched, and the transcript keeps these open too.
Linked(t, m, open, n) ==
  /\ Neat(t, n) /\ Neat(m, n)
  /\ Unanswered(m) = open /\ open \subseteq Unanswered(t)

\* A row behind a history, as a concatenation.
LEMMA OneRow ==
  ASSUME NEW n \in Nat, NEW k \in Nat, n <= k, NEW rows \in Seq(RowsOf(n)), NEW row \in RowsOf(k)
  PROVE  rows \o <<row>> = Append(rows, row)
<1>1. rows \in Seq(RowsOf(k))
  BY RowsGrow, SeqMonotonic
<1> QED BY <1>1, AppendIsConcat

\* A row that is no result and asks for new calls, or for none.
LEMMA BothOther ==
  ASSUME NEW n \in Nat, NEW k \in Nat, n <= k, NEW t, NEW m, Linked(t, m, {}, n),
         NEW row \in RowsOf(k), ~IsResult(row), row.calls \cap (1 .. n) = {}
  PROVE  /\ Linked(append(t, row), m \o <<row>>, row.calls, k)
         /\ appendAll(t, <<row>>) = append(t, row)
         /\ Linked(append(t, row), Append(m, row), row.calls, k)
<1>1. Neat(append(t, row), k) /\ Unanswered(append(t, row)) = row.calls
  BY AppendOther DEF Linked
<1>2. Neat(Append(m, row), k) /\ Unanswered(Append(m, row)) = row.calls
  BY AddRow DEF Linked
<1>3. m \o <<row>> = Append(m, row)
  BY OneRow DEF Linked, Neat
<1>4. appendAll(t, <<row>>) = append(t, row)
  BY AppendAllOne
<1> QED BY <1>1, <1>2, <1>3, <1>4 DEF Linked

\* The answers of open calls.
LEMMA BothAnswers ==
  ASSUME NEW n \in Nat, NEW t, NEW m, NEW open, Linked(t, m, open, n), NEW ids \in SUBSET open
  PROVE  Linked(appendAll(t, Answers(ids)), m \o Answers(ids), open \ ids, n)
<1>1. /\ t \in Seq(RowsOf(n)) /\ Neat(t, n) /\ Neat(m, n)
      /\ Unanswered(m) = open /\ open \subseteq Unanswered(t)
  BY DEF Linked, Neat
<1>2. ids \in SUBSET (1 .. n)
  BY <1>1, UnansweredIds
<1> DEFINE q == Answers(ids)
<1>3. /\ q \in Seq(RowsOf(n))
      /\ \A k \in 1 .. Len(q) : IsResult(q[k]) /\ q[k].id \in ids
      /\ \A k, l \in 1 .. Len(q) : q[k].id = q[l].id => k = l
      /\ {q[k].id : k \in 1 .. Len(q)} = ids
  BY <1>2, AnswersFacts
<1> HIDE DEF q
<1>4. appendAll(t, q) = t \o q
  BY <1>1, <1>3, AppendAllResults
<1>5. Neat(t \o q, n) /\ Unanswered(t \o q) = Unanswered(t) \ {q[k].id : k \in 1 .. Len(q)}
  <2>1. \A k \in 1 .. Len(q) : IsResult(q[k]) /\ q[k].id \in Unanswered(t)
    BY <1>1, <1>3
  <2>2. \A k, l \in 1 .. Len(q) : q[k].id = q[l].id => k = l
    BY <1>3
  <2>3. Neat(t, n) /\ q \in Seq(RowsOf(n))
    BY <1>1, <1>3
  <2> QED BY <2>1, <2>2, <2>3, AddResults, SMTT(60), ZenonT(60)
<1>6. Neat(m \o q, n) /\ Unanswered(m \o q) = Unanswered(m) \ {q[k].id : k \in 1 .. Len(q)}
  <2>1. \A k \in 1 .. Len(q) : IsResult(q[k]) /\ q[k].id \in Unanswered(m)
    BY <1>1, <1>3
  <2>2. \A k, l \in 1 .. Len(q) : q[k].id = q[l].id => k = l
    BY <1>3
  <2>3. Neat(m, n) /\ q \in Seq(RowsOf(n))
    BY <1>1, <1>3
  <2> QED BY <2>1, <2>2, <2>3, AddResults, SMTT(60), ZenonT(60)
<1>7. open \ ids \subseteq Unanswered(t) \ ids
  BY <1>1
<1>8. Linked(t \o q, m \o q, open \ ids, n)
  BY <1>1, <1>3, <1>5, <1>6, <1>7 DEF Linked
<1> QED BY <1>4, <1>8 DEF q

\* The answer of one open call.
LEMMA BothAnswer ==
  ASSUME NEW n \in Nat, NEW t, NEW m, NEW open, Linked(t, m, open, n), NEW c \in open
  PROVE  Linked(appendAll(t, <<Answer(c)>>), m \o <<Answer(c)>>, open \ {c}, n)
<1>1. c \in Unanswered(t) /\ c \in Unanswered(m)
  BY DEF Linked
<1>2. appendAll(t, <<Answer(c)>>) = append(t, Answer(c))
  BY AppendAllOne
<1>3. /\ append(t, Answer(c)) = t \o <<Answer(c)>>
      /\ Neat(t \o <<Answer(c)>>, n) /\ Unanswered(t \o <<Answer(c)>>) = Unanswered(t) \ {c}
  BY <1>1, AppendResult DEF Linked
<1>4. Neat(m \o <<Answer(c)>>, n) /\ Unanswered(m \o <<Answer(c)>>) = Unanswered(m) \ {c}
  BY <1>1, AppendResult DEF Linked
<1> QED BY <1>2, <1>3, <1>4 DEF Linked

\* Only the model sees the answer.
LEMMA LeakedAnswer ==
  ASSUME NEW n \in Nat, NEW t, NEW m, NEW open, Linked(t, m, open, n), NEW c \in open
  PROVE  Linked(t, Append(m, Answer(c)), open \ {c}, n)
<1>1. c \in Unanswered(m)
  BY DEF Linked
<1>2. /\ Append(m, Answer(c)) = m \o <<Answer(c)>>
      /\ Neat(m \o <<Answer(c)>>, n) /\ Unanswered(m \o <<Answer(c)>>) = Unanswered(m) \ {c}
  BY <1>1, AppendResult DEF Linked
<1> QED BY <1>2 DEF Linked

\* A batch is asked for.
LEMMA BothAsk ==
  ASSUME NEW n \in Nat, NEW k \in Nat, NEW t, NEW m, Linked(t, m, {}, n)
  PROVE  LET ids == n + 1 .. n + k
         IN  Linked(appendAll(t, <<Ask(ids)>>), m \o <<Ask(ids)>>, ids, n + k)
<1> DEFINE ids == n + 1 .. n + k
<1>1. ids \in SUBSET (1 .. n + k) /\ ids \cap (1 .. n) = {} /\ n + k \in Nat /\ n <= n + k
  OBVIOUS
<1> HIDE DEF ids
<1>2. Ask(ids) \in RowsOf(n + k) /\ ~IsResult(Ask(ids)) /\ Ask(ids).calls = ids
  BY <1>1, MadeRows
<1>3. /\ Linked(append(t, Ask(ids)), m \o <<Ask(ids)>>, Ask(ids).calls, n + k)
      /\ appendAll(t, <<Ask(ids)>>) = append(t, Ask(ids))
  BY <1>1, <1>2, BothOther
<1> QED BY <1>2, <1>3 DEF ids

\* A batch is asked for and answered at once.
LEMMA BothAskAnswers ==
  ASSUME NEW n \in Nat, NEW k \in Nat, NEW t, NEW m, Linked(t, m, {}, n)
  PROVE  LET ids == n + 1 .. n + k
             rows == <<Ask(ids)>> \o Answers(ids)
         IN  Linked(appendAll(t, rows), m \o rows, {}, n + k)
<1> DEFINE ids == n + 1 .. n + k
           a == <<Ask(ids)>>
           b == Answers(ids)
<1>1. Linked(appendAll(t, a), m \o a, ids, n + k)
  BY BothAsk
<1>2. ids \in SUBSET (1 .. n + k) /\ n + k \in Nat /\ n <= n + k
  OBVIOUS
<1>3. a \in Seq(RowsOf(n + k)) /\ b \in Seq(RowsOf(n + k)) /\ m \in Seq(RowsOf(n + k))
  <2>1. m \in Seq(RowsOf(n + k))
    BY <1>2, RowsGrow, SeqMonotonic DEF Linked, Neat
  <2> HIDE DEF ids
  <2>2. Ask(ids) \in RowsOf(n + k)
    BY <1>2, MadeRows
  <2>3. a \in Seq(RowsOf(n + k))
    BY <2>2
  <2>4. b \in Seq(RowsOf(n + k))
    BY <1>2, AnswersFacts
  <2> QED BY <2>1, <2>3, <2>4
<1> HIDE DEF ids
<1>4. Linked(appendAll(appendAll(t, a), b), (m \o a) \o b, ids \ ids, n + k)
  BY <1>1, <1>2, BothAnswers
<1>5. appendAll(t, a \o b) = appendAll(appendAll(t, a), b) /\ m \o (a \o b) = (m \o a) \o b
  <2> HIDE DEF a, b
  <2>1. appendAll(t, a \o b) = appendAll(appendAll(t, a), b)
    BY <1>3, AppendAllConcat
  <2>2. m \o (a \o b) = (m \o a) \o b
    BY <1>3, SMTT(60)
  <2> QED BY <2>1, <2>2
<1>6. ids \ ids = {}
  OBVIOUS
<1> QED BY <1>4, <1>5, <1>6 DEF ids

\* The batch is answered and the model is told why.
LEMMA BothAnswersUser ==
  ASSUME NEW n \in Nat, NEW t, NEW m, NEW open, Linked(t, m, open, n)
  PROVE  LET rows == Answers(open) \o <<User>>
         IN  Linked(appendAll(t, rows), m \o rows, {}, n)
<1> DEFINE a == Answers(open)
           b == <<User>>
<1>1. Linked(appendAll(t, a), m \o a, {}, n)
  <2>1. open \ open = {} /\ open \in SUBSET open
    OBVIOUS
  <2> QED BY <2>1, BothAnswers
<1>2. User \in RowsOf(n) /\ ~IsResult(User) /\ User.calls = {}
  BY MadeRows
<1>3. a \in Seq(RowsOf(n)) /\ b \in Seq(RowsOf(n)) /\ m \in Seq(RowsOf(n))
  <2>1. open \in SUBSET (1 .. n) /\ m \in Seq(RowsOf(n))
    BY UnansweredIds DEF Linked, Neat
  <2> QED BY <1>2, <2>1, AnswersFacts
<1>4. Linked(appendAll(appendAll(t, a), b), (m \o a) \o b, {}, n)
  <2> HIDE DEF a
  <2>1. Linked(append(appendAll(t, a), User), (m \o a) \o <<User>>, User.calls, n)
        /\ appendAll(appendAll(t, a), <<User>>) = append(appendAll(t, a), User)
    BY <1>1, <1>2, BothOther
  <2> QED BY <1>2, <2>1
<1>5. appendAll(t, a \o b) = appendAll(appendAll(t, a), b) /\ m \o (a \o b) = (m \o a) \o b
  <2> HIDE DEF a, b
  <2>1. appendAll(t, a \o b) = appendAll(appendAll(t, a), b)
    BY <1>3, AppendAllConcat
  <2>2. m \o (a \o b) = (m \o a) \o b
    BY <1>3, SMTT(60)
  <2> QED BY <2>1, <2>2
<1> QED BY <1>4, <1>5

\* The steers of a round, each a user row.
LEMMA BothUsers ==
  ASSUME NEW n \in Nat, NEW t, NEW m, Linked(t, m, {}, n), NEW N \in Nat
  PROVE  LET rows == [k \in 1 .. N |-> User]
         IN  Linked(appendAll(t, rows), m \o rows, {}, n)
<1> DEFINE rows == [k \in 1 .. N |-> User]
<1>1. User \in RowsOf(n) /\ ~IsResult(User) /\ User.calls = {}
  BY MadeRows
<1>2. rows \in Seq(RowsOf(n)) /\ Len(rows) = N /\ \A k \in 1 .. N : rows[k] = User
  <2>1. rows \in Seq(RowsOf(n))
    BY <1>1, IsASeq
  <2> QED BY <2>1, LenProperties
<1> HIDE DEF rows
<1>3. PICK q : /\ q[0] = t
               /\ \A k \in 1 .. N : q[k] = append(q[k - 1], rows[k])
               /\ appendAll(t, rows) = q[N]
  <2>1. Len(rows) \in Nat
    BY <1>2
  <2>2. PICK q : /\ q[0] = t
                 /\ \A k \in 1 .. Len(rows) : q[k] = append(q[k - 1], rows[k])
                 /\ appendAll(t, rows) = q[Len(rows)]
    BY <2>1, AppendAllSteps
  <2> QED BY <1>2, <2>2
<1> DEFINE p == [k \in 0 .. N |-> m \o SubSeq(rows, 1, k)]
<1>4. p[0] = m /\ p[N] = m \o rows /\ \A k \in 1 .. N : p[k] = Append(p[k - 1], User)
  <2>1. m \in Seq(RowsOf(n))
    BY DEF Linked, Neat
  <2>2. /\ m \o SubSeq(rows, 1, 0) = m
        /\ \A k \in 1 .. N : m \o SubSeq(rows, 1, k) = Append(m \o SubSeq(rows, 1, k - 1), rows[k])
        /\ m \o SubSeq(rows, 1, N) = m \o rows
    <3>1. /\ m \o SubSeq(rows, 1, 0) = m
          /\ \A k \in 1 .. Len(rows) :
               m \o SubSeq(rows, 1, k) = Append(m \o SubSeq(rows, 1, k - 1), rows[k])
          /\ m \o SubSeq(rows, 1, Len(rows)) = m \o rows
      BY <1>2, <2>1, ConcatSteps
    <3> QED BY <1>2, <3>1
  <2>3. \A k \in 1 .. N : k \in 0 .. N /\ k - 1 \in 0 .. N
    OBVIOUS
  <2> QED BY <1>2, <2>2, <2>3, SMTT(60)
<1> DEFINE Good == {k \in 0 .. N : Linked(q[k], p[k], {}, n)}
<1> HIDE DEF p
<1>5. 0 \in Good
  BY <1>3, <1>4
<1>6. ASSUME NEW k \in 0 .. N, k \in Good, k < N
      PROVE  k + 1 \in Good
  <2>1. k + 1 \in 1 .. N /\ (k + 1) - 1 = k
    BY <1>6
  <2>2. q[k + 1] = append(q[k], User) /\ p[k + 1] = Append(p[k], User)
    BY <2>1, <1>2, <1>3, <1>4
  <2>3. Linked(append(q[k], User), Append(p[k], User), {}, n)
    <3>1. Linked(q[k], p[k], {}, n) /\ n <= n /\ User.calls \cap (1 .. n) = {}
      BY <1>1, <1>6
    <3>2. Linked(append(q[k], User), Append(p[k], User), User.calls, n)
      BY <1>1, <3>1, BothOther
    <3> QED BY <1>1, <3>2
  <2>4. Linked(q[k + 1], p[k + 1], {}, n)
    BY <2>2, <2>3
  <2> QED BY <2>1, <2>4
<1>7. N \in Good
  <2> HIDE DEF Good
  <2>1. \A k \in 0 .. N : k \in Good
    BY <1>5, <1>6, StepByStep
  <2> QED BY <2>1
<1> QED BY <1>3, <1>4, <1>7 DEF rows

-----------------------------------------------------------------------------
(* A neat history without open calls is what a provider demands.            *)

\* The results behind a row that asks for calls, when it has no open call.
LEMMA BatchEnd ==
  ASSUME NEW n \in Nat, NEW rows, Neat(rows, n), Unanswered(rows) = {},
         NEW i \in 1 .. Len(rows), rows[i].calls # {}
  PROVE  \E e \in i .. Len(rows) :
           /\ e = Len(rows) \/ ~IsResult(rows[e + 1])
           /\ rows[i].calls = {rows[k].id : k \in i + 1 .. e}
           /\ Cardinality(rows[i].calls) = e - i
<1> DEFINE L == Len(rows)
           Ends == {k \in i .. L : k = L \/ ~IsResult(rows[k + 1])}
<1>1. /\ rows \in Seq(RowsOf(n)) /\ L \in Nat /\ DOMAIN rows = 1 .. L
      /\ \A k \in 1 .. L : IsResult(rows[k]) => rows[k].calls = {}
      /\ \A k \in 1 .. L : IsResult(rows[k]) \in BOOLEAN
      /\ i \in 1 .. L
  BY PlaceFacts DEF Neat
<1>2. PICK e \in Ends : \A k \in Ends : e <= k
  <2>1. Ends \in SUBSET Nat /\ L \in Ends
    BY <1>1
  <2> HIDE DEF Ends
  <2> QED BY <2>1, LeastNumber
<1>3. e \in i .. L /\ (e = L \/ ~IsResult(rows[e + 1]))
  BY <1>2
<1> HIDE DEF L
<1>4. \A k \in i + 1 .. e : IsResult(rows[k])
  <2> SUFFICES ASSUME NEW k \in i + 1 .. e, ~IsResult(rows[k]) PROVE FALSE
    OBVIOUS
  <2>1. k - 1 \in i .. L /\ (k - 1) + 1 = k /\ ~(e <= k - 1)
    BY <1>1, <1>3
  <2> QED BY <1>2, <2>1
<1> HIDE DEF Ends
<1>5. ASSUME NEW k \in i + 1 .. e
      PROVE  rows[k].id \in rows[i].calls
  <2>1. k \in 1 .. L /\ i < k
    BY <1>1, <1>3
  <2>2. PICK j \in 1 .. k - 1 : InBatch(rows, j, k)
    BY <1>1, <1>4, <2>1 DEF Neat, Owned
  <2>3. ~IsResult(rows[i])
    BY <1>1 DEF L
  <2>4. ~(j < i)
    <3>1. j < i => i \in j + 1 .. k
      BY <2>1
    <3> QED BY <2>2, <2>3, <3>1 DEF InBatch
  <2>5. ~(i < j)
    <3>1. i < j => j \in i + 1 .. e /\ j \in 1 .. L
      BY <1>1, <1>3, <2>1
    <3> QED BY <1>1, <1>4, <2>2, <3>1 DEF InBatch
  <2>6. j = i
    BY <2>4, <2>5
  <2> QED BY <2>2, <2>6 DEF InBatch
<1>6. ASSUME NEW c \in rows[i].calls
      PROVE  \E k \in i + 1 .. e : rows[k].id = c
  <2>1. CASE e = L
    <3>1. ~OpenAt(rows, i, c)
      BY <1>1, InUnanswered
    <3> QED BY <1>4, <2>1, <3>1 DEF OpenAt, L
  <2>2. CASE e # L
    <3>1. e + 1 \in DOMAIN rows /\ i \in DOMAIN rows /\ i < e + 1 /\ ~IsResult(rows[e + 1])
          /\ (e + 1) - 1 = e
      BY <1>1, <1>3, <2>2
    <3>2. PICK k \in i + 1 .. (e + 1) - 1 : rows[k].id = c
      BY <3>1 DEF Neat, ClosedBefore
    <3> QED BY <3>1, <3>2
  <2> QED BY <2>1, <2>2
<1>7. rows[i].calls = {rows[k].id : k \in i + 1 .. e}
  <2>1. \A c \in {rows[k].id : k \in i + 1 .. e} : c \in rows[i].calls
    BY <1>5
  <2>2. \A c \in rows[i].calls : c \in {rows[k].id : k \in i + 1 .. e}
    BY <1>6
  <2> QED BY <2>1, <2>2
<1>8. Cardinality(rows[i].calls) = e - i
  <2> DEFINE f == [k \in i + 1 .. e |-> rows[k].id]
             C == rows[i].calls
             I == i + 1 .. e
  <2>1. f \in [I -> C]
    BY <1>5
  <2>2. \A k, l \in I : f[k] = f[l] => k = l
    <3>1. I \subseteq DOMAIN rows
      BY <1>1, <1>3
    <3>2. \A k, l \in I : rows[k].id = rows[l].id => k = l
      BY <1>4, <3>1 DEF Neat, AnsweredOnce
    <3> QED BY <3>2
  <2>3. \A c \in C : \E k \in I : f[k] = c
    BY <1>6
  <2>4. IsFiniteSet(I) /\ Cardinality(I) = e - i
    <3>1. i + 1 \in Int /\ e \in Int /\ i \in Int /\ i <= e
      BY <1>1, <1>3
    <3>2. /\ IsFiniteSet(i + 1 .. e)
          /\ Cardinality(i + 1 .. e) = IF i + 1 > e THEN 0 ELSE e - (i + 1) + 1
      BY <3>1, FS_Interval
    <3> QED BY <3>1, <3>2
  <2> HIDE DEF f, C, I
  <2>5. f \in Bijection(I, C)
    BY <2>1, <2>2, <2>3 DEF Bijection, Injection, Surjection, IsInjective
  <2>6. Cardinality(C) = Cardinality(I)
    BY <2>4, <2>5, FS_Bijection DEF ExistsBijection
  <2> QED BY <2>4, <2>6 DEF C
<1> QED BY <1>3, <1>7, <1>8 DEF L

\* Every call is answered right behind the row that asks for it.
LEMMA NeatIsWellFormed ==
  ASSUME NEW n \in Nat, NEW rows, Neat(rows, n), Unanswered(rows) = {}
  PROVE  WellFormed(rows)
<1> DEFINE L == Len(rows)
<1>1. /\ rows \in Seq(RowsOf(n)) /\ L \in Nat /\ DOMAIN rows = 1 .. L
      /\ \A k \in 1 .. L : IsResult(rows[k]) => rows[k].calls = {}
  BY PlaceFacts DEF Neat
<1> HIDE DEF L
<1>2. ASSUME NEW i \in 1 .. L
      PROVE  /\ i + Cardinality(rows[i].calls) <= L
             /\ rows[i].calls = {rows[k].id : k \in i + 1 .. i + Cardinality(rows[i].calls)}
  <2>1. CASE rows[i].calls = {}
    <3>1. Cardinality(rows[i].calls) = 0
      BY <2>1, FS_EmptySet
    <3>2. i + 0 = i /\ i + 1 .. i = {} /\ i <= L
      BY <1>1
    <3> QED BY <2>1, <3>1, <3>2
  <2>2. CASE rows[i].calls # {}
    <3>1. PICK e \in i .. L : /\ rows[i].calls = {rows[k].id : k \in i + 1 .. e}
                              /\ Cardinality(rows[i].calls) = e - i
      BY <2>2, BatchEnd DEF L
    <3>2. i + (e - i) = e /\ e <= L
      BY <1>1
    <3> QED BY <3>1, <3>2
  <2> QED BY <2>1, <2>2
<1>3. ASSUME NEW i \in 1 .. L, rows[i].role = "tool"
      PROVE  \E j \in 1 .. i - 1 : /\ rows[i].id \in rows[j].calls
                                   /\ i <= j + Cardinality(rows[j].calls)
  <2>1. PICK j \in 1 .. i - 1 : InBatch(rows, j, i)
    BY <1>1, <1>3 DEF Neat, Owned, IsResult
  <2>2. j \in 1 .. L /\ rows[j].calls # {} /\ rows[i].id \in rows[j].calls
    BY <1>1, <2>1 DEF InBatch
  <2>3. PICK e \in j .. L : /\ e = L \/ ~IsResult(rows[e + 1])
                            /\ Cardinality(rows[j].calls) = e - j
    BY <2>2, BatchEnd DEF L
  <2>4. i <= e
    <3>1. e < i => e + 1 \in j + 1 .. i /\ e # L
      BY <1>1, <2>2
    <3> QED BY <1>1, <2>1, <2>3, <3>1 DEF InBatch
  <2>5. j + (e - j) = e
    BY <2>2
  <2> QED BY <2>2, <2>3, <2>4, <2>5
<1> QED BY <1>1, <1>2, <1>3 DEF WellFormed, L

-----------------------------------------------------------------------------
(* Compaction.                                                              *)

\* A tail without the results in front of it begins with another row.
LEMMA Trimmed ==
  ASSUME NEW n \in Nat, NEW rows, Neat(rows, n), NEW b \in 1 .. Len(rows) + 1
  PROVE  \E s \in b .. Len(rows) + 1 :
           /\ trimOrphanedToolResults(SubSeq(rows, b, Len(rows))) = SubSeq(rows, s, Len(rows))
           /\ s <= Len(rows) => ~IsResult(rows[s])
<1> DEFINE L == Len(rows)
           tail == SubSeq(rows, b, L)
           T == Len(tail)
           claimed == UNION {tail[i].calls : i \in DOMAIN tail}
           stops == {i \in DOMAIN tail : tail[i].role # "tool" \/ tail[i].id \in claimed}
           first == CHOOSE i \in stops : \A j \in stops : i <= j
<1>1. /\ rows \in Seq(RowsOf(n)) /\ L \in Nat /\ DOMAIN rows = 1 .. L
      /\ \A k \in 1 .. L : rows[k] \in RowsOf(n)
      /\ \A k \in 1 .. L : IsResult(rows[k]) => rows[k].calls = {}
      /\ b \in 1 .. L + 1
  BY PlaceFacts DEF Neat
<1>2. /\ tail \in Seq(RowsOf(n)) /\ DOMAIN tail = 1 .. T /\ T = L - b + 1
      /\ \A i \in 1 .. T : tail[i] = rows[b + i - 1] /\ b + i - 1 \in b .. L
  <2> HIDE DEF L
  <2>1. \A k \in b .. L : rows[k] \in RowsOf(n)
    BY <1>1
  <2>2. /\ tail \in Seq(RowsOf(n))
        /\ T = IF b <= L THEN L - b + 1 ELSE 0
        /\ \A i \in 1 .. L - b + 1 : tail[i] = rows[b + i - 1]
    BY <1>1, <2>1, SubSeqProperties
  <2>3. DOMAIN tail = 1 .. T
    BY <2>2, LenProperties
  <2> QED BY <1>1, <2>2, <2>3
<1>3. trimOrphanedToolResults(tail) = IF stops = {} THEN <<>> ELSE SubSeq(tail, first, T)
  BY DEF trimOrphanedToolResults
<1> HIDE DEF tail, T, L
<1>4. CASE stops = {}
  <2>1. SubSeq(rows, L + 1, L) = <<>>
    BY <1>1, SubSeqEmpty
  <2>2. L + 1 \in b .. L + 1 /\ ~(L + 1 <= L)
    BY <1>1
  <2> QED BY <1>3, <1>4, <2>1, <2>2 DEF tail, L
<1>5. CASE stops # {}
  <2>1. first \in stops /\ \A j \in stops : first <= j
    <3>1. stops \in SUBSET Nat
      BY <1>1, <1>2
    <3> HIDE DEF stops
    <3>2. \E i \in stops : \A j \in stops : i <= j
      BY <1>5, <3>1, LeastNumber
    <3> QED BY <3>2
  <2>2. first \in 1 .. T
    BY <1>2, <2>1
  <2> DEFINE s == b + first - 1
  <2>3. s \in b .. L /\ tail[first] = rows[s]
    BY <1>2, <2>2
  <2>4. ~IsResult(rows[s])
    <3> SUFFICES ASSUME IsResult(rows[s]) PROVE FALSE
      OBVIOUS
    <3>1. tail[first].id \in claimed
      BY <2>1, <2>3 DEF IsResult
    <3>2. PICK i \in 1 .. T : rows[s].id \in tail[i].calls
      BY <1>2, <2>3, <3>1
    <3> DEFINE k == b + i - 1
    <3>3. /\ k \in b .. L /\ k \in 1 .. L /\ s \in 1 .. L
          /\ rows[s].id \in rows[k].calls /\ tail[i] = rows[k]
      <4>1. k \in b .. L /\ tail[i] = rows[k]
        BY <1>2, SMTT(60)
      <4> HIDE DEF k, s
      <4>2. k \in 1 .. L /\ s \in 1 .. L
        BY <1>1, <2>3, <4>1
      <4> QED BY <3>2, <4>1, <4>2
    <3>4. PICK j \in 1 .. s - 1 : InBatch(rows, j, s)
      BY <1>1, <3>3 DEF Neat, Owned
    <3> HIDE DEF k, s
    <3>5. j = k
      <4>1. j \in 1 .. L /\ rows[s].id \in rows[j].calls \cap rows[k].calls
        BY <1>1, <3>3, <3>4 DEF InBatch
      <4> QED BY <1>1, <3>3, <4>1 DEF Neat, AskedOnce
    <3>6. i < first
      <4>1. k < s
        BY <3>3, <3>4, <3>5
      <4>2. i \in Int /\ first \in Int /\ b \in Int
        BY <1>1, <2>2
      <4>3. k = b + i - 1 /\ s = b + first - 1
        BY DEF k, s
      <4> HIDE DEF first
      <4> QED BY <4>1, <4>2, <4>3
    <3>7. ~IsResult(tail[i])
      BY <1>1, <3>2, <3>3, SMTT(60)
    <3>8. i \in stops
      BY <1>2, <3>2, <3>7 DEF IsResult
    <3> QED BY <1>1, <2>1, <2>2, <3>6, <3>8
  <2>5. SubSeq(tail, first, T) = SubSeq(rows, s, L)
    <3> HIDE DEF first
    <3>1. \A i \in first .. T : tail[i] \in RowsOf(n)
      BY <1>2, <2>2, ElementOfSeq DEF T
    <3>2. /\ SubSeq(tail, first, T) \in Seq(RowsOf(n))
          /\ Len(SubSeq(tail, first, T)) = T - first + 1
          /\ \A i \in 1 .. T - first + 1 : SubSeq(tail, first, T)[i] = tail[first + i - 1]
      BY <1>1, <1>2, <2>2, <3>1, SubSeqProperties, SMTT(60)
    <3>3. \A i \in s .. L : rows[i] \in RowsOf(n)
      BY <1>1, <2>3
    <3>4. /\ SubSeq(rows, s, L) \in Seq(RowsOf(n))
          /\ Len(SubSeq(rows, s, L)) = L - s + 1
          /\ \A i \in 1 .. L - s + 1 : SubSeq(rows, s, L)[i] = rows[s + i - 1]
      BY <1>1, <2>3, <3>3, SubSeqProperties
    <3>5. T - first + 1 = L - s + 1
      BY <1>1, <1>2, <2>2
    <3>6. \A i \in 1 .. T - first + 1 : tail[first + i - 1] = rows[s + i - 1]
      BY <1>1, <1>2, <2>2, SMTT(60)
    <3> QED BY <3>2, <3>4, <3>5, <3>6, SeqEqual, ZenonT(60)
  <2>6. s \in b .. L + 1
    BY <1>1, <2>3
  <2> QED BY <1>3, <1>5, <2>4, <2>5, <2>6 DEF tail, L
<1> QED BY <1>4, <1>5

\* What a compaction keeps begins with a row that is no result.
LEMMA KeptFacts ==
  ASSUME NEW n \in Nat, NEW rows, Neat(rows, n), NEW p \in Nat, Shrinks(rows, p)
  PROVE  \E s \in 1 .. Len(rows) + 1 : /\ Kept(rows, p) = SubSeq(rows, s, Len(rows))
                                       /\ s <= Len(rows) => ~IsResult(rows[s])
<1>1. Len(rows) \in Nat /\ rows \in Seq(RowsOf(n))
  BY PlaceFacts DEF Neat
<1>2. p < Len(rows)
  BY <1>1 DEF Shrinks, Middle
<1> DEFINE b == IF p = 0 THEN 1 ELSE Len(rows) - p + 1
<1>3. b \in 1 .. Len(rows) + 1
  BY <1>1, <1>2
<1>4. Kept(rows, p) = trimOrphanedToolResults(SubSeq(rows, b, Len(rows)))
  <2>1. SubSeq(rows, 1, Len(rows)) = rows
    BY <1>1, SubSeqFull
  <2> QED BY <2>1 DEF Kept
<1> HIDE DEF b
<1>5. PICK s \in b .. Len(rows) + 1 :
        /\ trimOrphanedToolResults(SubSeq(rows, b, Len(rows))) = SubSeq(rows, s, Len(rows))
        /\ s <= Len(rows) => ~IsResult(rows[s])
  BY <1>3, Trimmed
<1>6. s \in 1 .. Len(rows) + 1
  BY <1>1, <1>3
<1> QED BY <1>4, <1>5, <1>6

\* The summary and the tail are neat, and no other call is open.
LEMMA CompactedFacts ==
  ASSUME NEW n \in Nat, NEW rows, Neat(rows, n), NEW p \in Nat, Shrinks(rows, p)
  PROVE  /\ Neat(Compacted(rows, p), n)
         /\ Unanswered(Compacted(rows, p)) \subseteq Unanswered(rows)
<1> DEFINE L == Len(rows)
<1>1. /\ rows \in Seq(RowsOf(n)) /\ L \in Nat /\ DOMAIN rows = 1 .. L
      /\ \A k \in 1 .. L : rows[k] \in RowsOf(n)
  BY PlaceFacts DEF Neat
<1>2. PICK s \in 1 .. L + 1 : /\ Kept(rows, p) = SubSeq(rows, s, L)
                              /\ s <= L => ~IsResult(rows[s])
  BY KeptFacts
<1> DEFINE tail == SubSeq(rows, s, L)
           all == <<Say>> \o tail
           d == s - 2
           M == L - s + 2
<1>3. Compacted(rows, p) = all
  BY <1>2 DEF Compacted
<1> HIDE DEF L
<1>4. Say \in RowsOf(n) /\ ~IsResult(Say) /\ Say.calls = {}
  BY MadeRows
<1>5. /\ tail \in Seq(RowsOf(n)) /\ Len(tail) = L - s + 1
      /\ \A i \in 1 .. L - s + 1 : tail[i] = rows[s + i - 1]
  <2>1. \A i \in s .. L : rows[i] \in RowsOf(n)
    BY <1>1, <1>2
  <2>2. /\ tail \in Seq(RowsOf(n)) /\ Len(tail) = IF s <= L THEN L - s + 1 ELSE 0
        /\ \A i \in 1 .. L - s + 1 : tail[i] = rows[s + i - 1]
    BY <1>1, <1>2, <2>1, SubSeqProperties
  <2> QED BY <1>1, <2>2
<1> HIDE DEF tail
<1>6. all \in Seq(RowsOf(n)) /\ Len(all) = M /\ DOMAIN all = 1 .. M /\ M \in Nat
      /\ all[1] = Say /\ \A k \in 2 .. M : all[k] = tail[k - 1]
  <2> DEFINE say == <<Say>>
  <2>1. say \in Seq(RowsOf(n)) /\ Len(say) = 1 /\ say[1] = Say
    BY <1>4
  <2> HIDE DEF say
  <2>2. /\ say \o tail \in Seq(RowsOf(n)) /\ Len(say \o tail) = 1 + Len(tail)
        /\ \A i \in 1 .. 1 + Len(tail) : (say \o tail)[i] = IF i <= 1 THEN say[i] ELSE tail[i - 1]
    <3>1. /\ say \o tail \in Seq(RowsOf(n)) /\ Len(say \o tail) = Len(say) + Len(tail)
          /\ \A i \in 1 .. Len(say) + Len(tail) :
               (say \o tail)[i] = IF i <= Len(say) THEN say[i] ELSE tail[i - Len(say)]
      BY <1>5, <2>1, ConcatProperties
    <3> QED BY <2>1, <3>1
  <2>3. all \in Seq(RowsOf(n)) /\ Len(all) = 1 + Len(tail)
        /\ \A i \in 1 .. 1 + Len(tail) : all[i] = IF i <= 1 THEN Say ELSE tail[i - 1]
    BY <2>1, <2>2 DEF say
  <2>4. DOMAIN all = 1 .. Len(all)
    BY <2>3, LenProperties
  <2> HIDE DEF all
  <2>5. 1 + Len(tail) = M /\ M \in Nat /\ 1 \in 1 .. M
    BY <1>1, <1>2, <1>5
  <2> QED BY <2>3, <2>4, <2>5
<1> HIDE DEF all
<1>7. \A k \in 2 .. M : all[k] = rows[k + d] /\ k + d \in s .. L /\ k + d \in 1 .. L
  <2> TAKE k \in 2 .. M
  <2>1. k - 1 \in 1 .. L - s + 1 /\ s + (k - 1) - 1 = k + d /\ k + d \in s .. L /\ k + d \in 1 .. L
    BY <1>1, <1>2
  <2> QED BY <1>5, <1>6, <2>1
<1>8. \A k \in s .. L : k - d \in 2 .. M /\ (k - d) + d = k
  BY <1>1, <1>2
<1>9. d \in Int /\ M = L - d
  BY <1>1, <1>2
<1> HIDE DEF d, M
<1>10. AskedOnce(all)
  <2>1. \A i, j \in 2 .. M : i # j => rows[i + d].calls \cap rows[j + d].calls = {}
    <3>1. \A i, j \in 2 .. M : i # j => i + d # j + d
      BY <1>6, <1>9
    <3> QED BY <1>1, <1>7, <3>1 DEF Neat, AskedOnce
  <2>2. \A i \in 1 .. M : i = 1 \/ i \in 2 .. M
    BY <1>6
  <2> SUFFICES ASSUME NEW i \in 1 .. M, NEW j \in 1 .. M, i # j
               PROVE  all[i].calls \cap all[j].calls = {}
    BY <1>6 DEF AskedOnce
  <2>3. CASE i = 1 \/ j = 1
    BY <1>4, <1>6, <2>3
  <2>4. CASE i \in 2 .. M /\ j \in 2 .. M
    <3>1. all[i] = rows[i + d] /\ all[j] = rows[j + d]
      BY <1>7, <2>4
    <3> QED BY <2>1, <2>4, <3>1
  <2> QED BY <2>2, <2>3, <2>4
<1>11. AnsweredOnce(all)
  <2>1. ASSUME NEW i \in 2 .. M, NEW j \in 2 .. M, IsResult(all[i]), IsResult(all[j]),
               all[i].id = all[j].id
        PROVE  i = j
    <3>1. i + d = j + d
      BY <1>1, <1>7, <2>1 DEF Neat, AnsweredOnce
    <3> QED BY <1>6, <1>9, <3>1
  <2>2. \A i \in 1 .. M : IsResult(all[i]) => i \in 2 .. M
    BY <1>4, <1>6
  <2> QED BY <1>6, <2>1, <2>2 DEF AnsweredOnce
<1>12. Owned(all)
  <2> SUFFICES ASSUME NEW i \in 1 .. M, IsResult(all[i])
               PROVE  \E j \in 1 .. i - 1 : InBatch(all, j, i)
    BY <1>6 DEF Owned
  <2>1. i \in 2 .. M /\ all[i] = rows[i + d] /\ i + d \in s .. L /\ i + d \in 1 .. L
    BY <1>4, <1>6, <1>7
  <2>2. PICK j \in 1 .. (i + d) - 1 : InBatch(rows, j, i + d)
    BY <1>1, <2>1 DEF Neat, Owned
  <2>3. j \in s .. L
    <3>1. j < s => s \in j + 1 .. i + d /\ s <= L
      BY <1>1, <2>1
    <3>2. ~(j < s)
      BY <1>2, <2>2, <3>1 DEF InBatch
    <3> QED BY <1>1, <2>1, <3>2
  <2>4. j - d \in 1 .. i - 1 /\ j - d \in 2 .. M /\ (j - d) + d = j
    BY <1>6, <1>8, <1>9, <2>1, <2>3
  <2>5. all[j - d] = rows[j]
    BY <1>7, <2>4
  <2>6. \A k \in (j - d) + 1 .. i : IsResult(all[k])
    <3> TAKE k \in (j - d) + 1 .. i
    <3>1. k \in 2 .. M /\ k + d \in j + 1 .. i + d
      BY <1>6, <1>9, <2>1, <2>4
    <3> QED BY <1>7, <2>2, <3>1 DEF InBatch
  <2> QED BY <2>1, <2>2, <2>4, <2>5, <2>6 DEF InBatch
<1>13. ClosedBefore(all)
  <2>0. DOMAIN all = 1 .. M
    BY <1>6
  <2> SUFFICES ASSUME NEW i \in 1 .. M, NEW k \in 1 .. M, i < k, ~IsResult(all[k]),
                      NEW c \in all[i].calls
               PROVE  \E m \in i + 1 .. k - 1 : IsResult(all[m]) /\ all[m].id = c
    BY <2>0 DEF ClosedBefore
  <2>1. i \in 2 .. M /\ k \in 2 .. M
    BY <1>4, <1>6
  <2>2. /\ i + d \in DOMAIN rows /\ k + d \in DOMAIN rows /\ i + d < k + d
        /\ ~IsResult(rows[k + d]) /\ c \in rows[i + d].calls
    BY <1>1, <1>7, <1>9, <2>1
  <2>3. PICK m \in (i + d) + 1 .. (k + d) - 1 : IsResult(rows[m]) /\ rows[m].id = c
    BY <2>2 DEF Neat, ClosedBefore
  <2>4. m \in s .. L /\ m - d \in i + 1 .. k - 1
    BY <1>1, <1>7, <1>9, <2>1
  <2>5. m - d \in 2 .. M /\ (m - d) + d = m
    BY <1>8, <2>4
  <2>6. all[m - d] = rows[m]
    BY <1>7, <2>5
  <2> QED BY <2>3, <2>4, <2>6
<1>14. ASSUME NEW c \in Unanswered(all)
       PROVE  c \in Unanswered(rows)
  <2>1. PICK i \in 1 .. M : OpenAt(all, i, c)
    BY <1>6, InUnanswered
  <2>2. i \in 2 .. M /\ i + d \in 1 .. L /\ c \in rows[i + d].calls
    BY <1>4, <1>6, <1>7, <2>1 DEF OpenAt
  <2>3. \A k \in (i + d) + 1 .. L : IsResult(rows[k]) /\ rows[k].id # c
    <3> TAKE k \in (i + d) + 1 .. L
    <3>1. k \in s .. L
      BY <1>1, <1>7, <1>9, <2>2
    <3>2. k - d \in 2 .. M /\ (k - d) + d = k /\ k - d \in i + 1 .. M
      BY <1>6, <1>8, <1>9, <2>2, <3>1
    <3>3. all[k - d] = rows[k]
      BY <1>7, <3>2
    <3> QED BY <1>6, <2>1, <3>2, <3>3 DEF OpenAt
  <2>4. OpenAt(rows, i + d, c)
    BY <2>2, <2>3 DEF OpenAt, L
  <2> QED BY <1>1, <2>2, <2>4, InUnanswered DEF L
<1> QED BY <1>3, <1>6, <1>10, <1>11, <1>12, <1>13, <1>14 DEF Neat

\* A history that fits is loaded as it is.
LEMMA LoadedWhole ==
  ASSUME NEW S, NEW rows \in Seq(S), NEW cap \in Nat, Len(rows) <= cap
  PROVE  Loaded(rows, cap) = rows
<1>1. Len(rows) \in Nat /\ SubSeq(rows, 1, Len(rows)) = rows
  BY LenProperties, SubSeqFull
<1>2. CASE Len(rows) < cap
  BY <1>1, <1>2 DEF Loaded
<1>3. CASE Len(rows) = cap
  <2>1. ~(Len(rows) < cap)
    BY <1>3
  <2>2. Loaded(rows, cap) = SubSeq(rows, 1, cap)
    BY <2>1 DEF Loaded
  <2> QED BY <1>1, <1>3, <2>2
<1>4. Len(rows) \in Nat
  BY <1>1
<1> QED BY <1>2, <1>3, <1>4

-----------------------------------------------------------------------------
(* Types of the rows.                                                       *)

Transcripts == Seq(RowType(Ids))

\* The bounds are numbers.
LEMMA Bounds ==
  /\ MaxTurns \in Nat \ {0} /\ MaxCalls \in Nat \ {0} /\ MaxBatch \in Nat \ {0}
  /\ BatchLimit \in Nat \ {0}
  /\ Retries \in Nat /\ InvalidLimit \in Nat /\ Preserve \in Nat /\ Cap \in Nat /\ MaxFaults \in Nat
  /\ Events \cap Notes = {} /\ Extras \subseteq Rare
BY AgentTurnAssumption

LEMMA RowTypes ==
  /\ User \in RowType(Ids) /\ Say \in RowType(Ids)
  /\ \A c \in SUBSET Ids : Ask(c) \in RowType(Ids)
  /\ \A i \in Ids : Answer(i) \in RowType(Ids)
  /\ RowsOf(MaxCalls) \subseteq RowType(Ids)
<1>1. /\ User \in RowType(Ids) /\ Say \in RowType(Ids)
      /\ \A c \in SUBSET Ids : Ask(c) \in RowType(Ids)
      /\ \A i \in Ids : Answer(i) \in RowType(Ids)
  BY DEF RowType, User, Say, Ask, Answer
<1> QED BY <1>1 DEF RowsOf, Ids

\* Every row of a transcript asks for calls of the session.
LEMMA TypedUnanswered ==
  ASSUME NEW rows \in Transcripts
  PROVE  Unanswered(rows) \in SUBSET Ids
<1>1. \A i \in DOMAIN rows : rows[i].calls \in SUBSET Ids
  <2>1. \A i \in 1 .. Len(rows) : rows[i] \in RowType(Ids)
    BY ElementOfSeq DEF Transcripts
  <2>2. DOMAIN rows = 1 .. Len(rows)
    BY LenProperties DEF Transcripts
  <2>3. \A row \in RowType(Ids) : row.calls \in SUBSET Ids
    BY DEF RowType
  <2> QED BY <2>1, <2>2, <2>3
<1> DEFINE last == {i \in DOMAIN rows : /\ rows[i].calls # {}
                                        /\ \A k \in DOMAIN rows : k > i => rows[k].role = "tool"}
           left(i) == rows[i].calls \ {rows[k].id : k \in {j \in DOMAIN rows : j > i}}
<1>2. Unanswered(rows) = UNION {left(i) : i \in last}
  BY DEF Unanswered
<1>3. \A i \in last : left(i) \in SUBSET Ids
  BY <1>1
<1> HIDE DEF last, left
<1> QED BY <1>2, <1>3

LEMMA TypedAnswers ==
  ASSUME NEW ids \in SUBSET Ids
  PROVE  Answers(ids) \in Transcripts
<1>1. Answers(ids) \in Seq(RowsOf(MaxCalls))
  BY Bounds, AnswersFacts DEF Ids
<1> QED BY <1>1, RowTypes, SeqMonotonic DEF Transcripts

LEMMA TypedAppend ==
  ASSUME NEW rows \in Transcripts, NEW row \in RowType(Ids)
  PROVE  append(rows, row) \in Transcripts /\ Append(rows, row) \in Transcripts
<1>1. Answers(Unanswered(rows)) \in Transcripts
  BY TypedUnanswered, TypedAnswers
<1>2. repairOrphaned(rows) \in Transcripts
  <2> DEFINE q == Answers(Unanswered(rows))
  <2> HIDE DEF q
  <2>1. rows \o q \in Transcripts
    BY <1>1, ConcatProperties DEF Transcripts, q
  <2> QED BY <2>1 DEF repairOrphaned, q
<1>3. append(rows, row) = Append(rows, row) \/ append(rows, row) = Append(repairOrphaned(rows), row)
  BY DEF append
<1>4. \A r \in Transcripts : Append(r, row) \in Transcripts
  BY AppendProperties DEF Transcripts
<1> QED BY <1>2, <1>3, <1>4

LEMMA TypedAppendAll ==
  ASSUME NEW rows \in Transcripts, NEW new \in Transcripts
  PROVE  appendAll(rows, new) \in Transcripts /\ rows \o new \in Transcripts
<1> DEFINE N == Len(new)
<1>1. N \in Nat /\ \A k \in 1 .. N : new[k] \in RowType(Ids)
  BY LenProperties, ElementOfSeq DEF Transcripts
<1>2. PICK q : /\ q[0] = rows
               /\ \A k \in 1 .. N : q[k] = append(q[k - 1], new[k])
               /\ appendAll(rows, new) = q[N]
  BY <1>1, AppendAllSteps
<1> DEFINE Good == {k \in 0 .. N : q[k] \in Transcripts}
<1> HIDE DEF N
<1>3. 0 \in Good
  BY <1>1, <1>2
<1>4. ASSUME NEW k \in 0 .. N, k \in Good, k < N
      PROVE  k + 1 \in Good
  <2>1. k + 1 \in 1 .. N /\ (k + 1) - 1 = k /\ k + 1 \in 0 .. N
    BY <1>1, <1>4
  <2>2. q[k + 1] = append(q[k], new[k + 1]) /\ new[k + 1] \in RowType(Ids)
    BY <1>1, <1>2, <2>1
  <2> QED BY <1>4, <2>1, <2>2, TypedAppend
<1>5. N \in Good
  <2> HIDE DEF Good
  <2>1. \A k \in 0 .. N : k \in Good
    BY <1>1, <1>3, <1>4, StepByStep
  <2> QED BY <1>1, <2>1
<1> QED BY <1>2, <1>5, ConcatProperties DEF Transcripts

LEMMA TypedSubSeq ==
  ASSUME NEW rows \in Transcripts, NEW i \in Nat \ {0}, NEW j \in 0 .. Len(rows)
  PROVE  SubSeq(rows, i, j) \in Transcripts
<1>1. \A k \in i .. j : rows[k] \in RowType(Ids)
  BY LenProperties, ElementOfSeq DEF Transcripts
<1> QED BY <1>1, SubSeqProperties, LenProperties DEF Transcripts

LEMMA TypedCompacted ==
  ASSUME NEW rows \in Transcripts, Shrinks(rows, Preserve)
  PROVE  Compacted(rows, Preserve) \in Transcripts
<1>1. Len(rows) \in Nat /\ Preserve \in Nat
  BY Bounds, LenProperties DEF Transcripts
<1>2. Preserve < Len(rows)
  BY <1>1 DEF Shrinks, Middle
<1> DEFINE tail == IF Preserve = 0 THEN rows ELSE SubSeq(rows, Len(rows) - Preserve + 1, Len(rows))
           claimed == UNION {tail[i].calls : i \in DOMAIN tail}
           stops == {i \in DOMAIN tail : tail[i].role # "tool" \/ tail[i].id \in claimed}
           first == CHOOSE i \in stops : \A j \in stops : i <= j
<1>3. tail \in Transcripts
  BY <1>1, <1>2, TypedSubSeq
<1> HIDE DEF tail
<1>4. DOMAIN tail = 1 .. Len(tail) /\ Len(tail) \in Nat
  BY <1>3, LenProperties DEF Transcripts
<1>5. Kept(rows, Preserve) = IF stops = {} THEN <<>> ELSE SubSeq(tail, first, Len(tail))
  BY DEF Kept, trimOrphanedToolResults, tail
<1>6. Kept(rows, Preserve) \in Transcripts
  <2>1. CASE stops = {}
    BY <1>5, <2>1, EmptySeq DEF Transcripts
  <2>2. CASE stops # {}
    <3>1. stops \in SUBSET Nat /\ stops \subseteq 1 .. Len(tail)
      BY <1>4
    <3> HIDE DEF stops
    <3>2. \E i \in stops : \A j \in stops : i <= j
      BY <2>2, <3>1, LeastNumber
    <3>3. first \in stops
      BY <3>2
    <3> HIDE DEF first
    <3>4. first \in Nat \ {0} /\ Len(tail) \in 0 .. Len(tail)
      BY <1>4, <3>1, <3>3
    <3> QED BY <1>3, <1>5, <2>2, <3>4, TypedSubSeq
  <2> QED BY <2>1, <2>2
<1>7. <<Say>> \in Transcripts
  BY RowTypes DEF Transcripts
<1> DEFINE k == Kept(rows, Preserve)
           say == <<Say>>
<1> HIDE DEF k, say
<1>8. say \o k \in Transcripts
  BY <1>6, <1>7, ConcatProperties DEF Transcripts, k, say
<1> QED BY <1>8 DEF Compacted, k, say

LEMMA TypedLoaded ==
  ASSUME NEW rows \in Transcripts
  PROVE  Loaded(rows, Cap) \in Transcripts
<1>1. Len(rows) \in Nat /\ Cap \in Nat
  BY Bounds, LenProperties DEF Transcripts
<1> DEFINE n == IF Len(rows) < Cap THEN Len(rows) ELSE Cap
<1>2. n \in 0 .. Len(rows)
  BY <1>1
<1>3. Loaded(rows, Cap) = SubSeq(rows, 1, n)
  BY DEF Loaded
<1> HIDE DEF n
<1> QED BY <1>2, <1>3, TypedSubSeq

\* The call whose turn it is.
LEMMA CurrentCall ==
  ASSUME todo \in SUBSET Ids, todo # {}
  PROVE  Current \in todo
<1>1. todo \in SUBSET Nat
  BY DEF Ids
<1>2. \E i \in todo : \A j \in todo : i <= j
  BY <1>1, LeastNumber
<1> QED BY <1>2 DEF Current

-----------------------------------------------------------------------------
(* The types of the rows hold in every state.                               *)

RowsTyped ==
  /\ tx \in Transcripts /\ mem \in Transcripts /\ pass \in Transcripts
  /\ late \in SUBSET [snap : Transcripts, turn : 1 .. MaxTurns]

FlagsTyped ==
  /\ pc \in {"idle", "setup", "top", "drain", "compact", "guard", "model", "call", "pre", "wait",
             "exec", "post", "break", "queued"}
  /\ then \in {"none", "model", "top", "end"}
  /\ todo \subseteq Ids /\ used \in 0 .. MaxCalls
  /\ invalid \in 0 .. InvalidLimit + 1 /\ attempt \in 0 .. Retries + 1
  /\ steered \in BOOLEAN /\ aborted \in BOOLEAN
  /\ run \in {"none", "running", "completed", "failed"}
  /\ turn \in 0 .. MaxTurns /\ faults \in 0 .. MaxFaults
  /\ channel \subseteq Steers
  /\ steer \in [Steers -> {"none", "queued", "injected", "fallback", "lost"}]
  /\ gate \in Seq(Reqs)
  /\ req \in [Reqs -> Settled \cup {"none", "parked", "queued", "running", "forgotten"}]
  /\ taint \subseteq Rare

LEMMA TypeParts == TurnTypeOK <=> RowsTyped /\ FlagsTyped
BY DEF TurnTypeOK, RowsTyped, FlagsTyped, Transcripts

LEMMA ShortRows ==
  /\ <<>> \in Transcripts
  /\ \A row \in RowType(Ids) : <<row>> \in Transcripts
  /\ \A a, b \in RowType(Ids) : <<a, b>> \in Transcripts
  /\ \A N \in Nat : [k \in 1 .. N |-> User] \in Transcripts
<1>1. \A N \in Nat : [k \in 1 .. N |-> User] \in Seq(RowType(Ids))
  BY RowTypes, IsASeq
<1>2. /\ <<>> \in Seq(RowType(Ids))
      /\ \A row \in RowType(Ids) : <<row>> \in Seq(RowType(Ids))
      /\ \A a, b \in RowType(Ids) : <<a, b>> \in Seq(RowType(Ids))
  OBVIOUS
<1> QED BY <1>1, <1>2 DEF Transcripts

\* Rows pushed to both are typed when they are.
LEMMA BothTyped ==
  ASSUME RowsTyped, NEW rows \in Transcripts, Both(rows)
  PROVE  tx' \in Transcripts /\ mem' \in Transcripts
BY TypedAppendAll DEF Both, RowsTyped

LEMMA RewriteTyped ==
  ASSUME RowsTyped, Rewrite
  PROVE  tx' \in Transcripts /\ mem' \in Transcripts
<1>1. CASE Shrinks(pass, Preserve)
  BY <1>1, TypedCompacted, TypedLoaded DEF Rewrite, RowsTyped
<1>2. CASE ~Shrinks(pass, Preserve)
  BY <1>2 DEF Rewrite, RowsTyped
<1> QED BY <1>1, <1>2

\* At a call there is one whose turn it is.
LEMMA CallInHand ==
  ASSUME LoopInv, pc \in InCall
  PROVE  /\ Current \in todo /\ Current \in Ids /\ todo \in SUBSET Ids /\ todo # {}
         /\ then = "none"
<1>1. todo \in SUBSET Ids /\ todo # {} /\ then = "none"
  BY DEF LoopInv, TurnTypeOK, ControlInv, InCall
<1> QED BY <1>1, CurrentCall

\* An answer for the call in hand.
LEMMA AnswerTyped ==
  ASSUME LoopInv, pc \in InCall
  PROVE  /\ Answer(Current) \in RowType(Ids) /\ <<Answer(Current)>> \in Transcripts
         /\ Answers(todo) \in Transcripts /\ Answers(todo) \o <<User>> \in Transcripts
<1>1. Answers(todo) \in Transcripts /\ <<User>> \in Transcripts
  BY CallInHand, TypedAnswers, RowTypes, ShortRows
<1>2. Answers(todo) \o <<User>> \in Transcripts
  BY <1>1, TypedAppendAll
<1> QED BY <1>1, <1>2, CallInHand, RowTypes, ShortRows

\* The rows of a response with calls.
LEMMA AskTyped ==
  ASSUME LoopInv, NEW n \in 1 .. MaxBatch, used + n <= MaxCalls
  PROVE  LET ids == used + 1 .. used + n
             asked == <<Ask(ids)>>
         IN  /\ asked \in Transcripts /\ asked \o <<User>> \in Transcripts
             /\ asked \o Answers(ids) \in Transcripts
             /\ (asked \o <<User>>) \o Answers(ids) \in Transcripts
<1> DEFINE ids == used + 1 .. used + n
           asked == <<Ask(ids)>>
<1>1. ids \in SUBSET Ids
  <2>1. used \in Nat /\ n \in Nat /\ MaxCalls \in Nat
    BY Bounds DEF LoopInv, TurnTypeOK
  <2> QED BY <2>1 DEF Ids
<1> HIDE DEF ids
<1>2. asked \in Transcripts /\ <<User>> \in Transcripts /\ Answers(ids) \in Transcripts
  BY <1>1, RowTypes, ShortRows, TypedAnswers
<1> HIDE DEF asked
<1>3. asked \o <<User>> \in Transcripts /\ asked \o Answers(ids) \in Transcripts
  BY <1>2, TypedAppendAll
<1>4. (asked \o <<User>>) \o Answers(ids) \in Transcripts
  BY <1>2, <1>3, TypedAppendAll
<1> QED BY <1>2, <1>3, <1>4 DEF ids, asked

\* Every step keeps the rows typed.
LEMMA RowsStep ==
  ASSUME LoopInv, [TurnNext]_turnVars
  PROVE  RowsTyped'
<1>1. RowsTyped
  BY TypeParts DEF LoopInv
<1>2. /\ <<>> \in Transcripts
      /\ User \in RowType(Ids) /\ Say \in RowType(Ids)
  BY ShortRows, RowTypes
<1>3. SUFFICES tx' \in Transcripts /\ mem' \in Transcripts /\ pass' \in Transcripts
               /\ late' \in SUBSET [snap : Transcripts, turn : 1 .. MaxTurns]
  BY DEF RowsTyped
<1>4. /\ tx \in Transcripts /\ mem \in Transcripts /\ pass \in Transcripts
      /\ late \in SUBSET [snap : Transcripts, turn : 1 .. MaxTurns]
  BY <1>1 DEF RowsTyped
<1> USE DEF loop, chan
<1>5. CASE BeginTurn
  BY <1>2, <1>4, <1>5, TypedAppend, TypedLoaded DEF BeginTurn
<1>6. CASE SetupDone \/ SetupFails
  BY <1>2, <1>4, <1>6 DEF SetupDone, SetupFails
<1>7. CASE Top
  BY <1>2, <1>4, <1>7 DEF Top, Throw, Leave
<1>8. CASE Drain
  BY <1>2, <1>4, <1>8 DEF Drain, StartDeferred, Complete, NextRound, Finish, Leave
<1>9. CASE RepliesText
  BY <1>2, <1>4, <1>9, TypedAppend DEF RepliesText
<1>10. CASE RepliesMisfit
  <2>1. <<Say, User>> \in Transcripts
    BY <1>2, ShortRows
  <2> QED BY <1>2, <1>4, <1>10, <2>1, TypedAppend, TypedAppendAll DEF RepliesMisfit
<1>11. CASE RequestFails \/ CallAborted \/ AbortNoticed
  BY <1>2, <1>4, <1>11 DEF RequestFails, CallAborted, AbortNoticed, Throw, Leave
<1>12. ASSUME NEW n \in 1 .. MaxBatch, RepliesCalls(n)
       PROVE  RowsTyped'
  <2> DEFINE ids == used + 1 .. used + n
             asked == <<Ask(ids)>>
  <2>1. used + n <= MaxCalls /\ pass' = pass /\ late' = late
    BY <1>12 DEF RepliesCalls
  <2>2. \/ Both(asked \o Answers(ids))
        \/ Both((asked \o <<User>>) \o Answers(ids))
        \/ Both(asked \o <<User>>)
        \/ Both(asked)
    BY <1>12 DEF RepliesCalls
  <2>3. /\ asked \in Transcripts /\ asked \o <<User>> \in Transcripts
        /\ asked \o Answers(ids) \in Transcripts
        /\ (asked \o <<User>>) \o Answers(ids) \in Transcripts
    BY <2>1, AskTyped
  <2> HIDE DEF asked, ids
  <2>4. tx' \in Transcripts /\ mem' \in Transcripts
    BY <1>1, <2>2, <2>3, BothTyped
  <2> QED BY <1>4, <2>1, <2>4 DEF RowsTyped
<1>13. CASE CallRefused \/ PreGated \/ CallDenied \/ ExecFails \/ PostDone
  <2>1. pc \in InCall /\ Both(<<Answer(Current)>>) /\ pass' = pass /\ late' = late
    BY <1>13
       DEF CallRefused, PreGated, CallDenied, ExecFails, PostDone, Answered, Dispatching, InCall
  <2> QED BY <1>1, <1>4, <2>1, AnswerTyped, BothTyped
<1>14. CASE CallInvalid \/ CallNearMiss
  <2>1. pc \in InCall /\ Both(<<Answer(Current)>>) /\ pass' = pass /\ late' = late
    BY <1>14 DEF CallInvalid, CallNearMiss, Dispatching, InCall
  <2> QED BY <1>1, <1>4, <2>1, AnswerTyped, BothTyped
<1>15. CASE CallLeaked
  <2>1. /\ pc \in InCall /\ mem' = Append(mem, Answer(Current)) /\ tx' = tx
        /\ pass' = pass /\ late' = late
    BY <1>15 DEF CallLeaked, Dispatching, InCall
  <2> QED BY <1>4, <2>1, AnswerTyped, TypedAppend
<1>16. CASE CallTruncated
  <2>1. /\ pc \in InCall /\ tx' = appendAll(tx, Answers(todo)) /\ mem' = <<>>
        /\ pass' = pass /\ late' = late
    BY <1>16 DEF CallTruncated, Dispatching, InCall, Leave
  <2> QED BY <1>2, <1>4, <2>1, AnswerTyped, TypedAppendAll
<1>17. CASE CallPrevented
  <2>1. /\ pc \in InCall
        /\ Both(Answers(todo) \o <<User>>) \/ Both(Answers(todo))
        /\ pass' = pass /\ late' = late
    BY <1>17 DEF CallPrevented, InCall
  <2> QED BY <1>1, <1>4, <2>1, AnswerTyped, BothTyped
<1>18. CASE CallGoes \/ NeedsApproval \/ CallStarts \/ ExecDone \/ Abort
  BY <1>4, <1>18 DEF CallGoes, NeedsApproval, CallStarts, ExecDone, Abort
<1>19. CASE Break
  <2> DEFINE N == Cardinality(channel)
  <2>1. N \in Nat
    BY FS_CardinalityType DEF LoopInv, ControlInv
  <2>2. Both([k \in 1 .. N |-> User]) /\ pass' = pass /\ late' = late
    BY <1>19 DEF Break
  <2> QED BY <1>1, <1>4, <2>1, <2>2, BothTyped, ShortRows
<1>20. CASE DeferredDone \/ GuardDone
  <2>1. Rewrite \/ UNCHANGED <<tx, mem>>
    BY <1>20 DEF DeferredDone, GuardDone
  <2>2. pass' = <<>> /\ late' = late
    BY <1>20 DEF DeferredDone, GuardDone
  <2> QED BY <1>1, <1>2, <1>4, <2>1, <2>2, RewriteTyped
<1>21. CASE GuardTimesOut \/ GuardAborted
  <2>1. turn >= 1 /\ turn \in 0 .. MaxTurns /\ MaxTurns \in Nat
    BY <1>21, Bounds DEF GuardTimesOut, GuardAborted, LoopInv, ControlInv, TurnTypeOK
  <2>2. [snap |-> pass, turn |-> turn] \in [snap : Transcripts, turn : 1 .. MaxTurns]
    BY <1>4, <2>1
  <2>3. late' = late \cup {[snap |-> pass, turn |-> turn]} /\ pass' = <<>>
        /\ tx' = tx /\ (mem' = mem \/ mem' = <<>>)
    BY <1>21 DEF GuardTimesOut, GuardAborted, Unattended, Leave
  <2> QED BY <1>2, <1>4, <2>2, <2>3
<1>22. CASE QueuedDone
  BY <1>2, <1>4, <1>22, TypedCompacted DEF QueuedDone
<1>23. ASSUME NEW r \in Reqs, BeginQueued(r) \/ pushCompactionRequest(r)
       PROVE  RowsTyped'
  BY <1>4, <1>23 DEF BeginQueued, pushCompactionRequest, RowsTyped
<1>24. ASSUME NEW p \in late, LateDone(p)
       PROVE  RowsTyped'
  <2>1. p.snap \in Transcripts
    BY <1>4
  <2>2. pass' = pass /\ late' \subseteq late
    BY <1>24 DEF LateDone
  <2>3. tx' \in Transcripts /\ mem' \in Transcripts
    BY <1>4, <1>24, <2>1, TypedCompacted, TypedLoaded DEF LateDone
  <2> QED BY <1>4, <2>2, <2>3 DEF RowsTyped
<1>25. ASSUME NEW s \in Steers, pushSteer(s)
       PROVE  RowsTyped'
  BY <1>4, <1>25 DEF pushSteer, RowsTyped
<1>26. CASE ContextReset
  BY <1>2, <1>4, <1>26 DEF ContextReset
<1>27. CASE Crash
  BY <1>2, <1>4, <1>27 DEF Crash
<1>28. CASE UNCHANGED turnVars
  BY <1>4, <1>28 DEF turnVars
<1> QED
  BY <1>5, <1>6, <1>7, <1>8, <1>9, <1>10, <1>11, <1>12, <1>13, <1>14, <1>15, <1>16, <1>17,
     <1>18, <1>19, <1>20, <1>21, <1>22, <1>23, <1>24, <1>25, <1>26, <1>27, <1>28
     DEF RowsTyped, TurnNext, Progress, Model, Dispatch, Gates, Compaction

-----------------------------------------------------------------------------
(* The control of the loop.                                                 *)

\* What stands apart of the loop: the channels, and what became of their entries.
SidesTyped ==
  /\ channel \subseteq Steers /\ IsFiniteSet(channel)
  /\ steer \in [Steers -> {"none", "queued", "injected", "fallback", "lost"}]
  /\ gate \in Seq(Reqs)
  /\ req \in [Reqs -> Settled \cup {"none", "parked", "queued", "running", "forgotten"}]
  /\ EventAccounted

\* The loop itself.
LoopTyped ==
  /\ pc \in {"idle", "setup", "top", "drain", "compact", "guard", "model", "call", "pre", "wait",
             "exec", "post", "break", "queued"}
  /\ then \in {"none", "model", "top", "end"}
  /\ todo \subseteq Ids /\ used \in 0 .. MaxCalls
  /\ invalid \in 0 .. InvalidLimit + 1 /\ attempt \in 0 .. Retries + 1
  /\ steered \in BOOLEAN /\ aborted \in BOOLEAN
  /\ run \in {"none", "running", "completed", "failed"}
  /\ turn \in 0 .. MaxTurns /\ faults \in 0 .. MaxFaults
  /\ taint \subseteq Rare

\* The invariant in parts.
LEMMA InvParts == LoopInv <=> RowsTyped /\ LoopTyped /\ ControlInv /\ SidesTyped
<1>1. LoopInv <=> RowsTyped /\ FlagsTyped /\ ControlInv /\ EventAccounted
  BY TypeParts DEF LoopInv
<1>2. LoopTyped /\ ControlInv /\ SidesTyped <=> FlagsTyped /\ ControlInv /\ EventAccounted
  BY DEF LoopTyped, SidesTyped, FlagsTyped, ControlInv
<1> QED BY <1>1, <1>2

\* A step that leaves the channels alone, and one that unregisters them.
Quiet == UNCHANGED <<channel, steer, gate, req>> /\ (Open => Open')
Left == \E status \in {"completed", "failed"} : Leave(status)

\* The steps that neither leave the channels alone nor unregister them.
Handles ==
  \/ pc = "drain" /\ StartDeferred
  \/ DeferredDone \/ QueuedDone \/ Break \/ Crash
  \/ \E r \in Reqs : BeginQueued(r) \/ pushCompactionRequest(r)
  \/ \E s \in Steers : pushSteer(s)

\* What a step does to the channels; the faults never get fewer.
LEMMA SideSteps ==
  ASSUME LoopInv, [TurnNext]_turnVars
  PROVE  (Quiet \/ Left \/ Handles) /\ faults' >= faults /\ faults' \in Nat
<1>1. faults \in Nat /\ MaxFaults \in Nat
  BY Bounds DEF LoopInv, TurnTypeOK
<1> USE DEF loop, chan
<1>2. faults' >= faults /\ faults' \in Nat
  <2>1. faults' = faults \/ faults' = faults + 1
    <3>1. CASE BeginTurn \/ SetupDone \/ SetupFails \/ Top \/ Drain \/ Model
      BY <3>1
         DEF BeginTurn, SetupDone, SetupFails, Top, Drain, Model, Throw, Leave, StartDeferred,
             Complete, NextRound, Finish, RepliesText, RepliesMisfit, RequestFails, RepliesCalls
    <3>2. CASE Dispatch \/ Gates \/ AbortNoticed \/ ExecFails \/ ExecDone \/ PostDone \/ Break
      BY <3>2
         DEF Dispatch, CallAborted, CallRefused, CallLeaked, CallInvalid, CallNearMiss,
             CallTruncated, CallGoes, Gates, PreGated, NeedsApproval, CallDenied, CallPrevented,
             CallStarts, AbortNoticed, ExecFails, ExecDone, PostDone, Break, Answered, Throw
    <3>3. CASE Compaction
      BY <3>3
         DEF Compaction, DeferredDone, GuardDone, GuardTimesOut, GuardAborted, QueuedDone,
             Unattended
    <3>4. CASE \/ \E r \in Reqs : BeginQueued(r) \/ pushCompactionRequest(r)
               \/ \E p \in late : LateDone(p)
               \/ \E s \in Steers : pushSteer(s)
               \/ Abort \/ ContextReset \/ Crash
      BY <3>4 DEF BeginQueued, pushCompactionRequest, LateDone, pushSteer, Abort, ContextReset,
                  Crash
    <3>5. CASE UNCHANGED turnVars
      BY <3>5 DEF turnVars
    <3> QED BY <3>1, <3>2, <3>3, <3>4, <3>5 DEF TurnNext, Progress
  <2> QED BY <1>1, <2>1
<1>3. Quiet \/ Left \/ Handles
  <2> USE DEF Open
  <2>1. CASE BeginTurn \/ SetupDone \/ SetupFails
    BY <2>1 DEF BeginTurn, SetupDone, SetupFails, Quiet
  <2>2. CASE Top \/ AbortNoticed
    BY <2>2 DEF Top, AbortNoticed, Throw, Quiet, Left
  <2>3. CASE Drain
    BY <2>3 DEF Drain, Complete, NextRound, Finish, Quiet, Left, Handles
  <2>4. CASE Model
    <3>1. CASE RepliesText \/ RepliesMisfit
      BY <3>1 DEF RepliesText, RepliesMisfit, BreakLoop, Quiet
    <3>2. CASE RequestFails
      BY <3>2 DEF RequestFails, Throw, Left
    <3>3. ASSUME NEW n \in 1 .. MaxBatch, RepliesCalls(n)
          PROVE  Quiet
      <4>1. UNCHANGED chan
        BY <3>3 DEF RepliesCalls
      <4>2. pc' \in {"drain", "top", "call"}
        BY <3>3 DEF RepliesCalls, BreakLoop
      <4> QED BY <4>1, <4>2 DEF Quiet
    <3> QED BY <2>4, <3>1, <3>2, <3>3 DEF Model
  <2>5. CASE Dispatch
    BY <2>5 DEF Dispatch, CallAborted, CallRefused, CallLeaked, CallInvalid, CallNearMiss,
                CallTruncated, CallGoes, Answered, NextCall, BreakLoop, Throw, Quiet, Left
  <2>6. CASE Gates
    BY <2>6 DEF Gates, PreGated, NeedsApproval, CallDenied, CallPrevented, CallStarts, Answered,
                NextCall, BreakLoop, Quiet
  <2>7. CASE ExecFails \/ ExecDone \/ PostDone \/ Break
    BY <2>7 DEF ExecFails, ExecDone, PostDone, Answered, NextCall, Quiet, Handles
  <2>8. CASE Compaction
    BY <2>8 DEF Compaction, GuardDone, GuardTimesOut, GuardAborted, Quiet, Left, Handles
  <2>9. CASE \/ \E r \in Reqs : BeginQueued(r) \/ pushCompactionRequest(r)
             \/ \E s \in Steers : pushSteer(s)
             \/ Crash
    BY <2>9 DEF Handles
  <2>10. CASE (\E p \in late : LateDone(p)) \/ Abort \/ ContextReset
    BY <2>10 DEF LateDone, Abort, ContextReset, Quiet
  <2>11. CASE UNCHANGED turnVars
    BY <2>11 DEF turnVars, Quiet
  <2> QED BY <2>1, <2>2, <2>3, <2>4, <2>5, <2>6, <2>7, <2>8, <2>9, <2>10, <2>11
          DEF TurnNext, Progress
<1> QED BY <1>2, <1>3

\* No step delivers an event twice, and every step keeps the channels in order.
LEMMA SidesStep ==
  ASSUME LoopInv, [TurnNext]_turnVars
  PROVE  /\ SidesTyped'
         /\ \A s \in Events : steer[s] \in {"injected", "fallback"} => steer'[s] = steer[s]
<1> DEFINE States == {"none", "queued", "injected", "fallback", "lost"}
           Fates == Settled \cup {"none", "parked", "queued", "running", "forgotten"}
           Kept1 == \A s \in Events : steer[s] \in {"injected", "fallback"} => steer'[s] = steer[s]
<1>1. /\ channel \subseteq Steers /\ IsFiniteSet(channel)
      /\ steer \in [Steers -> States] /\ gate \in Seq(Reqs) /\ req \in [Reqs -> Fates]
      /\ \A s \in Events : /\ steer[s] = "queued" <=> s \in channel
                           /\ s \in channel => Open
                           /\ steer[s] = "lost" => faults > 0
      /\ Events \subseteq Steers
  BY InvParts DEF SidesTyped, EventAccounted, Steers
<1>2. faults \in Nat /\ faults' \in Nat /\ faults' >= faults /\ (Quiet \/ Left \/ Handles)
  BY SideSteps, Bounds DEF LoopInv, TurnTypeOK
<1>3. SUFFICES /\ channel' \subseteq Steers /\ IsFiniteSet(channel')
               /\ steer' \in [Steers -> States] /\ gate' \in Seq(Reqs) /\ req' \in [Reqs -> Fates]
               /\ \A s \in Events : /\ steer'[s] = "queued" <=> s \in channel'
                                    /\ s \in channel' => Open'
                                    /\ steer'[s] = "lost" => faults' > 0
               /\ Kept1
  BY DEF SidesTyped, EventAccounted
<1> USE DEF loop, chan
<1>4. CASE Quiet
  BY <1>1, <1>2, <1>4 DEF Quiet
<1>5. CASE Left
  <2>1. unregisterChannel /\ unregisterGate
    BY <1>5 DEF Left, Leave
  <2>2. channel' = {} /\ IsFiniteSet(channel')
    BY <2>1, FS_EmptySet DEF unregisterChannel
  <2>3. gate' \in Seq(Reqs) /\ req' \in [Reqs -> Fates]
    BY <1>1, <2>1 DEF unregisterGate
  <2>4. steer' \in [Steers -> States]
    BY <1>1, <2>1 DEF unregisterChannel, Dropped
  <2>5. \A s \in Events : steer'[s] # "queued" /\ (steer'[s] = "lost" => faults' > 0)
    BY <1>1, <1>2, <2>1 DEF unregisterChannel, Dropped
  <2>6. Kept1
    BY <1>1, <2>1 DEF unregisterChannel, Dropped
  <2> QED BY <2>2, <2>3, <2>4, <2>5, <2>6
<1>6. ASSUME Handles
      PROVE  /\ channel' \subseteq Steers /\ IsFiniteSet(channel')
             /\ steer' \in [Steers -> States] /\ gate' \in Seq(Reqs) /\ req' \in [Reqs -> Fates]
             /\ \A s \in Events : /\ steer'[s] = "queued" <=> s \in channel'
                                  /\ s \in channel' => Open'
                                  /\ steer'[s] = "lost" => faults' > 0
             /\ Kept1
  <2> USE DEF Open
  <2>1. CASE pc = "drain" /\ StartDeferred
    BY <1>1, <1>2, <2>1 DEF StartDeferred, drainGate
  <2>2. CASE DeferredDone \/ QueuedDone
    BY <1>1, <1>2, <2>2 DEF DeferredDone, QueuedDone, SettleRequest, Settled
  <2>3. CASE Break
    <3>1. IsFiniteSet(channel')
      BY <2>3, FS_EmptySet DEF Break, drainSteers
    <3> QED BY <1>1, <1>2, <2>3, <3>1 DEF Break, drainSteers
  <2>4. CASE Crash
    <3>1. IsFiniteSet(channel') /\ channel' = {} /\ faults' > 0
      BY <1>2, <2>4, FS_EmptySet DEF Crash
    <3>2. steer' \in [Steers -> States] /\ gate' \in Seq(Reqs) /\ req' \in [Reqs -> Fates]
      BY <1>1, <2>4 DEF Crash, Settled
    <3>3. steer' = [s \in Steers |-> IF steer[s] = "queued" THEN "lost" ELSE steer[s]]
      BY <2>4 DEF Crash
    <3> QED BY <1>1, <3>1, <3>2, <3>3
  <2>5. ASSUME NEW r \in Reqs, BeginQueued(r) \/ pushCompactionRequest(r)
        PROVE  /\ UNCHANGED <<channel, steer>> /\ (Open => Open')
               /\ gate' \in Seq(Reqs) /\ req' \in [Reqs -> Fates]
    BY <1>1, <2>5, AppendProperties DEF BeginQueued, pushCompactionRequest, SettleRequest
  <2>6. ASSUME NEW s \in Steers, pushSteer(s)
        PROVE  /\ channel' \subseteq Steers /\ IsFiniteSet(channel')
               /\ steer' \in [Steers -> States] /\ gate' \in Seq(Reqs) /\ req' \in [Reqs -> Fates]
               /\ \A t \in Events : /\ steer'[t] = "queued" <=> t \in channel'
                                    /\ t \in channel' => Open'
                                    /\ steer'[t] = "lost" => faults' > 0
               /\ Kept1
    <3>1. IsFiniteSet(channel')
      BY <1>1, <2>6, FS_AddElement DEF pushSteer
    <3> QED BY <1>1, <1>2, <2>6, <3>1 DEF pushSteer
  <2>7. CASE \E r \in Reqs : BeginQueued(r) \/ pushCompactionRequest(r)
    BY <1>1, <1>2, <2>5, <2>7
  <2>8. CASE \E s \in Steers : pushSteer(s)
    BY <2>6, <2>8
  <2> QED BY <1>6, <2>1, <2>2, <2>3, <2>4, <2>7, <2>8 DEF Handles
<1> QED BY <1>2, <1>4, <1>5, <1>6

\* The call in hand is settled: the batch goes on, or is complete.
LEMMA NextCallControl ==
  ASSUME LoopInv, pc \in InCall, NextCall
  PROVE  /\ todo' \subseteq Ids /\ todo' \subseteq 1 .. used
         /\ pc' \in {"call", "break"} /\ (todo' # {} <=> pc' = "call")
<1>1. todo \subseteq Ids /\ todo \subseteq 1 .. used
  BY DEF LoopInv, TurnTypeOK, ControlInv
<1> QED BY <1>1 DEF NextCall, Rest

\* Every step keeps the loop in order.
LEMMA LoopStep ==
  ASSUME LoopInv, [TurnNext]_turnVars
  PROVE  LoopTyped' /\ ControlInv'
<1> DEFINE Control(p, th, td, u, inv, att, r, tn, ab) ==
             /\ p \in {"idle", "setup", "queued"} => r # "running"
             /\ th # "none" <=> p \in {"drain", "compact"}
             /\ td # {} <=> p \in InCall
             /\ td \subseteq 1 .. u
             /\ th # "end" => inv <= InvalidLimit /\ att <= Retries
             /\ p \notin {"idle", "queued"} => tn >= 1
             /\ ab => p \notin {"idle", "setup", "queued"}
<1>1. LoopTyped /\ IsFiniteSet(channel)
      /\ Control(pc, then, todo, used, invalid, attempt, run, turn, aborted)
  BY InvParts DEF ControlInv, Open, SidesTyped
<1>2. IsFiniteSet(channel') /\ faults' >= faults /\ faults' \in Nat
  BY SidesStep, SideSteps DEF SidesTyped
<1>3. SUFFICES /\ LoopTyped'
               /\ Control(pc', then', todo', used', invalid', attempt', run', turn', aborted')
  BY <1>2 DEF ControlInv, Open
<1>4. /\ MaxTurns \in Nat /\ MaxCalls \in Nat /\ Retries \in Nat /\ InvalidLimit \in Nat
      /\ MaxFaults \in Nat
  BY Bounds
<1> USE DEF loop, chan, LoopTyped, InCall
<1>5. CASE BeginTurn
  BY <1>1, <1>4, <1>5 DEF BeginTurn
<1>6. CASE SetupDone \/ SetupFails
  <2>1. CASE SetupDone
    <3>1. steered' \in BOOLEAN /\ aborted' \in BOOLEAN
      BY <2>1 DEF SetupDone
    <3> QED BY <1>1, <1>4, <2>1, <3>1 DEF SetupDone
  <2>2. CASE SetupFails
    BY <1>1, <1>4, <2>2 DEF SetupFails
  <2> QED BY <1>6, <2>1, <2>2
<1>7. CASE Left /\ UNCHANGED <<used, turn, faults, taint>>
  <2>1. /\ pc' = "idle" /\ then' = "none" /\ todo' = {} /\ invalid' = 0 /\ attempt' = 0
        /\ run' \in {"completed", "failed"}
        /\ UNCHANGED <<used, turn, faults, taint>>
    BY <1>7 DEF Left, Leave
  <2>2. steered' \in BOOLEAN /\ aborted' \in BOOLEAN /\ ~aborted'
    BY <1>7 DEF Left, Leave
  <2> QED BY <1>1, <1>4, <2>1, <2>2
<1>8. CASE Top \/ AbortNoticed \/ RequestFails
  <2>1. CASE Throw
    BY <1>7, <2>1 DEF Throw, Left
  <2> QED BY <1>1, <1>4, <1>8, <2>1 DEF Top, AbortNoticed, RequestFails
<1>9. CASE Drain
  <2>1. CASE Finish
    BY <1>7, <2>1 DEF Finish, Left
  <2> QED BY <1>1, <1>4, <1>9, <2>1 DEF Drain, StartDeferred, Complete, NextRound
<1>10. CASE RepliesText
  BY <1>1, <1>4, <1>10 DEF RepliesText, BreakLoop
<1>11. CASE RepliesMisfit
  BY <1>1, <1>4, <1>11 DEF RepliesMisfit, BreakLoop, Exhausted
<1>12. ASSUME NEW n \in 1 .. MaxBatch, RepliesCalls(n)
       PROVE  /\ LoopTyped'
              /\ Control(pc', then', todo', used', invalid', attempt', run', turn', aborted')
  <2> DEFINE ids == used + 1 .. used + n
  <2>1. /\ pc = "model" /\ used + n <= MaxCalls /\ used' = used + n
        /\ UNCHANGED <<invalid, attempt, aborted, run, turn, faults>>
        /\ steered' \in BOOLEAN
        /\ taint' = taint \cup {"prose"} \/ taint' = taint
        /\ \/ pc' = "drain" /\ then' = "end" /\ todo' = {}
           \/ pc' = "top" /\ then' = then /\ todo' = todo
           \/ pc' = "call" /\ then' = then /\ todo' = ids
    BY <1>1, <1>12 DEF RepliesCalls, BreakLoop
  <2>2. n \in Nat /\ n >= 1 /\ used \in Nat
    BY <1>1, Bounds
  <2>3. ids \subseteq 1 .. used' /\ ids \subseteq Ids /\ ids # {} /\ used' \in 0 .. MaxCalls
    <3>1. used + 1 \in ids
      BY <2>2
    <3>2. used + n \in Nat /\ used + n <= MaxCalls
      BY <2>1, <2>2
    <3>3. ids \subseteq 1 .. used + n /\ ids \subseteq 1 .. MaxCalls
      BY <1>4, <2>1, <2>2
    <3> HIDE DEF ids
    <3> QED BY <1>4, <2>1, <3>1, <3>2, <3>3 DEF Ids
  <2> HIDE DEF ids
  <2> QED BY <1>1, <1>4, <2>1, <2>2, <2>3 DEF Rare
<1>13. CASE CallRefused \/ PreGated \/ CallDenied \/ ExecFails \/ PostDone \/ CallLeaked
  <2>1. /\ pc \in InCall /\ NextCall /\ invalid' = 0
        /\ UNCHANGED <<then, used, attempt, steered, aborted, run, turn, faults, taint>>
    BY <1>13
       DEF CallRefused, PreGated, CallDenied, ExecFails, PostDone, CallLeaked, Answered, Dispatching
  <2> QED BY <1>1, <1>4, <2>1, NextCallControl
<1>14. CASE CallInvalid
  <2>1. /\ pc = "call" /\ invalid' = invalid + 1
        /\ UNCHANGED <<used, attempt, steered, aborted, run, turn, faults, taint>>
        /\ \/ BreakLoop
           \/ invalid' <= InvalidLimit /\ NextCall /\ then' = then
    BY <1>1, <1>4, <1>14 DEF CallInvalid, Dispatching
  <2>2. CASE BreakLoop
    BY <1>1, <1>4, <2>1, <2>2 DEF BreakLoop
  <2>3. CASE invalid' <= InvalidLimit /\ NextCall /\ then' = then
    BY <1>1, <1>4, <2>1, <2>3, NextCallControl
  <2> QED BY <2>1, <2>2, <2>3
<1>15. CASE CallNearMiss
  <2>1. /\ pc = "call" /\ attempt' = attempt + 1
        /\ UNCHANGED <<used, invalid, steered, aborted, run, turn, faults, taint>>
        /\ \/ BreakLoop
           \/ attempt' <= Retries /\ NextCall /\ then' = then
    BY <1>1, <1>4, <1>15 DEF CallNearMiss, Dispatching, Exhausted
  <2>2. CASE BreakLoop
    BY <1>1, <1>4, <2>1, <2>2 DEF BreakLoop
  <2>3. CASE attempt' <= Retries /\ NextCall /\ then' = then
    BY <1>1, <1>4, <2>1, <2>3, NextCallControl
  <2> QED BY <2>1, <2>2, <2>3
<1>16. CASE CallTruncated \/ CallAborted
  BY <1>7, <1>16 DEF CallTruncated, CallAborted, Throw, Left
<1>17. CASE CallPrevented
  BY <1>1, <1>4, <1>17 DEF CallPrevented, BreakLoop
<1>18. CASE CallGoes \/ NeedsApproval \/ CallStarts \/ ExecDone
  BY <1>1, <1>4, <1>18 DEF CallGoes, NeedsApproval, CallStarts, ExecDone, Dispatching
<1>19. CASE Break
  BY <1>1, <1>4, <1>19 DEF Break
<1>20. CASE DeferredDone \/ GuardDone
  <2>1. Rewrite \/ taint' = taint
    BY <1>20 DEF DeferredDone, GuardDone
  <2>2. taint' \subseteq Rare
    BY <1>1, <2>1 DEF Rewrite, Reopened, Rare
  <2> QED BY <1>1, <1>4, <1>20, <2>2 DEF DeferredDone, GuardDone
<1>21. CASE GuardTimesOut
  BY <1>1, <1>2, <1>4, <1>21 DEF GuardTimesOut, Unattended
<1>22. CASE GuardAborted
  <2>1. /\ Leave("failed") /\ faults < MaxFaults /\ faults' = faults + 1
        /\ UNCHANGED <<used, turn, taint>>
    BY <1>22 DEF GuardAborted, Unattended
  <2>2. /\ pc' = "idle" /\ then' = "none" /\ todo' = {} /\ invalid' = 0 /\ attempt' = 0
        /\ run' = "failed"
    BY <2>1 DEF Leave
  <2>3. steered' \in BOOLEAN /\ aborted' \in BOOLEAN /\ ~aborted'
    BY <2>1 DEF Leave
  <2> QED BY <1>1, <1>4, <2>1, <2>2, <2>3
<1>23. CASE QueuedDone
  BY <1>1, <1>4, <1>23 DEF QueuedDone
<1>24. CASE \E r \in Reqs : BeginQueued(r) \/ pushCompactionRequest(r)
  <2>1. \/ UNCHANGED <<pc, loop, turn, faults, taint>>
        \/ pc = "idle" /\ pc' = "queued" /\ UNCHANGED <<loop, turn, faults, taint>>
    BY <1>24 DEF BeginQueued, pushCompactionRequest
  <2>2. CASE UNCHANGED <<pc, loop, turn, faults, taint>>
    BY <1>1, <2>2
  <2>3. CASE pc = "idle" /\ pc' = "queued" /\ UNCHANGED <<loop, turn, faults, taint>>
    <3>1. LoopTyped'
      BY <1>1, <2>3
    <3>2. ~aborted' /\ run' # "running" /\ then' = "none" /\ todo' = {}
      BY <1>1, <2>3
    <3> QED BY <1>1, <2>3, <3>1, <3>2
  <2> QED BY <2>1, <2>2, <2>3
<1>25. ASSUME NEW p \in late, LateDone(p)
       PROVE  /\ LoopTyped'
              /\ Control(pc', then', todo', used', invalid', attempt', run', turn', aborted')
  <2>1. taint' \subseteq Rare
    BY <1>1, <1>25 DEF LateDone, Reopened, Rare
  <2> QED BY <1>1, <1>4, <1>25, <2>1 DEF LateDone
<1>26. CASE \E s \in Steers : pushSteer(s)
  BY <1>1, <1>4, <1>26 DEF pushSteer
<1>27. CASE Abort
  BY <1>1, <1>4, <1>27 DEF Abort, Open
<1>28. CASE ContextReset
  BY <1>1, <1>4, <1>28 DEF ContextReset, Rare
<1>29. CASE Crash
  <2>1. /\ pc' = "idle" /\ then' = "none" /\ todo' = {} /\ invalid' = 0 /\ attempt' = 0
        /\ run' = IF run = "running" THEN "failed" ELSE run
        /\ faults < MaxFaults /\ faults' = faults + 1 /\ UNCHANGED <<used, turn, taint>>
    BY <1>29 DEF Crash, markAllRunningFailed
  <2>2. steered' \in BOOLEAN /\ aborted' \in BOOLEAN /\ ~aborted'
    BY <1>29 DEF Crash
  <2>3. run' \in {"none", "completed", "failed"}
    BY <1>1, <2>1
  <2>4. faults' \in 0 .. MaxFaults /\ turn' \in 0 .. MaxTurns /\ used' \in 0 .. MaxCalls
    BY <1>1, <1>4, <2>1
  <2>5. invalid' \in 0 .. InvalidLimit + 1 /\ attempt' \in 0 .. Retries + 1
    BY <1>4, <2>1
  <2>6. LoopTyped'
    BY <1>1, <2>1, <2>2, <2>3, <2>4, <2>5
  <2>7. Control(pc', then', todo', used', invalid', attempt', run', turn', aborted')
    BY <1>4, <2>1, <2>2, <2>3
  <2> QED BY <2>6, <2>7
<1>30. CASE UNCHANGED turnVars
  BY <1>1, <1>30 DEF turnVars
<1> QED
  BY <1>5, <1>6, <1>8, <1>9, <1>10, <1>11, <1>12, <1>13, <1>14, <1>15, <1>16, <1>17, <1>18,
     <1>19, <1>20, <1>21, <1>22, <1>23, <1>24, <1>25, <1>26, <1>27, <1>28, <1>29, <1>30
     DEF TurnNext, Progress, Model, Dispatch, Gates, Compaction

\* A history without rows is neat.
LEMMA EmptyNeat ==
  ASSUME NEW n \in Nat
  PROVE  Neat(<<>>, n)
<1>1. <<>> \in Seq(RowsOf(n)) /\ DOMAIN <<>> = {}
  OBVIOUS
<1> QED BY <1>1 DEF Neat, AskedOnce, AnsweredOnce, Owned, ClosedBefore

\* At the start nothing runs and the histories are empty.
LEMMA TurnStart ==
  ASSUME TurnInit
  PROVE  LoopInv /\ HistoryInv
<1>1. RowsTyped
  BY ShortRows DEF TurnInit, RowsTyped
<1>2. LoopTyped
  <2>1. steered \in BOOLEAN /\ aborted \in BOOLEAN
    BY DEF TurnInit
  <2> QED BY <2>1, Bounds DEF TurnInit, LoopTyped, Rare
<1>3. ControlInv
  BY Bounds, FS_EmptySet DEF TurnInit, ControlInv, Open, InCall
<1>4. SidesTyped
  <2>1. EventAccounted
    BY DEF TurnInit, EventAccounted, Steers
  <2> QED BY <2>1, FS_EmptySet DEF TurnInit, SidesTyped
<1>5. HistoryInv
  <2>1. Neat(<<>>, used)
    BY EmptyNeat DEF TurnInit
  <2> QED BY <2>1 DEF TurnInit, HistoryInv, Replying
<1> QED BY <1>1, <1>2, <1>3, <1>4, <1>5, InvParts

\* The control invariant holds in every state.
THEOREM TurnInvariance == TurnSpec => []LoopInv
<1>1. TurnInit => LoopInv
  BY TurnStart
<1>2. LoopInv /\ [TurnNext]_turnVars => LoopInv'
  <2> SUFFICES ASSUME LoopInv, [TurnNext]_turnVars PROVE LoopInv'
    OBVIOUS
  <2>1. RowsTyped' /\ LoopTyped' /\ ControlInv' /\ SidesTyped'
    BY RowsStep, LoopStep, SidesStep
  <2>2. LoopInv' <=> RowsTyped' /\ LoopTyped' /\ ControlInv' /\ SidesTyped'
    BY InvParts, PTL
  <2> QED BY <2>1, <2>2
<1> QED BY <1>1, <1>2, PTL DEF TurnSpec

\* A turn leaves nothing behind when it ends, fails, is aborted or dies with the daemon: an
\* event waits in a channel only while a turn drains it, no tool run still says it is running.
THEOREM TurnLeavesNothingBehind == TurnSpec => []NothingLeftBehind
<1>1. LoopInv => NothingLeftBehind
  BY DEF LoopInv, ControlInv, NothingLeftBehind, RunIsSettled
<1> QED BY <1>1, TurnInvariance, PTL

\* No step delivers an event a second time, none starts a tool after the turn's abort.
THEOREM TurnOnceAndNotAborted == TurnSpec => OnceAndNotAborted
<1> DEFINE Once == \A s \in Events : steer[s] \in {"injected", "fallback"} => steer'[s] = steer[s]
           Stops == pc # "exec" /\ pc' = "exec" => ~aborted
<1>1. LoopInv /\ [TurnNext]_turnVars => Once
  BY SidesStep
<1>2. LoopInv /\ [TurnNext]_turnVars => Stops
  <2> SUFFICES ASSUME LoopInv, TurnNext, pc # "exec", pc' = "exec" PROVE ~aborted
    BY DEF turnVars
  <2> USE DEF loop, chan
  <2>1. CASE BeginTurn \/ SetupDone \/ SetupFails \/ Top \/ Drain \/ Break
    BY <2>1 DEF BeginTurn, SetupDone, SetupFails, Top, Drain, Break, Throw, Leave, StartDeferred,
                Complete, NextRound, Finish
  <2>2. CASE Model
    BY <2>2 DEF Model, RepliesText, RepliesMisfit, RequestFails, RepliesCalls, BreakLoop, Throw,
                Leave
  <2>3. CASE Dispatch
    BY <2>3 DEF Dispatch, CallAborted, CallRefused, CallLeaked, CallInvalid, CallNearMiss,
                CallTruncated, CallGoes, Answered, NextCall, BreakLoop, Throw, Leave
  <2>4. CASE Gates
    BY <2>4 DEF Gates, PreGated, NeedsApproval, CallDenied, CallPrevented, CallStarts, Answered,
                NextCall, BreakLoop, assertNotAborted
  <2>5. CASE AbortNoticed \/ ExecFails \/ ExecDone \/ PostDone
    BY <2>5 DEF AbortNoticed, ExecFails, ExecDone, PostDone, Answered, NextCall, Throw, Leave
  <2>6. CASE Compaction
    BY <2>6 DEF Compaction, DeferredDone, GuardDone, GuardTimesOut, GuardAborted, QueuedDone, Leave
  <2>7. CASE \/ \E r \in Reqs : BeginQueued(r) \/ pushCompactionRequest(r)
             \/ \E p \in late : LateDone(p)
             \/ \E s \in Steers : pushSteer(s)
             \/ Abort \/ ContextReset \/ Crash
    BY <2>7 DEF BeginQueued, pushCompactionRequest, LateDone, pushSteer, Abort, ContextReset, Crash
  <2> QED BY <2>1, <2>2, <2>3, <2>4, <2>5, <2>6, <2>7 DEF TurnNext, Progress
<1>3. TurnSpec => [][Once]_turnVars /\ [][Stops]_turnVars
  <2>1. LoopInv /\ [TurnNext]_turnVars => [Once]_turnVars /\ [Stops]_turnVars
    BY <1>1, <1>2
  <2> HIDE DEF Once, Stops
  <2> QED BY <2>1, TurnInvariance, PTL DEF TurnSpec
<1> QED BY <1>3 DEF OnceAndNotAborted, DeliveredOnce, AbortStopsTools

-----------------------------------------------------------------------------
(* The histories in every state.                                            *)

\* The invariant, with the two histories side by side.
LEMMA HistoryParts ==
  HistoryInv <=>
    (taint = {} => /\ Neat(tx, used)
                   /\ pc \in {"compact", "guard", "queued"} => pass = tx
                   /\ Replying => Linked(tx, mem, todo, used))
BY DEF HistoryInv, Linked

\* No step repairs what a rare behaviour has damaged.
LEMMA TaintStays ==
  ASSUME [TurnNext]_turnVars, taint' = {}
  PROVE  taint = {}
<1> USE DEF loop, chan
<1>1. CASE BeginTurn \/ SetupDone \/ SetupFails \/ Top \/ Drain
  BY <1>1 DEF BeginTurn, SetupDone, SetupFails, Top, Drain, Throw, Leave, StartDeferred, Complete,
              NextRound, Finish
<1>2. CASE Model
  BY <1>2 DEF Model, Throw, RepliesText, RepliesMisfit, RequestFails, RepliesCalls
<1>3. CASE Dispatch \/ Gates \/ AbortNoticed \/ ExecFails \/ ExecDone \/ PostDone \/ Break
  BY <1>3
     DEF Dispatch, CallAborted, CallRefused, CallLeaked, CallInvalid, CallNearMiss, CallTruncated,
         CallGoes, Gates, PreGated, NeedsApproval, CallDenied, CallPrevented, CallStarts,
         AbortNoticed, ExecFails, ExecDone, PostDone, Break, Answered, Throw
<1>4. CASE Compaction
  BY <1>4 DEF Compaction, DeferredDone, GuardDone, GuardTimesOut, GuardAborted, QueuedDone, Rewrite
<1>5. CASE \/ \E r \in Reqs : BeginQueued(r) \/ pushCompactionRequest(r)
           \/ \E p \in late : LateDone(p)
           \/ \E s \in Steers : pushSteer(s)
           \/ Abort \/ ContextReset \/ Crash
  BY <1>5 DEF BeginQueued, pushCompactionRequest, LateDone, pushSteer, Abort, ContextReset, Crash
<1>6. CASE UNCHANGED turnVars
  BY <1>6 DEF turnVars
<1> QED BY <1>1, <1>2, <1>3, <1>4, <1>5, <1>6 DEF TurnNext, Progress

\* The summary of an undamaged transcript, when it is loaded at once.
LEMMA CompactedLinked ==
  ASSUME NEW n \in Nat, NEW t, Neat(t, n), Shrinks(t, Preserve), Unanswered(t) = {},
         Len(Compacted(t, Preserve)) <= Cap
  PROVE  /\ Neat(Compacted(t, Preserve), n) /\ Unanswered(Compacted(t, Preserve)) = {}
         /\ Loaded(Compacted(t, Preserve), Cap) = Compacted(t, Preserve)
         /\ Linked(Compacted(t, Preserve), Compacted(t, Preserve), {}, n)
<1>1. Preserve \in Nat /\ Cap \in Nat
  BY Bounds
<1>2. /\ Neat(Compacted(t, Preserve), n)
      /\ Unanswered(Compacted(t, Preserve)) \subseteq Unanswered(t)
  BY <1>1, CompactedFacts
<1>3. Compacted(t, Preserve) \in Seq(RowsOf(n))
  BY <1>2 DEF Neat
<1>4. Loaded(Compacted(t, Preserve), Cap) = Compacted(t, Preserve)
  BY <1>1, <1>3, LoadedWhole
<1> QED BY <1>2, <1>4 DEF Linked

\* An empty transcript has nothing to summarise.
LEMMA NothingToShrink == ~Shrinks(<<>>, Preserve)
<1>1. Preserve \in Nat
  BY Bounds
<1>2. Len(<<>>) = 0
  OBVIOUS
<1> QED BY <1>1, <1>2 DEF Shrinks, Middle

\* The user's words or the model's, behind a neat history.
LEMMA WordsFollow ==
  ASSUME NEW n \in Nat, NEW t, Neat(t, n)
  PROVE  /\ Neat(append(t, User), n) /\ Unanswered(append(t, User)) = {}
         /\ Neat(append(t, Say), n) /\ Unanswered(append(t, Say)) = {}
<1>1. ASSUME NEW row \in {User, Say}
      PROVE  Neat(append(t, row), n) /\ Unanswered(append(t, row)) = {}
  <2>1. row \in RowsOf(n) /\ ~IsResult(row) /\ row.calls = {}
    BY MadeRows
  <2>2. row.calls \cap (1 .. n) = {} /\ n <= n
    BY <2>1
  <2>3. Neat(append(t, row), n) /\ Unanswered(append(t, row)) = row.calls
    BY <2>1, <2>2, AppendOther
  <2> QED BY <2>1, <2>3
<1> QED BY <1>1

\* Every step keeps the histories, as long as the transcript fits into one load.
LEMMA HistoryStep ==
  ASSUME LoopInv, HistoryInv, [TurnNext]_turnVars, Len(tx') <= Cap
  PROVE  HistoryInv'
<1> DEFINE Good == /\ Neat(tx', used')
                   /\ pc' \in {"compact", "guard", "queued"} => pass' = tx'
                   /\ Replying' => Linked(tx', mem', todo', used')
<1>1. HistoryInv' <=> (taint' = {} => Good)
  BY DEF HistoryInv, Linked
<1>2. SUFFICES ASSUME taint' = {} PROVE Good
  BY <1>1
<1>3. /\ taint = {} /\ Neat(tx, used)
      /\ pc \in {"compact", "guard", "queued"} => pass = tx
      /\ Replying => Linked(tx, mem, todo, used)
  BY <1>2, TaintStays, HistoryParts
<1>4. /\ used \in Nat /\ todo \subseteq 1 .. used
      /\ then # "none" <=> pc \in {"drain", "compact"}
      /\ todo # {} <=> pc \in InCall
      /\ IsFiniteSet(channel)
      /\ tx \in Transcripts
  BY TypeParts, Bounds DEF LoopInv, ControlInv, FlagsTyped, RowsTyped
<1>5. /\ User \in RowsOf(used) /\ ~IsResult(User) /\ User.calls = {}
      /\ Say \in RowsOf(used) /\ ~IsResult(Say) /\ Say.calls = {}
  BY <1>4, MadeRows
<1> USE DEF loop, chan, Replying, InCall
<1> HIDE DEF Good
\* Where the histories stay as they are.
<1>6. CASE /\ UNCHANGED <<tx, mem, todo, used>>
           /\ Replying' => Replying
           /\ pc' \in {"compact", "guard", "queued"} => pass' = tx
  BY <1>3, <1>6 DEF Good
\* Where the turn is left and the transcript stays neat.
<1>7. CASE /\ Neat(tx', used') /\ pc' \notin {"compact", "guard", "queued"}
           /\ pc' = "idle" \/ then' = "end"
  BY <1>7 DEF Good
<1>8. CASE Throw
  <2>1. tx' = tx /\ used' = used /\ pc' = "idle"
    BY <1>8 DEF Throw, Leave
  <2> QED BY <1>3, <1>7, <2>1
<1>9. CASE BeginTurn
  <2>1. tx' = append(tx, User) /\ Neat(tx', used) /\ Unanswered(tx') = {}
    <3>1. tx' = append(tx, User)
      BY <1>9 DEF BeginTurn
    <3> QED BY <1>3, <1>4, <3>1, WordsFollow
  <2>2. mem' = tx'
    <3>1. tx' \in Seq(RowsOf(used)) /\ Cap \in Nat
      BY <2>1, Bounds DEF Neat
    <3> QED BY <1>9, <3>1, LoadedWhole DEF BeginTurn
  <2>3. todo' = {} /\ used' = used /\ pc' = "setup"
    BY <1>4, <1>9 DEF BeginTurn
  <2> QED BY <2>1, <2>2, <2>3 DEF Good, Linked
<1>10. CASE SetupDone \/ SetupFails
  <2>1. CASE SetupDone
    BY <1>4, <1>6, <2>1 DEF SetupDone
  <2>2. CASE SetupFails
    BY <1>3, <1>7, <2>2 DEF SetupFails
  <2> QED BY <1>10, <2>1, <2>2
<1>11. CASE Top
  BY <1>4, <1>6, <1>8, <1>11 DEF Top
<1>12. CASE Drain
  <2>1. CASE Finish
    BY <1>3, <1>7, <2>1 DEF Finish, Leave
  <2>2. CASE StartDeferred /\ pc = "drain"
    BY <1>4, <1>6, <2>2 DEF StartDeferred
  <2>3. CASE (Complete \/ NextRound) /\ pc = "drain"
    BY <1>4, <1>6, <2>3 DEF Complete, NextRound
  <2> QED BY <1>12, <2>1, <2>2, <2>3 DEF Drain
<1>13. CASE RepliesText
  <2>1. tx' = append(tx, Say) \/ tx' = tx
    BY <1>13 DEF RepliesText
  <2>2. used' = used /\ pc' = "drain" /\ then' = "end"
    BY <1>13 DEF RepliesText, BreakLoop
  <2>3. Neat(append(tx, Say), used)
    BY <1>3, <1>4, WordsFollow
  <2> QED BY <1>3, <1>7, <2>1, <2>2, <2>3
<1>14. CASE RepliesMisfit
  <2> DEFINE said == append(tx, Say)
  <2>1. Neat(said, used) /\ Unanswered(said) = {}
    BY <1>3, <1>4, WordsFollow
  <2>2. pc = "model" /\ used' = used
    BY <1>14 DEF RepliesMisfit
  <2>3. CASE BreakLoop /\ tx' = said
    BY <1>7, <2>1, <2>2, <2>3 DEF BreakLoop
  <2>4. CASE /\ pc' = "top" /\ mem' = Append(mem, User)
             /\ tx' = appendAll(tx, <<Say, User>>)
             /\ UNCHANGED <<then, todo>>
    <3>1. Linked(tx, mem, {}, used) /\ todo' = {}
      BY <1>3, <1>4, <2>2, <2>4
    <3>2. Linked(said, mem, {}, used)
      BY <2>1, <3>1 DEF Linked
    <3> HIDE DEF said
    <3>3. Linked(append(said, User), Append(mem, User), {}, used)
      <4>1. User.calls \cap (1 .. used) = {} /\ used <= used
        BY <1>4, <1>5
      <4>2. Linked(append(said, User), Append(mem, User), User.calls, used)
        BY <1>4, <1>5, <3>2, <4>1, BothOther
      <4> QED BY <1>5, <4>2
    <3>4. appendAll(tx, <<Say, User>>) = append(said, User)
      <4>1. <<Say, User>> = <<Say>> \o <<User>> /\ <<Say>> \in Seq({Say, User})
            /\ <<User>> \in Seq({Say, User})
        OBVIOUS
      <4>2. appendAll(tx, <<Say>> \o <<User>>) = appendAll(appendAll(tx, <<Say>>), <<User>>)
        BY <4>1, AppendAllConcat
      <4> QED BY <4>1, <4>2, AppendAllOne DEF said
    <3>5. Linked(tx', mem', todo', used') /\ pc' = "top"
      BY <2>2, <2>4, <3>1, <3>3, <3>4
    <3> QED BY <3>5 DEF Good, Linked
  <2> QED BY <1>14, <2>3, <2>4 DEF RepliesMisfit
<1>15. CASE RequestFails \/ CallAborted \/ AbortNoticed
  BY <1>8, <1>15 DEF RequestFails, CallAborted, AbortNoticed
<1>16. ASSUME NEW n \in 1 .. MaxBatch, RepliesCalls(n)
       PROVE  Good
  <2> DEFINE ids == used + 1 .. used + n
             asked == <<Ask(ids)>>
  <2>1. pc = "model" /\ used' = used + n /\ n \in Nat
    BY <1>16, Bounds DEF RepliesCalls
  <2>2. \/ Both(asked \o Answers(ids)) /\ BreakLoop
        \/ Both(asked \o Answers(ids)) /\ pc' = "top" /\ UNCHANGED <<then, todo>>
        \/ Both(asked) /\ pc' = "call" /\ todo' = ids /\ UNCHANGED then
    BY <1>2, <1>16 DEF RepliesCalls
  <2>3. Linked(tx, mem, {}, used) /\ todo = {}
    BY <1>3, <1>4, <2>1
  <2>4. /\ Linked(appendAll(tx, asked \o Answers(ids)), mem \o (asked \o Answers(ids)),
                  {}, used + n)
        /\ Linked(appendAll(tx, asked), mem \o asked, ids, used + n)
    BY <1>4, <2>1, <2>3, BothAsk, BothAskAnswers
  <2> HIDE DEF asked, ids
  <2>5. CASE Both(asked \o Answers(ids)) /\ BreakLoop
    BY <1>7, <2>1, <2>4, <2>5 DEF Both, BreakLoop, Linked
  <2>6. CASE Both(asked \o Answers(ids)) /\ pc' = "top" /\ UNCHANGED <<then, todo>>
    <3>1. Linked(tx', mem', todo', used') /\ pc' = "top"
      BY <2>1, <2>3, <2>4, <2>6 DEF Both
    <3> QED BY <3>1 DEF Good, Linked
  <2>7. CASE Both(asked) /\ pc' = "call" /\ todo' = ids /\ UNCHANGED then
    <3>1. Linked(tx', mem', todo', used') /\ pc' = "call"
      BY <2>1, <2>4, <2>7 DEF Both
    <3> QED BY <3>1 DEF Good, Linked
  <2> QED BY <2>2, <2>5, <2>6, <2>7
\* The call in hand is answered, in both histories or in the model's only.
<1>17. ASSUME pc \in InCall
       PROVE  /\ Linked(tx, mem, todo, used) /\ Current \in todo
              /\ Linked(appendAll(tx, <<Answer(Current)>>), mem \o <<Answer(Current)>>, Rest, used)
              /\ Linked(tx, Append(mem, Answer(Current)), Rest, used)
              /\ Linked(appendAll(tx, Answers(todo)), mem \o Answers(todo), {}, used)
              /\ Linked(appendAll(tx, Answers(todo) \o <<User>>),
                        mem \o (Answers(todo) \o <<User>>), {}, used)
  <2>1. Linked(tx, mem, todo, used) /\ Current \in todo
    BY <1>3, <1>4, <1>17, CallInHand
  <2>2. todo \ todo = {} /\ todo \in SUBSET todo
    OBVIOUS
  <2> HIDE DEF Replying
  <2>3. Linked(appendAll(tx, <<Answer(Current)>>), mem \o <<Answer(Current)>>, Rest, used)
    BY <1>4, <2>1, BothAnswer DEF Rest
  <2>4. Linked(tx, Append(mem, Answer(Current)), Rest, used)
    BY <1>4, <2>1, LeakedAnswer DEF Rest
  <2>5. Linked(appendAll(tx, Answers(todo)), mem \o Answers(todo), {}, used)
    BY <1>4, <2>1, <2>2, BothAnswers
  <2>6. Linked(appendAll(tx, Answers(todo) \o <<User>>),
               mem \o (Answers(todo) \o <<User>>), {}, used)
    BY <1>4, <2>1, BothAnswersUser
  <2> QED BY <2>1, <2>3, <2>4, <2>5, <2>6
<1>18. ASSUME NEW t, NEW m, Linked(t, m, Rest, used), tx' = t, mem' = m, used' = used,
              NextCall \/ BreakLoop
       PROVE  Good
  <2>1. CASE NextCall
    BY <1>18, <2>1 DEF Good, Linked, NextCall
  <2>2. CASE BreakLoop
    BY <1>7, <1>18, <2>2 DEF Linked, BreakLoop
  <2> QED BY <1>18, <2>1, <2>2
<1>19. CASE \/ CallRefused \/ PreGated \/ CallDenied \/ ExecFails \/ PostDone
            \/ CallInvalid \/ CallNearMiss
  <2>1. pc \in InCall /\ Both(<<Answer(Current)>>) /\ used' = used /\ (NextCall \/ BreakLoop)
    BY <1>19
       DEF CallRefused, PreGated, CallDenied, ExecFails, PostDone, CallInvalid, CallNearMiss,
           Answered, Dispatching
  <2> QED BY <1>17, <1>18, <2>1 DEF Both
<1>20. CASE CallLeaked
  <2>1. pc \in InCall /\ mem' = Append(mem, Answer(Current)) /\ tx' = tx /\ used' = used /\ NextCall
    BY <1>20 DEF CallLeaked, Dispatching
  <2> QED BY <1>17, <1>18, <2>1
<1>21. CASE CallTruncated
  <2>1. pc \in InCall /\ tx' = appendAll(tx, Answers(todo)) /\ used' = used /\ pc' = "idle"
    BY <1>21 DEF CallTruncated, Dispatching, Leave
  <2> QED BY <1>7, <1>17, <2>1 DEF Linked
<1>22. CASE CallPrevented
  <2>1. pc \in InCall /\ used' = used
    BY <1>22 DEF CallPrevented
  <2>2. \/ /\ Both(Answers(todo) \o <<User>>)
           /\ pc' = "break" /\ todo' = {}
        \/ Both(Answers(todo)) /\ BreakLoop
    BY <1>22 DEF CallPrevented
  <2> QED BY <1>7, <1>17, <2>1, <2>2 DEF Good, Linked, Both, BreakLoop
<1>23. CASE CallGoes \/ NeedsApproval \/ CallStarts \/ ExecDone
  BY <1>4, <1>6, <1>23 DEF CallGoes, NeedsApproval, CallStarts, ExecDone, Dispatching
<1>24. CASE Break
  <2> DEFINE N == Cardinality(channel)
  <2>1. N \in Nat
    BY <1>4, FS_CardinalityType
  <2>2. Both([k \in 1 .. N |-> User]) /\ pc' = "drain" /\ UNCHANGED <<todo, used>>
        /\ pc = "break"
    BY <1>24 DEF Break
  <2>3. Linked(tx, mem, {}, used) /\ todo' = {}
    BY <1>3, <1>4, <2>2
  <2> HIDE DEF N
  <2>4. Linked(tx', mem', {}, used)
    BY <1>4, <2>1, <2>2, <2>3, BothUsers DEF Both
  <2> QED BY <2>2, <2>3, <2>4 DEF Good, Linked
<1>25. ASSUME pc \in {"compact", "guard"}, Rewrite, pc' \in {"drain", "model"},
              UNCHANGED <<then, todo, used>>
       PROVE  Good
  <2>1. CASE ~Shrinks(pass, Preserve)
    BY <1>4, <1>6, <1>25, <2>1 DEF Rewrite
  <2>2. CASE Shrinks(pass, Preserve)
    <3>1. pass = tx /\ tx' = Compacted(tx, Preserve) /\ mem' = Loaded(tx', Cap)
      BY <1>3, <1>25, <2>2 DEF Rewrite
    <3>2. CASE then = "end"
      <4>1. Neat(tx', used)
        BY <1>3, <1>4, <2>2, <3>1, Bounds, CompactedFacts
      <4> QED BY <1>7, <1>25, <3>2, <4>1
    <3>3. CASE then # "end"
      <4>1. Unanswered(tx) = {}
        BY <1>2, <1>25, <2>2, <3>1, <3>3 DEF Rewrite, Reopened
      <4>2. Linked(tx', mem', {}, used)
        BY <1>3, <1>4, <2>2, <3>1, <4>1, CompactedLinked
      <4>3. todo' = {}
        BY <1>4, <1>25
      <4> QED BY <1>25, <4>2, <4>3 DEF Good, Linked
    <3> QED BY <3>2, <3>3
  <2> QED BY <2>1, <2>2
<1>26. CASE DeferredDone \/ GuardDone
  <2>1. /\ pc \in {"compact", "guard"} /\ pc' \in {"drain", "model"}
        /\ UNCHANGED <<then, todo, used>>
        /\ Rewrite \/ UNCHANGED <<tx, mem>>
    BY <1>26 DEF DeferredDone, GuardDone
  <2> QED BY <1>6, <1>25, <2>1
<1>27. CASE GuardTimesOut
  BY <1>4, <1>6, <1>27 DEF GuardTimesOut
<1>28. CASE GuardAborted
  BY <1>3, <1>7, <1>28 DEF GuardAborted, Leave
<1>29. CASE QueuedDone
  <2>1. /\ pc = "queued" /\ pc' = "idle" /\ used' = used
        /\ \/ tx' = tx
           \/ Shrinks(pass, Preserve) /\ tx' = Compacted(pass, Preserve)
    BY <1>29 DEF QueuedDone
  <2>2. pass = tx
    BY <1>3, <2>1
  <2>3. Shrinks(tx, Preserve) => Neat(Compacted(tx, Preserve), used)
    BY <1>3, <1>4, Bounds, CompactedFacts
  <2> QED BY <1>3, <1>7, <2>1, <2>2, <2>3
<1>30. CASE \E r \in Reqs : BeginQueued(r) \/ pushCompactionRequest(r)
  BY <1>3, <1>6, <1>30 DEF BeginQueued, pushCompactionRequest
<1>31. ASSUME NEW p \in late, LateDone(p)
       PROVE  Good
  <2>1. UNCHANGED <<pc, then, todo, used, pass>>
    BY <1>31 DEF LateDone
  <2>2. CASE ~Shrinks(p.snap, Preserve)
    BY <1>3, <1>6, <1>31, <2>1, <2>2 DEF LateDone
  <2>3. CASE Shrinks(p.snap, Preserve)
    <3>1. /\ tx' = Compacted(p.snap, Preserve)
          /\ mem' = Loaded(tx', Cap) \/ mem' = mem
          /\ taint' = taint \cup Reopened(p.snap)
                        \cup IF tx = p.snap /\ pass = <<>> THEN {} ELSE {"late"}
      BY <1>31, <2>3 DEF LateDone
    <3>2. p.snap = tx /\ pass = <<>> /\ Unanswered(tx) = {}
      BY <1>2, <3>1 DEF Reopened
    <3>3. pc \notin {"compact", "guard", "queued"}
      BY <1>3, <2>3, <3>2, NothingToShrink
    <3>4. /\ Neat(tx', used) /\ Unanswered(tx') = {} /\ Loaded(tx', Cap) = tx'
      BY <1>3, <1>4, <2>3, <3>1, <3>2, CompactedLinked
    <3>5. Replying => Linked(tx', mem', todo, used)
      BY <1>3, <3>1, <3>2, <3>4 DEF Linked
    <3> QED BY <2>1, <3>3, <3>4, <3>5 DEF Good
  <2> QED BY <2>2, <2>3
<1>32. CASE (\E s \in Steers : pushSteer(s)) \/ Abort
  BY <1>3, <1>6, <1>32 DEF pushSteer, Abort
<1>33. CASE ContextReset
  <2>1. pc = "idle" /\ pc' = "idle" /\ tx' = <<>> /\ used' = used
    BY <1>2, <1>33 DEF ContextReset
  <2>2. Neat(<<>>, used)
    BY <1>4, EmptyNeat
  <2> QED BY <1>7, <2>1, <2>2
<1>34. CASE Crash
  BY <1>3, <1>7, <1>34 DEF Crash
<1>35. CASE UNCHANGED turnVars
  BY <1>3, <1>6, <1>35 DEF turnVars
<1> QED
  BY <1>9, <1>10, <1>11, <1>12, <1>13, <1>14, <1>15, <1>16, <1>19, <1>20, <1>21, <1>22, <1>23,
     <1>24, <1>26, <1>27, <1>28, <1>29, <1>30, <1>31, <1>32, <1>33, <1>34, <1>35
     DEF TurnNext, Progress, Model, Dispatch, Gates, Compaction

\* The histories of a session stay usable, whatever is aborted, denied, steered, compacted or
\* crashed in between, as long as no transcript outgrows one load of it: requests are well
\* formed, and no compaction replaces rows it has not read.
THEOREM TurnHistorySound == TurnSpec /\ [](Len(tx) <= Cap) => []HistorySound
<1>1. TurnInit => HistoryInv
  BY TurnStart
<1>2. LoopInv /\ HistoryInv /\ [TurnNext]_turnVars /\ (Len(tx) <= Cap)' => HistoryInv'
  BY HistoryStep
<1>3. LoopInv /\ HistoryInv => HistorySound
  <2> SUFFICES ASSUME LoopInv, HistoryInv PROVE HistorySound
    OBVIOUS
  <2>1. TurnTypeOK
    BY DEF LoopInv
  <2>2. RequestsWellFormed
    <3> SUFFICES ASSUME pc \in {"setup", "model"}, taint = {} PROVE WellFormed(mem)
      BY DEF RequestsWellFormed
    <3>1. used \in Nat /\ then = "none" /\ todo = {}
      BY Bounds DEF LoopInv, TurnTypeOK, ControlInv, InCall
    <3>2. Neat(mem, used) /\ Unanswered(mem) = {}
      BY <3>1 DEF HistoryInv, Replying
    <3> QED BY <3>1, <3>2, NeatIsWellFormed
  <2>3. PassIsCurrent
    BY DEF HistoryInv, PassIsCurrent
  <2> QED BY <2>1, <2>2, <2>3 DEF HistorySound
<1> QED BY <1>1, <1>2, <1>3, TurnInvariance, PTL DEF TurnSpec
=============================================================================
