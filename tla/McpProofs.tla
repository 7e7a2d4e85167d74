----------------------------- MODULE McpProofs -----------------------------
(***************************************************************************)
(* Safety of McpRuntime for any callers, sessions, agents, scopes, number  *)
(* of pools and limit of the cache: every pool has an owner, no closed one *)
(* is served, and what is cached is what the servers have.                 *)
(***************************************************************************)
EXTENDS McpRuntime, WellFoundedInduction, TLAPS

\* The catalog of one pool and its refresh, by itself: nothing is fetched before
\* the pool is open, and what it has or has been served is what the server has,
\* unless it was told otherwise or could not ask.
Fine(r) ==
  /\ r.st # "closed" => r.cat <= r.live
  /\ r.got <= r.live
  /\ r.st \notin {"listed", "open"} => ~r.note
  /\ r.st # "open" => r.fetch = "idle"
  /\ r.again => r.fetch # "idle"
  /\ r.st \in {"unused", "connecting"} => r.live = 0
  /\ (r.st \in {"listed", "open"} /\ r.fetch = "idle" /\ ~r.note /\ ~r.missed) => r.cat = r.live
  /\ (r.fetch = "served" /\ ~r.again /\ ~r.note) => r.got = r.live

PoolsFine == pool \in [PoolIds -> PoolRecords] /\ \A p \in PoolIds : Fine(pool[p])

\* The global pool's variables agree, and a reconnect is always re-armed.
GlobalFine ==
  /\ glob \in GlobalRecords
  /\ glob.use = glob.shut
  /\ glob.connected <=> glob.shut # None
  /\ ("global" \in tiers /\ ~glob.connected /\ ~glob.failed) => glob.rearm

Types ==
  /\ tiers \in Configs
  /\ agent \in [Agents -> PoolRef]
  /\ entry \in [Sessions -> Entries \cup {None}]
  /\ conn \in [Agents \cup Sessions -> PoolRef]
  /\ armed \subseteq Keys
  /\ call \in [Callers -> CallRecords]
  /\ down \in {"no", "global", "agents", "sessions", "done"}
  /\ doubled \in BOOLEAN /\ raced \in BOOLEAN

\* A pool is referred to under its own key only.
Under(p, k) == p # None => KeyOf(p) = k
EntryKeyed(e, s) == e # None => KeyOf(e.own) = s /\ Under(e.ag, AgentOf[s])
CallKeyed(r, s) ==
  /\ r.pc = "global" => r.wait # None /\ KeyOf(r.wait) = Global
  /\ r.pc = "agent" => r.wait # None /\ KeyOf(r.wait) = AgentOf[s]
  /\ r.pc = "session" => r.wait # None /\ KeyOf(r.wait) = s
  /\ r.pc \notin {"global", "agent", "session"} => r.wait = None
  /\ r.pc = "last" => Under(r.ag, AgentOf[s])

Keyed ==
  /\ Under(glob.shut, Global)
  /\ \A a \in Agents : Under(agent[a], a)
  /\ \A s \in Sessions : EntryKeyed(entry[s], s)
  /\ \A k \in Agents \cup Sessions : Under(conn[k], k)
  /\ \A p \in PoolIds : (Connecting(p) /\ KeyOf(p) \in Sessions) => Under(pool[p].ag, AgentOf[KeyOf(p)])
  /\ \A c \in Callers : CallKeyed(call[c], Session(c))

\* What was closed when a caller entered is not used again while it is in there.
DeadAreClosed == \A c \in Callers : \A p \in call[c].dead : pool[p].st = "closed"

\* Before shutdown, a connect under way is the one its key's callers join, ...
Joined ==
  /\ \A k \in Agents \cup Sessions : conn[k] # None => Connecting(conn[k])
  /\ \A p \in PoolIds : (Connecting(p) /\ KeyOf(p) # Global) => conn[KeyOf(p)] = p
  /\ \A a \in Agents : conn[a] # None => agent[a] = None
  /\ \A s \in Sessions : conn[s] # None => entry[s] = None

\* ... two connects of the global pool are known to have overlapped, ...
Single ==
  ~doubled => \A c \in Callers : call[c].pc = "global" =>
                glob.shut = None /\ \A d \in Callers : call[d].pc = "global" => d = c

\* ... and the pools that are up are exactly those the runtime's variables name.
OwnedBy(p, k) ==
  /\ k = Global => doubled \/ glob.shut = p
  /\ k \in Agents => agent[k] = p
  /\ k \in Sessions => entry[k] # None /\ entry[k].own = p
UpAndOwned ==
  /\ glob.shut # None => Up(glob.shut)
  /\ \A a \in Agents : agent[a] # None => Up(agent[a])
  /\ \A s \in Sessions : entry[s] # None => Up(entry[s].own)
  /\ \A p \in PoolIds : Up(p) => OwnedBy(p, KeyOf(p))
  /\ \A c \in Callers : (call[c].pc = "last" /\ call[c].ag # None) =>
       agent[AgentOf[Session(c)]] = call[c].ag

\* A snapshot of pools that are up, with the catalogs they have.
LiveSnap(snap) ==
  \A t \in {"global", "agent", "session"} : snap[t] # None =>
    snap[t] = Catalog(snap[t].pool) /\ Up(snap[t].pool)

\* Unless an agent's pool went while a session that had taken it was connecting,
\* what is cached, or will be, embeds pools that are up.
EntryCurrent(e) ==
  e # None => /\ e.ag # None => Up(e.ag)
              /\ e.fresh => LiveSnap(e.snap)
Current ==
  /\ \A s \in Sessions : EntryCurrent(entry[s])
  /\ glob.fresh => LiveSnap(glob.ctx)
  /\ \A p \in PoolIds : (Connecting(p) /\ KeyOf(p) \in Sessions /\ pool[p].ag # None) => Up(pool[p].ag)
  /\ \A c \in Callers : call[c].pc = "run" => call[c].dead = {}

Basics == PoolsFine /\ GlobalFine /\ Types /\ Keyed /\ DeadAreClosed
Owning == down = "no" => Joined /\ Single /\ UpAndOwned
Caching == (down = "no" /\ ~raced) => Current

\* The inductive invariant.
IInv == Basics /\ Owning /\ Caching

-----------------------------------------------------------------------------
(* The operators.                                                          *)

\* A set of numbers has a least one.
LEMMA LeastOf ==
  ASSUME NEW S \in SUBSET Nat, S # {}
  PROVE  Min(S) \in S
<1> DEFINE R == OpToRel(<, Nat)
<1>1. R = {ss \in Nat \X Nat : ss[1] < ss[2]} /\ IsWellFoundedOn(R, Nat)
  BY NatLessThanWellFounded DEF OpToRel
<1> HIDE DEF R
<1>2. PICK x \in S : \A y \in S : ~ (<<y, x>> \in R)
  BY <1>1, WFMin
<1>3. ASSUME NEW y \in S PROVE x <= y
  <2>1. <<y, x>> \in Nat \X Nat /\ ~ (<<y, x>> \in R)
    BY <1>2
  <2>2. ~ (y < x)
    BY <1>1, <2>1
  <2> QED
    BY <2>2
<1> QED
  BY <1>3 DEF Min

\* A new pool gets a name of its key that nothing refers to.
LEMMA NewPoolFree ==
  ASSUME NEW key \in Keys, FreeNames(key) # {}
  PROVE  /\ NewPool(key) \in PoolIds /\ KeyOf(NewPool(key)) = key
         /\ ~Connecting(NewPool(key)) /\ ~Up(NewPool(key))
         /\ \A c \in Callers : NewPool(key) \notin call[c].dead
<1>1. FreeNames(key) \subseteq 1..Pools /\ 1..Pools \subseteq Nat
  BY McpAssumption DEF FreeNames
<1>2. Min(FreeNames(key)) \in FreeNames(key)
  BY <1>1, LeastOf
<1>3. Min(FreeNames(key)) \in 1..Pools /\ Free(NewPool(key))
  BY <1>2 DEF FreeNames, NewPool
<1>4. NewPool(key) \in PoolIds /\ KeyOf(NewPool(key)) = key
  BY <1>3 DEF NewPool, PoolIds, KeyOf
<1> QED
  BY <1>3, <1>4 DEF Free

\* Where a pool may come from.
LEMMA PoolsKeyed ==
  ASSUME NEW p \in PoolIds
  PROVE  KeyOf(p) \in Keys /\ p # None
BY McpAssumption DEF PoolIds, KeyOf

\* Sessions of callers and agents of sessions.
LEMMA CallerKeys ==
  ASSUME Types, NEW c \in Callers
  PROVE  Session(c) \in Sessions /\ AgentOf[Session(c)] \in Agents
BY McpAssumption DEF Types, Session, Agents

\* The catalog of a pool, or of none.
LEMMA CatalogTyped ==
  ASSUME PoolsFine, NEW p \in PoolRef
  PROVE  Catalog(p) \in CatalogRef
BY DEF PoolsFine, Catalog, CatalogRef, PoolRef, PoolRecords

\* A context is a snapshot.
LEMMA ContextTyped ==
  ASSUME PoolsFine, NEW g \in PoolRef, NEW a \in PoolRef, NEW s \in PoolRef
  PROVE  Context(g, a, s) \in Snapshots
<1> Catalog(g) \in CatalogRef /\ Catalog(a) \in CatalogRef /\ Catalog(s) \in CatalogRef
  BY CatalogTyped
<1> HIDE DEF CatalogRef
<1> QED
  BY DEF Context, Snapshots

\* What is made of pools that are up is a snapshot of them.
LEMMA ContextLive ==
  ASSUME PoolsFine, NEW g \in PoolRef, NEW a \in PoolRef, NEW s \in PoolRef,
         g # None => Up(g), a # None => Up(a), s # None => Up(s)
  PROVE  LiveSnap(Context(g, a, s))
BY McpAssumption DEF LiveSnap, Context, Catalog, PoolRef

\* The pools of a snapshot are those its scopes name.
LEMMA PoolsOfTyped ==
  ASSUME NEW ctx \in Snapshots
  PROVE  /\ PoolsOf(ctx) \subseteq PoolIds
         /\ \A p \in PoolsOf(ctx) : \E t \in {"global", "agent", "session"} :
              ctx[t] # None /\ ctx[t].pool = p
<1>1. DOMAIN ctx = {"global", "agent", "session"}
  BY DEF Snapshots
<1>2. \A t \in DOMAIN ctx : ctx[t] \in CatalogRef
  BY <1>1 DEF Snapshots
<1> QED
  BY <1>1, <1>2 DEF PoolsOf, CatalogRef

\* A snapshot of pools that are up has none of those that were closed.
LEMMA LiveServes ==
  ASSUME NEW ctx \in Snapshots, LiveSnap(ctx), NEW dead, \A p \in dead : pool[p].st = "closed"
  PROVE  dead \cap PoolsOf(ctx) = {}
BY PoolsOfTyped DEF LiveSnap, Up

-----------------------------------------------------------------------------
(* The initial states.                                                     *)

\* A pool that nothing has happened to, in a status and with an agent's pool.
LEMMA NewRecord ==
  ASSUME NEW st \in {"unused", "connecting", "open"}, NEW ag \in PoolRef
  PROVE  LET r == [Unused EXCEPT !.st = st, !.ag = ag]
             o == [Unused EXCEPT !.st = st]
         IN  /\ r \in PoolRecords /\ Fine(r) /\ r.st = st /\ r.ag = ag /\ r.cat = 0
             /\ o \in PoolRecords /\ Fine(o) /\ o.st = st /\ o.ag = None /\ o.cat = 0
<1> DEFINE r == [Unused EXCEPT !.st = st, !.ag = ag]
           o == [Unused EXCEPT !.st = st]
<1>1. Unused \in PoolRecords
  BY DEF Unused, PoolRecords, PoolRef
<1>2. /\ Unused.ag = None /\ Unused.live = 0 /\ Unused.cat = 0 /\ Unused.note = FALSE
      /\ Unused.fetch = "idle" /\ Unused.got = 0 /\ Unused.again = FALSE /\ Unused.missed = FALSE
  BY DEF Unused
<1>3. r \in PoolRecords /\ o \in PoolRecords
  BY <1>1 DEF PoolRecords
<1>4. /\ r.st = st /\ r.ag = ag /\ o.st = st /\ o.ag = Unused.ag
      /\ \A f \in {"live", "cat", "note", "fetch", "got", "again", "missed"} :
           r[f] = Unused[f] /\ o[f] = Unused[f]
  BY <1>1 DEF PoolRecords
<1> HIDE DEF r, o
<1>5. Fine(r) /\ Fine(o)
  BY <1>2, <1>4 DEF Fine
<1> QED
  BY <1>2, <1>3, <1>4, <1>5 DEF r, o

\* The invariant holds when the runtime has made its first connect.
LEMMA InitIInv == Init => IInv
<1> SUFFICES ASSUME Init PROVE IInv
  OBVIOUS
<1> USE McpAssumption
<1> DEFINE one == <<Global, 1>>
<1>1. one \in PoolIds /\ KeyOf(one) = Global /\ one # None
  BY DEF PoolIds, Keys, KeyOf
<1>2. /\ tiers \in Configs /\ agent = [a \in Agents |-> None] /\ entry = [s \in Sessions |-> None]
      /\ conn = [k \in Agents \cup Sessions |-> None] /\ armed = {}
      /\ call = [c \in Callers |-> Idle] /\ down = "no" /\ doubled = FALSE /\ raced = FALSE
  BY DEF Init
<1>3. Idle \in CallRecords /\ Idle.pc = "idle" /\ Idle.dead = {} /\ Idle.wait = None
  BY DEF Idle, CallRecords, PoolRef
<1>4. Types
  <2>1. agent \in [Agents -> PoolRef] /\ conn \in [Agents \cup Sessions -> PoolRef]
        /\ entry \in [Sessions -> Entries \cup {None}] /\ armed \subseteq Keys
    BY <1>2 DEF PoolRef
  <2>2. call \in [Callers -> CallRecords]
    BY <1>2, <1>3
  <2> QED
    BY <1>2, <2>1, <2>2 DEF Types
<1>5. Unused \in PoolRecords /\ Fine(Unused) /\ Unused.st = "unused"
  BY DEF Unused, PoolRecords, Fine, PoolRef
<1>6. [Unused EXCEPT !.st = "open"] \in PoolRecords /\ Fine([Unused EXCEPT !.st = "open"])
      /\ [Unused EXCEPT !.st = "open"].st = "open" /\ [Unused EXCEPT !.st = "open"].cat = 0
  BY NewRecord DEF PoolRef
<1> DEFINE bare == [global |-> None, agent |-> None, session |-> None]
           snap == [global |-> [pool |-> one, cat |-> 0], agent |-> None, session |-> None]
<1>7. bare \in Snapshots /\ snap \in Snapshots
  BY <1>1 DEF Snapshots, CatalogRef
<1>8. \A c \in Callers : call[c].pc = "idle" /\ call[c].dead = {} /\ call[c].wait = None
  BY <1>2, <1>3
<1>9. /\ \A a \in Agents : agent[a] = None
      /\ \A s \in Sessions : entry[s] = None
      /\ \A k \in Agents \cup Sessions : conn[k] = None
  BY <1>2
<1>10. DeadAreClosed
  BY <1>8 DEF DeadAreClosed
<1>11. CASE /\ pool = [q \in PoolIds |-> IF q = one THEN [Unused EXCEPT !.st = "open"] ELSE Unused]
            /\ glob = [NoGlobal EXCEPT !.use = one, !.shut = one, !.connected = TRUE,
                         !.ctx.global = IF tiers = {"global"} THEN [pool |-> one, cat |-> 0] ELSE None]
  <2>1. PoolsFine
    BY <1>5, <1>6, <1>11 DEF PoolsFine
  <2>2. /\ glob.use = one /\ glob.shut = one /\ glob.connected = TRUE
        /\ glob.ctx = IF tiers = {"global"} THEN snap ELSE bare
    BY <1>11 DEF NoGlobal
  <2>3. glob = [use |-> one, shut |-> one, connected |-> TRUE, failed |-> FALSE, rearm |-> FALSE,
                ctx |-> IF tiers = {"global"} THEN snap ELSE bare, fresh |-> TRUE]
    <3> DEFINE x == IF tiers = {"global"} THEN [pool |-> one, cat |-> 0] ELSE None
    <3>1. glob = [use |-> one, shut |-> one, connected |-> TRUE, failed |-> FALSE, rearm |-> FALSE,
                  ctx |-> [bare EXCEPT !.global = x], fresh |-> TRUE]
      <4> HIDE DEF x, one
      <4> QED
        BY <1>11 DEF NoGlobal, x
    <3>2. [bare EXCEPT !.global = x] = IF tiers = {"global"} THEN snap ELSE bare
      OBVIOUS
    <3> HIDE DEF x, bare, snap, one
    <3> QED
      BY <3>1, <3>2
  <2>4. glob \in GlobalRecords
    <3> HIDE DEF snap, bare, one
    <3> QED
      BY <1>1, <1>7, <2>3 DEF GlobalRecords, PoolRef
  <2>5. GlobalFine
    BY <1>1, <2>2, <2>4 DEF GlobalFine
  <2>6. \A p \in PoolIds : ~Connecting(p) /\ (Up(p) <=> p = one)
    BY <1>1, <1>5, <1>6, <1>11 DEF Connecting, Up
  <2>7. Keyed
    BY <1>1, <1>8, <1>9, <2>2, <2>6 DEF Keyed, Under, EntryKeyed, CallKeyed
  <2>8. Joined /\ Single /\ UpAndOwned
    BY <1>1, <1>8, <1>9, <2>2, <2>6 DEF Joined, Single, UpAndOwned, OwnedBy
  <2>9. LiveSnap(glob.ctx)
    <3>1. pool[one].cat = 0 /\ Up(one)
      BY <1>1, <1>6, <1>11, <2>6
    <3> QED
      BY <1>1, <2>2, <3>1 DEF LiveSnap, Catalog
  <2>10. Current
    BY <1>8, <1>9, <2>6, <2>9 DEF Current, EntryCurrent
  <2> QED
    BY <1>4, <1>10, <2>1, <2>5, <2>7, <2>8, <2>10 DEF IInv, Basics, Owning, Caching
<1>12. CASE /\ pool = [q \in PoolIds |-> Unused]
            /\ glob = [NoGlobal EXCEPT !.failed = "global" \in tiers]
  <2>1. PoolsFine
    BY <1>5, <1>12 DEF PoolsFine
  <2>2. glob = [use |-> None, shut |-> None, connected |-> FALSE, failed |-> "global" \in tiers,
                rearm |-> FALSE, ctx |-> bare, fresh |-> TRUE]
    BY <1>12 DEF NoGlobal
  <2>3. glob \in GlobalRecords
    <3> HIDE DEF bare
    <3> QED
      BY <1>7, <2>2 DEF GlobalRecords, PoolRef
  <2>4. GlobalFine
    BY <2>2, <2>3 DEF GlobalFine
  <2>5. \A p \in PoolIds : ~Connecting(p) /\ ~Up(p)
    BY <1>5, <1>12 DEF Connecting, Up
  <2>6. Keyed
    BY <1>8, <1>9, <2>2, <2>5 DEF Keyed, Under, EntryKeyed, CallKeyed
  <2>7. Joined /\ Single /\ UpAndOwned
    BY <1>8, <1>9, <2>2, <2>5 DEF Joined, Single, UpAndOwned
  <2>8. Current
    BY <1>8, <1>9, <2>2, <2>5 DEF Current, EntryCurrent, LiveSnap
  <2> QED
    BY <1>4, <1>10, <2>1, <2>4, <2>6, <2>7, <2>8 DEF IInv, Basics, Owning, Caching
<1> QED
  BY <1>11, <1>12 DEF Init

-----------------------------------------------------------------------------
(* Steps of one caller.                                                    *)

\* The caches are refreshed at most: who owns what stays.
CachesKept ==
  /\ glob' \in GlobalRecords
  /\ glob'.use = glob.use /\ glob'.shut = glob.shut /\ glob'.connected = glob.connected
  /\ glob'.failed = glob.failed /\ glob'.rearm = glob.rearm
  /\ entry' \in [Sessions -> Entries \cup {None}]
  /\ \A s \in Sessions :
       /\ entry'[s] = None <=> entry[s] = None
       /\ entry[s] # None => entry'[s].own = entry[s].own /\ entry'[s].ag = entry[s].ag

\* What is fresh in them is made of pools that are up.
CachesLive ==
  /\ \A s \in Sessions : entry[s] # None /\ entry'[s].fresh => LiveSnap(entry'[s].snap)
  /\ glob'.fresh => LiveSnap(glob'.ctx)

\* What a caller may become when no pool moves.
CallFine(c, r) ==
  /\ r \in CallRecords /\ r.pc # "global" /\ CallKeyed(r, Session(c))
  /\ \A p \in r.dead : pool[p].st = "closed"
  /\ (down = "no" /\ r.pc = "last" /\ r.ag # None) => agent[AgentOf[Session(c)]] = r.ag
  /\ (down = "no" /\ ~raced /\ r.pc = "run") => r.dead = {}

\* A step of one caller, in which no pool changes, keeps the invariant.
LEMMA CallStep ==
  ASSUME IInv, NEW c \in Callers, NEW r, CallFine(c, r), call' = [call EXCEPT ![c] = r],
         armed' \subseteq Keys, CachesKept, (down = "no" /\ ~raced) => CachesLive,
         UNCHANGED <<tiers, pool, agent, conn, down, doubled, raced>>
  PROVE  IInv'
<1>1. call' \in [Callers -> CallRecords] /\ \A d \in Callers : call'[d] = IF d = c THEN r ELSE call[d]
  BY DEF IInv, Basics, Types, CallFine
<1>2. PoolsFine'
  BY DEF IInv, Basics, PoolsFine
<1>3. GlobalFine'
  BY DEF IInv, Basics, GlobalFine, CachesKept
<1>4. Types'
  BY <1>1 DEF IInv, Basics, Types, CachesKept
<1>5. \A d \in Callers : Session(d)' = Session(d)
  BY DEF Session
<1>6. \A p \in PoolIds : (Connecting(p)' <=> Connecting(p)) /\ (Up(p)' <=> Up(p))
  BY DEF Connecting, Up
<1>7. Keyed'
  <2>1. \A d \in Callers : CallKeyed(call'[d], Session(d))
    BY <1>1 DEF IInv, Basics, Keyed, CallFine
  <2>2. \A s \in Sessions : EntryKeyed(entry'[s], s)
    BY DEF IInv, Basics, Keyed, CachesKept, EntryKeyed
  <2> QED
    BY <1>5, <1>6, <2>1, <2>2 DEF IInv, Basics, Keyed, CachesKept
<1>8. DeadAreClosed'
  BY <1>1 DEF IInv, Basics, DeadAreClosed, CallFine
<1>9. ASSUME down = "no" PROVE Joined' /\ Single' /\ UpAndOwned'
  <2> USE <1>9 DEF IInv, Owning, CachesKept
  <2>1. Joined'
    BY DEF Joined, Connecting
  <2>2. Single'
    BY <1>1 DEF Single, CallFine
  <2>3. UpAndOwned'
    <3>1. \A d \in Callers : (call'[d].pc = "last" /\ call'[d].ag # None) =>
            agent[AgentOf[Session(d)]] = call'[d].ag
      BY <1>1 DEF CallFine, UpAndOwned
    <3> QED
      BY <1>5, <3>1 DEF UpAndOwned, OwnedBy, Up
  <2> QED
    BY <2>1, <2>2, <2>3
<1>10. ASSUME down = "no", ~raced PROVE Current'
  <2> USE <1>10 DEF IInv, Caching
  <2>1. \A d \in Callers : call'[d].pc = "run" => call'[d].dead = {}
    BY <1>1 DEF CallFine, Current
  <2>2. ASSUME NEW s \in Sessions PROVE EntryCurrent(entry[s])'
    <3>1. CASE entry[s] = None
      BY <3>1 DEF EntryCurrent, CachesKept
    <3>2. CASE entry[s] # None
      <4>1. entry'[s].ag = entry[s].ag /\ (entry[s].ag # None => Up(entry[s].ag))
        BY <3>2 DEF Current, EntryCurrent, CachesKept
      <4>2. entry'[s].fresh => LiveSnap(entry'[s].snap)
        BY <3>2 DEF CachesLive
      <4> QED
        BY <4>1, <4>2 DEF EntryCurrent, LiveSnap, Catalog, Up
    <3> QED
      BY <3>1, <3>2
  <2>3. (glob.fresh => LiveSnap(glob.ctx))'
    BY DEF CachesLive, LiveSnap, Catalog, Up
  <2> QED
    BY <2>1, <2>2, <2>3 DEF Current, Connecting, Up
<1> QED
  BY <1>2, <1>3, <1>4, <1>7, <1>8, <1>9, <1>10 DEF IInv, Basics, Owning, Caching

\* The shape of a caller that is given a context.
LEMMA ReturnsTyped ==
  ASSUME NEW r \in CallRecords, NEW ctx \in Snapshots
  PROVE  /\ Returns(r, ctx) \in CallRecords
         /\ Returns(r, ctx).pc = "run" /\ Returns(r, ctx).wait = None
         /\ Returns(r, ctx).dead = r.dead \cap PoolsOf(ctx)
<1>1. PoolsOf(ctx) \subseteq PoolIds
  BY PoolsOfTyped
<1> DEFINE d == r.dead \cap PoolsOf(ctx)
           h == IF r.held = {} THEN PoolsOf(ctx) ELSE r.held
<1>2. d \in SUBSET PoolIds /\ h \in SUBSET PoolIds
  BY <1>1 DEF CallRecords
<1>3. Returns(r, ctx) = [r EXCEPT !.pc = "run", !.wait = None, !.ag = None, !.dead = d, !.held = h]
  BY DEF Returns
<1>4. None \in PoolRef /\ "run" \in {"idle", "global", "agent", "session", "run"} \cup Running
  BY DEF PoolRef
<1> HIDE DEF d, h
<1>5. /\ Returns(r, ctx) \in CallRecords
      /\ Returns(r, ctx).pc = "run" /\ Returns(r, ctx).wait = None /\ Returns(r, ctx).dead = d
  BY <1>2, <1>3, <1>4 DEF CallRecords
<1> QED
  BY <1>5 DEF d

\* A caller may be given a context of pools that are up.
LEMMA ReturnFine ==
  ASSUME IInv, NEW c \in Callers, NEW ctx \in Snapshots,
         (down = "no" /\ ~raced) => LiveSnap(ctx)
  PROVE  CallFine(c, Returns(call[c], ctx))
<1> DEFINE r == Returns(call[c], ctx)
<1>1. call[c] \in CallRecords /\ \A p \in call[c].dead : pool[p].st = "closed"
  BY DEF IInv, Basics, Types, DeadAreClosed
<1>2. r \in CallRecords /\ r.pc = "run" /\ r.wait = None /\ r.dead = call[c].dead \cap PoolsOf(ctx)
  BY <1>1, ReturnsTyped
<1>3. (down = "no" /\ ~raced) => r.dead = {}
  BY <1>1, <1>2, LiveServes
<1> HIDE DEF r
<1> QED
  BY <1>1, <1>2, <1>3 DEF CallFine, CallKeyed, r

\* A caller at the end of an await or at rest enters resolveContext.
LEMMA EntersFine ==
  ASSUME IInv, NEW c \in Callers, call[c].pc \in {"idle", "run"}, Enters(c)
  PROVE  \E r : CallFine(c, r) /\ call' = [call EXCEPT ![c] = r]
<1> DEFINE r == [call[c] EXCEPT !.pc = "enter", !.dead = ClosedPools]
<1>1. call[c] \in CallRecords /\ call[c].wait = None
  BY DEF IInv, Basics, Types, Keyed, CallKeyed
<1>2. ClosedPools \in SUBSET PoolIds /\ \A p \in ClosedPools : pool[p].st = "closed"
  BY DEF ClosedPools
<1>3. call' = [call EXCEPT ![c] = r]
  BY DEF Enters
<1>4. r \in CallRecords /\ r.pc = "enter" /\ r.dead = ClosedPools /\ r.wait = None
  <2> HIDE DEF ClosedPools
  <2> QED
    BY <1>1, <1>2 DEF CallRecords, Running
<1> HIDE DEF r
<1>5. CallFine(c, r)
  BY <1>2, <1>4 DEF CallFine, CallKeyed
<1> QED
  BY <1>3, <1>5

\* Nothing cached moves.
LEMMA CachesUnchanged ==
  ASSUME IInv, UNCHANGED <<glob, entry>>
  PROVE  CachesKept /\ ((down = "no" /\ ~raced) => CachesLive)
<1>1. CachesKept
  BY DEF IInv, Basics, Types, GlobalFine, CachesKept
<1>2. ASSUME down = "no", ~raced PROVE CachesLive
  BY <1>2 DEF IInv, Caching, Current, EntryCurrent, CachesLive
<1> QED
  BY <1>1, <1>2

\* A caller begins to resolve.
LEMMA BeginStep ==
  ASSUME IInv, NEW c \in Callers, Begin(c)
  PROVE  IInv'
<1>1. PICK r : CallFine(c, r) /\ call' = [call EXCEPT ![c] = r]
  BY EntersFine DEF Begin
<1>2. armed' \subseteq Keys
  BY DEF Begin, IInv, Basics, Types
<1>3. CachesKept /\ ((down = "no" /\ ~raced) => CachesLive)
  BY CachesUnchanged DEF Begin
<1> QED
  BY <1>1, <1>2, <1>3, CallStep DEF Begin

\* A caller resolves again for a retry.
LEMMA LapseStep ==
  ASSUME IInv, NEW c \in Callers, Lapse(c)
  PROVE  IInv'
<1>1. PICK r : CallFine(c, r) /\ call' = [call EXCEPT ![c] = r]
  BY EntersFine DEF Lapse
<1>2. armed' \subseteq Keys
  BY DEF Lapse, rt, IInv, Basics, Types
<1>3. CachesKept /\ ((down = "no" /\ ~raced) => CachesLive)
  BY CachesUnchanged DEF Lapse, rt
<1> QED
  BY <1>1, <1>2, <1>3, CallStep DEF Lapse, rt

\* A turn ends and arms the idle timers.
LEMMA EndStep ==
  ASSUME IInv, NEW c \in Callers, End(c)
  PROVE  IInv'
<1>1. CallFine(c, Idle)
  <2>1. Idle \in CallRecords /\ Idle.pc = "idle" /\ Idle.wait = None /\ Idle.dead = {}
    BY DEF Idle, CallRecords, PoolRef
  <2> QED
    BY <2>1 DEF CallFine, CallKeyed
<1>2. armed' \subseteq Keys
  BY CallerKeys DEF End, TurnKeys, Keys, IInv, Basics, Types
<1>3. CachesKept /\ ((down = "no" /\ ~raced) => CachesLive)
  BY CachesUnchanged DEF End
<1> QED
  BY <1>1, <1>2, <1>3, CallStep DEF End

\* The global pool is not needed or is there.
LEMMA EnterPassesStep ==
  ASSUME IInv, NEW c \in Callers, EnterPasses(c)
  PROVE  IInv'
<1> DEFINE r == [call[c] EXCEPT !.pc = "middle"]
<1>1. call[c] \in CallRecords /\ call[c].wait = None
  BY DEF IInv, Basics, Types, Keyed, CallKeyed, EnterPasses
<1>2. call' = [call EXCEPT ![c] = r]
  BY DEF EnterPasses
<1>3. r \in CallRecords /\ r.pc = "middle" /\ r.wait = None /\ r.dead = call[c].dead
  BY <1>1 DEF CallRecords, Running
<1> HIDE DEF r
<1>4. CallFine(c, r)
  BY <1>3 DEF CallFine, CallKeyed, IInv, Basics, DeadAreClosed
<1>5. armed' \subseteq Keys /\ CachesKept /\ ((down = "no" /\ ~raced) => CachesLive)
  BY CachesUnchanged DEF EnterPasses, rt, IInv, Basics, Types
<1> QED
  BY <1>2, <1>4, <1>5, CallStep DEF EnterPasses, rt

\* The caller takes its agent's pool as it finds it.
LEMMA MiddlePassesStep ==
  ASSUME IInv, NEW c \in Callers, MiddlePasses(c)
  PROVE  IInv'
<1> DEFINE a == AgentOf[Session(c)]
           x == IF "agent" \in tiers THEN agent[a] ELSE None
           r == [call[c] EXCEPT !.pc = "last", !.ag = x]
<1>1. call[c] \in CallRecords /\ call[c].wait = None /\ a \in Agents
  BY CallerKeys DEF IInv, Basics, Types, Keyed, CallKeyed, MiddlePasses
<1>2. x \in PoolRef /\ (x # None => x = agent[a]) /\ Under(x, a)
  BY <1>1 DEF IInv, Basics, Types, Keyed, PoolRef, Under
<1>3. call' = [call EXCEPT ![c] = r]
  BY DEF MiddlePasses
<1> HIDE DEF x
<1>4. r \in CallRecords /\ r.pc = "last" /\ r.wait = None /\ r.dead = call[c].dead /\ r.ag = x
  BY <1>1, <1>2 DEF CallRecords, Running
<1> HIDE DEF r
<1>5. CallFine(c, r)
  BY <1>2, <1>4 DEF CallFine, CallKeyed, IInv, Basics, DeadAreClosed
<1>6. armed' \subseteq Keys /\ CachesKept /\ ((down = "no" /\ ~raced) => CachesLive)
  BY CachesUnchanged DEF MiddlePasses, rt, IInv, Basics, Types
<1> QED
  BY <1>3, <1>5, <1>6, CallStep DEF MiddlePasses, rt

\* The prebuilt context of the global servers.
LEMMA GlobalContextFine ==
  ASSUME PoolsFine, NEW p \in PoolRef
  PROVE  /\ GlobalContext(p) \in Snapshots
         /\ (p # None => Up(p)) => LiveSnap(GlobalContext(p))
<1>1. None \in PoolRef
  BY DEF PoolRef
<1> QED
  BY <1>1, ContextTyped, ContextLive DEF GlobalContext

\* Before shutdown, what the runtime's variables name is up.
LEMMA GlobalUp ==
  ASSUME IInv
  PROVE  glob.use \in PoolRef /\ (down = "no" /\ glob.use # None => Up(glob.use))
BY DEF IInv, Basics, GlobalFine, GlobalRecords, Owning, UpAndOwned

\* The caller is given the prebuilt context, rebuilt when it is out of date.
LEMMA MiddleReturnsStep ==
  ASSUME IInv, NEW c \in Callers, MiddleReturns(c)
  PROVE  IInv'
<1> DEFINE ctx == IF glob.fresh THEN glob.ctx ELSE GlobalContext(glob.use)
<1>1. glob' = [glob EXCEPT !.ctx = ctx, !.fresh = TRUE] /\ call' = [call EXCEPT ![c] = Returns(@, ctx)]
  BY DEF MiddleReturns
<1>2. ctx \in Snapshots
  BY GlobalContextFine, GlobalUp DEF IInv, Basics, GlobalFine, GlobalRecords
<1>3. (down = "no" /\ ~raced) => LiveSnap(ctx)
  BY GlobalContextFine, GlobalUp DEF IInv, Basics, Caching, Current
<1> HIDE DEF ctx
<1>4. /\ glob' \in GlobalRecords
      /\ glob'.use = glob.use /\ glob'.shut = glob.shut /\ glob'.connected = glob.connected
      /\ glob'.failed = glob.failed /\ glob'.rearm = glob.rearm
      /\ glob'.ctx = ctx
  BY <1>1, <1>2 DEF IInv, Basics, GlobalFine, GlobalRecords
<1>5. CachesKept
  BY <1>4 DEF CachesKept, MiddleReturns, IInv, Basics, Types
<1>6. (down = "no" /\ ~raced) => CachesLive
  BY <1>3, <1>4, CachesUnchanged DEF CachesLive, MiddleReturns, IInv, Caching, Current, EntryCurrent
<1>7. CallFine(c, Returns(call[c], ctx)) /\ call' = [call EXCEPT ![c] = Returns(call[c], ctx)]
  BY <1>1, <1>2, <1>3, ReturnFine
<1>8. armed' \subseteq Keys
  BY DEF MiddleReturns, IInv, Basics, Types
<1> QED
  BY <1>5, <1>6, <1>7, <1>8, CallStep DEF MiddleReturns

\* The caller is given its session's context, cached or made for it.
LEMMA LastReturnsStep ==
  ASSUME IInv, NEW c \in Callers, LastReturns(c)
  PROVE  IInv'
<1> DEFINE s == Session(c)
           e == entry[s]
           now == IF e = None THEN Context(glob.use, call[c].ag, None)
                  ELSE IF e.fresh THEN e.snap ELSE Context(glob.use, e.ag, e.own)
<1>1. /\ call' = [call EXCEPT ![c] = Returns(@, now)]
      /\ entry' = IF e = None THEN entry ELSE [entry EXCEPT ![s].snap = now, ![s].fresh = TRUE]
  BY DEF LastReturns
<1>2. s \in Sessions /\ e \in Entries \cup {None} /\ call[c].ag \in PoolRef /\ None \in PoolRef
      /\ PoolsFine /\ glob.use \in PoolRef
  BY CallerKeys, GlobalUp DEF IInv, Basics, Types, CallRecords, PoolRef
<1>3. e # None => e.ag \in PoolRef /\ e.own \in PoolRef /\ e.snap \in Snapshots /\ e.fresh \in BOOLEAN
  BY <1>2 DEF Entries, PoolRef
<1>4. now \in Snapshots
  BY <1>2, <1>3, ContextTyped
<1>5. ASSUME down = "no", ~raced PROVE LiveSnap(now)
  <2>1. glob.use # None => Up(glob.use)
    BY <1>5, GlobalUp
  <2>2. CASE e = None
    <3>1. call[c].ag # None => agent[AgentOf[s]] = call[c].ag /\ AgentOf[s] \in Agents
      BY <1>5, CallerKeys DEF IInv, Basics, Owning, UpAndOwned, LastReturns
    <3>2. call[c].ag # None => Up(call[c].ag)
      BY <1>5, <3>1 DEF IInv, Owning, UpAndOwned
    <3> QED
      BY <1>2, <2>1, <2>2, <3>2, ContextLive
  <2>3. CASE e # None
    <3>1. EntryCurrent(e) /\ Up(e.own)
      BY <1>2, <1>5, <2>3 DEF IInv, Owning, UpAndOwned, Caching, Current
    <3> QED
      BY <1>2, <1>3, <2>1, <2>3, <3>1, ContextLive DEF EntryCurrent
  <2> QED
    BY <2>2, <2>3
<1> HIDE DEF now
<1>6. CallFine(c, Returns(call[c], now)) /\ call' = [call EXCEPT ![c] = Returns(call[c], now)]
  BY <1>1, <1>4, <1>5, ReturnFine
<1>7. CASE e = None
  <2>1. CachesKept /\ ((down = "no" /\ ~raced) => CachesLive)
    BY <1>1, <1>7, CachesUnchanged DEF LastReturns
  <2> QED
    BY <1>6, <2>1, CallStep DEF LastReturns, IInv, Basics, Types
<1>8. CASE e # None
  <2> DEFINE f == [e EXCEPT !.snap = now, !.fresh = TRUE]
  <2>1. entry' = [entry EXCEPT ![s] = f]
    BY <1>1, <1>2, <1>8 DEF IInv, Basics, Types
  <2>2. f \in Entries /\ f.own = e.own /\ f.ag = e.ag /\ f.snap = now
    BY <1>2, <1>4, <1>8 DEF Entries
  <2>3. f # None
    BY <2>2, McpAssumption
  <2> HIDE DEF f
  <2>4. entry' \in [Sessions -> Entries \cup {None}]
        /\ \A x \in Sessions : entry'[x] = IF x = s THEN f ELSE entry[x]
    BY <1>2, <2>1, <2>2 DEF IInv, Basics, Types
  <2>5. CachesKept
    BY <1>8, <2>2, <2>3, <2>4 DEF CachesKept, LastReturns, IInv, Basics, GlobalFine
  <2>6. ASSUME down = "no", ~raced PROVE CachesLive
    BY <1>5, <2>2, <2>4, <2>6 DEF CachesLive, LastReturns, IInv, Caching, Current, EntryCurrent
  <2> QED
    BY <1>6, <2>5, <2>6, CallStep DEF LastReturns, IInv, Basics, Types
<1> QED
  BY <1>7, <1>8

-----------------------------------------------------------------------------
(* A connect begins, or a caller joins one.                                *)

\* The caller waits for the connect of k that is under way.
LEMMA JoinStep ==
  ASSUME IInv, NEW c \in Callers, NEW k \in Agents \cup Sessions, NEW pc \in {"agent", "session"},
         conn[k] # None, k = IF pc = "agent" THEN AgentOf[Session(c)] ELSE Session(c),
         call' = [call EXCEPT ![c].pc = pc, ![c].wait = conn[k]],
         UNCHANGED <<tiers, pool, glob, agent, entry, conn, armed, down, doubled, raced>>
  PROVE  IInv'
<1> DEFINE r == [call[c] EXCEPT !.pc = pc, !.wait = conn[k]]
<1>1. call[c] \in CallRecords /\ conn[k] \in PoolRef /\ KeyOf(conn[k]) = k
  BY DEF IInv, Basics, Types, Keyed, Under
<1>2. call' = [call EXCEPT ![c] = r]
  BY DEF IInv, Basics, Types
<1>3. r \in CallRecords /\ r.pc = pc /\ r.wait = conn[k] /\ r.dead = call[c].dead
  BY <1>1 DEF CallRecords
<1> HIDE DEF r
<1>4. CallFine(c, r)
  <2>1. CallKeyed(r, Session(c))
    BY <1>1, <1>3 DEF CallKeyed
  <2> QED
    BY <1>3, <2>1 DEF CallFine, IInv, Basics, DeadAreClosed
<1>5. armed' \subseteq Keys /\ CachesKept /\ ((down = "no" /\ ~raced) => CachesLive)
  BY CachesUnchanged DEF IInv, Basics, Types
<1> QED
  BY <1>2, <1>4, <1>5, CallStep

\* The caller connects the servers of key.
LEMMA StartStep ==
  ASSUME IInv, NEW c \in Callers, NEW key \in Keys, NEW ag \in PoolRef,
         NEW pc \in {"global", "agent", "session"}, Starts(key, ag),
         call' = [call EXCEPT ![c].pc = pc, ![c].wait = NewPool(key)],
         pc = "global" => key = Global, pc = "agent" => key = AgentOf[Session(c)],
         pc = "session" => key = Session(c),
         pc = "global" => conn' = conn /\ glob.shut = None
                          /\ doubled' \in BOOLEAN /\ (doubled => doubled')
                          /\ (~doubled' => \A d \in Callers : call[d].pc # "global"),
         pc # "global" => conn' = [conn EXCEPT ![key] = NewPool(key)] /\ conn[key] = None
                          /\ doubled' = doubled,
         pc = "agent" => agent[key] = None,
         pc = "session" => entry[key] = None /\ Under(ag, AgentOf[key])
                           /\ ((down = "no" /\ ~raced /\ ag # None) => Up(ag)),
         UNCHANGED <<tiers, glob, agent, entry, armed, down, raced>>
  PROVE  IInv'
<1> DEFINE p == NewPool(key)
           new == [Unused EXCEPT !.st = "connecting", !.ag = ag]
           r == [call[c] EXCEPT !.pc = pc, !.wait = p]
<1>1. /\ p \in PoolIds /\ KeyOf(p) = key /\ ~Connecting(p) /\ ~Up(p) /\ p # None
      /\ \A d \in Callers : p \notin call[d].dead
  BY NewPoolFree, PoolsKeyed DEF Starts
<1>2. new \in PoolRecords /\ Fine(new) /\ new.st = "connecting" /\ new.ag = ag
  BY NewRecord
<1>3. call[c] \in CallRecords /\ call \in [Callers -> CallRecords]
  BY DEF IInv, Basics, Types
<1>4. call' = [call EXCEPT ![c] = r]
  BY <1>3
<1>5. r \in CallRecords /\ r.pc = pc /\ r.wait = p /\ r.dead = call[c].dead
  <2> HIDE DEF p
  <2> QED
    BY <1>1, <1>3 DEF CallRecords, PoolRef
<1>6. pool \in [PoolIds -> PoolRecords] /\ pool' = [pool EXCEPT ![p] = new]
  BY DEF Starts, IInv, Basics, PoolsFine
<1>7. /\ Session(c) \in Sessions /\ AgentOf[Session(c)] \in Agents
      /\ Global \notin Agents \cup Sessions /\ Agents \cap Sessions = {}
  BY CallerKeys, McpAssumption DEF IInv, Basics
<1>8. /\ pc = "global" => key = Global
      /\ pc = "agent" => key = AgentOf[Session(c)] /\ key \in Agents
      /\ pc = "session" => key = Session(c) /\ key \in Sessions
  BY <1>7
<1>9. /\ pc = "global" => conn' = conn
      /\ pc # "global" => conn' = [conn EXCEPT ![key] = p] /\ conn[key] = None
  OBVIOUS
<1> HIDE DEF p, new, r
<1>10. /\ pool' \in [PoolIds -> PoolRecords]
       /\ \A q \in PoolIds : pool'[q] = IF q = p THEN new ELSE pool[q]
  BY <1>1, <1>2, <1>6
<1>11. /\ call' \in [Callers -> CallRecords]
       /\ \A d \in Callers : call'[d] = IF d = c THEN r ELSE call[d]
  BY <1>3, <1>4, <1>5
<1>12. conn' \in [Agents \cup Sessions -> PoolRef]
       /\ \A k \in Agents \cup Sessions : conn'[k] = IF k = key /\ pc # "global" THEN p ELSE conn[k]
  BY <1>1, <1>7, <1>8, <1>9 DEF IInv, Basics, Types, PoolRef
<1>13. \A q \in PoolIds : (Connecting(q)' <=> Connecting(q) \/ q = p) /\ (Up(q)' <=> Up(q))
  BY <1>1, <1>2, <1>10 DEF Connecting, Up
<1>14. PoolsFine'
  BY <1>2, <1>10 DEF IInv, Basics, PoolsFine
<1>15. GlobalFine'
  BY DEF IInv, Basics, GlobalFine
<1>16. Types'
  BY <1>11, <1>12 DEF IInv, Basics, Types
<1>17. \A d \in Callers : Session(d)' = Session(d)
  BY DEF Session
<1>18. Keyed'
  <2>1. CallKeyed(r, Session(c))
    BY <1>1, <1>5, <1>8 DEF CallKeyed
  <2>2. \A d \in Callers : CallKeyed(call'[d], Session(d))
    BY <1>11, <2>1 DEF IInv, Basics, Keyed
  <2>3. \A k \in Agents \cup Sessions : Under(conn'[k], k)
    BY <1>1, <1>12 DEF IInv, Basics, Keyed, Under
  <2>4. ASSUME NEW q \in PoolIds, Connecting(q)', KeyOf(q) \in Sessions
        PROVE  Under(pool'[q].ag, AgentOf[KeyOf(q)])
    <3>1. CASE q = p
      BY <1>1, <1>2, <1>7, <1>8, <1>10, <2>4, <3>1
    <3>2. CASE q # p
      BY <1>10, <1>13, <2>4, <3>2 DEF IInv, Basics, Keyed
    <3> QED
      BY <3>1, <3>2
  <2> QED
    BY <1>17, <2>2, <2>3, <2>4 DEF IInv, Basics, Keyed
<1>19. DeadAreClosed'
  BY <1>1, <1>3, <1>5, <1>10, <1>11 DEF IInv, Basics, DeadAreClosed, CallRecords
<1>20. ASSUME down = "no" PROVE Joined' /\ Single' /\ UpAndOwned'
  <2> Joined /\ Single /\ UpAndOwned
    BY <1>20 DEF IInv, Owning
  <2>1. Joined'
    <3>1. ASSUME NEW k \in Agents \cup Sessions, conn'[k] # None
          PROVE  Connecting(conn[k])'
      <4>1. conn'[k] \in PoolIds
        BY <1>12, <3>1 DEF PoolRef
      <4>2. conn'[k] = p \/ (conn'[k] = conn[k] /\ Connecting(conn[k]))
        BY <1>12, <3>1 DEF Joined
      <4>3. \A q \in PoolIds : (q = p \/ Connecting(q)) => pool'[q].st \in {"connecting", "listed"}
        BY <1>13 DEF Connecting
      <4>4. pool'[conn'[k]].st \in {"connecting", "listed"}
        BY <4>1, <4>2, <4>3
      <4> QED
        BY <4>4 DEF Connecting
    <3>2. \A q \in PoolIds : (Connecting(q)' /\ KeyOf(q) # Global) => conn'[KeyOf(q)] = q
      <4> SUFFICES ASSUME NEW q \in PoolIds, Connecting(q)', KeyOf(q) # Global
                   PROVE  conn'[KeyOf(q)] = q
        OBVIOUS
      <4>1. KeyOf(q) \in Agents \cup Sessions
        BY PoolsKeyed DEF Keys
      <4>2. CASE q = p
        BY <1>1, <1>8, <1>12, <4>1, <4>2
      <4>3. CASE q # p
        <5>1. conn[KeyOf(q)] = q /\ q # None
          BY <1>13, <4>3, PoolsKeyed DEF Joined
        <5> QED
          BY <1>9, <1>12, <4>1, <5>1
      <4> QED
        BY <4>2, <4>3
    <3>3. /\ \A a \in Agents : conn'[a] # None => agent[a] = None
          /\ \A s \in Sessions : conn'[s] # None => entry[s] = None
      BY <1>7, <1>8, <1>12 DEF Joined
    <3> QED
      BY <3>1, <3>2, <3>3 DEF Joined
  <2>2. Single'
    BY <1>5, <1>11 DEF Single
  <2>3. UpAndOwned'
    <3>0. doubled => doubled'
      OBVIOUS
    <3>1. \A q \in PoolIds : Up(q)' => (OwnedBy(q, KeyOf(q)))'
      BY <1>13, <3>0 DEF UpAndOwned, OwnedBy
    <3>2. \A q \in PoolRef : (q # None /\ Up(q)) => Up(q)'
      BY <1>13 DEF PoolRef
    <3>3. \A d \in Callers : (call'[d].pc = "last" /\ call'[d].ag # None) =>
            agent[AgentOf[Session(d)]] = call'[d].ag
      BY <1>5, <1>11 DEF UpAndOwned
    <3>4. /\ glob.shut \in PoolRef /\ \A a \in Agents : agent[a] \in PoolRef
          /\ \A s \in Sessions : entry[s] # None => entry[s].own \in PoolIds
      BY DEF IInv, Basics, GlobalFine, GlobalRecords, Types, Entries
    <3> QED
      BY <1>13, <1>17, <3>1, <3>2, <3>3, <3>4 DEF UpAndOwned
  <2> QED
    BY <2>1, <2>2, <2>3
<1>21. ASSUME down = "no", ~raced PROVE Current'
  <2> Current
    BY <1>21 DEF IInv, Caching
  <2>1. ASSUME NEW snap \in Snapshots, LiveSnap(snap) PROVE LiveSnap(snap)'
    <3>1. \A t \in {"global", "agent", "session"} : snap[t] # None => snap[t].pool \in PoolIds
      BY DEF Snapshots, CatalogRef
    <3> QED
      BY <1>1, <1>10, <1>13, <2>1, <3>1 DEF LiveSnap, Catalog
  <2>2. \A q \in PoolRef : (q # None /\ Up(q)) => Up(q)'
    BY <1>13 DEF PoolRef
  <2>3. glob.ctx \in Snapshots
        /\ \A s \in Sessions : entry[s] # None => entry[s].ag \in PoolRef /\ entry[s].snap \in Snapshots
    BY DEF IInv, Basics, GlobalFine, GlobalRecords, Types, Entries
  <2>4. \A s \in Sessions : EntryCurrent(entry[s])'
    BY <2>1, <2>2, <2>3 DEF Current, EntryCurrent
  <2>5. (glob.fresh => LiveSnap(glob.ctx))'
    BY <2>1, <2>3 DEF Current
  <2>6. ASSUME NEW q \in PoolIds, Connecting(q)', KeyOf(q) \in Sessions, pool'[q].ag # None
        PROVE  Up(pool[q].ag)'
    <3>1. pool'[q].ag \in PoolRef
      BY <1>10 DEF PoolRecords
    <3>2. Up(pool'[q].ag)
      <4>1. CASE q = p
        BY <1>1, <1>2, <1>7, <1>8, <1>10, <1>21, <2>6, <4>1
      <4>2. CASE q # p
        BY <1>10, <1>13, <2>6, <4>2 DEF Current
      <4> QED
        BY <4>1, <4>2
    <3>3. \A x \in PoolRef : (x # None /\ Up(x)) => pool'[x].st \in {"open", "dead"}
      BY <2>2 DEF Up
    <3> QED
      BY <2>6, <3>1, <3>2, <3>3 DEF Up
  <2>7. \A d \in Callers : call'[d].pc = "run" => call'[d].dead = {}
    BY <1>5, <1>11 DEF Current
  <2> QED
    BY <2>4, <2>5, <2>6, <2>7 DEF Current
<1> QED
  BY <1>14, <1>15, <1>16, <1>18, <1>19, <1>20, <1>21 DEF IInv, Basics, Owning, Caching

\* The caller connects the global pool, beside whoever does so already.
LEMMA EnterConnectsStep ==
  ASSUME IInv, NEW c \in Callers, EnterConnects(c)
  PROVE  IInv'
<1>1. Global \in Keys /\ None \in PoolRef
  BY DEF Keys, PoolRef
<1>2. glob.shut = None
  BY DEF EnterConnects, NeedsGlobal, IInv, Basics, GlobalFine
<1>3. /\ Starts(Global, None) /\ call' = [call EXCEPT ![c].pc = "global", ![c].wait = NewPool(Global)]
      /\ UNCHANGED <<tiers, glob, agent, entry, conn, armed, down, raced>>
  BY DEF EnterConnects, rt
<1>4. /\ doubled' \in BOOLEAN /\ (doubled => doubled')
      /\ ~doubled' => \A d \in Callers : call[d].pc # "global"
  BY DEF EnterConnects
<1> QED
  BY <1>1, <1>2, <1>3, <1>4, StartStep

\* The caller joins its agent's connect or begins one.
LEMMA MiddleConnectsStep ==
  ASSUME IInv, NEW c \in Callers, MiddleConnects(c)
  PROVE  IInv'
<1> DEFINE a == AgentOf[Session(c)]
<1>1. a \in Agents /\ a \in Keys /\ None \in PoolRef
  BY CallerKeys DEF IInv, Basics, Keys, PoolRef
<1>2. agent[a] = None /\ UNCHANGED <<tiers, glob, agent, entry, armed, down, doubled, raced>>
  BY DEF MiddleConnects
<1>3. CASE conn[a] # None
  <2>1. call' = [call EXCEPT ![c].pc = "agent", ![c].wait = conn[a]] /\ UNCHANGED <<pool, conn>>
    BY <1>3 DEF MiddleConnects
  <2>2. a \in Agents \cup Sessions
    BY <1>1
  <2> HIDE DEF a
  <2> QED
    BY <1>2, <1>3, <2>1, <2>2, JoinStep DEF a
<1>4. CASE conn[a] = None
  <2>1. Starts(a, None) /\ conn' = [conn EXCEPT ![a] = NewPool(a)]
        /\ call' = [call EXCEPT ![c].pc = "agent", ![c].wait = NewPool(a)]
    BY <1>4 DEF MiddleConnects
  <2> HIDE DEF a
  <2> QED
    BY <1>1, <1>2, <1>4, <2>1, StartStep DEF a
<1> QED
  BY <1>3, <1>4

\* The caller joins its session's connect or begins one.
LEMMA LastConnectsStep ==
  ASSUME IInv, NEW c \in Callers, LastConnects(c)
  PROVE  IInv'
<1> DEFINE s == Session(c)
<1>1. s \in Sessions /\ s \in Keys /\ AgentOf[s] \in Agents
  BY CallerKeys DEF IInv, Basics, Keys
<1>2. entry[s] = None /\ call[c].pc = "last"
      /\ UNCHANGED <<tiers, glob, agent, entry, armed, down, doubled, raced>>
  BY DEF LastConnects
<1>3. call[c].ag \in PoolRef /\ Under(call[c].ag, AgentOf[s])
  BY <1>2 DEF IInv, Basics, Types, CallRecords, Keyed, CallKeyed
<1>4. ASSUME down = "no", call[c].ag # None PROVE Up(call[c].ag)
  BY <1>1, <1>2, <1>4 DEF IInv, Owning, UpAndOwned
<1>5. CASE conn[s] # None
  <2>1. call' = [call EXCEPT ![c].pc = "session", ![c].wait = conn[s]] /\ UNCHANGED <<pool, conn>>
    BY <1>5 DEF LastConnects
  <2> QED
    BY <1>1, <1>2, <1>5, <2>1, JoinStep
<1>6. CASE conn[s] = None
  <2>1. Starts(s, call[c].ag) /\ conn' = [conn EXCEPT ![s] = NewPool(s)]
        /\ call' = [call EXCEPT ![c].pc = "session", ![c].wait = NewPool(s)]
    BY <1>6 DEF LastConnects
  <2> HIDE DEF s
  <2> QED
    BY <1>1, <1>2, <1>3, <1>4, <1>6, <2>1, StartStep DEF s
<1> QED
  BY <1>5, <1>6

-----------------------------------------------------------------------------
(* What the servers do: a pool stays up, connecting or away.               *)

\* Ageing leaves an entry's pools alone.
LEMMA AgeTyped ==
  ASSUME NEW es \in [Sessions -> Entries \cup {None}]
  PROVE  /\ AgeAll(es) \in [Sessions -> Entries \cup {None}]
         /\ \A s \in Sessions :
              /\ AgeAll(es)[s] = None <=> es[s] = None
              /\ es[s] # None => /\ AgeAll(es)[s].own = es[s].own /\ AgeAll(es)[s].ag = es[s].ag
                                 /\ ~AgeAll(es)[s].fresh
<1>1. ASSUME NEW s \in Sessions
      PROVE  /\ Age(es[s]) \in Entries \cup {None} /\ (Age(es[s]) = None <=> es[s] = None)
             /\ es[s] # None => Age(es[s]).own = es[s].own /\ Age(es[s]).ag = es[s].ag /\ ~Age(es[s]).fresh
  <2>1. CASE es[s] = None
    BY <2>1 DEF Age
  <2>2. CASE es[s] # None
    <3> DEFINE e == [es[s] EXCEPT !.fresh = FALSE]
    <3>1. es[s] \in Entries
      BY <2>2
    <3>2. e \in Entries /\ e.own = es[s].own /\ e.ag = es[s].ag /\ ~e.fresh
      BY <3>1 DEF Entries
    <3>3. e # None
      BY <3>2, McpAssumption
    <3> QED
      BY <2>2, <3>2, <3>3 DEF Age
  <2> QED
    BY <2>1, <2>2
<1> QED
  BY <1>1 DEF AgeAll

\* Every snapshot is out of date.
Aged == glob' = [glob EXCEPT !.fresh = FALSE] /\ entry' = AgeAll(entry)

\* What is aged is out of date.
LEMMA AgedCaches ==
  ASSUME IInv, Aged
  PROVE  /\ CachesKept /\ ~glob'.fresh
         /\ \A s \in Sessions : entry[s] # None => ~entry'[s].fresh
<1>1. entry \in [Sessions -> Entries \cup {None}] /\ glob \in GlobalRecords
  BY DEF IInv, Basics, Types, GlobalFine
<1>2. /\ glob' \in GlobalRecords /\ ~glob'.fresh
      /\ glob'.use = glob.use /\ glob'.shut = glob.shut /\ glob'.connected = glob.connected
      /\ glob'.failed = glob.failed /\ glob'.rearm = glob.rearm
  BY <1>1 DEF Aged, GlobalRecords
<1> QED
  BY <1>1, <1>2, AgeTyped DEF Aged, CachesKept

\* A snapshot stays a live one as long as its pools are up and unchanged.
LEMMA SnapKept ==
  ASSUME NEW snap \in Snapshots, LiveSnap(snap),
         \A q \in PoolIds : Up(q) => pool'[q].st \in {"open", "dead"} /\ pool'[q].cat = pool[q].cat
  PROVE  LiveSnap(snap)'
<1>1. \A t \in {"global", "agent", "session"} : snap[t] # None => snap[t].pool \in PoolIds
  BY DEF Snapshots, CatalogRef
<1> QED
  BY <1>1, McpAssumption DEF LiveSnap, Catalog, Up

\* The pool p becomes r, with what is cached aged if its catalog changes.
LEMMA PoolStep ==
  ASSUME IInv, NEW p \in PoolIds, NEW r \in PoolRecords, Fine(r), pool' = [pool EXCEPT ![p] = r],
         r.ag = pool[p].ag, r.st \in {"connecting", "listed"} <=> Connecting(p),
         r.st \in {"open", "dead"} <=> Up(p), pool[p].st = "closed" => r.st = "closed",
         \/ Aged
         \/ UNCHANGED <<glob, entry>> /\ (Up(p) => r.cat = pool[p].cat),
         UNCHANGED <<tiers, agent, conn, armed, call, down, doubled, raced>>
  PROVE  IInv'
<1>1. /\ pool' \in [PoolIds -> PoolRecords]
      /\ \A q \in PoolIds : pool'[q] = IF q = p THEN r ELSE pool[q]
  BY DEF IInv, Basics, PoolsFine
<1>2. \A q \in PoolIds : (Connecting(q)' <=> Connecting(q)) /\ (Up(q)' <=> Up(q))
                         /\ pool'[q].ag = pool[q].ag
  BY <1>1 DEF Connecting, Up
<1>3. PoolsFine'
  BY <1>1 DEF IInv, Basics, PoolsFine
<1>4. CachesKept
  BY AgedCaches, CachesUnchanged
<1>5. GlobalFine'
  BY <1>4 DEF IInv, Basics, GlobalFine, CachesKept
<1>6. Types'
  BY <1>4 DEF IInv, Basics, Types, CachesKept
<1>7. \A d \in Callers : Session(d)' = Session(d)
  BY DEF Session
<1>8. Keyed'
  <2>1. \A s \in Sessions : EntryKeyed(entry'[s], s)
    BY <1>4 DEF IInv, Basics, Keyed, CachesKept, EntryKeyed
  <2> QED
    BY <1>2, <1>4, <1>7, <2>1 DEF IInv, Basics, Keyed, CachesKept
<1>9. DeadAreClosed'
  BY <1>1 DEF IInv, Basics, DeadAreClosed, Types, CallRecords
<1>10. ASSUME NEW q \in PoolRef, q # None
       PROVE  (Connecting(q)' <=> Connecting(q)) /\ (Up(q)' <=> Up(q))
  BY <1>2, <1>10 DEF PoolRef
<1>11. /\ glob.shut \in PoolRef /\ \A a \in Agents : agent[a] \in PoolRef
       /\ \A k \in Agents \cup Sessions : conn[k] \in PoolRef
       /\ \A s \in Sessions : entry[s] # None => /\ entry[s].own \in PoolIds /\ entry[s].ag \in PoolRef
                                                 /\ entry[s].snap \in Snapshots
       /\ \A q \in PoolIds : pool[q].ag \in PoolRef
       /\ glob.ctx \in Snapshots
  BY DEF IInv, Basics, GlobalFine, GlobalRecords, Types, Entries, PoolsFine, PoolRecords
<1>12. ASSUME down = "no" PROVE Joined' /\ Single' /\ UpAndOwned'
  <2> Joined /\ Single /\ UpAndOwned
    BY <1>12 DEF IInv, Owning
  <2>1. Joined'
    BY <1>2, <1>4, <1>10, <1>11 DEF Joined, CachesKept
  <2>2. Single'
    BY <1>4 DEF Single, CachesKept
  <2>3. \A q \in PoolIds : Up(q)' => OwnedBy(q, KeyOf(q))'
    BY <1>2, <1>4 DEF UpAndOwned, OwnedBy, CachesKept
  <2>4. UpAndOwned'
    BY <1>2, <1>4, <1>7, <1>10, <1>11, <2>3 DEF UpAndOwned, CachesKept
  <2> QED
    BY <2>1, <2>2, <2>4
<1>13. ASSUME down = "no", ~raced PROVE Current'
  <2> Current
    BY <1>13 DEF IInv, Caching
  <2>1. ASSUME NEW s \in Sessions PROVE EntryCurrent(entry[s])'
    <3>1. CASE entry[s] = None
      BY <1>4, <3>1 DEF EntryCurrent, CachesKept
    <3>2. CASE entry[s] # None
      <4>1. entry'[s].ag = entry[s].ag /\ (entry[s].ag # None => Up(entry[s].ag)')
        BY <1>4, <1>10, <1>11, <3>2 DEF Current, EntryCurrent, CachesKept
      <4>2. CASE Aged
        BY <4>1, <4>2, <3>2, AgedCaches DEF EntryCurrent
      <4>3. CASE UNCHANGED <<glob, entry>> /\ (Up(p) => r.cat = pool[p].cat)
        <5>1. \A q \in PoolIds : Up(q) => pool'[q].st \in {"open", "dead"} /\ pool'[q].cat = pool[q].cat
          BY <1>1, <4>3 DEF Up
        <5>2. entry[s].fresh => LiveSnap(entry[s].snap)
          BY <3>2 DEF Current, EntryCurrent
        <5>3. entry[s].fresh => LiveSnap(entry[s].snap)'
          BY <1>11, <3>2, <4>3, <5>1, <5>2, SnapKept
        <5> QED
          BY <4>1, <4>3, <5>3 DEF EntryCurrent
      <4> QED
        BY <4>2, <4>3
    <3> QED
      BY <3>1, <3>2
  <2>2. (glob.fresh => LiveSnap(glob.ctx))'
    <3>1. CASE Aged
      BY <3>1, AgedCaches
    <3>2. CASE UNCHANGED <<glob, entry>> /\ (Up(p) => r.cat = pool[p].cat)
      <4>1. \A q \in PoolIds : Up(q) => pool'[q].st \in {"open", "dead"} /\ pool'[q].cat = pool[q].cat
        BY <1>1, <3>2 DEF Up
      <4>2. glob.fresh => LiveSnap(glob.ctx)'
        BY <1>11, <3>2, <4>1, SnapKept DEF Current
      <4> QED
        BY <3>2, <4>2
    <3> QED
      BY <3>1, <3>2
  <2>3. ASSUME NEW q \in PoolIds, Connecting(q)', KeyOf(q) \in Sessions, pool'[q].ag # None
        PROVE  Up(pool[q].ag)'
    <3>1. pool'[q].ag = pool[q].ag /\ pool[q].ag # None /\ Up(pool[q].ag)
      BY <1>2, <2>3 DEF Current
    <3> QED
      BY <1>10, <1>11, <3>1 DEF Up
  <2>4. \A d \in Callers : call'[d].pc = "run" => call'[d].dead = {}
    BY DEF Current
  <2> QED
    BY <2>1, <2>2, <2>3, <2>4 DEF Current
<1> QED
  BY <1>3, <1>5, <1>6, <1>8, <1>9, <1>12, <1>13 DEF IInv, Basics, Owning, Caching

\* A server of a connect has answered.
LEMMA ListsStep ==
  ASSUME IInv, NEW p \in PoolIds, Lists(p)
  PROVE  IInv'
<1> DEFINE o == pool[p]
           r == [o EXCEPT !.st = "listed", !.cat = o.live]
<1>1. o \in PoolRecords /\ Fine(o) /\ o.st = "connecting" /\ Connecting(p) /\ ~Up(p)
  BY DEF IInv, Basics, PoolsFine, Lists, Connecting, Up
<1>2. pool' = [pool EXCEPT ![p] = r]
  BY DEF Lists
<1> HIDE DEF o
<1>3. r \in PoolRecords
  BY <1>1 DEF PoolRecords
<1>4. /\ r.st = "listed" /\ r.cat = o.live /\ r.ag = o.ag /\ r.live = o.live /\ r.note = o.note
      /\ r.fetch = o.fetch /\ r.got = o.got /\ r.again = o.again /\ r.missed = o.missed
  BY <1>1 DEF PoolRecords
<1> HIDE DEF r
<1>5. Fine(r)
  BY <1>1, <1>4 DEF Fine, PoolRecords
<1> QED
  BY <1>1, <1>2, <1>3, <1>4, <1>5, PoolStep DEF Lists, rt, o

\* A server's tools change.
LEMMA ChangesStep ==
  ASSUME IInv, NEW p \in PoolIds, Changes(p)
  PROVE  IInv'
<1> DEFINE o == pool[p]
           l == o.live + 1
           r == [o EXCEPT !.live = l, !.note = TRUE]
<1>1. /\ o \in PoolRecords /\ Fine(o) /\ o.st \in {"listed", "open"}
      /\ (o.st = "listed" <=> Connecting(p)) /\ (o.st = "open" <=> Up(p))
  BY DEF IInv, Basics, PoolsFine, Changes, Connecting, Up
<1>2. pool' = [pool EXCEPT ![p] = r]
  BY DEF Changes
<1>3. l \in Nat
  BY <1>1 DEF PoolRecords
<1> HIDE DEF o, l
<1>4. r \in PoolRecords
  BY <1>1, <1>3 DEF PoolRecords
<1>5. /\ r.st = o.st /\ r.cat = o.cat /\ r.ag = o.ag /\ r.live = l /\ r.note = TRUE
      /\ r.fetch = o.fetch /\ r.got = o.got /\ r.again = o.again /\ r.missed = o.missed
  BY <1>1 DEF PoolRecords
<1> HIDE DEF r
<1>6. Fine(r)
  BY <1>1, <1>5 DEF Fine, PoolRecords, l
<1> QED
  BY <1>1, <1>2, <1>4, <1>5, <1>6, PoolStep DEF Changes, rt, o, Connecting, Up

\* The notification of a change arrives.
LEMMA NotifiedStep ==
  ASSUME IInv, NEW p \in PoolIds, Notified(p)
  PROVE  IInv'
<1> DEFINE o == pool[p]
           f == IF o.st = "listed" THEN "idle" ELSE IF o.fetch = "idle" THEN "asked" ELSE o.fetch
           g == o.fetch # "idle"
           m == o.missed \/ o.st = "listed"
           r == [o EXCEPT !.note = FALSE, !.fetch = f, !.again = g, !.missed = m]
<1>1. o \in PoolRecords /\ Fine(o) /\ o.note
  BY DEF IInv, Basics, PoolsFine, Notified
<1>2. pool' = [pool EXCEPT ![p] = r]
  BY DEF Notified
<1>3. f \in {"idle", "asked", "served"} /\ g \in BOOLEAN /\ m \in BOOLEAN
  BY <1>1 DEF PoolRecords
<1>4. /\ o.st \in {"listed", "open"}
      /\ o.st = "listed" => f = "idle" /\ ~g /\ m
      /\ o.st = "open" => f # "idle" /\ (f = "served" => g)
  BY <1>1 DEF Fine
<1> HIDE DEF o, f, g, m
<1>5. r \in PoolRecords
  <2> DEFINE F == {"idle", "asked", "served"}
             B == BOOLEAN
             S == {"unused", "connecting", "listed", "open", "dead", "closed"}
             R == [st : S, ag : PoolRef, live : Nat, cat : Nat, note : B, fetch : F, got : Nat,
                   again : B, missed : B]
  <2>1. o \in R /\ f \in F /\ g \in B /\ m \in B /\ FALSE \in B
    BY <1>1, <1>3 DEF PoolRecords
  <2> HIDE DEF F, B, S
  <2>2. r \in R
    BY <2>1
  <2>3. R = PoolRecords
    BY DEF F, B, S, PoolRecords
  <2> QED
    BY <2>2, <2>3
<1>6. /\ r.st = o.st /\ r.cat = o.cat /\ r.ag = o.ag /\ r.live = o.live /\ r.note = FALSE
      /\ r.fetch = f /\ r.got = o.got /\ r.again = g /\ r.missed = m
  BY <1>1 DEF PoolRecords
<1> HIDE DEF r
<1>7. Fine(r)
  BY <1>1, <1>4, <1>6 DEF Fine, PoolRecords
<1> QED
  BY <1>2, <1>5, <1>6, <1>7, PoolStep DEF Notified, rt, o, Connecting, Up

\* A server answers tools/list.
LEMMA ServesStep ==
  ASSUME IInv, NEW p \in PoolIds, Serves(p)
  PROVE  IInv'
<1> DEFINE o == pool[p]
           r == [o EXCEPT !.fetch = "served", !.got = o.live]
<1>1. o \in PoolRecords /\ Fine(o) /\ o.st = "open" /\ o.fetch = "asked"
  BY DEF IInv, Basics, PoolsFine, Serves
<1>2. pool' = [pool EXCEPT ![p] = r]
  BY DEF Serves
<1> HIDE DEF o
<1>3. r \in PoolRecords
  BY <1>1 DEF PoolRecords
<1>4. /\ r.st = o.st /\ r.cat = o.cat /\ r.ag = o.ag /\ r.live = o.live /\ r.note = o.note
      /\ r.fetch = "served" /\ r.got = o.live /\ r.again = o.again /\ r.missed = o.missed
  BY <1>1 DEF PoolRecords
<1> HIDE DEF r
<1>5. Fine(r)
  BY <1>1, <1>4 DEF Fine, PoolRecords
<1> QED
  BY <1>2, <1>3, <1>4, <1>5, PoolStep DEF Serves, rt, o, Connecting, Up

\* The end of a refresh: the pool is open, and the next one is on its way if a
\* notification came meanwhile.
LEMMA FetchEnds ==
  ASSUME IInv, NEW p \in PoolIds, pool[p].fetch # "idle",
         NEW cat \in {pool[p].cat, pool[p].got}, NEW missed \in BOOLEAN,
         ~missed => pool[p].fetch = "served" /\ cat = pool[p].got,
         pool' = [pool EXCEPT ![p].cat = cat, ![p].missed = missed, ![p].got = 0,
                              ![p].fetch = NextFetch(p), ![p].again = FALSE],
         \/ Aged
         \/ UNCHANGED <<glob, entry>> /\ cat = pool[p].cat,
         UNCHANGED <<tiers, agent, conn, armed, call, down, doubled, raced>>
  PROVE  IInv'
<1> DEFINE o == pool[p]
           f == NextFetch(p)
           r == [o EXCEPT !.cat = cat, !.missed = missed, !.got = 0, !.fetch = f, !.again = FALSE]
<1>1. o \in PoolRecords /\ Fine(o) /\ o.fetch # "idle" /\ o.st = "open"
  BY DEF IInv, Basics, PoolsFine, Fine
<1>2. pool' = [pool EXCEPT ![p] = r]
  OBVIOUS
<1>3. f \in {"idle", "asked"} /\ (f = "idle" <=> ~o.again)
  BY <1>1 DEF NextFetch, PoolRecords
<1>4. cat \in Nat /\ cat <= o.live
  BY <1>1 DEF Fine, PoolRecords
<1>5. ~missed => o.fetch = "served" /\ cat = o.got
  OBVIOUS
<1> HIDE DEF o, f
<1>6. r \in PoolRecords
  BY <1>1, <1>3, <1>4 DEF PoolRecords
<1>7. /\ r.st = o.st /\ r.cat = cat /\ r.ag = o.ag /\ r.live = o.live /\ r.note = o.note
      /\ r.fetch = f /\ r.got = 0 /\ r.again = FALSE /\ r.missed = missed
  BY <1>1 DEF PoolRecords
<1> HIDE DEF r
<1>8. Fine(r)
  BY <1>1, <1>3, <1>4, <1>5, <1>7 DEF Fine, PoolRecords
<1>9. /\ r.ag = pool[p].ag /\ (r.st \in {"connecting", "listed"} <=> Connecting(p))
      /\ (r.st \in {"open", "dead"} <=> Up(p)) /\ (pool[p].st = "closed" => r.st = "closed")
  BY <1>7 DEF o, Connecting, Up
<1>10. Aged \/ (UNCHANGED <<glob, entry>> /\ (Up(p) => r.cat = pool[p].cat))
  BY <1>7
<1> QED
  BY <1>2, <1>6, <1>8, <1>9, <1>10, PoolStep

\* A refresh ends well and every cached context is aged.
LEMMA FetchedStep ==
  ASSUME IInv, NEW p \in PoolIds, Fetched(p)
  PROVE  IInv'
<1>1. PICK missed \in BOOLEAN : ~missed
  BY Zenon
<1>2. pool' = [pool EXCEPT ![p].cat = pool[p].got, ![p].missed = missed, ![p].got = 0,
                           ![p].fetch = NextFetch(p), ![p].again = FALSE]
  <2>1. missed = FALSE
    BY <1>1, Zenon
  <2> QED
    BY <2>1 DEF Fetched
<1>3. Aged /\ pool[p].fetch = "served" /\ UNCHANGED <<tiers, agent, conn, armed, call, down, doubled, raced>>
  BY DEF Fetched, Aged
<1> QED
  BY <1>2, <1>3, FetchEnds

\* A refresh fails and the catalog that was there is kept.
LEMMA FetchFailsStep ==
  ASSUME IInv, NEW p \in PoolIds, FetchFails(p)
  PROVE  IInv'
<1>1. PICK missed \in BOOLEAN : missed
  BY Zenon
<1>2. PICK cat \in {pool[p].cat, pool[p].got} : cat = pool[p].cat
  OBVIOUS
<1>3. pool' = [pool EXCEPT ![p].cat = cat, ![p].missed = missed, ![p].got = 0,
                           ![p].fetch = NextFetch(p), ![p].again = FALSE]
  <2>1. missed = TRUE
    BY <1>1, Zenon
  <2> DEFINE o == pool[p]
             f == NextFetch(p)
             r == [o EXCEPT !.missed = TRUE, !.got = 0, !.fetch = f, !.again = FALSE]
             t == [o EXCEPT !.cat = o.cat, !.missed = TRUE, !.got = 0, !.fetch = f, !.again = FALSE]
  <2>2. pool' = [pool EXCEPT ![p] = r]
    BY DEF FetchFails
  <2>3. o \in PoolRecords
    BY DEF IInv, Basics, PoolsFine
  <2> HIDE DEF o, f
  <2>4. r = t
    BY <2>3 DEF PoolRecords
  <2>5. pool' = [pool EXCEPT ![p] = t]
    BY <2>2, <2>4
  <2> QED
    BY <1>2, <2>1, <2>5 DEF o, f
<1>4. /\ pool[p].fetch # "idle"
      /\ UNCHANGED <<tiers, glob, entry, agent, conn, armed, call, down, doubled, raced>>
  BY DEF FetchFails, rt
<1> QED
  BY <1>1, <1>2, <1>3, <1>4, FetchEnds

\* A server's process ends.
LEMMA DiesStep ==
  ASSUME IInv, NEW p \in PoolIds, Dies(p)
  PROVE  IInv'
<1> DEFINE o == pool[p]
           r == [o EXCEPT !.st = "dead", !.note = FALSE, !.fetch = "idle", !.got = 0,
                          !.again = FALSE, !.missed = TRUE]
<1>1. o \in PoolRecords /\ Fine(o) /\ o.st = "open"
  BY DEF IInv, Basics, PoolsFine, Dies
<1>2. pool' = [pool EXCEPT ![p] = r]
  BY DEF Dies
<1> HIDE DEF o
<1>3. r \in PoolRecords
  BY <1>1 DEF PoolRecords
<1>4. /\ r.st = "dead" /\ r.cat = o.cat /\ r.ag = o.ag /\ r.live = o.live /\ r.note = FALSE
      /\ r.fetch = "idle" /\ r.got = 0 /\ r.again = FALSE /\ r.missed = TRUE
  BY <1>1 DEF PoolRecords
<1> HIDE DEF r
<1>5. Fine(r)
  BY <1>1, <1>4 DEF Fine, PoolRecords
<1> QED
  BY <1>1, <1>2, <1>3, <1>4, <1>5, PoolStep DEF Dies, rt, o, Connecting, Up

-----------------------------------------------------------------------------
(* A connect ends.                                                         *)

\* The pools that are up stay so, with their catalogs.
UpKept == \A q \in PoolIds : Up(q) => pool'[q].st \in {"open", "dead"} /\ pool'[q].cat = pool[q].cat

\* What the variables refer to is a pool or nothing.
LEMMA Referred ==
  ASSUME IInv
  PROVE  /\ glob.shut \in PoolRef /\ glob.use = glob.shut /\ glob.ctx \in Snapshots
         /\ glob.fresh \in BOOLEAN
         /\ \A a \in Agents : agent[a] \in PoolRef
         /\ \A k \in Agents \cup Sessions : conn[k] \in PoolRef
         /\ \A s \in Sessions : entry[s] # None =>
              /\ entry[s] \in Entries /\ entry[s].own \in PoolIds /\ entry[s].ag \in PoolRef
              /\ entry[s].snap \in Snapshots
         /\ \A q \in PoolIds : pool[q] \in PoolRecords /\ pool[q].ag \in PoolRef /\ Fine(pool[q])
         /\ \A c \in Callers : call[c] \in CallRecords /\ call[c].wait \in PoolRef
                               /\ call[c].ag \in PoolRef
BY DEF IInv, Basics, GlobalFine, GlobalRecords, Types, Entries, PoolsFine, PoolRecords, CallRecords

\* An entry that is left alone stays current.
LEMMA EntryKept ==
  ASSUME IInv, down = "no", ~raced, UpKept, NEW s \in Sessions, entry'[s] = entry[s]
  PROVE  EntryCurrent(entry[s])'
<1>1. CASE entry[s] = None
  BY <1>1 DEF EntryCurrent
<1>2. CASE entry[s] # None
  <2>1. /\ entry[s].ag # None => Up(entry[s].ag)
        /\ entry[s].fresh => LiveSnap(entry[s].snap)
    BY <1>2 DEF IInv, Caching, Current, EntryCurrent
  <2>2. entry[s].ag # None => pool'[entry[s].ag].st \in {"open", "dead"}
    BY <1>2, <2>1, Referred DEF UpKept, PoolRef
  <2>3. entry[s].fresh => LiveSnap(entry[s].snap)'
    BY <1>2, <2>1, SnapKept, Referred DEF UpKept
  <2> QED
    BY <2>2, <2>3 DEF EntryCurrent, Up
<1> QED
  BY <1>1, <1>2

\* So does the prebuilt context.
LEMMA GlobalKept ==
  ASSUME IInv, down = "no", ~raced, UpKept, glob' = glob
  PROVE  (glob.fresh => LiveSnap(glob.ctx))'
<1>1. glob.fresh => LiveSnap(glob.ctx)
  BY DEF IInv, Caching, Current
<1>2. PICK ctx \in Snapshots : ctx = glob.ctx
  BY Referred
<1>3. glob.fresh => LiveSnap(ctx)'
  BY <1>1, <1>2, SnapKept DEF UpKept
<1> QED
  BY <1>2, <1>3 DEF LiveSnap, Catalog, Up

\* The end of the connect of p: an open pool, or none.
LEMMA SettledPool ==
  ASSUME IInv, NEW p \in PoolIds, Connecting(p), pool' = Opened(p) \/ pool' = Abandoned(p)
  PROVE  /\ PoolsFine' /\ UpKept
         /\ \A q \in PoolIds : /\ Connecting(q)' <=> (Connecting(q) /\ q # p)
                               /\ q # p => pool'[q] = pool[q] /\ (Up(q)' <=> Up(q))
                               /\ pool[q].st = "closed" => pool'[q].st = "closed"
         /\ pool' = Opened(p) => Up(p)' /\ pool'[p].cat = pool[p].cat
         /\ pool' = Abandoned(p) => ~Up(p)'
         /\ ~Up(p)
<1> DEFINE o == pool[p]
           r == [o EXCEPT !.st = "open", !.ag = None]
<1>1. pool \in [PoolIds -> PoolRecords] /\ o \in PoolRecords /\ Fine(o) /\ o.st \in {"connecting", "listed"}
      /\ \A q \in PoolIds : Fine(pool[q])
  BY DEF IInv, Basics, PoolsFine, Connecting
<1>2. Unused \in PoolRecords /\ Fine(Unused) /\ Unused.st = "unused"
  BY DEF Unused, PoolRecords, Fine, PoolRef
<1>3. Opened(p) = [pool EXCEPT ![p] = r] /\ Abandoned(p) = [pool EXCEPT ![p] = Unused]
  BY DEF Opened, Abandoned
<1> HIDE DEF o
<1>4. r \in PoolRecords
  BY <1>1 DEF PoolRecords, PoolRef
<1>5. /\ r.st = "open" /\ r.cat = o.cat /\ r.live = o.live /\ r.note = o.note
      /\ r.fetch = o.fetch /\ r.got = o.got /\ r.again = o.again /\ r.missed = o.missed
  BY <1>1 DEF PoolRecords
<1> HIDE DEF r
<1>6. Fine(r)
  BY <1>1, <1>5 DEF Fine, PoolRecords
<1>7. PICK n \in {r, Unused} : /\ pool' = [pool EXCEPT ![p] = n]
                               /\ pool' = Opened(p) => n = r
                               /\ pool' = Abandoned(p) => n = Unused
  <2>1. r # Unused
    BY <1>2, <1>5
  <2>2. Opened(p)[p] = r /\ Abandoned(p)[p] = Unused
    BY <1>1, <1>3
  <2>3. CASE pool' = Opened(p)
    <3>1. r \in {r, Unused} /\ pool' = [pool EXCEPT ![p] = r] /\ ~(pool' = Abandoned(p))
      BY <1>3, <2>1, <2>2, <2>3
    <3> QED
      BY <3>1
  <2>4. CASE pool' = Abandoned(p)
    <3>1. Unused \in {r, Unused} /\ pool' = [pool EXCEPT ![p] = Unused] /\ ~(pool' = Opened(p))
      BY <1>3, <2>1, <2>2, <2>4
    <3> QED
      BY <3>1
  <2> QED
    BY <2>3, <2>4
<1>8. n \in PoolRecords /\ Fine(n) /\ n.st \notin {"connecting", "listed", "closed"}
  BY <1>2, <1>4, <1>5, <1>6, <1>7
<1>9. pool' \in [PoolIds -> PoolRecords] /\ \A q \in PoolIds : pool'[q] = IF q = p THEN n ELSE pool[q]
  BY <1>1, <1>7, <1>8
<1>10. PoolsFine'
  BY <1>1, <1>8, <1>9 DEF PoolsFine
<1>11. UpKept
  BY <1>1, <1>9 DEF UpKept, Up, o
<1>12. \A q \in PoolIds : /\ Connecting(q)' <=> (Connecting(q) /\ q # p)
                          /\ q # p => pool'[q] = pool[q] /\ (Up(q)' <=> Up(q))
                          /\ pool[q].st = "closed" => pool'[q].st = "closed"
  BY <1>1, <1>8, <1>9 DEF Connecting, Up, o
<1>13. /\ pool' = Opened(p) => Up(p)' /\ pool'[p].cat = pool[p].cat
       /\ pool' = Abandoned(p) => ~Up(p)'
       /\ ~Up(p)
  BY <1>1, <1>2, <1>5, <1>7, <1>9 DEF Up, o
<1> QED
  BY <1>10, <1>11, <1>12, <1>13

\* A connect of the global pool is over, well or not.
LEMMA GlobalDoneStep ==
  ASSUME IInv, NEW c \in Callers, GlobalDone(c)
  PROVE  IInv'
<1> DEFINE r == [call[c] EXCEPT !.pc = "middle", !.wait = None]
<1>1. PICK p \in PoolIds : /\ p = call[c].wait /\ KeyOf(p) = Global /\ p # None
                           /\ call[c].pc = "global" /\ Connecting(p)
  BY Referred DEF GlobalDone, IInv, Basics, Keyed, CallKeyed, PoolRef, Succeeds, Fails, Connecting
<1>2. pool' = Opened(p) \/ pool' = Abandoned(p)
  BY <1>1 DEF GlobalDone
<1>3. /\ PoolsFine' /\ UpKept
      /\ \A q \in PoolIds : /\ Connecting(q)' <=> (Connecting(q) /\ q # p)
                            /\ q # p => pool'[q] = pool[q] /\ (Up(q)' <=> Up(q))
                            /\ pool[q].st = "closed" => pool'[q].st = "closed"
      /\ ~Up(p)
  BY <1>1, <1>2, SettledPool
<1>4. /\ call' = [call EXCEPT ![c] = r]
      /\ UNCHANGED <<tiers, agent, entry, order, conn, armed, down, doubled, raced>>
  BY DEF GlobalDone
<1>5. call \in [Callers -> CallRecords] /\ call[c] \in CallRecords
  BY DEF IInv, Basics, Types
<1>6. r \in CallRecords /\ r.pc = "middle" /\ r.wait = None /\ r.dead = call[c].dead
  BY <1>5 DEF CallRecords, Running, PoolRef
<1> HIDE DEF r
<1>7. call' \in [Callers -> CallRecords] /\ \A d \in Callers : call'[d] = IF d = c THEN r ELSE call[d]
  BY <1>4, <1>5, <1>6
<1>8. Types'
  BY <1>4, <1>7 DEF IInv, Basics, Types
<1>9. \A d \in Callers : Session(d)' = Session(d)
  BY <1>4 DEF Session
<1>10. DeadAreClosed'
  BY <1>3, <1>5, <1>6, <1>7 DEF IInv, Basics, DeadAreClosed, CallRecords
<1>11. \A q \in PoolRef : (q # None /\ Up(q)) => pool'[q].st \in {"open", "dead"}
  BY <1>3 DEF UpKept, PoolRef
<1>12. /\ GlobalFine'
       /\ \/ glob'.shut = glob.shut /\ pool' = Abandoned(p)
          \/ glob'.shut = p /\ pool' = Opened(p)
       /\ ((down = "no" /\ ~raced) => LiveSnap(glob.ctx)')
  <2>1. CASE /\ pool' = Opened(p)
             /\ glob' = [glob EXCEPT !.use = p, !.shut = p, !.connected = TRUE, !.failed = FALSE,
                      !.rearm = FALSE, !.ctx = GlobalContext(p), !.fresh = TRUE]
    <3>1. GlobalContext(p) \in Snapshots /\ p \in PoolRef
      BY <1>1, GlobalContextFine DEF IInv, Basics, PoolRef
    <3>2. /\ glob' \in GlobalRecords /\ glob'.use = p /\ glob'.shut = p /\ glob'.connected = TRUE
          /\ glob'.ctx = GlobalContext(p)
      BY <2>1, <3>1 DEF IInv, Basics, GlobalFine, GlobalRecords
    <3>3. GlobalFine'
      BY <1>1, <3>2 DEF GlobalFine
    <3>4. Up(p)' /\ pool'[p].cat = pool[p].cat
      BY <1>1, <2>1, SettledPool
    <3>5. LiveSnap(glob.ctx)'
      BY <1>1, <3>2, <3>4 DEF GlobalContext, LiveSnap, Context, Catalog, Up
    <3> QED
      BY <2>1, <3>2, <3>3, <3>5
  <2>2. CASE /\ pool' = Abandoned(p)
             /\ glob' = [glob EXCEPT !.failed = TRUE, !.rearm = FALSE,
                      !.ctx = GlobalContext(glob.use), !.fresh = TRUE]
    <3>1. PICK ctx \in Snapshots : /\ ctx = GlobalContext(glob.use)
                                   /\ (down = "no" /\ ~raced) => LiveSnap(ctx)
      BY GlobalContextFine, GlobalUp DEF IInv, Basics
    <3>2. /\ glob' \in GlobalRecords /\ glob'.use = glob.use /\ glob'.shut = glob.shut
          /\ glob'.connected = glob.connected /\ glob'.failed = TRUE /\ glob'.ctx = ctx
      BY <2>2, <3>1 DEF IInv, Basics, GlobalFine, GlobalRecords
    <3>3. GlobalFine'
      BY <1>4, <3>2 DEF IInv, Basics, GlobalFine
    <3>4. ASSUME down = "no", ~raced PROVE LiveSnap(ctx)'
      BY <1>3, <3>1, <3>4, SnapKept DEF UpKept
    <3>5. ASSUME down = "no", ~raced PROVE LiveSnap(glob.ctx)'
      BY <3>2, <3>4, <3>5 DEF LiveSnap, Catalog, Up
    <3> QED
      BY <2>2, <3>2, <3>3, <3>5
  <2> QED
    BY <1>1, <2>1, <2>2 DEF GlobalDone
<1>13. Keyed'
  <2>1. \A d \in Callers : CallKeyed(call'[d], Session(d))
    BY <1>6, <1>7 DEF IInv, Basics, Keyed, CallKeyed
  <2>2. Under(glob'.shut, Global)
    BY <1>1, <1>12 DEF IInv, Basics, Keyed, Under
  <2> QED
    BY <1>3, <1>4, <1>9, <2>1, <2>2 DEF IInv, Basics, Keyed
<1>14. ASSUME down = "no" PROVE Joined' /\ Single' /\ UpAndOwned'
  <2> Joined /\ Single /\ UpAndOwned
    BY <1>14 DEF IInv, Owning
  <2>1. Joined'
    <3>1. ASSUME NEW k \in Agents \cup Sessions, conn[k] # None PROVE Connecting(conn[k])'
      <4>1. conn[k] \in PoolIds /\ Connecting(conn[k]) /\ KeyOf(conn[k]) = k
        BY <3>1, Referred DEF Joined, PoolRef, IInv, Basics, Keyed, Under
      <4>2. conn[k] # p
        BY <1>1, <4>1, McpAssumption
      <4>3. pool'[conn[k]].st \in {"connecting", "listed"}
        BY <1>3, <4>1, <4>2 DEF Connecting
      <4> QED
        BY <1>4, <4>3 DEF Connecting
    <3> QED
      BY <1>3, <1>4, <3>1 DEF Joined
  <2>2. Single'
    BY <1>1, <1>4, <1>6, <1>7 DEF Single
  <2>3. ASSUME NEW q \in PoolIds, Up(q)' PROVE OwnedBy(q, KeyOf(q))'
    <3>1. CASE q = p
      <4>1. glob'.shut = p
        BY <1>1, <1>2, <1>12, <2>3, <3>1, SettledPool
      <4> QED
        BY <1>1, <3>1, <4>1, McpAssumption DEF OwnedBy
    <3>2. CASE q # p
      <4>1. OwnedBy(q, KeyOf(q))
        BY <1>3, <2>3, <3>2 DEF UpAndOwned
      <4>2. (KeyOf(q) = Global /\ ~doubled) => glob'.shut = q
        BY <1>1, <1>12, <4>1, PoolsKeyed DEF Single, OwnedBy
      <4> QED
        BY <1>4, <4>1, <4>2 DEF OwnedBy
    <3> QED
      BY <3>1, <3>2
  <2>4. glob'.shut # None => Up(glob.shut)'
    <3>1. CASE glob'.shut = p /\ pool' = Opened(p)
      BY <1>1, <3>1, SettledPool DEF Up
    <3>2. CASE glob'.shut = glob.shut
      BY <1>11, <3>2, Referred DEF UpAndOwned, Up
    <3> QED
      BY <1>12, <3>1, <3>2
  <2>5. \A d \in Callers : (call'[d].pc = "last" /\ call'[d].ag # None) =>
          agent[AgentOf[Session(d)]] = call'[d].ag
    BY <1>6, <1>7 DEF UpAndOwned
  <2>6. /\ \A a \in Agents : agent[a] # None => Up(agent[a])'
        /\ \A s \in Sessions : entry[s] # None => Up(entry[s].own)'
    <3>1. \A a \in Agents : agent[a] # None => pool'[agent[a]].st \in {"open", "dead"}
      BY <1>11, Referred DEF UpAndOwned
    <3>2. \A s \in Sessions : entry[s] # None => pool'[entry[s].own].st \in {"open", "dead"}
      BY <1>3, Referred DEF UpAndOwned, UpKept
    <3> QED
      BY <1>4, <3>1, <3>2 DEF Up
  <2>7. UpAndOwned'
    BY <1>4, <1>9, <2>3, <2>4, <2>5, <2>6 DEF UpAndOwned
  <2> QED
    BY <2>1, <2>2, <2>7
<1>15. ASSUME down = "no", ~raced PROVE Current'
  <2> Current
    BY <1>15 DEF IInv, Caching
  <2>1. \A s \in Sessions : EntryCurrent(entry[s])'
    BY <1>3, <1>4, <1>15, EntryKept
  <2>2. (glob.fresh => LiveSnap(glob.ctx))'
    BY <1>12, <1>15
  <2>3. ASSUME NEW q \in PoolIds, Connecting(q)', KeyOf(q) \in Sessions, pool'[q].ag # None
        PROVE  Up(pool[q].ag)'
    <3>1. pool'[q].ag = pool[q].ag /\ pool[q].ag # None /\ Up(pool[q].ag)
      BY <1>3, <2>3 DEF Current
    <3> QED
      BY <1>11, <3>1, Referred DEF Up
  <2>4. \A d \in Callers : call'[d].pc = "run" => call'[d].dead = {}
    BY <1>6, <1>7 DEF Current
  <2> QED
    BY <2>1, <2>2, <2>3, <2>4 DEF Current
<1> QED
  BY <1>3, <1>4, <1>8, <1>10, <1>12, <1>13, <1>14, <1>15 DEF IInv, Basics, Owning, Caching

\* All who wait for the agent's pool have waited for it under its key.
LEMMA WaitersOf ==
  ASSUME IInv, NEW p \in PoolIds, KeyOf(p) \in Agents \cup Sessions, NEW c \in Waiters(p)
  PROVE  /\ c \in Callers /\ call[c] \in CallRecords /\ call[c].wait = p
         /\ KeyOf(p) \in Agents => call[c].pc = "agent" /\ AgentOf[Session(c)] = KeyOf(p)
         /\ KeyOf(p) \in Sessions => call[c].pc = "session" /\ Session(c) = KeyOf(p)
<1>1. c \in Callers /\ call[c] \in CallRecords /\ call[c].wait = p /\ p # None
      /\ CallKeyed(call[c], Session(c))
  BY PoolsKeyed DEF Waiters, IInv, Basics, Types, Keyed
<1>2. Session(c) \in Sessions /\ AgentOf[Session(c)] \in Agents
  BY <1>1, CallerKeys DEF IInv, Basics
<1> QED
  BY <1>1, <1>2, McpAssumption DEF CallKeyed

\* Before shutdown the connect under way of a key is the only thing of that key.
LEMMA OnlyConnect ==
  ASSUME IInv, down = "no", NEW p \in PoolIds, Connecting(p)
  PROVE  /\ KeyOf(p) \in Agents => conn[KeyOf(p)] = p /\ agent[KeyOf(p)] = None
         /\ KeyOf(p) \in Sessions => conn[KeyOf(p)] = p /\ entry[KeyOf(p)] = None
BY PoolsKeyed, McpAssumption DEF IInv, Owning, Joined

\* The connect of p is over: who joins what, and under which key.
LEMMA ConnectOver ==
  ASSUME IInv, NEW p \in PoolIds, KeyOf(p) \in Agents \cup Sessions, Connecting(p),
         conn' = [conn EXCEPT ![KeyOf(p)] = None],
         \A q \in PoolIds : /\ Connecting(q)' => Connecting(q) /\ q # p /\ pool'[q].ag = pool[q].ag
                            /\ (down = "no" /\ Connecting(q) /\ q # p) => Connecting(q)'
  PROVE  /\ conn' \in [Agents \cup Sessions -> PoolRef]
         /\ \A k \in Agents \cup Sessions :
              conn'[k] # None => k # KeyOf(p) /\ conn'[k] = conn[k] /\ Under(conn'[k], k)
         /\ \A q \in PoolIds : (Connecting(q)' /\ KeyOf(q) \in Sessions) =>
              Under(pool'[q].ag, AgentOf[KeyOf(q)])
         /\ down = "no" => /\ \A k \in Agents \cup Sessions : conn'[k] # None => Connecting(conn[k])'
                           /\ \A q \in PoolIds : (Connecting(q)' /\ KeyOf(q) # Global) => conn'[KeyOf(q)] = q
<1>1. conn' \in [Agents \cup Sessions -> PoolRef]
      /\ \A k \in Agents \cup Sessions : conn'[k] = IF k = KeyOf(p) THEN None ELSE conn[k]
  BY DEF IInv, Basics, Types, PoolRef
<1>2. \A k \in Agents \cup Sessions :
        conn'[k] # None => k # KeyOf(p) /\ conn'[k] = conn[k] /\ Under(conn'[k], k)
  BY <1>1 DEF IInv, Basics, Keyed
<1>3. \A q \in PoolIds : (Connecting(q)' /\ KeyOf(q) \in Sessions) => Under(pool'[q].ag, AgentOf[KeyOf(q)])
  BY DEF IInv, Basics, Keyed
<1>4. ASSUME down = "no", NEW k \in Agents \cup Sessions, conn'[k] # None
      PROVE  Connecting(conn[k])'
  <2>1. PICK q \in PoolIds : q = conn'[k]
    BY <1>1, <1>4 DEF PoolRef
  <2>2. Connecting(q) /\ q # p
    BY <1>2, <1>4, <2>1 DEF IInv, Owning, Joined, Under
  <2>3. Connecting(q)'
    BY <1>4, <2>2
  <2> QED
    BY <2>1, <2>3 DEF Connecting
<1>5. ASSUME down = "no", NEW q \in PoolIds, Connecting(q)', KeyOf(q) # Global
      PROVE  conn'[KeyOf(q)] = q
  <2>1. Connecting(q) /\ q # p /\ conn[KeyOf(q)] = q /\ KeyOf(q) \in Agents \cup Sessions
    BY <1>5, PoolsKeyed DEF IInv, Owning, Joined, Keys
  <2>2. KeyOf(q) # KeyOf(p)
    <3>1. KeyOf(p) # Global
      BY McpAssumption
    <3>2. conn[KeyOf(p)] = p
      BY <1>5, <3>1 DEF IInv, Owning, Joined
    <3> QED
      BY <2>1, <3>2
  <2> QED
    BY <1>1, <2>1, <2>2
<1> QED
  BY <1>1, <1>2, <1>3, <1>4, <1>5

\* What an agent's connect leads to: all who waited go on, with the pool or without.
LEMMA AgentDoneStep ==
  ASSUME IInv, NEW p \in PoolIds, AgentDone(p)
  PROVE  IInv'
<1> DEFINE k == KeyOf(p)
<1>1. k \in Agents /\ Connecting(p) /\ p # None /\ k # Global /\ k \notin Sessions
  BY PoolsKeyed, McpAssumption DEF AgentDone, Succeeds, Fails, Connecting
<1>2. PICK ag \in {p, None} :
        /\ ag = p => pool' = Opened(p) /\ agent' = [agent EXCEPT ![k] = p]
        /\ ag = None => pool' = Abandoned(p) /\ agent' = agent
        /\ AgentResumes(p, ag)
  BY <1>1 DEF AgentDone
<1>3. /\ PoolsFine' /\ UpKept
      /\ \A q \in PoolIds : /\ Connecting(q)' <=> (Connecting(q) /\ q # p)
                            /\ q # p => pool'[q] = pool[q] /\ (Up(q)' <=> Up(q))
                            /\ pool[q].st = "closed" => pool'[q].st = "closed"
      /\ ag = p => Up(p)'
      /\ ag = None => ~Up(p)'
      /\ ~Up(p)
  BY <1>1, <1>2, SettledPool
<1>4. /\ conn' = [conn EXCEPT ![k] = None]
      /\ UNCHANGED <<tiers, glob, entry, order, armed, down, doubled, raced>>
  BY <1>2 DEF AgentResumes
<1>5. \A q \in PoolIds : /\ Connecting(q)' => Connecting(q) /\ q # p /\ pool'[q].ag = pool[q].ag
                         /\ (down = "no" /\ Connecting(q) /\ q # p) => Connecting(q)'
  BY <1>3
<1>6. /\ conn' \in [Agents \cup Sessions -> PoolRef]
      /\ \A x \in Agents \cup Sessions :
           conn'[x] # None => x # k /\ conn'[x] = conn[x] /\ Under(conn'[x], x)
      /\ \A q \in PoolIds : (Connecting(q)' /\ KeyOf(q) \in Sessions) =>
           Under(pool'[q].ag, AgentOf[KeyOf(q)])
      /\ down = "no" => /\ \A x \in Agents \cup Sessions : conn'[x] # None => Connecting(conn[x])'
                        /\ \A q \in PoolIds : (Connecting(q)' /\ KeyOf(q) # Global) => conn'[KeyOf(q)] = q
  BY <1>1, <1>4, <1>5, ConnectOver
<1>7. \A c \in Callers :
        /\ call'[c] \in CallRecords
        /\ c \notin Waiters(p) => call'[c] = call[c]
        /\ c \in Waiters(p) => /\ call'[c].pc = "last" /\ call'[c].wait = None
                               /\ call'[c].ag = ag /\ call'[c].dead = call[c].dead
                               /\ AgentOf[Session(c)] = k
  <2> SUFFICES ASSUME NEW c \in Callers
               PROVE  /\ call'[c] \in CallRecords
                      /\ c \notin Waiters(p) => call'[c] = call[c]
                      /\ c \in Waiters(p) => /\ call'[c].pc = "last" /\ call'[c].wait = None
                                             /\ call'[c].ag = ag /\ call'[c].dead = call[c].dead
                                             /\ AgentOf[Session(c)] = k
    OBVIOUS
  <2> DEFINE r == [call[c] EXCEPT !.pc = "last", !.wait = None, !.ag = ag]
  <2>1. call'[c] = IF c \in Waiters(p) THEN r ELSE call[c]
    BY <1>2 DEF AgentResumes
  <2>2. call[c] \in CallRecords
    BY Referred
  <2>3. r \in CallRecords /\ r.pc = "last" /\ r.wait = None /\ r.ag = ag /\ r.dead = call[c].dead
    BY <2>2 DEF CallRecords, Running, PoolRef
  <2>4. c \in Waiters(p) => AgentOf[Session(c)] = k
    BY <1>1, WaitersOf
  <2> HIDE DEF r, k
  <2> QED
    BY <2>1, <2>2, <2>3, <2>4
<1>8. call' \in [Callers -> CallRecords]
  BY <1>2, <1>7 DEF AgentResumes
<1>9. agent' \in [Agents -> PoolRef]
      /\ \A a \in Agents : agent'[a] = IF a = k /\ ag = p THEN p ELSE agent[a]
  BY <1>1, <1>2 DEF IInv, Basics, Types, PoolRef
<1> HIDE DEF k
<1>10. \A c \in Callers : Session(c)' = Session(c)
  BY <1>4 DEF Session
<1>11. Basics'
  <2>1. Types'
    BY <1>4, <1>6, <1>8, <1>9 DEF IInv, Basics, Types
  <2>2. GlobalFine'
    BY <1>4 DEF IInv, Basics, GlobalFine
  <2>3. DeadAreClosed'
    BY <1>3, <1>7, Referred DEF IInv, Basics, DeadAreClosed, CallRecords
  <2>4. \A c \in Callers : CallKeyed(call'[c], Session(c))
    <3> SUFFICES ASSUME NEW c \in Callers PROVE CallKeyed(call'[c], Session(c))
      OBVIOUS
    <3>1. CASE c \in Waiters(p)
      BY <1>1, <1>2, <1>7, <3>1 DEF CallKeyed, Under, k
    <3>2. CASE c \notin Waiters(p)
      BY <1>7, <3>2 DEF IInv, Basics, Keyed
    <3> QED
      BY <3>1, <3>2
  <2>5. \A a \in Agents : Under(agent'[a], a)
    BY <1>9 DEF IInv, Basics, Keyed, Under, k
  <2>6. Keyed'
    <3>1. \A x \in Agents \cup Sessions : Under(conn'[x], x)
      BY <1>6 DEF Under
    <3> QED
      BY <1>4, <1>6, <1>10, <2>4, <2>5, <3>1 DEF IInv, Basics, Keyed
  <2> QED
    BY <1>3, <2>1, <2>2, <2>3, <2>6 DEF Basics
<1>12. ASSUME down = "no" PROVE Joined' /\ Single' /\ UpAndOwned'
  <2> Joined /\ Single /\ UpAndOwned
    BY <1>12 DEF IInv, Owning
  <2>1. agent[k] = None /\ conn[k] = p
    BY <1>1, <1>12, OnlyConnect DEF k
  <2>2. Joined'
    <3>2. \A x \in Agents \cup Sessions : (conn[x] # None => Connecting(conn[x]))'
      BY <1>6, <1>12
    <3>3. \A a \in Agents : conn'[a] # None => agent'[a] = None
      BY <1>6, <1>9 DEF Joined
    <3>4. \A s \in Sessions : conn'[s] # None => entry'[s] = None
      BY <1>4, <1>6 DEF Joined
    <3> QED
      BY <1>6, <1>12, <3>2, <3>3, <3>4 DEF Joined, Connecting
  <2>3. Single'
    BY <1>4, <1>7 DEF Single
  <2>4. ASSUME NEW q \in PoolIds, Up(q)' PROVE OwnedBy(q, KeyOf(q))'
    <3>1. CASE q = p
      BY <1>1, <1>3, <1>9, <1>2, <2>4, <3>1 DEF OwnedBy, k
    <3>2. CASE q # p
      <4>1. OwnedBy(q, KeyOf(q))
        BY <1>3, <2>4, <3>2 DEF UpAndOwned
      <4>2. KeyOf(q) \in Agents => agent'[KeyOf(q)] = q
        BY <1>9, <2>1, <4>1, PoolsKeyed DEF OwnedBy
      <4> QED
        BY <1>4, <4>1, <4>2 DEF OwnedBy
    <3> QED
      BY <3>1, <3>2
  <2>5. ASSUME NEW a \in Agents, agent'[a] # None PROVE Up(agent[a])'
    <3>1. CASE a = k /\ ag = p
      BY <1>3, <1>9, <3>1 DEF Up
    <3>2. CASE ~(a = k /\ ag = p)
      <4>1. agent'[a] = agent[a] /\ agent[a] \in PoolIds /\ Up(agent[a])
        BY <1>9, <2>5, <3>2, Referred DEF UpAndOwned, PoolRef
      <4> QED
        BY <1>3, <4>1 DEF Up, UpKept
    <3> QED
      BY <3>1, <3>2
  <2>6. \A c \in Callers : (call'[c].pc = "last" /\ call'[c].ag # None) =>
          agent'[AgentOf[Session(c)]] = call'[c].ag
    <3> SUFFICES ASSUME NEW c \in Callers, call'[c].pc = "last", call'[c].ag # None
                 PROVE  agent'[AgentOf[Session(c)]] = call'[c].ag
      OBVIOUS
    <3>1. CASE c \in Waiters(p)
      BY <1>1, <1>7, <1>9, <3>1
    <3>2. CASE c \notin Waiters(p)
      <4>1. agent[AgentOf[Session(c)]] = call'[c].ag /\ AgentOf[Session(c)] \in Agents
        BY <1>7, <3>2, CallerKeys DEF UpAndOwned, IInv, Basics
      <4> QED
        BY <1>9, <2>1, <4>1
    <3> QED
      BY <3>1, <3>2
  <2>7. (glob.shut # None => Up(glob.shut)') /\ \A s \in Sessions : entry[s] # None => Up(entry[s].own)'
    <3>1. glob.shut # None => pool'[glob.shut].st \in {"open", "dead"}
      BY <1>3, Referred DEF UpAndOwned, UpKept, PoolRef
    <3>2. \A s \in Sessions : entry[s] # None => pool'[entry[s].own].st \in {"open", "dead"}
      BY <1>3, Referred DEF UpAndOwned, UpKept
    <3> QED
      BY <1>4, <3>1, <3>2 DEF Up
  <2>8. UpAndOwned'
    <3>1. \A a \in Agents : (agent[a] # None)' => Up(agent[a])'
      BY <2>5
    <3> QED
      BY <1>4, <1>10, <2>4, <2>6, <2>7, <3>1 DEF UpAndOwned
  <2> QED
    BY <2>2, <2>3, <2>8
<1>13. ASSUME down = "no", ~raced PROVE Current'
  <2> Current
    BY <1>13 DEF IInv, Caching
  <2>1. \A s \in Sessions : EntryCurrent(entry[s])'
    BY <1>3, <1>4, <1>13, EntryKept
  <2>2. (glob.fresh => LiveSnap(glob.ctx))'
    BY <1>3, <1>4, <1>13, GlobalKept
  <2>3. ASSUME NEW q \in PoolIds, Connecting(q)', KeyOf(q) \in Sessions, pool'[q].ag # None
        PROVE  Up(pool[q].ag)'
    <3>1. pool'[q].ag = pool[q].ag /\ pool[q].ag \in PoolIds /\ Up(pool[q].ag)
      BY <1>3, <2>3, Referred DEF Current, PoolRef
    <3> QED
      BY <1>3, <3>1 DEF Up, UpKept
  <2>4. \A c \in Callers : call'[c].pc = "run" => call'[c].dead = {}
    BY <1>7 DEF Current
  <2> QED
    BY <2>1, <2>2, <2>3, <2>4 DEF Current
<1> QED
  BY <1>4, <1>11, <1>12, <1>13 DEF IInv, Owning, Caching

-----------------------------------------------------------------------------
(* A session's connect.                                                    *)

\* A context has the pools it was made of.
LEMMA ContextPools ==
  ASSUME NEW g \in PoolRef, NEW a \in PoolRef, NEW s \in PoolRef
  PROVE  PoolsOf(Context(g, a, s)) \subseteq {g, a, s} \ {None}
<1>1. \A q \in PoolRef : Catalog(q) # None => q # None /\ Catalog(q).pool = q
  BY DEF Catalog
<1>2. DOMAIN Context(g, a, s) = {"global", "agent", "session"}
      /\ Context(g, a, s)["global"] = Catalog(g) /\ Context(g, a, s)["agent"] = Catalog(a)
      /\ Context(g, a, s)["session"] = Catalog(s)
  BY DEF Context
<1>3. SUFFICES ASSUME NEW p \in PoolsOf(Context(g, a, s)) PROVE p \in {g, a, s} \ {None}
  OBVIOUS
<1>4. PICK t \in {"global", "agent", "session"} : Context(g, a, s)[t] # None /\ Context(g, a, s)[t].pool = p
  BY <1>2, <1>3 DEF PoolsOf
<1> QED
  BY <1>1, <1>2, <1>4

\* All who waited for the session's connect return with a context that has no
\* pool that was closed before they entered.
LEMMA SessionResumes ==
  ASSUME IInv, NEW p \in PoolIds, Connecting(p), KeyOf(p) \in Sessions, NEW x \in {p, None},
         call' = [c \in Callers |->
                    IF c \in Waiters(p) THEN Returns(call[c], Context(glob.use, pool[p].ag, x))
                    ELSE call[c]]
  PROVE  /\ call' \in [Callers -> CallRecords]
         /\ \A c \in Callers : /\ CallKeyed(call'[c], Session(c))
                               /\ call'[c].dead \subseteq call[c].dead
                               /\ call'[c].pc \in {"global", "last"} => call'[c] = call[c]
                               /\ (down = "no" /\ ~raced /\ call'[c].pc = "run") => call'[c].dead = {}
<1> DEFINE ctx == Context(glob.use, pool[p].ag, x)
<1>1. /\ glob.use \in PoolRef /\ pool[p].ag \in PoolRef /\ x \in PoolRef /\ PoolsFine
      /\ DeadAreClosed /\ Keyed /\ p # None
  BY Referred, PoolsKeyed DEF IInv, Basics, PoolRef
<1>2. ctx \in Snapshots /\ PoolsOf(ctx) \subseteq {glob.use, pool[p].ag, x} \ {None}
  BY <1>1, ContextTyped, ContextPools
<1>3. ASSUME down = "no", ~raced, NEW q \in PoolsOf(ctx) PROVE pool[q].st # "closed"
  <2>1. CASE q = glob.use
    BY <1>2, <1>3, <2>1, GlobalUp DEF Up
  <2>2. CASE q = pool[p].ag
    BY <1>2, <1>3, <2>2 DEF IInv, Caching, Current, Up
  <2>3. CASE q = p
    BY <2>3 DEF Connecting
  <2> QED
    BY <1>2, <2>1, <2>2, <2>3
<1> HIDE DEF ctx
<1>4. ASSUME NEW c \in Callers
      PROVE  /\ call'[c] \in CallRecords /\ CallKeyed(call'[c], Session(c))
             /\ call'[c].dead \subseteq call[c].dead
             /\ call'[c].pc \in {"global", "last"} => call'[c] = call[c]
             /\ (down = "no" /\ ~raced /\ call'[c].pc = "run") => call'[c].dead = {}
  <2>1. call[c] \in CallRecords
    BY Referred
  <2>2. CASE c \in Waiters(p)
    <3> DEFINE r == Returns(call[c], ctx)
    <3>1. call'[c] = r
      BY <2>2 DEF ctx
    <3>2. /\ r \in CallRecords /\ r.pc = "run" /\ r.wait = None
          /\ r.dead = call[c].dead \cap PoolsOf(ctx)
      BY <1>2, <2>1, ReturnsTyped
    <3> HIDE DEF r
    <3>3. CallKeyed(r, Session(c))
      BY <3>2 DEF CallKeyed
    <3> QED
      BY <1>1, <1>3, <3>1, <3>2, <3>3 DEF DeadAreClosed
  <2>3. CASE c \notin Waiters(p)
    <3>1. call'[c] = call[c]
      BY <2>3
    <3> QED
      BY <1>1, <2>1, <3>1 DEF Keyed, IInv, Caching, Current
  <2> QED
    BY <2>2, <2>3
<1> QED
  BY <1>4

\* The fallback without the session's own servers.
LEMMA SessionFailsStep ==
  ASSUME IInv, NEW p \in PoolIds, SessionFails(p)
  PROVE  IInv'
<1>1. KeyOf(p) \in Sessions /\ Connecting(p) /\ p # None /\ KeyOf(p) # Global /\ KeyOf(p) \notin Agents
  BY PoolsKeyed, McpAssumption DEF SessionFails, Fails, Connecting
<1>2. /\ pool' = Abandoned(p) /\ conn' = [conn EXCEPT ![KeyOf(p)] = None]
      /\ call' = [c \in Callers |->
                    IF c \in Waiters(p) THEN Returns(call[c], Context(glob.use, pool[p].ag, None))
                    ELSE call[c]]
      /\ UNCHANGED <<tiers, glob, agent, entry, order, armed, down, doubled, raced>>
  BY DEF SessionFails
<1>3. /\ PoolsFine' /\ UpKept
      /\ \A q \in PoolIds : /\ Connecting(q)' <=> (Connecting(q) /\ q # p)
                            /\ q # p => pool'[q] = pool[q] /\ (Up(q)' <=> Up(q))
                            /\ pool[q].st = "closed" => pool'[q].st = "closed"
      /\ ~Up(p)'
  BY <1>1, <1>2, SettledPool
<1>4. \A q \in PoolIds : /\ Connecting(q)' => Connecting(q) /\ q # p /\ pool'[q].ag = pool[q].ag
                         /\ (down = "no" /\ Connecting(q) /\ q # p) => Connecting(q)'
  BY <1>3
<1>5. /\ conn' \in [Agents \cup Sessions -> PoolRef]
      /\ \A x \in Agents \cup Sessions :
           conn'[x] # None => x # KeyOf(p) /\ conn'[x] = conn[x] /\ Under(conn'[x], x)
      /\ \A q \in PoolIds : (Connecting(q)' /\ KeyOf(q) \in Sessions) =>
           Under(pool'[q].ag, AgentOf[KeyOf(q)])
      /\ down = "no" => /\ \A x \in Agents \cup Sessions : conn'[x] # None => Connecting(conn[x])'
                        /\ \A q \in PoolIds : (Connecting(q)' /\ KeyOf(q) # Global) => conn'[KeyOf(q)] = q
  BY <1>1, <1>2, <1>4, ConnectOver
<1>6. /\ call' \in [Callers -> CallRecords]
      /\ \A c \in Callers : /\ CallKeyed(call'[c], Session(c))
                            /\ call'[c].dead \subseteq call[c].dead
                            /\ call'[c].pc \in {"global", "last"} => call'[c] = call[c]
                            /\ (down = "no" /\ ~raced /\ call'[c].pc = "run") => call'[c].dead = {}
  BY <1>1, <1>2, SessionResumes
<1>7. \A c \in Callers : Session(c)' = Session(c)
  BY <1>2 DEF Session
<1>8. Basics'
  <2>1. Types'
    BY <1>2, <1>5, <1>6 DEF IInv, Basics, Types
  <2>2. GlobalFine'
    BY <1>2 DEF IInv, Basics, GlobalFine
  <2>3. DeadAreClosed'
    BY <1>3, <1>6, Referred DEF IInv, Basics, DeadAreClosed, CallRecords
  <2>4. Keyed'
    <3>1. \A x \in Agents \cup Sessions : Under(conn'[x], x)
      BY <1>5 DEF Under
    <3> QED
      BY <1>2, <1>5, <1>6, <1>7, <3>1 DEF IInv, Basics, Keyed
  <2> QED
    BY <1>3, <2>1, <2>2, <2>3, <2>4 DEF Basics
<1>9. ASSUME down = "no" PROVE Joined' /\ Single' /\ UpAndOwned'
  <2> Joined /\ Single /\ UpAndOwned
    BY <1>9 DEF IInv, Owning
  <2>1. Joined'
    <3>1. \A x \in Agents \cup Sessions : (conn[x] # None => Connecting(conn[x]))'
      BY <1>5, <1>9
    <3>2. \A a \in Agents : conn'[a] # None => agent'[a] = None
      BY <1>2, <1>5 DEF Joined
    <3>3. \A s \in Sessions : conn'[s] # None => entry'[s] = None
      BY <1>2, <1>5 DEF Joined
    <3> QED
      BY <1>5, <1>9, <3>1, <3>2, <3>3 DEF Joined, Connecting
  <2>2. Single'
    BY <1>2, <1>6 DEF Single
  <2>3. ASSUME NEW q \in PoolIds, Up(q)' PROVE OwnedBy(q, KeyOf(q))'
    BY <1>2, <1>3, <2>3 DEF OwnedBy, UpAndOwned
  <2>4. \A c \in Callers : (call'[c].pc = "last" /\ call'[c].ag # None) =>
          agent'[AgentOf[Session(c)]] = call'[c].ag
    BY <1>2, <1>6 DEF UpAndOwned
  <2>5. /\ glob.shut # None => Up(glob.shut)'
        /\ \A a \in Agents : agent[a] # None => Up(agent[a])'
        /\ \A s \in Sessions : entry[s] # None => Up(entry[s].own)'
    <3>1. /\ glob.shut # None => pool'[glob.shut].st \in {"open", "dead"}
          /\ \A a \in Agents : agent[a] # None => pool'[agent[a]].st \in {"open", "dead"}
      BY <1>3, Referred DEF UpAndOwned, UpKept, PoolRef
    <3>2. \A s \in Sessions : entry[s] # None => pool'[entry[s].own].st \in {"open", "dead"}
      BY <1>3, Referred DEF UpAndOwned, UpKept
    <3> QED
      BY <1>2, <3>1, <3>2 DEF Up
  <2>6. UpAndOwned'
    BY <1>2, <1>7, <2>3, <2>4, <2>5 DEF UpAndOwned
  <2> QED
    BY <2>1, <2>2, <2>6
<1>10. ASSUME down = "no", ~raced PROVE Current'
  <2> Current
    BY <1>10 DEF IInv, Caching
  <2>1. \A s \in Sessions : EntryCurrent(entry[s])'
    BY <1>2, <1>3, <1>10, EntryKept
  <2>2. (glob.fresh => LiveSnap(glob.ctx))'
    BY <1>2, <1>3, <1>10, GlobalKept
  <2>3. ASSUME NEW q \in PoolIds, Connecting(q)', KeyOf(q) \in Sessions, pool'[q].ag # None
        PROVE  Up(pool[q].ag)'
    <3>1. pool'[q].ag = pool[q].ag /\ pool[q].ag \in PoolIds /\ Up(pool[q].ag)
      BY <1>3, <2>3, Referred DEF Current, PoolRef
    <3> QED
      BY <1>3, <3>1 DEF Up, UpKept
  <2>4. \A c \in Callers : call'[c].pc = "run" => call'[c].dead = {}
    BY <1>6, <1>10
  <2> QED
    BY <2>1, <2>2, <2>3, <2>4 DEF Current
<1> QED
  BY <1>2, <1>8, <1>9, <1>10 DEF IInv, Owning, Caching

\* The pools of the entries of the sessions that are gone.
Discarded(gone) ==
  {q \in PoolIds : KeyOf(q) \in gone /\ entry[KeyOf(q)] # None /\ entry[KeyOf(q)].own = q}

\* A pool that has been closed is one nothing happens to.
LEMMA ClosedFine ==
  ASSUME IInv, NEW q \in PoolIds
  PROVE  /\ Closed(q) \in PoolRecords /\ Fine(Closed(q)) /\ Closed(q).st = "closed"
         /\ Closed(q).ag = None
<1> DEFINE cat == pool[q].cat
           r == [Unused EXCEPT !.st = "closed", !.cat = cat]
<1>1. cat \in Nat
  BY Referred DEF PoolRecords
<1>2. Closed(q) = r
  BY DEF Closed
<1> HIDE DEF cat
<1>3. r \in PoolRecords
  BY <1>1 DEF Unused, PoolRecords, PoolRef
<1>4. /\ r.st = "closed" /\ r.ag = None /\ r.live = 0 /\ r.note = FALSE /\ r.fetch = "idle"
      /\ r.got = 0 /\ r.again = FALSE /\ r.missed = FALSE
  BY DEF Unused
<1> HIDE DEF r
<1>5. Fine(r)
  BY <1>4 DEF Fine
<1> QED
  BY <1>2, <1>3, <1>4, <1>5

\* What a session's connect does to the pools and the entries.  The session that
\* is dropped when there are too many is another one: the newest is the first in
\* the order, and the cache has room for one.
LEMMA SessionUpDoes ==
  ASSUME IInv, NEW p \in PoolIds, SessionUp(p)
  PROVE  \E gone \in SUBSET Sessions, over \in BOOLEAN :
           /\ KeyOf(p) \in Sessions \ gone
           /\ ~over => gone = {}
           /\ pool' = [q \in PoolIds |-> IF q = p THEN Opened(p)[p]
                                         ELSE IF q \in Discarded(gone) THEN Closed(q) ELSE pool[q]]
           /\ glob' = IF over THEN [glob EXCEPT !.fresh = FALSE] ELSE glob
           /\ entry' \in [Sessions -> Entries \cup {None}]
           /\ entry'[KeyOf(p)] # None /\ entry'[KeyOf(p)].own = p
           /\ entry'[KeyOf(p)].ag = pool[p].ag
           /\ entry'[KeyOf(p)].fresh =>
                entry'[KeyOf(p)].snap = Context(glob.use, pool[p].ag, p)
           /\ over => \A x \in Sessions : entry'[x] # None => ~entry'[x].fresh
           /\ \A x \in Sessions \ {KeyOf(p)} :
                /\ x \in gone => entry'[x] = None
                /\ x \notin gone => /\ entry'[x] = None <=> entry[x] = None
                                    /\ entry'[x] # None => /\ entry'[x].own = entry[x].own
                                                           /\ entry'[x].ag = entry[x].ag
                                                           /\ entry'[x].fresh => entry'[x] = entry[x]
           /\ armed' \subseteq armed
<1> DEFINE s == KeyOf(p)
           ctx == Context(glob.use, pool[p].ag, p)
           own == [snap |-> ctx, ag |-> pool[p].ag, own |-> p, fresh |-> TRUE]
           Oldest == {x \in Sessions : Tracked(s)[x] > CacheLimit}
           over == Oldest # {}
           old == CHOOSE x \in Oldest : TRUE
           full == [entry EXCEPT ![s] = own]
           gone == IF over THEN {old} ELSE {}
           left == [full EXCEPT ![old] = None]
<1>1. /\ s \in Sessions
      /\ pool' = [q \in PoolIds |->
                    IF q = p THEN Opened(p)[p]
                    ELSE IF over /\ full[old] # None /\ q = full[old].own THEN Closed(q)
                    ELSE pool[q]]
      /\ entry' = IF over THEN AgeAll(left) ELSE full
      /\ glob' = IF over THEN [glob EXCEPT !.fresh = FALSE] ELSE glob
      /\ armed' = IF over THEN armed \ {old} ELSE armed
  BY DEF SessionUp
<1>2. Tracked(s)[s] = 1 /\ CacheLimit \in Nat \ {0}
  BY <1>1, McpAssumption DEF Tracked
<1>3. over => old \in Sessions /\ old # s
  <2>1. s \notin Oldest
    <3> DEFINE n == Tracked(s)[s]
    <3>1. n = 1
      BY <1>2
    <3> HIDE DEF n
    <3>2. ~ (n > CacheLimit)
      BY <1>2, <3>1
    <3> QED
      BY <3>2 DEF n
  <2> HIDE DEF s
  <2> QED
    BY <2>1
<1>4. own \in Entries /\ own # None
  <2>1. glob.use \in PoolRef /\ pool[p].ag \in PoolRef /\ p \in PoolRef /\ PoolsFine
    BY Referred DEF IInv, Basics, PoolRef
  <2>2. ctx \in Snapshots
    BY <2>1, ContextTyped
  <2> HIDE DEF ctx
  <2>3. own \in Entries
    BY <2>1, <2>2 DEF Entries
  <2> QED
    BY <2>3, McpAssumption
<1>5. entry \in [Sessions -> Entries \cup {None}]
  BY DEF IInv, Basics, Types
<1>6. own.own = p /\ own.ag = pool[p].ag /\ own.snap = ctx
  OBVIOUS
<1> HIDE DEF own, ctx, s, Oldest, over, old
<1>7. full \in [Sessions -> Entries \cup {None}]
      /\ \A x \in Sessions : full[x] = IF x = s THEN own ELSE entry[x]
  BY <1>1, <1>4, <1>5
<1>8. left \in [Sessions -> Entries \cup {None}]
      /\ (over => \A x \in Sessions : left[x] = IF x = old THEN None ELSE full[x])
  BY <1>3, <1>7
<1>9. AgeAll(left) \in [Sessions -> Entries \cup {None}]
      /\ \A x \in Sessions :
           /\ AgeAll(left)[x] = None <=> left[x] = None
           /\ left[x] # None => /\ AgeAll(left)[x].own = left[x].own
                                /\ AgeAll(left)[x].ag = left[x].ag
                                /\ ~AgeAll(left)[x].fresh
  <2> HIDE DEF left
  <2> QED
    BY <1>8, AgeTyped
<1> HIDE DEF left, full
<1>10. gone \in SUBSET Sessions /\ s \in Sessions \ gone /\ (~over => gone = {})
       /\ \A x \in Sessions : x \in gone <=> over /\ x = old
  BY <1>1, <1>3
<1>11. pool' = [q \in PoolIds |-> IF q = p THEN Opened(p)[p]
                                  ELSE IF q \in Discarded(gone) THEN Closed(q) ELSE pool[q]]
  <2>1. ASSUME NEW q \in PoolIds, q # p
        PROVE  (over /\ full[old] # None /\ q = full[old].own) <=> q \in Discarded(gone)
    <3>1. over => full[old] = entry[old] /\ (entry[old] # None => KeyOf(entry[old].own) = old)
      BY <1>3, <1>7 DEF IInv, Basics, Keyed, EntryKeyed
    <3> QED
      BY <1>10, <3>1 DEF Discarded
  <2> QED
    BY <1>1, <2>1
<1> HIDE DEF gone
<1>12. entry' \in [Sessions -> Entries \cup {None}]
  BY <1>1, <1>7, <1>9
<1>13. /\ entry'[s] # None /\ entry'[s].own = p /\ entry'[s].ag = pool[p].ag
       /\ entry'[s].fresh => entry'[s].snap = ctx
  <2>1. CASE over
    <3>1. left[s] = own
      BY <1>1, <1>3, <1>7, <1>8, <2>1
    <3> QED
      BY <1>1, <1>4, <1>6, <1>9, <2>1, <3>1
  <2>2. CASE ~over
    BY <1>1, <1>4, <1>6, <1>7, <2>2
  <2> QED
    BY <2>1, <2>2
<1>14. \A x \in Sessions \ {s} :
         /\ x \in gone => entry'[x] = None
         /\ x \notin gone => /\ entry'[x] = None <=> entry[x] = None
                             /\ entry'[x] # None => /\ entry'[x].own = entry[x].own
                                                    /\ entry'[x].ag = entry[x].ag
                                                    /\ entry'[x].fresh => entry'[x] = entry[x]
  <2> SUFFICES ASSUME NEW x \in Sessions \ {s}
               PROVE  /\ x \in gone => entry'[x] = None
                      /\ x \notin gone => /\ entry'[x] = None <=> entry[x] = None
                                          /\ entry'[x] # None => /\ entry'[x].own = entry[x].own
                                                                 /\ entry'[x].ag = entry[x].ag
                                                                 /\ entry'[x].fresh => entry'[x] = entry[x]
    OBVIOUS
  <2>1. CASE over
    <3>1. left[x] = IF x \in gone THEN None ELSE entry[x]
      BY <1>7, <1>8, <1>10, <2>1
    <3> QED
      BY <1>1, <1>9, <2>1, <3>1
  <2>2. CASE ~over
    BY <1>1, <1>7, <1>10, <2>2
  <2> QED
    BY <2>1, <2>2
<1>15. armed' \subseteq armed
  BY <1>1
<1>16. over \in BOOLEAN
  BY Zenon DEF over
<1>17. over => \A x \in Sessions : entry'[x] # None => ~entry'[x].fresh
  BY <1>1, <1>9
<1> QED
  BY <1>1, <1>10, <1>11, <1>12, <1>13, <1>14, <1>15, <1>16, <1>17 DEF s, ctx

\* A session's pool is up, and with it the session's entry.
LEMMA SessionUpStep ==
  ASSUME IInv, NEW p \in PoolIds, SessionUp(p)
  PROVE  IInv'
<1> DEFINE s == KeyOf(p)
<1>1. s \in Sessions /\ Connecting(p) /\ ~Up(p) /\ p # None /\ s # Global /\ s \notin Agents
  BY PoolsKeyed, McpAssumption DEF SessionUp, Succeeds, Connecting, Up
<1>2. PICK gone \in SUBSET Sessions, over \in BOOLEAN :
        /\ s \in Sessions \ gone
        /\ ~over => gone = {}
        /\ pool' = [q \in PoolIds |-> IF q = p THEN Opened(p)[p]
                                      ELSE IF q \in Discarded(gone) THEN Closed(q) ELSE pool[q]]
        /\ glob' = IF over THEN [glob EXCEPT !.fresh = FALSE] ELSE glob
        /\ entry' \in [Sessions -> Entries \cup {None}]
        /\ entry'[s] # None /\ entry'[s].own = p
        /\ entry'[s].ag = pool[p].ag
        /\ entry'[s].fresh => entry'[s].snap = Context(glob.use, pool[p].ag, p)
        /\ over => \A x \in Sessions : entry'[x] # None => ~entry'[x].fresh
        /\ \A x \in Sessions \ {s} :
             /\ x \in gone => entry'[x] = None
             /\ x \notin gone => /\ entry'[x] = None <=> entry[x] = None
                                 /\ entry'[x] # None => /\ entry'[x].own = entry[x].own
                                                        /\ entry'[x].ag = entry[x].ag
                                                        /\ entry'[x].fresh => entry'[x] = entry[x]
        /\ armed' \subseteq armed
  BY SessionUpDoes
<1>3. /\ conn' = [conn EXCEPT ![s] = None]
      /\ \E x \in {p, None} : x = p /\
           call' = [c \in Callers |->
                      IF c \in Waiters(p) THEN Returns(call[c], Context(glob.use, pool[p].ag, x))
                      ELSE call[c]]
      /\ UNCHANGED <<tiers, agent, down, doubled, raced>>
  BY DEF SessionUp
<1> HIDE DEF s
<1>4. \A q \in PoolIds : /\ q = p => Opened(p)[p] \in PoolRecords /\ Fine(Opened(p)[p])
                                     /\ Opened(p)[p].st = "open" /\ Opened(p)[p].cat = pool[p].cat
                                     /\ Opened(p)[p].ag = None
                         /\ Closed(q) \in PoolRecords /\ Fine(Closed(q)) /\ Closed(q).st = "closed"
  <2>1. pool \in [PoolIds -> PoolRecords] /\ pool[p] \in PoolRecords /\ Fine(pool[p])
    BY Referred DEF IInv, Basics, PoolsFine
  <2> DEFINE o == pool[p]
             r == [o EXCEPT !.st = "open", !.ag = None]
  <2>2. Opened(p)[p] = r
    BY <2>1 DEF Opened
  <2> HIDE DEF o
  <2>3. r \in PoolRecords
    BY <2>1 DEF PoolRecords, PoolRef, o
  <2>4. /\ r.st = "open" /\ r.ag = None /\ r.cat = o.cat /\ r.live = o.live /\ r.note = o.note
        /\ r.fetch = o.fetch /\ r.got = o.got /\ r.again = o.again /\ r.missed = o.missed
    BY <2>1 DEF PoolRecords, o
  <2> HIDE DEF r
  <2>5. Fine(r)
    BY <1>1, <2>1, <2>4 DEF Fine, PoolRecords, Connecting, o
  <2> QED
    BY <2>2, <2>3, <2>4, <2>5, ClosedFine DEF o
<1>5. \A q \in PoolIds :
        /\ pool'[q] \in PoolRecords /\ Fine(pool'[q])
        /\ q = p => pool'[q].st = "open" /\ pool'[q].cat = pool[q].cat
        /\ q # p => \/ q \notin Discarded(gone) /\ pool'[q] = pool[q]
                    \/ q \in Discarded(gone) /\ pool'[q].st = "closed"
  <2> SUFFICES ASSUME NEW q \in PoolIds
               PROVE  /\ pool'[q] \in PoolRecords /\ Fine(pool'[q])
                      /\ q = p => pool'[q].st = "open" /\ pool'[q].cat = pool[q].cat
                      /\ q # p => \/ q \notin Discarded(gone) /\ pool'[q] = pool[q]
                                  \/ q \in Discarded(gone) /\ pool'[q].st = "closed"
    OBVIOUS
  <2>1. pool'[q] = IF q = p THEN Opened(p)[p] ELSE IF q \in Discarded(gone) THEN Closed(q) ELSE pool[q]
    BY <1>2
  <2>2. pool[q] \in PoolRecords /\ Fine(pool[q])
    BY Referred
  <2> QED
    BY <1>4, <2>1, <2>2
<1>6. PoolsFine'
  BY <1>2, <1>5 DEF PoolsFine
<1>7. \A q \in PoolIds : Connecting(q)' => Connecting(q) /\ q # p /\ pool'[q].ag = pool[q].ag
  BY <1>5 DEF Connecting
<1>8. \A q \in PoolIds : pool[q].st = "closed" => pool'[q].st = "closed"
  BY <1>1, <1>5 DEF Connecting
<1>9. \A q \in PoolIds : q \in Discarded(gone) =>
        KeyOf(q) \in gone /\ entry[KeyOf(q)] # None /\ q = entry[KeyOf(q)].own /\ KeyOf(q) \in Sessions
  BY DEF Discarded
<1>10. ASSUME down = "no", NEW q \in PoolIds, Connecting(q), q # p PROVE Connecting(q)'
  <2>1. q \notin Discarded(gone)
    BY <1>9, <1>10 DEF IInv, Owning, UpAndOwned, Connecting, Up
  <2> QED
    BY <1>5, <1>10, <2>1 DEF Connecting
<1>11. /\ conn' \in [Agents \cup Sessions -> PoolRef]
       /\ \A x \in Agents \cup Sessions :
            conn'[x] # None => x # s /\ conn'[x] = conn[x] /\ Under(conn'[x], x)
       /\ \A q \in PoolIds : (Connecting(q)' /\ KeyOf(q) \in Sessions) =>
            Under(pool'[q].ag, AgentOf[KeyOf(q)])
       /\ down = "no" => /\ \A x \in Agents \cup Sessions : conn'[x] # None => Connecting(conn[x])'
                         /\ \A q \in PoolIds : (Connecting(q)' /\ KeyOf(q) # Global) => conn'[KeyOf(q)] = q
  BY <1>1, <1>3, <1>7, <1>10, ConnectOver DEF s
<1>12. /\ call' \in [Callers -> CallRecords]
       /\ \A c \in Callers : /\ CallKeyed(call'[c], Session(c))
                             /\ call'[c].dead \subseteq call[c].dead
                             /\ call'[c].pc \in {"global", "last"} => call'[c] = call[c]
                             /\ (down = "no" /\ ~raced /\ call'[c].pc = "run") => call'[c].dead = {}
  BY <1>1, <1>3, SessionResumes DEF s
<1>13. \A c \in Callers : Session(c)' = Session(c)
  BY <1>3 DEF Session
<1>14. /\ glob' \in GlobalRecords
       /\ glob'.use = glob.use /\ glob'.shut = glob.shut /\ glob'.connected = glob.connected
       /\ glob'.failed = glob.failed /\ glob'.rearm = glob.rearm /\ glob'.ctx = glob.ctx
       /\ glob'.fresh = (glob.fresh /\ ~over)
  <2>1. glob \in GlobalRecords
    BY DEF IInv, Basics, GlobalFine
  <2>2. CASE over
    BY <1>2, <2>1, <2>2 DEF GlobalRecords
  <2>3. CASE ~over
    BY <1>2, <2>1, <2>3 DEF GlobalRecords
  <2> QED
    BY <2>2, <2>3
<1>15. Basics'
  <2>1. Types'
    BY <1>2, <1>3, <1>11, <1>12 DEF IInv, Basics, Types
  <2>2. GlobalFine'
    BY <1>3, <1>14 DEF IInv, Basics, GlobalFine
  <2>3. DeadAreClosed'
    BY <1>8, <1>12, Referred DEF IInv, Basics, DeadAreClosed, CallRecords
  <2>4. \A x \in Sessions : EntryKeyed(entry'[x], x)
    <3>1. EntryKeyed(entry'[s], s)
      BY <1>1, <1>2 DEF IInv, Basics, Keyed, EntryKeyed, s
    <3>2. \A x \in Sessions \ {s} : EntryKeyed(entry'[x], x)
      BY <1>2 DEF IInv, Basics, Keyed, EntryKeyed
    <3> QED
      BY <3>1, <3>2
  <2>5. Keyed'
    <3>1. \A x \in Agents \cup Sessions : Under(conn'[x], x)
      BY <1>11 DEF Under
    <3>2. Under(glob'.shut, Global)
      BY <1>14 DEF IInv, Basics, Keyed
    <3> QED
      BY <1>3, <1>11, <1>12, <1>13, <2>4, <3>1, <3>2 DEF IInv, Basics, Keyed
  <2> QED
    BY <1>6, <2>1, <2>2, <2>3, <2>5 DEF Basics
<1>16. \A q \in PoolIds : (KeyOf(q) \notin Sessions /\ Up(q)) =>
         pool'[q].st \in {"open", "dead"} /\ pool'[q].cat = pool[q].cat
  BY <1>1, <1>5, <1>9 DEF Up
<1>17. ASSUME down = "no" PROVE Joined' /\ Single' /\ UpAndOwned'
  <2> Joined /\ Single /\ UpAndOwned
    BY <1>17 DEF IInv, Owning
  <2>1. entry[s] = None /\ conn[s] = p
    BY <1>1, <1>17, OnlyConnect DEF s
  <2>2. Joined'
    <3>1. \A x \in Agents \cup Sessions : (conn[x] # None => Connecting(conn[x]))'
      BY <1>11, <1>17
    <3>2. \A a \in Agents : conn'[a] # None => agent'[a] = None
      BY <1>3, <1>11 DEF Joined
    <3>3. \A x \in Sessions : conn'[x] # None => entry'[x] = None
      BY <1>2, <1>11 DEF Joined
    <3> QED
      BY <1>11, <1>17, <3>1, <3>2, <3>3 DEF Joined, Connecting
  <2>3. Single'
    BY <1>3, <1>12, <1>14 DEF Single
  <2>4. ASSUME NEW q \in PoolIds, Up(q)' PROVE OwnedBy(q, KeyOf(q))'
    <3>1. CASE q = p
      BY <1>1, <1>2, <3>1 DEF OwnedBy, s
    <3>2. CASE q # p
      <4>1. Up(q) /\ OwnedBy(q, KeyOf(q)) /\ q \notin Discarded(gone)
        BY <1>5, <2>4, <3>2 DEF UpAndOwned, Up
      <4>2. KeyOf(q) \in Sessions => KeyOf(q) # s /\ KeyOf(q) \notin gone
        BY <2>1, <4>1 DEF OwnedBy, Discarded
      <4> QED
        BY <1>2, <1>3, <1>14, <4>1, <4>2 DEF OwnedBy
    <3> QED
      BY <3>1, <3>2
  <2>5. \A c \in Callers : (call'[c].pc = "last" /\ call'[c].ag # None) =>
          agent'[AgentOf[Session(c)]] = call'[c].ag
    BY <1>3, <1>12 DEF UpAndOwned
  <2>6. /\ glob.shut # None => Up(glob.shut)'
        /\ \A a \in Agents : agent[a] # None => Up(agent[a])'
    <3>1. glob.shut # None => glob.shut \in PoolIds /\ Up(glob.shut) /\ KeyOf(glob.shut) \notin Sessions
      BY Referred, McpAssumption DEF UpAndOwned, PoolRef, IInv, Basics, Keyed, Under
    <3>2. \A a \in Agents : agent[a] # None =>
            agent[a] \in PoolIds /\ Up(agent[a]) /\ KeyOf(agent[a]) \notin Sessions
      BY Referred, McpAssumption DEF UpAndOwned, PoolRef, IInv, Basics, Keyed, Under
    <3> QED
      BY <1>3, <1>14, <1>16, <3>1, <3>2 DEF Up
  <2>7. ASSUME NEW x \in Sessions, entry'[x] # None PROVE Up(entry[x].own)'
    <3>1. CASE x = s
      BY <1>2, <1>5, <3>1 DEF Up
    <3>2. CASE x # s
      <4>1. /\ x \notin gone /\ entry'[x].own = entry[x].own /\ entry[x] # None /\ entry[x].own \in PoolIds
            /\ KeyOf(entry[x].own) = x /\ Up(entry[x].own)
        BY <1>2, <2>7, <3>2, Referred DEF UpAndOwned, IInv, Basics, Keyed, EntryKeyed
      <4>2. pool'[entry[x].own] = pool[entry[x].own]
        BY <1>1, <1>5, <1>9, <4>1
      <4> QED
        BY <4>1, <4>2 DEF Up
    <3> QED
      BY <3>1, <3>2
  <2>8. UpAndOwned'
    <3>1. \A x \in Sessions : (entry[x] # None => Up(entry[x].own))'
      BY <2>7
    <3>2. (glob.shut # None => Up(glob.shut))' /\ \A a \in Agents : (agent[a] # None => Up(agent[a]))'
      BY <1>3, <1>14, <2>6 DEF Up
    <3> QED
      BY <1>3, <1>13, <2>4, <2>5, <3>1, <3>2 DEF UpAndOwned
  <2> QED
    BY <2>2, <2>3, <2>8
<1>18. ASSUME down = "no", ~raced PROVE Current'
  <2> Current /\ UpAndOwned
    BY <1>18 DEF IInv, Caching, Owning
  <2>1. ~over => UpKept
    BY <1>1, <1>2, <1>5 DEF UpKept, Up, Discarded
  <2>2. ASSUME NEW ag \in PoolRef, NEW k \in Agents, ag # None, Up(ag), Under(ag, k)
        PROVE  pool'[ag].st \in {"open", "dead"} /\ pool'[ag].cat = pool[ag].cat
    <3>1. ag \in PoolIds /\ KeyOf(ag) \notin Sessions
      BY <2>2, McpAssumption DEF PoolRef, Under
    <3> QED
      BY <1>16, <2>2, <3>1
  <2>3. AgentOf[s] \in Agents /\ Under(pool[p].ag, AgentOf[s]) /\ pool[p].ag \in PoolRef
        /\ (pool[p].ag # None => Up(pool[p].ag))
    BY <1>1, Referred DEF Current, IInv, Basics, Keyed, Agents, s
  <2>4. pool[p].ag # None => pool'[pool[p].ag].st \in {"open", "dead"}
                             /\ pool'[pool[p].ag].cat = pool[pool[p].ag].cat
    BY <2>2, <2>3
  <2>5. ASSUME entry'[s].fresh PROVE LiveSnap(entry[s].snap)'
    <3>1. entry'[s].snap = Context(glob.use, pool[p].ag, p)
      BY <1>2, <2>5
    <3>2. glob.use # None => pool'[glob.use].st \in {"open", "dead"} /\ pool'[glob.use].cat = pool[glob.use].cat
      <4>1. glob.use # None => glob.use \in PoolIds /\ Up(glob.use) /\ KeyOf(glob.use) \notin Sessions
        BY Referred, McpAssumption DEF UpAndOwned, PoolRef, IInv, Basics, Keyed, Under
      <4> QED
        BY <1>16, <4>1
    <3>3. pool'[p].st = "open" /\ pool'[p].cat = pool[p].cat
      BY <1>5
    <3> QED
      BY <1>1, <2>4, <3>1, <3>2, <3>3 DEF LiveSnap, Context, Catalog, Up
  <2>6. EntryCurrent(entry[s])'
    <3>1. entry'[s].ag # None => Up(entry[s].ag)'
      BY <1>2, <2>4 DEF Up
    <3> QED
      BY <2>5, <3>1 DEF EntryCurrent
  <2>7. ASSUME NEW x \in Sessions, x # s PROVE EntryCurrent(entry[x])'
    <3>1. CASE entry'[x] = entry[x] /\ ~over
      BY <1>18, <2>1, <3>1, EntryKept
    <3>2. CASE entry'[x] # None /\ ~entry'[x].fresh
      <4>1. entry[x] # None /\ entry'[x].ag = entry[x].ag /\ Under(entry[x].ag, AgentOf[x])
            /\ entry[x].ag \in PoolRef /\ AgentOf[x] \in Agents /\ (entry[x].ag # None => Up(entry[x].ag))
        BY <1>2, <2>7, <3>2, Referred DEF Current, EntryCurrent, IInv, Basics, Keyed, EntryKeyed, Agents
      <4>2. entry[x].ag # None => pool'[entry[x].ag].st \in {"open", "dead"}
        BY <2>2, <4>1
      <4>3. entry'[x].ag # None => Up(entry[x].ag)'
        BY <4>1, <4>2 DEF Up
      <4> QED
        BY <3>2, <4>3 DEF EntryCurrent
    <3>3. CASE entry'[x] = None
      BY <3>3 DEF EntryCurrent
    <3> QED
      BY <1>2, <2>7, <3>1, <3>2, <3>3
  <2>8. (glob.fresh => LiveSnap(glob.ctx))'
    <3>1. CASE over
      BY <1>14, <3>1
    <3>2. CASE ~over
      BY <1>2, <1>18, <2>1, <3>2, GlobalKept
    <3> QED
      BY <3>1, <3>2
  <2>9. ASSUME NEW q \in PoolIds, Connecting(q)', KeyOf(q) \in Sessions, pool'[q].ag # None
        PROVE  Up(pool[q].ag)'
    <3>1. /\ pool'[q].ag = pool[q].ag /\ pool[q].ag \in PoolRef /\ Up(pool[q].ag)
          /\ AgentOf[KeyOf(q)] \in Agents /\ Under(pool[q].ag, AgentOf[KeyOf(q)])
      BY <1>7, <2>9, Referred DEF Current, IInv, Basics, Keyed, Agents
    <3>2. pool'[pool[q].ag].st \in {"open", "dead"}
      BY <2>2, <2>9, <3>1
    <3> QED
      BY <3>1, <3>2 DEF Up
  <2>10. \A c \in Callers : call'[c].pc = "run" => call'[c].dead = {}
    BY <1>12, <1>18
  <2>11. \A x \in Sessions : EntryCurrent(entry[x])'
    BY <2>6, <2>7
  <2> QED
    BY <2>8, <2>9, <2>10, <2>11 DEF Current
<1> QED
  BY <1>3, <1>15, <1>17, <1>18 DEF IInv, Owning, Caching

-----------------------------------------------------------------------------
(* Idle eviction.                                                          *)

\* Closing pools leaves the rest as it is, and a connect under way goes on.
LEMMA CloseAllFine ==
  ASSUME IInv, NEW ps, pool' = CloseAll(ps)
  PROVE  /\ PoolsFine'
         /\ \A q \in PoolIds : /\ Connecting(q)' <=> Connecting(q)
                               /\ Connecting(q) => pool'[q] = pool[q]
                               /\ Up(q)' <=> (Up(q) /\ q \notin ps)
                               /\ q \notin ps => pool'[q] = pool[q]
                               /\ pool[q].st = "closed" => pool'[q].st = "closed"
<1>1. \A q \in PoolIds : pool'[q] = IF q \in ps /\ Up(q) THEN Closed(q) ELSE pool[q]
  BY DEF CloseAll
<1>2. \A q \in PoolIds : pool[q] \in PoolRecords /\ Fine(pool[q])
  BY Referred
<1>3. \A q \in PoolIds : Closed(q) \in PoolRecords /\ Fine(Closed(q)) /\ Closed(q).st = "closed"
  BY ClosedFine
<1>4. \A q \in PoolIds : pool'[q] \in PoolRecords /\ Fine(pool'[q])
  BY <1>1, <1>2, <1>3
<1>5. PoolsFine'
  BY <1>4 DEF PoolsFine, CloseAll
<1> QED
  BY <1>1, <1>3, <1>5 DEF Connecting, Up

\* The keys that are gone lose their pools and whatever refers to them: the
\* global pool, agents and sessions, and with an agent all its sessions.
LEMMA EvictStep ==
  ASSUME IInv, Quiet, NEW gone \in SUBSET Keys, NEW ps, pool' = CloseAll(ps),
         \A q \in PoolIds : q \in ps => KeyOf(q) \in gone,
         Global \in gone /\ glob.shut # None => glob.shut \in ps,
         \A a \in Agents : (a \in gone /\ agent[a] # None) => agent[a] \in ps,
         \A x \in Sessions : (x \in gone /\ entry[x] # None) => entry[x].own \in ps,
         GlobalFine', glob'.shut = IF Global \in gone THEN None ELSE glob.shut,
         glob'.fresh => glob'.ctx = [global |-> None, agent |-> None, session |-> None],
         agent' = [a \in Agents |-> IF a \in gone THEN None ELSE agent[a]],
         entry' \in [Sessions -> Entries \cup {None}],
         \A x \in Sessions : /\ entry'[x] = None <=> (x \in gone \/ entry[x] = None)
                             /\ entry'[x] # None => /\ entry'[x].own = entry[x].own
                                                    /\ entry'[x].ag = entry[x].ag
                                                    /\ ~entry'[x].fresh
                                                    /\ AgentOf[x] \notin gone,
         \A q \in PoolIds : (~raced' /\ Connecting(q) /\ KeyOf(q) \in Sessions /\ pool[q].ag # None)
                             => pool[q].ag \notin ps,
         armed' \subseteq Keys, raced' \in BOOLEAN, raced => raced',
         UNCHANGED <<tiers, conn, call, down, doubled>>
  PROVE  IInv'
<1>1. /\ PoolsFine'
      /\ \A q \in PoolIds : /\ Connecting(q)' <=> Connecting(q)
                            /\ Connecting(q) => pool'[q] = pool[q]
                            /\ Up(q)' <=> (Up(q) /\ q \notin ps)
                            /\ q \notin ps => pool'[q] = pool[q]
                            /\ pool[q].st = "closed" => pool'[q].st = "closed"
  BY CloseAllFine
<1>2. \A c \in Callers : Session(c)' = Session(c)
  BY DEF Session
<1>3. Basics'
  <2>1. Types'
    BY DEF IInv, Basics, Types, PoolRef
  <2>2. DeadAreClosed'
    BY <1>1, Referred DEF IInv, Basics, DeadAreClosed, CallRecords
  <2>3. Keyed'
    <3>1. Under(glob'.shut, Global) /\ \A a \in Agents : Under(agent'[a], a)
      BY DEF IInv, Basics, Keyed, Under
    <3>2. \A x \in Sessions : EntryKeyed(entry'[x], x)
      BY DEF IInv, Basics, Keyed, EntryKeyed
    <3>3. \A q \in PoolIds : (Connecting(q)' /\ KeyOf(q) \in Sessions) => Under(pool'[q].ag, AgentOf[KeyOf(q)])
      BY <1>1 DEF IInv, Basics, Keyed
    <3> QED
      BY <1>2, <3>1, <3>2, <3>3 DEF IInv, Basics, Keyed
  <2> QED
    BY <1>1, <2>1, <2>2, <2>3 DEF Basics
<1>4. ASSUME down = "no" PROVE Joined' /\ Single' /\ UpAndOwned'
  <2> Joined /\ Single /\ UpAndOwned
    BY <1>4 DEF IInv, Owning
  <2>1. Joined'
    <3>1. \A k \in Agents \cup Sessions : conn[k] # None => Connecting(conn[k])'
      <4> SUFFICES ASSUME NEW k \in Agents \cup Sessions, conn[k] # None PROVE Connecting(conn[k])'
        OBVIOUS
      <4>1. conn[k] \in PoolIds /\ Connecting(conn[k])
        BY Referred DEF Joined, PoolRef
      <4> QED
        BY <1>1, <4>1 DEF Connecting
    <3>2. \A k \in Agents \cup Sessions : (conn[k] # None => Connecting(conn[k]))'
      BY <3>1 DEF Connecting
    <3>3. \A q \in PoolIds : (Connecting(q)' /\ KeyOf(q) # Global) => conn'[KeyOf(q)] = q
      BY <1>1 DEF Joined
    <3>4. (\A a \in Agents : conn'[a] # None => agent'[a] = None)
          /\ \A x \in Sessions : conn'[x] # None => entry'[x] = None
      BY DEF Joined
    <3> QED
      BY <3>2, <3>3, <3>4 DEF Joined, Connecting
  <2>2. Single'
    BY DEF Single
  <2>3. ASSUME NEW q \in PoolIds, Up(q)' PROVE OwnedBy(q, KeyOf(q))'
    <3>1. OwnedBy(q, KeyOf(q)) /\ q \notin ps /\ q # None
      BY <1>1, <2>3, PoolsKeyed DEF UpAndOwned
    <3> QED
      BY <3>1 DEF OwnedBy
  <2>4. glob'.shut # None => Up(glob.shut)'
    <3>1. glob'.shut # None => /\ glob.shut \in PoolIds /\ Up(glob.shut) /\ KeyOf(glob.shut) = Global
                               /\ Global \notin gone
      BY Referred DEF UpAndOwned, PoolRef, IInv, Basics, Keyed, Under
    <3> QED
      BY <1>1, <3>1
  <2>5. ASSUME NEW a \in Agents, agent'[a] # None PROVE Up(agent[a])'
    <3>1. a \notin gone /\ agent'[a] = agent[a] /\ agent[a] \in PoolIds /\ Up(agent[a]) /\ KeyOf(agent[a]) = a
      BY <2>5, Referred DEF UpAndOwned, PoolRef, IInv, Basics, Keyed, Under
    <3>2. pool'[agent[a]].st \in {"open", "dead"}
      BY <1>1, <3>1 DEF Up
    <3> QED
      BY <3>1, <3>2 DEF Up
  <2>6. ASSUME NEW x \in Sessions, entry'[x] # None PROVE Up(entry[x].own)'
    <3>1. /\ x \notin gone /\ entry'[x].own = entry[x].own /\ entry[x].own \in PoolIds
          /\ Up(entry[x].own) /\ KeyOf(entry[x].own) = x
      BY <2>6, Referred DEF UpAndOwned, IInv, Basics, Keyed, EntryKeyed
    <3>2. pool'[entry[x].own].st \in {"open", "dead"}
      BY <1>1, <3>1 DEF Up
    <3> QED
      BY <3>1, <3>2 DEF Up
  <2>7. \A c \in Callers : call'[c].pc # "last"
    BY DEF Quiet, Running
  <2>8. UpAndOwned'
    <3>1. (glob.shut # None => Up(glob.shut))'
      <4>1. glob'.shut # None => glob'.shut = glob.shut /\ pool'[glob.shut].st \in {"open", "dead"}
        BY <2>4 DEF Up
      <4> QED
        BY <4>1 DEF Up
    <3>2. (\A a \in Agents : (agent[a] # None => Up(agent[a]))')
          /\ \A x \in Sessions : (entry[x] # None => Up(entry[x].own))'
      BY <2>5, <2>6
    <3> QED
      BY <2>3, <2>7, <3>1, <3>2 DEF UpAndOwned
  <2> QED
    BY <2>1, <2>2, <2>8
<1>5. ASSUME down = "no", ~raced' PROVE Current'
  <2> Current
    BY <1>5 DEF IInv, Caching
  <2>1. ASSUME NEW x \in Sessions PROVE EntryCurrent(entry[x])'
    <3>1. CASE entry'[x] = None
      BY <3>1 DEF EntryCurrent
    <3>2. CASE entry'[x] # None /\ entry'[x].ag # None
      <4>1. /\ entry[x] # None /\ entry'[x].ag = entry[x].ag /\ entry[x].ag \in PoolIds
            /\ Up(entry[x].ag) /\ KeyOf(entry[x].ag) = AgentOf[x] /\ AgentOf[x] \notin gone
        BY <3>2, Referred DEF Current, EntryCurrent, PoolRef, IInv, Basics, Keyed, EntryKeyed, Under
      <4>2. pool'[entry[x].ag].st \in {"open", "dead"}
        BY <1>1, <4>1 DEF Up
      <4> QED
        BY <3>2, <4>1, <4>2 DEF EntryCurrent, Up
    <3>3. CASE entry'[x] # None /\ entry'[x].ag = None
      BY <3>3 DEF EntryCurrent
    <3> QED
      BY <3>1, <3>2, <3>3
  <2>2. (glob.fresh => LiveSnap(glob.ctx))'
    BY DEF LiveSnap
  <2>3. ASSUME NEW q \in PoolIds, Connecting(q)', KeyOf(q) \in Sessions, pool'[q].ag # None
        PROVE  Up(pool[q].ag)'
    <3>1. /\ pool'[q].ag = pool[q].ag /\ pool[q].ag \in PoolIds /\ Up(pool[q].ag)
          /\ pool[q].ag \notin ps
      BY <1>1, <1>5, <2>3, Referred DEF Current, PoolRef
    <3>2. pool'[pool[q].ag].st \in {"open", "dead"}
      BY <1>1, <3>1 DEF Up
    <3> QED
      BY <3>1, <3>2 DEF Up
  <2>4. \A c \in Callers : call'[c].pc = "run" => call'[c].dead = {}
    BY DEF Current
  <2> QED
    BY <2>1, <2>2, <2>3, <2>4 DEF Current
<1> QED
  BY <1>3, <1>4, <1>5 DEF IInv, Owning, Caching

\* The global variables with their context out of date.
LEMMA GlobalAged ==
  ASSUME IInv, glob' = [glob EXCEPT !.fresh = FALSE], UNCHANGED tiers
  PROVE  GlobalFine' /\ glob'.shut = glob.shut /\ ~glob'.fresh
<1>1. glob \in GlobalRecords
  BY DEF IInv, Basics, GlobalFine
<1>2. /\ glob' \in GlobalRecords /\ ~glob'.fresh
      /\ glob'.use = glob.use /\ glob'.shut = glob.shut /\ glob'.connected = glob.connected
      /\ glob'.failed = glob.failed /\ glob'.rearm = glob.rearm
  BY <1>1 DEF GlobalRecords
<1> QED
  BY <1>2 DEF IInv, Basics, GlobalFine

\* The idle global pool goes, and the next connect re-arms its circuits.
LEMMA EvictGlobalStep ==
  ASSUME IInv, EvictGlobal
  PROVE  IInv'
<1> DEFINE ps == {glob.shut}
           gone == {Global}
           none == [global |-> None, agent |-> None, session |-> None]
<1>1. glob \in GlobalRecords /\ glob.use = glob.shut /\ (glob.connected <=> glob.shut # None)
  BY DEF IInv, Basics, GlobalFine
<1>2. GlobalContext(None) = none /\ none \in Snapshots
  BY DEF GlobalContext, Context, Catalog, Snapshots, CatalogRef
<1>3. glob' = [glob EXCEPT !.use = None, !.shut = None, !.connected = FALSE, !.failed = FALSE,
                 !.rearm = TRUE, !.ctx = GlobalContext(None), !.fresh = TRUE]
  <2>1. glob' = [glob EXCEPT !.use = IF glob.shut = None THEN glob.use ELSE None, !.shut = None,
                   !.connected = IF glob.shut = None THEN glob.connected ELSE FALSE,
                   !.failed = FALSE, !.rearm = TRUE,
                   !.ctx = GlobalContext(IF glob.shut = None THEN glob.use ELSE None), !.fresh = TRUE]
    BY DEF EvictGlobal
  <2>2. CASE glob.shut = None
    <3>1. glob.use = None /\ glob.connected = FALSE
      BY <1>1, <2>2 DEF GlobalRecords
    <3> QED
      BY <2>1, <2>2, <3>1
  <2>3. CASE glob.shut # None
    BY <2>1, <2>3
  <2> QED
    BY <2>2, <2>3
<1>4. PICK ctx \in Snapshots : ctx = GlobalContext(None) /\ ctx = none
  BY <1>2
<1>5. /\ glob' \in GlobalRecords /\ glob'.use = None /\ glob'.shut = None /\ glob'.connected = FALSE
      /\ glob'.rearm = TRUE /\ glob'.ctx = none
  <2> HIDE DEF none
  <2> QED
    BY <1>1, <1>3, <1>4 DEF GlobalRecords, PoolRef
<1>6. GlobalFine'
  BY <1>5 DEF GlobalFine
<1>7. /\ Quiet /\ pool' = CloseAll(ps) /\ entry' = AgeAll(entry) /\ armed' \subseteq armed
      /\ UNCHANGED <<tiers, agent, order, conn, call, down, doubled, raced>>
  BY DEF EvictGlobal
<1>8. entry \in [Sessions -> Entries \cup {None}] /\ agent \in [Agents -> PoolRef]
      /\ armed \subseteq Keys /\ raced \in BOOLEAN
  BY DEF IInv, Basics, Types
<1>9. Global \notin Agents \cup Sessions /\ gone \in SUBSET Keys
       /\ \A x \in Sessions : AgentOf[x] \in Agents
  BY McpAssumption DEF Keys, Agents
<1>10. agent' = [a \in Agents |-> IF a \in gone THEN None ELSE agent[a]]
  BY <1>7, <1>8, <1>9
<1>11. /\ entry' \in [Sessions -> Entries \cup {None}]
       /\ \A x \in Sessions : /\ entry'[x] = None <=> (x \in gone \/ entry[x] = None)
                              /\ entry'[x] # None => /\ entry'[x].own = entry[x].own
                                                     /\ entry'[x].ag = entry[x].ag
                                                     /\ ~entry'[x].fresh
                                                     /\ AgentOf[x] \notin gone
  BY <1>7, <1>8, <1>9, AgeTyped
<1>12. \A q \in PoolIds : q \in ps => KeyOf(q) \in gone
  BY PoolsKeyed DEF IInv, Basics, Keyed, Under
<1>13. \A q \in PoolIds : (~raced' /\ Connecting(q) /\ KeyOf(q) \in Sessions /\ pool[q].ag # None)
                          => pool[q].ag \notin ps
  <2> SUFFICES ASSUME NEW q \in PoolIds, Connecting(q), KeyOf(q) \in Sessions, pool[q].ag # None
               PROVE  pool[q].ag # glob.shut
    OBVIOUS
  <2>1. KeyOf(pool[q].ag) = AgentOf[KeyOf(q)]
    BY DEF IInv, Basics, Keyed, Under
  <2> QED
    BY <1>9, <2>1 DEF IInv, Basics, Keyed, Under
<1>14. /\ glob'.shut = IF Global \in gone THEN None ELSE glob.shut
       /\ Global \in gone /\ glob.shut # None => glob.shut \in ps
       /\ \A a \in Agents : (a \in gone /\ agent[a] # None) => agent[a] \in ps
       /\ \A x \in Sessions : (x \in gone /\ entry[x] # None) => entry[x].own \in ps
  BY <1>5, <1>9
<1>15. armed' \subseteq Keys /\ raced' \in BOOLEAN /\ (raced => raced')
  BY <1>7, <1>8
<1> HIDE DEF ps, gone
<1> QED
  BY <1>5, <1>6, <1>7, <1>9, <1>10, <1>11, <1>12, <1>13, <1>14, <1>15, EvictStep

\* The agent's idle pool goes, and with it its sessions' entries and their pools.
LEMMA EvictAgentStep ==
  ASSUME IInv, NEW a \in Agents, EvictAgent(a)
  PROVE  IInv'
<1> DEFINE deps == IF agent[a] = None THEN {} ELSE Dependents(a)
           gone == IF agent[a] = None THEN {} ELSE {a} \cup deps
           ps == {agent[a]} \cup {entry[s].own : s \in deps}
<1>1. /\ Quiet /\ pool' = CloseAll(ps) /\ agent' = [agent EXCEPT ![a] = None]
      /\ entry' = [s \in Sessions |-> IF s \in deps THEN None ELSE Age(entry[s])]
      /\ glob' = [glob EXCEPT !.fresh = FALSE] /\ armed' \subseteq armed
      /\ raced' = (raced \/ \E p \in PoolIds : Connecting(p) /\ pool[p].ag # None /\ pool[p].ag = agent[a])
      /\ UNCHANGED <<tiers, conn, call, down, doubled>>
  BY DEF EvictAgent
<1>2. /\ entry \in [Sessions -> Entries \cup {None}] /\ agent \in [Agents -> PoolRef]
      /\ armed \subseteq Keys /\ raced \in BOOLEAN
  BY DEF IInv, Basics, Types
<1>3. GlobalFine' /\ glob'.shut = glob.shut /\ ~glob'.fresh
  BY <1>1, GlobalAged
<1>4. /\ Global \notin Agents \cup Sessions /\ Agents \cap Sessions = {}
      /\ \A x \in Sessions : AgentOf[x] \in Agents
  BY McpAssumption DEF Agents
<1>5. /\ deps \subseteq Sessions
      /\ \A s \in deps : entry[s] # None /\ agent[a] # None
      /\ \A s \in Sessions : (entry[s] # None /\ s \notin deps) => agent[a] = None \/ AgentOf[s] # a
  BY DEF Dependents
<1> HIDE DEF deps
<1>6. /\ gone \in SUBSET Keys /\ Global \notin gone
      /\ \A b \in Agents : b \in gone <=> (b = a /\ agent[a] # None)
      /\ \A s \in Sessions : s \in gone <=> s \in deps
  BY <1>4, <1>5 DEF Keys
<1> HIDE DEF gone
<1>7. agent' = [b \in Agents |-> IF b \in gone THEN None ELSE agent[b]]
  BY <1>1, <1>2, <1>6
<1>8. /\ entry' \in [Sessions -> Entries \cup {None}]
      /\ \A x \in Sessions : /\ entry'[x] = None <=> (x \in gone \/ entry[x] = None)
                             /\ entry'[x] # None => /\ entry'[x].own = entry[x].own
                                                    /\ entry'[x].ag = entry[x].ag
                                                    /\ ~entry'[x].fresh
                                                    /\ AgentOf[x] \notin gone
  <2>1. /\ AgeAll(entry) \in [Sessions -> Entries \cup {None}]
        /\ \A s \in Sessions :
             /\ AgeAll(entry)[s] = None <=> entry[s] = None
             /\ entry[s] # None => /\ AgeAll(entry)[s].own = entry[s].own
                                   /\ AgeAll(entry)[s].ag = entry[s].ag
                                   /\ ~AgeAll(entry)[s].fresh
    BY <1>2, AgeTyped
  <2>2. entry' = [s \in Sessions |-> IF s \in deps THEN None ELSE AgeAll(entry)[s]]
    BY <1>1 DEF AgeAll
  <2>3. entry' \in [Sessions -> Entries \cup {None}]
        /\ \A s \in Sessions : entry'[s] = IF s \in deps THEN None ELSE AgeAll(entry)[s]
    BY <2>1, <2>2
  <2> QED
    BY <1>4, <1>5, <1>6, <2>1, <2>3
<1>9. \A q \in PoolIds : q \in ps => KeyOf(q) \in gone
  <2> SUFFICES ASSUME NEW q \in PoolIds, q \in ps PROVE KeyOf(q) \in gone
    OBVIOUS
  <2>1. CASE q = agent[a]
    <3>1. agent[a] # None /\ KeyOf(q) = a
      BY <2>1, PoolsKeyed DEF IInv, Basics, Keyed, Under
    <3> QED
      BY <1>6, <3>1
  <2>2. CASE q # agent[a]
    <3>1. PICK s \in deps : q = entry[s].own
      BY <2>2
    <3>2. s \in Sessions /\ KeyOf(q) = s
      BY <1>5, <3>1 DEF IInv, Basics, Keyed, EntryKeyed
    <3> QED
      BY <1>6, <3>1, <3>2
  <2> QED
    BY <2>1, <2>2
<1>10. \A q \in PoolIds : (~raced' /\ Connecting(q) /\ KeyOf(q) \in Sessions /\ pool[q].ag # None)
                          => pool[q].ag \notin ps
  <2> SUFFICES ASSUME NEW q \in PoolIds, ~raced', Connecting(q), KeyOf(q) \in Sessions,
                      pool[q].ag # None, pool[q].ag \in ps
               PROVE  FALSE
    OBVIOUS
  <2>1. pool[q].ag # agent[a]
    BY <1>1
  <2>2. PICK s \in deps : pool[q].ag = entry[s].own
    BY <2>1
  <2>3. KeyOf(pool[q].ag) = s /\ s \in Sessions
    BY <1>5, <2>2 DEF IInv, Basics, Keyed, EntryKeyed
  <2>4. KeyOf(pool[q].ag) = AgentOf[KeyOf(q)] /\ AgentOf[KeyOf(q)] \in Agents
    BY <1>4 DEF IInv, Basics, Keyed, Under
  <2> QED
    BY <1>4, <2>3, <2>4
<1>11. /\ glob'.shut = IF Global \in gone THEN None ELSE glob.shut
       /\ Global \in gone /\ glob.shut # None => glob.shut \in ps
       /\ \A b \in Agents : (b \in gone /\ agent[b] # None) => agent[b] \in ps
       /\ \A x \in Sessions : (x \in gone /\ entry[x] # None) => entry[x].own \in ps
  BY <1>3, <1>6
<1>12. armed' \subseteq Keys /\ raced' \in BOOLEAN /\ (raced => raced')
  BY <1>1, <1>2
<1> HIDE DEF ps
<1> QED
  BY <1>1, <1>3, <1>6, <1>7, <1>8, <1>9, <1>10, <1>11, <1>12, EvictStep

\* The session's entry and its idle pool go.
LEMMA EvictSessionStep ==
  ASSUME IInv, NEW s \in Sessions, EvictSession(s)
  PROVE  IInv'
<1> DEFINE gone == {s}
           left == [entry EXCEPT ![s] = None]
<1>1. /\ Quiet /\ pool' = IF entry[s] = None THEN pool ELSE CloseAll({entry[s].own})
      /\ entry' = AgeAll(left) /\ glob' = [glob EXCEPT !.fresh = FALSE] /\ armed' \subseteq armed
      /\ UNCHANGED <<tiers, agent, conn, call, down, doubled, raced>>
  BY DEF EvictSession
<1>2. /\ entry \in [Sessions -> Entries \cup {None}] /\ agent \in [Agents -> PoolRef]
      /\ armed \subseteq Keys /\ raced \in BOOLEAN /\ pool \in [PoolIds -> PoolRecords]
  BY DEF IInv, Basics, Types, PoolsFine
<1>3. PICK ps : /\ pool' = CloseAll(ps)
                /\ \A q \in ps : entry[s] # None /\ q = entry[s].own
                /\ entry[s] # None => entry[s].own \in ps
  <2>1. CASE entry[s] = None
    <3>1. pool' = CloseAll({})
      BY <1>1, <1>2, <2>1 DEF CloseAll
    <3> QED
      BY <2>1, <3>1
  <2>2. CASE entry[s] # None
    BY <1>1, <2>2
  <2> QED
    BY <2>1, <2>2
<1>4. GlobalFine' /\ glob'.shut = glob.shut /\ ~glob'.fresh
  BY <1>1, GlobalAged
<1>5. /\ Global \notin Agents \cup Sessions /\ Agents \cap Sessions = {}
      /\ \A x \in Sessions : AgentOf[x] \in Agents
      /\ gone \in SUBSET Keys
  BY McpAssumption DEF Agents, Keys
<1>6. agent' = [b \in Agents |-> IF b \in gone THEN None ELSE agent[b]]
  BY <1>1, <1>2, <1>5
<1>7. left \in [Sessions -> Entries \cup {None}]
      /\ \A x \in Sessions : left[x] = IF x = s THEN None ELSE entry[x]
  BY <1>2
<1> HIDE DEF left
<1>8. /\ entry' \in [Sessions -> Entries \cup {None}]
      /\ \A x \in Sessions : /\ entry'[x] = None <=> (x \in gone \/ entry[x] = None)
                             /\ entry'[x] # None => /\ entry'[x].own = entry[x].own
                                                    /\ entry'[x].ag = entry[x].ag
                                                    /\ ~entry'[x].fresh
                                                    /\ AgentOf[x] \notin gone
  <2>1. /\ AgeAll(left) \in [Sessions -> Entries \cup {None}]
        /\ \A x \in Sessions :
             /\ AgeAll(left)[x] = None <=> left[x] = None
             /\ left[x] # None => /\ AgeAll(left)[x].own = left[x].own
                                  /\ AgeAll(left)[x].ag = left[x].ag
                                  /\ ~AgeAll(left)[x].fresh
    BY <1>7, AgeTyped
  <2> QED
    BY <1>1, <1>5, <1>7, <2>1
<1>9. \A q \in PoolIds : q \in ps => KeyOf(q) \in gone
  BY <1>3 DEF IInv, Basics, Keyed, EntryKeyed
<1>10. \A q \in PoolIds : (~raced' /\ Connecting(q) /\ KeyOf(q) \in Sessions /\ pool[q].ag # None)
                          => pool[q].ag \notin ps
  <2> SUFFICES ASSUME NEW q \in PoolIds, Connecting(q), KeyOf(q) \in Sessions,
                      pool[q].ag # None, pool[q].ag \in ps
               PROVE  FALSE
    OBVIOUS
  <2>1. KeyOf(pool[q].ag) = s
    BY <1>3 DEF IInv, Basics, Keyed, EntryKeyed
  <2>2. KeyOf(pool[q].ag) = AgentOf[KeyOf(q)] /\ AgentOf[KeyOf(q)] \in Agents
    BY <1>5 DEF IInv, Basics, Keyed, Under
  <2> QED
    BY <1>5, <2>1, <2>2
<1>11. /\ glob'.shut = IF Global \in gone THEN None ELSE glob.shut
       /\ Global \in gone /\ glob.shut # None => glob.shut \in ps
       /\ \A b \in Agents : (b \in gone /\ agent[b] # None) => agent[b] \in ps
       /\ \A x \in Sessions : (x \in gone /\ entry[x] # None) => entry[x].own \in ps
  BY <1>3, <1>4, <1>5
<1>12. armed' \subseteq Keys /\ raced' \in BOOLEAN /\ (raced => raced')
  BY <1>1, <1>2
<1> HIDE DEF gone
<1> QED
  BY <1>1, <1>3, <1>4, <1>5, <1>6, <1>8, <1>9, <1>10, <1>11, <1>12, EvictStep

-----------------------------------------------------------------------------
(* Shutdown, and every step.                                               *)

\* Once shutdown has begun, only what the variables may refer to is left to say.
LEMMA DownStep ==
  ASSUME IInv, down' \in {"global", "agents", "sessions", "done"},
         NEW ps, pool' = CloseAll(ps),
         agent' \in [Agents -> PoolRef], \A a \in Agents : agent'[a] \in {agent[a], None},
         entry' \in [Sessions -> Entries \cup {None}], \A s \in Sessions : entry'[s] \in {entry[s], None},
         conn' \in [Agents \cup Sessions -> PoolRef],
         \A k \in Agents \cup Sessions : conn'[k] \in {conn[k], None},
         armed' \subseteq Keys, UNCHANGED <<tiers, glob, call, doubled, raced>>
  PROVE  IInv'
<1>1. /\ PoolsFine'
      /\ \A q \in PoolIds : /\ Connecting(q)' <=> Connecting(q)
                            /\ Connecting(q) => pool'[q] = pool[q]
                            /\ pool[q].st = "closed" => pool'[q].st = "closed"
  BY CloseAllFine
<1>2. GlobalFine'
  BY DEF IInv, Basics, GlobalFine
<1>3. Types'
  BY DEF IInv, Basics, Types
<1>4. DeadAreClosed'
  BY <1>1, Referred DEF IInv, Basics, DeadAreClosed, CallRecords
<1>5. \A c \in Callers : Session(c)' = Session(c)
  BY DEF Session
<1>6. Keyed'
  <2>1. (\A a \in Agents : Under(agent'[a], a)) /\ \A k \in Agents \cup Sessions : Under(conn'[k], k)
    BY DEF IInv, Basics, Keyed, Under
  <2>2. \A s \in Sessions : EntryKeyed(entry'[s], s)
    BY DEF IInv, Basics, Keyed, EntryKeyed
  <2>3. \A q \in PoolIds : (Connecting(q)' /\ KeyOf(q) \in Sessions) => Under(pool'[q].ag, AgentOf[KeyOf(q)])
    BY <1>1 DEF IInv, Basics, Keyed
  <2> QED
    BY <1>5, <2>1, <2>2, <2>3 DEF IInv, Basics, Keyed
<1> QED
  BY <1>1, <1>2, <1>3, <1>4, <1>6 DEF IInv, Basics, Owning, Caching

\* Each stage of shutdown closes its pools and forgets its variables.
LEMMA ShutdownStep ==
  ASSUME IInv, ShutdownGlobal \/ ShutdownAgents \/ ShutdownSessions \/ ShutdownDone
  PROVE  IInv'
<1>1. /\ agent \in [Agents -> PoolRef] /\ entry \in [Sessions -> Entries \cup {None}]
      /\ conn \in [Agents \cup Sessions -> PoolRef] /\ armed \subseteq Keys
      /\ pool \in [PoolIds -> PoolRecords] /\ None \in PoolRef
  BY DEF IInv, Basics, Types, PoolsFine, PoolRef
<1>2. CASE ShutdownGlobal
  <2>1. pool' = CloseAll({glob.shut})
    BY <1>2 DEF ShutdownGlobal
  <2> QED
    BY <1>1, <1>2, <2>1, DownStep DEF ShutdownGlobal
<1>3. CASE ShutdownAgents
  <2>1. PICK ps : pool' = CloseAll(ps)
    BY <1>3 DEF ShutdownAgents
  <2> QED
    BY <1>1, <1>3, <2>1, DownStep DEF ShutdownAgents, rt
<1>4. CASE ShutdownSessions
  <2>1. PICK ps : pool' = CloseAll(ps)
    BY <1>4 DEF ShutdownSessions
  <2>2. /\ agent' \in [Agents -> PoolRef] /\ \A a \in Agents : agent'[a] \in {agent[a], None}
        /\ conn' \in [Agents \cup Sessions -> PoolRef]
        /\ \A k \in Agents \cup Sessions : conn'[k] \in {conn[k], None}
    BY <1>1, <1>4 DEF ShutdownSessions
  <2> QED
    BY <1>1, <1>4, <2>1, <2>2, DownStep DEF ShutdownSessions
<1>5. CASE ShutdownDone
  <2>1. pool' = CloseAll({})
    BY <1>1, <1>5 DEF ShutdownDone, CloseAll
  <2>2. /\ entry' \in [Sessions -> Entries \cup {None}] /\ \A s \in Sessions : entry'[s] \in {entry[s], None}
        /\ conn' \in [Agents \cup Sessions -> PoolRef]
        /\ \A k \in Agents \cup Sessions : conn'[k] \in {conn[k], None}
    BY <1>1, <1>5 DEF ShutdownDone
  <2> QED
    BY <1>1, <1>5, <2>1, <2>2, DownStep DEF ShutdownDone
<1> QED
  BY <1>2, <1>3, <1>4, <1>5

\* A step in which nothing changes.
LEMMA StutterStep ==
  ASSUME IInv, UNCHANGED vars
  PROVE  IInv'
<1>1. Basics'
  BY DEF vars, IInv, Basics, PoolsFine, GlobalFine, Types, Keyed, DeadAreClosed, Connecting, Session
<1>2. ASSUME down = "no" PROVE Joined' /\ Single' /\ UpAndOwned'
  BY <1>2 DEF vars, IInv, Owning, Joined, Single, UpAndOwned, Connecting, Up, OwnedBy, Session
<1>3. ASSUME down = "no", ~raced PROVE Current'
  BY <1>3 DEF vars, IInv, Caching, Current, EntryCurrent, LiveSnap, Catalog, Connecting, Up
<1> QED
  BY <1>1, <1>2, <1>3 DEF vars, IInv, Owning, Caching

\* Every step keeps the invariant.
LEMMA NextStep ==
  ASSUME IInv, [Next]_vars
  PROVE  IInv'
<1>1. ASSUME NEW c \in Callers, Begin(c) \/ Lapse(c) \/ End(c) \/ Resolve(c) \/ GlobalDone(c)
      PROVE  IInv'
  <2>1. CASE Begin(c) \/ Lapse(c) \/ End(c) \/ GlobalDone(c)
    BY <2>1, BeginStep, LapseStep, EndStep, GlobalDoneStep
  <2>2. CASE Resolve(c)
    BY <2>2, EnterConnectsStep, EnterPassesStep, MiddleReturnsStep, MiddlePassesStep,
       MiddleConnectsStep, LastReturnsStep, LastConnectsStep DEF Resolve
  <2> QED
    BY <1>1, <2>1, <2>2
<1>2. ASSUME NEW p \in PoolIds,
             Connect(p) \/ Changes(p) \/ Notified(p) \/ Serves(p) \/ Fetched(p) \/ FetchFails(p) \/ Dies(p)
      PROVE  IInv'
  <2>1. CASE Connect(p)
    BY <2>1, ListsStep, AgentDoneStep, SessionUpStep, SessionFailsStep DEF Connect
  <2>2. CASE Changes(p) \/ Notified(p) \/ Serves(p)
    BY <2>2, ChangesStep, NotifiedStep, ServesStep
  <2>3. CASE Fetched(p) \/ FetchFails(p) \/ Dies(p)
    BY <2>3, FetchedStep, FetchFailsStep, DiesStep
  <2> QED
    BY <1>2, <2>1, <2>2, <2>3
<1>3. CASE EvictGlobal \/ (\E a \in Agents : EvictAgent(a)) \/ (\E s \in Sessions : EvictSession(s))
  BY <1>3, EvictGlobalStep, EvictAgentStep, EvictSessionStep
<1>4. CASE ShutdownGlobal \/ ShutdownAgents \/ ShutdownSessions \/ ShutdownDone
  BY <1>4, ShutdownStep
<1>5. CASE UNCHANGED vars
  BY <1>5, StutterStep
<1> QED
  BY <1>1, <1>2, <1>3, <1>4, <1>5 DEF Next

-----------------------------------------------------------------------------
(* The theorems.                                                           *)

\* The inductive invariant holds in every reachable state of the pools.
THEOREM Invariance == Spec => []IInv
<1>1. Init => IInv
  BY InitIInv
<1>2. IInv /\ [Next]_vars => IInv'
  BY NextStep
<1> QED
  BY <1>1, <1>2, PTL DEF Spec

\* What the invariant says of the pools.
LEMMA OwnersKnown == IInv => PoolsOwned
<1> SUFFICES ASSUME IInv PROVE PoolsOwned
  OBVIOUS
<1>1. TypeOK
  <2>1. \A p \in PoolIds : pool[p].cat <= pool[p].live \/ pool[p].st = "closed"
    BY DEF IInv, Basics, PoolsFine, Fine
  <2> QED
    BY <2>1 DEF IInv, Basics, PoolsFine, GlobalFine, Types, TypeOK
<1>2. NoPoolLeaks
  <2> SUFFICES ASSUME down = "no", ~doubled, NEW p \in PoolIds, Up(p) PROVE Owned(p)
    BY DEF NoPoolLeaks
  <2>1. OwnedBy(p, KeyOf(p)) /\ KeyOf(p) \in Keys
    BY PoolsKeyed DEF IInv, Owning, UpAndOwned
  <2> QED
    BY <2>1 DEF OwnedBy, Owned, Keys
<1>3. NoClosedPoolServed
  BY DEF NoClosedPoolServed, IInv, Caching, Current
<1>4. RearmedReconnect
  BY DEF RearmedReconnect, NeedsGlobal, IInv, Basics, GlobalFine
<1> QED
  BY <1>1, <1>2, <1>3, <1>4 DEF PoolsOwned

\* What the invariant says of the catalogs.
LEMMA CatalogsKnown == IInv => CatalogsCurrent
<1> SUFFICES ASSUME IInv PROVE CatalogsCurrent
  OBVIOUS
<1>1. ASSUME NEW snap \in Snapshots, LiveSnap(snap) PROVE Exact(snap)
  <2>1. DOMAIN snap = {"global", "agent", "session"}
    BY DEF Snapshots
  <2> QED
    BY <1>1, <2>1 DEF LiveSnap, Exact, Up
<1>2. CacheCurrent
  <2> SUFFICES ASSUME down = "no", ~raced
               PROVE  /\ \A s \in Sessions : (entry[s] # None /\ entry[s].fresh) => Exact(entry[s].snap)
                      /\ glob.fresh => Exact(glob.ctx)
    BY DEF CacheCurrent
  <2>1. Current
    BY DEF IInv, Caching
  <2> QED
    BY <1>1, <2>1, Referred DEF Current, EntryCurrent
<1>3. ChangesSeen
  BY DEF ChangesSeen, IInv, Basics, PoolsFine, Fine
<1> QED
  BY <1>2, <1>3 DEF CatalogsCurrent

\* Every pool that is up has an owner that will close it (unless connects of the
\* global pool overlapped), resolveContext serves no pool that was closed before
\* it was called (unless an agent's pool was evicted during a session's connect
\* that had taken it), and every reconnect it starts is a re-armed one.
THEOREM PoolsAreOwned == Spec => []PoolsOwned
BY Invariance, OwnersKnown, PTL

\* No list_changed is lost, and no context in the caches that would be handed out
\* as it is lists other tools than its pools have or those of a closed pool.
THEOREM CatalogsAreCurrent == Spec => []CatalogsCurrent
BY Invariance, CatalogsKnown, PTL
=============================================================================
