----------------------------- MODULE McpRuntime -----------------------------
(***************************************************************************)
(* The MCP connection pools of the daemon: one shared by all sessions, one *)
(* per agent and one per session, each for the servers configured for that *)
(* scope.  resolveContext connects what is missing, caches the session's   *)
(* context, and hands out a snapshot of the tool catalogs; the end of a    *)
(* turn arms an idle timer per pool, and an idle pool is closed and        *)
(* forgotten.  A server may announce that its tools changed: the pool      *)
(* fetches the list again and ages every cached context.                   *)
(*                                                                         *)
(* JavaScript runs a resolution from one await to the next without a       *)
(* pause.  A caller whose pc is in Running is at such a stretch, and no    *)
(* other event is taken before it has reached its next await (Quiet).      *)
(***************************************************************************)
EXTENDS Naturals, FiniteSets, FiniteSetsExt

CONSTANTS
  Callers,     \* those that call resolveContext
  Turns,       \* the callers that announce their begin and end (user turns)
  SessionOf,   \* for each of Configs, the session of each caller
  AgentOf,     \* the agent of each session
  Configs,     \* sets of scopes that have servers; one is picked at the start
  Pools,       \* bound: pools of one key at a time (up, connecting or referred to)
  CacheLimit,  \* MAX_SESSION_MCP_CACHE_SIZE
  MaxChanges,  \* bound, for each of Configs: changes of tool lists at a time
  MayStop,     \* bound: those of Configs in which shutdown() is called
  MayDie,      \* bound: those of Configs in which server processes may die
  None

Global == "global"
Sessions == DOMAIN AgentOf
Agents == {AgentOf[s] : s \in Sessions}
Keys == {Global} \cup Agents \cup Sessions
PoolIds == Keys \X (1..Pools)  \* a name that nothing refers to is used again
KeyOf(p) == p[1]
PoolRef == PoolIds \cup {None}

\* What a pool has of its servers, and what is made from it.
PoolRecords ==
  [st : {"unused", "connecting", "listed", "open", "dead", "closed"}, ag : PoolRef,
   live : Nat, cat : Nat, note : BOOLEAN, fetch : {"idle", "asked", "served"}, got : Nat,
   again : BOOLEAN, missed : BOOLEAN]
CatalogRef == [pool : PoolIds, cat : Nat] \cup {None}
Snapshots == [global : CatalogRef, agent : CatalogRef, session : CatalogRef]
Entries == [snap : Snapshots, ag : PoolRef, own : PoolIds, fresh : BOOLEAN]
GlobalRecords ==
  [use : PoolRef, shut : PoolRef, connected : BOOLEAN, failed : BOOLEAN, rearm : BOOLEAN,
   ctx : Snapshots, fresh : BOOLEAN]

\* A scope's keys are apart from another's: the code keeps a map for each scope.
ASSUME McpAssumption ==
  /\ Pools \in Nat \ {0}
  /\ Turns \subseteq Callers
  /\ Configs \subseteq SUBSET {"global", "agent", "session"}
  /\ SessionOf \in [Configs -> [Callers -> Sessions]]
  /\ Global \notin Agents \cup Sessions /\ Agents \cap Sessions = {}
  /\ CacheLimit \in Nat \ {0}
  /\ MaxChanges \in [Configs -> Nat]
  /\ None \notin PoolIds \cup Entries

VARIABLES
  tiers,  \* the scopes that have servers
  pool,   \* every pool: its state, its catalog and the refresh in progress
  glob,   \* the variables of the global pool and its prebuilt context
  agent,  \* perAgentMcpCtx and perAgentMcpClose
  entry,  \* perSessionMcpCtx and perSessionMcpClose
  order,  \* perSessionCacheOrder: the place of each session in it from the end, or 0
  conn,   \* perAgentMcpConnect and perSessionMcpConnect
  armed,  \* the keys that have an idle timer
  call,   \* the callers
  down,   \* how far shutdown has come
  doubled,\* history: two connects of the global pool overlapped
  raced   \* history: an agent's pool was evicted while a session that had
          \* taken it was still connecting

rt == <<glob, agent, entry, order, conn, armed>>
vars == <<tiers, pool, glob, agent, entry, order, conn, armed, call, down, doubled, raced>>

Session(c) == SessionOf[tiers][c]

Unused == [st |-> "unused", ag |-> None, live |-> 0, cat |-> 0,
           note |-> FALSE, fetch |-> "idle", got |-> 0, again |-> FALSE, missed |-> FALSE]
Idle == [pc |-> "idle", wait |-> None, ag |-> None, held |-> {}, dead |-> {}]

-----------------------------------------------------------------------------
(* Contexts. *)

Catalog(p) == IF p = None THEN None ELSE [pool |-> p, cat |-> pool[p].cat]

\* buildMixedSessionMcpToolContext and its variants: the catalogs as they are now.
Context(g, a, s) == [global |-> Catalog(g), agent |-> Catalog(a), session |-> Catalog(s)]

PoolsOf(ctx) == {ctx[t].pool : t \in {x \in DOMAIN ctx : ctx[x] # None}}

\* buildGlobalOnlyCtx
GlobalContext(g) == IF tiers = {"global"} THEN Context(g, None, None) ELSE Context(None, None, None)

\* Faulty variant: a new generation does not age what is cached.
AgeNot(e) == e

\* The catalog generation moves: every snapshot is out of date.
Age(e) == IF e = None THEN None ELSE [e EXCEPT !.fresh = FALSE]
AgeAll(es) == [s \in Sessions |-> Age(es[s])]

-----------------------------------------------------------------------------
(* Pools. *)

Connecting(p) == pool[p].st \in {"connecting", "listed"}
Up(p) == pool[p].st \in {"open", "dead"}

Referenced ==
  {glob.use, glob.shut} \cup PoolsOf(glob.ctx)
  \cup {agent[a] : a \in Agents}
  \cup UNION {{entry[s].own, entry[s].ag} \cup PoolsOf(entry[s].snap) :
              s \in {x \in Sessions : entry[x] # None}}
  \cup UNION {{call[c].wait, call[c].ag} \cup call[c].held : c \in Callers}
  \cup {pool[p].ag : p \in {x \in PoolIds : Connecting(x)}}

Free(p) ==
  ~Connecting(p) /\ ~Up(p) /\ p \notin Referenced /\ \A c \in Callers : p \notin call[c].dead
FreeNames(key) == {n \in 1..Pools : Free(<<key, n>>)}
NewPool(key) == <<key, Min(FreeNames(key))>>

\* connectShoggothMcpServers begins for the servers of key.
Starts(key, ag) ==
  /\ FreeNames(key) # {}
  /\ pool' = [pool EXCEPT ![NewPool(key)] = [Unused EXCEPT !.st = "connecting", !.ag = ag]]

\* The pool p with its sessions closed; requests in flight are rejected.
Closed(p) == [Unused EXCEPT !.st = "closed", !.cat = pool[p].cat]
CloseAll(ps) == [p \in PoolIds |-> IF p \in ps /\ Up(p) THEN Closed(p) ELSE pool[p]]

Running == {"enter", "middle", "last"}
CallRecords ==
  [pc : {"idle", "global", "agent", "session", "run"} \cup Running, wait : PoolRef,
   ag : PoolRef, held : SUBSET PoolIds, dead : SUBSET PoolIds]
Quiet == \A c \in Callers : call[c].pc \notin Running

-----------------------------------------------------------------------------
NoGlobal == [use |-> None, shut |-> None, connected |-> FALSE, failed |-> FALSE, rearm |-> FALSE,
             ctx |-> [global |-> None, agent |-> None, session |-> None], fresh |-> TRUE]

\* createSessionMcpRuntime has made its first connect of the global pool.
Init ==
  /\ tiers \in Configs
  /\ \E ok \in BOOLEAN : LET p == <<Global, 1>> IN
       IF "global" \in tiers /\ ok
       THEN /\ pool = [q \in PoolIds |-> IF q = p THEN [Unused EXCEPT !.st = "open"] ELSE Unused]
            /\ glob = [NoGlobal EXCEPT !.use = p, !.shut = p, !.connected = TRUE,
                         !.ctx.global = IF tiers = {"global"} THEN [pool |-> p, cat |-> 0] ELSE None]
       ELSE /\ pool = [q \in PoolIds |-> Unused]
            /\ glob = [NoGlobal EXCEPT !.failed = "global" \in tiers]
  /\ agent = [a \in Agents |-> None]
  /\ entry = [s \in Sessions |-> None]
  /\ order = [s \in Sessions |-> 0]
  /\ conn = [k \in Agents \cup Sessions |-> None]
  /\ armed = {}
  /\ call = [c \in Callers |-> Idle]
  /\ down = "no"
  /\ doubled = FALSE
  /\ raced = FALSE

-----------------------------------------------------------------------------
(* Turns and the stretches of resolveContext. *)

ClosedPools == {p \in PoolIds : pool[p].st = "closed"} \cap Referenced
TurnKeys(c) == {Global, Session(c), AgentOf[Session(c)]}

Enters(c) == call' = [call EXCEPT ![c].pc = "enter", ![c].dead = ClosedPools]

\* A user turn announces itself (notifyTurnBegin) and resolves; a system turn or
\* a workflow's tool task only resolves.
Begin(c) ==
  /\ Quiet
  /\ call[c].pc = "idle"
  /\ down = "no"
  /\ Enters(c)
  /\ armed' = IF c \in Turns THEN armed \ TurnKeys(c) ELSE armed
  /\ UNCHANGED <<tiers, pool, glob, agent, entry, order, conn, down, doubled, raced>>

\* A tool call found its session closed: resolve once more for the retry.  The
\* routing executor keeps the context it was made with.
Lapse(c) ==
  /\ Quiet
  /\ call[c].pc = "run"
  /\ \E p \in call[c].held : pool[p].st \in {"closed", "dead"}
  /\ Enters(c)
  /\ UNCHANGED <<tiers, pool, rt, down, doubled, raced>>

\* notifyTurnEnd
End(c) ==
  /\ Quiet
  /\ call[c].pc = "run"
  /\ call' = [call EXCEPT ![c] = Idle]
  /\ armed' = IF c \in Turns
              THEN armed \cup {k \in TurnKeys(c) :
                     \/ k = Global /\ "global" \in tiers /\ (glob.connected \/ glob.failed)
                     \/ k \in Agents /\ agent[k] # None
                     \/ k \in Sessions /\ entry[k] # None}
              ELSE armed
  /\ UNCHANGED <<tiers, pool, glob, agent, entry, order, conn, down, doubled, raced>>

NeedsGlobal == "global" \in tiers /\ ~glob.connected /\ (~glob.failed \/ glob.rearm)

\* The global pool is away: connect it.  Nothing joins a connect under way.
EnterConnects(c) ==
  /\ call[c].pc = "enter"
  /\ NeedsGlobal
  /\ Starts(Global, None)
  /\ call' = [call EXCEPT ![c].pc = "global", ![c].wait = NewPool(Global)]
  /\ doubled' = (doubled \/ \E d \in Callers : call[d].pc = "global")
  /\ UNCHANGED <<tiers, rt, down, raced>>

EnterPasses(c) ==
  /\ call[c].pc = "enter"
  /\ ~NeedsGlobal
  /\ call' = [call EXCEPT ![c].pc = "middle"]
  /\ UNCHANGED <<tiers, pool, rt, down, doubled, raced>>

\* The caller gets ctx; its first one stays with the tool executor of its turn.
\* Of the pools that were closed when it entered, those it is given are kept.
Returns(r, ctx) ==
  [r EXCEPT !.pc = "run", !.wait = None, !.ag = None, !.dead = @ \cap PoolsOf(ctx),
            !.held = IF @ = {} THEN PoolsOf(ctx) ELSE @]

\* Only global servers: the prebuilt context, rebuilt when it is out of date.
MiddleReturns(c) ==
  /\ call[c].pc = "middle"
  /\ tiers = {"global"}
  /\ LET ctx == IF glob.fresh THEN glob.ctx ELSE GlobalContext(glob.use) IN
     /\ glob' = [glob EXCEPT !.ctx = ctx, !.fresh = TRUE]
     /\ call' = [call EXCEPT ![c] = Returns(@, ctx)]
  /\ UNCHANGED <<tiers, pool, agent, entry, order, conn, armed, down, doubled, raced>>

\* Faulty variant: a second caller makes a connect of its own.
MiddleConnectsAlone(c) ==
  /\ call[c].pc = "middle"
  /\ "agent" \in tiers
  /\ LET a == AgentOf[Session(c)] IN
     /\ agent[a] = None
     /\ Starts(a, None)
     /\ conn' = [conn EXCEPT ![a] = NewPool(a)]
     /\ call' = [call EXCEPT ![c].pc = "agent", ![c].wait = NewPool(a)]
  /\ UNCHANGED <<tiers, glob, agent, entry, order, armed, down, doubled, raced>>

\* ensurePerAgentPool: the pool there is, the connect under way, or a new one.
MiddlePasses(c) ==
  /\ call[c].pc = "middle"
  /\ tiers # {"global"}
  /\ LET a == AgentOf[Session(c)] IN
     /\ "agent" \in tiers => agent[a] # None
     /\ call' = [call EXCEPT ![c].pc = "last",
                             ![c].ag = IF "agent" \in tiers THEN agent[a] ELSE None]
  /\ UNCHANGED <<tiers, pool, rt, down, doubled, raced>>

MiddleConnects(c) ==
  /\ call[c].pc = "middle"
  /\ "agent" \in tiers
  /\ LET a == AgentOf[Session(c)] IN
     /\ agent[a] = None
     /\ IF conn[a] # None
        THEN /\ call' = [call EXCEPT ![c].pc = "agent", ![c].wait = conn[a]]
             /\ UNCHANGED <<pool, conn>>
        ELSE /\ Starts(a, None)
             /\ conn' = [conn EXCEPT ![a] = NewPool(a)]
             /\ call' = [call EXCEPT ![c].pc = "agent", ![c].wait = NewPool(a)]
  /\ UNCHANGED <<tiers, glob, agent, entry, order, armed, down, doubled, raced>>

\* No per-session servers, or the session's context is cached.
LastReturns(c) ==
  /\ call[c].pc = "last"
  /\ LET s == Session(c)
         e == entry[s]
         now == IF e = None THEN Context(glob.use, call[c].ag, None)
                ELSE IF e.fresh THEN e.snap ELSE Context(glob.use, e.ag, e.own)
     IN
     /\ "session" \in tiers => e # None
     /\ call' = [call EXCEPT ![c] = Returns(@, now)]
     /\ entry' = IF e = None THEN entry
                 ELSE [entry EXCEPT ![s].snap = now, ![s].fresh = TRUE]
  /\ UNCHANGED <<tiers, pool, glob, agent, order, conn, armed, down, doubled, raced>>

LastConnects(c) ==
  /\ call[c].pc = "last"
  /\ "session" \in tiers
  /\ LET s == Session(c) IN
     /\ entry[s] = None
     /\ IF conn[s] # None
        THEN /\ call' = [call EXCEPT ![c].pc = "session", ![c].wait = conn[s]]
             /\ UNCHANGED <<pool, conn>>
        ELSE /\ Starts(s, call[c].ag)
             /\ conn' = [conn EXCEPT ![s] = NewPool(s)]
             /\ call' = [call EXCEPT ![c].pc = "session", ![c].wait = NewPool(s)]
  /\ UNCHANGED <<tiers, glob, agent, entry, order, armed, down, doubled, raced>>

-----------------------------------------------------------------------------
(* A connect and its outcome.  A pool is up when one of its servers is; the *)
(* servers are tried side by side, each a few times with a pause between,   *)
(* and all of that is one wait here.                                        *)

\* One server has answered tools/list; the others are still at it.  It makes a
\* difference only to a server whose tools change.
Lists(p) ==
  /\ Quiet
  /\ pool[p].st = "connecting"
  /\ MaxChanges[tiers] > 0
  /\ pool' = [pool EXCEPT ![p].st = "listed", ![p].cat = pool[p].live]
  /\ UNCHANGED <<tiers, rt, call, down, doubled, raced>>

\* Promise.all is done.
Succeeds(p) == Connecting(p)
Fails(p) == pool[p].st = "connecting"

Opened(p) == [pool EXCEPT ![p].st = "open", ![p].ag = None]
Abandoned(p) == [pool EXCEPT ![p] = Unused]

\* connectGlobalPool is back in the caller that started it.
GlobalDone(c) ==
  LET p == call[c].wait IN
  /\ Quiet
  /\ call[c].pc = "global"
  /\ \/ /\ Succeeds(p)
        /\ pool' = Opened(p)
        /\ glob' = [glob EXCEPT !.use = p, !.shut = p, !.connected = TRUE, !.failed = FALSE,
                      !.rearm = FALSE, !.ctx = GlobalContext(p), !.fresh = TRUE]
     \/ /\ Fails(p)
        /\ pool' = Abandoned(p)
        /\ glob' = [glob EXCEPT !.failed = TRUE, !.rearm = FALSE,
                      !.ctx = GlobalContext(glob.use), !.fresh = TRUE]
  /\ call' = [call EXCEPT ![c].pc = "middle", ![c].wait = None]
  /\ UNCHANGED <<tiers, agent, entry, order, conn, armed, down, doubled, raced>>

Waiters(p) == {c \in Callers : call[c].wait = p}

\* All who waited for the agent's pool go on, with it or without.
AgentResumes(p, ag) ==
  /\ call' = [c \in Callers |->
                IF c \in Waiters(p) THEN [call[c] EXCEPT !.pc = "last", !.wait = None, !.ag = ag]
                ELSE call[c]]
  /\ conn' = [conn EXCEPT ![KeyOf(p)] = None]
  /\ UNCHANGED <<tiers, glob, entry, order, armed, down, doubled, raced>>

\* An agent's pool is up, or the failure is not cached.
AgentDone(p) ==
  /\ Quiet
  /\ KeyOf(p) \in Agents
  /\ \/ /\ Succeeds(p)
        /\ pool' = Opened(p)
        /\ agent' = [agent EXCEPT ![KeyOf(p)] = p]
        /\ AgentResumes(p, p)
     \/ /\ Fails(p)
        /\ pool' = Abandoned(p)
        /\ UNCHANGED agent
        /\ AgentResumes(p, None)

\* trackSessionCacheEntry, the part that keeps the order: s moves to the end, and
\* those that were behind it one place up.
Tracked(s) ==
  [x \in Sessions |->
     IF x = s THEN 1
     ELSE IF order[x] # 0 /\ (order[s] = 0 \/ order[x] < order[s]) THEN order[x] + 1
     ELSE order[x]]

\* The order without the sessions that are gone.
Untracked(gone) ==
  [x \in Sessions |->
     IF x \in gone THEN 0
     ELSE order[x] - Cardinality({y \in gone : order[y] # 0 /\ order[y] < order[x]})]

\* A session's pool is up and its context cached; the oldest entry goes when
\* there are too many.
SessionUp(p) ==
  LET s == KeyOf(p)
      own == [snap |-> Context(glob.use, pool[p].ag, p), ag |-> pool[p].ag, own |-> p,
              fresh |-> TRUE]
      Oldest == {x \in Sessions : Tracked(s)[x] > CacheLimit}
      over == Oldest # {}
      old == CHOOSE x \in Oldest : TRUE
      full == [entry EXCEPT ![s] = own]
  IN
  /\ Quiet
  /\ s \in Sessions
  /\ Succeeds(p)
  /\ LET opened == Opened(p)[p] IN
     pool' = [q \in PoolIds |->
                IF q = p THEN opened
                ELSE IF over /\ full[old] # None /\ q = full[old].own THEN Closed(q)
                ELSE pool[q]]
  /\ entry' = IF over THEN AgeAll([full EXCEPT ![old] = None]) ELSE full
  /\ glob' = IF over THEN [glob EXCEPT !.fresh = FALSE] ELSE glob
  /\ order' = IF over THEN [Tracked(s) EXCEPT ![old] = 0] ELSE Tracked(s)
  /\ armed' = IF over THEN armed \ {old} ELSE armed
  /\ conn' = [conn EXCEPT ![s] = None]
  /\ call' = [c \in Callers |-> IF c \in Waiters(p) THEN Returns(call[c], own.snap) ELSE call[c]]
  /\ UNCHANGED <<tiers, agent, down, doubled, raced>>

\* The fallback without the session's servers is for those who waited only.
SessionFails(p) ==
  LET s == KeyOf(p) IN
  /\ Quiet
  /\ s \in Sessions
  /\ Fails(p)
  /\ pool' = Abandoned(p)
  /\ conn' = [conn EXCEPT ![s] = None]
  /\ call' = [c \in Callers |-> IF c \in Waiters(p)
                                THEN Returns(call[c], Context(glob.use, pool[p].ag, None))
                                ELSE call[c]]
  /\ UNCHANGED <<tiers, glob, agent, entry, order, armed, down, doubled, raced>>

-----------------------------------------------------------------------------
(* Idle eviction.  Closing a pool never fails: pool.close swallows the      *)
(* errors of its sessions.                                                 *)

\* Faulty variant: the failure is forgotten and the circuits are not re-armed.
EvictGlobalUnarmed ==
  /\ Quiet
  /\ Global \in armed
  /\ armed' = armed \ {Global}
  /\ pool' = CloseAll({glob.shut})
  /\ glob' = [glob EXCEPT !.use = None, !.shut = None, !.connected = FALSE, !.failed = FALSE,
                !.ctx = GlobalContext(None), !.fresh = TRUE]
  /\ entry' = AgeAll(entry)
  /\ UNCHANGED <<tiers, agent, order, conn, call, down, doubled, raced>>

EvictGlobal ==
  /\ Quiet
  /\ Global \in armed
  /\ armed' = armed \ {Global}
  /\ pool' = CloseAll({glob.shut})
  /\ glob' = [glob EXCEPT !.use = IF glob.shut = None THEN @ ELSE None, !.shut = None,
                !.connected = IF glob.shut = None THEN @ ELSE FALSE,
                !.failed = FALSE, !.rearm = TRUE,
                !.ctx = GlobalContext(IF glob.shut = None THEN glob.use ELSE None),
                !.fresh = TRUE]
  /\ entry' = AgeAll(entry)
  /\ UNCHANGED <<tiers, agent, order, conn, call, down, doubled, raced>>

\* Faulty variant: the sessions' entries stay.
DependentsNone(a) == {}

\* The sessions whose entries embed the pool of agent a.
Dependents(a) == {s \in Sessions : entry[s] # None /\ AgentOf[s] = a}

\* An agent's pool goes, and with it the entries of the agent's sessions.
EvictAgent(a) ==
  LET gone == IF agent[a] = None THEN {} ELSE Dependents(a) IN
  /\ Quiet
  /\ a \in armed
  /\ armed' = armed \ ({a} \cup gone)
  /\ pool' = CloseAll({agent[a]} \cup {entry[s].own : s \in gone})
  /\ agent' = [agent EXCEPT ![a] = None]
  /\ entry' = [s \in Sessions |-> IF s \in gone THEN None ELSE Age(entry[s])]
  /\ order' = Untracked(gone)
  /\ glob' = [glob EXCEPT !.fresh = FALSE]
  /\ raced' = (raced \/ \E p \in PoolIds : Connecting(p) /\ pool[p].ag # None /\ pool[p].ag = agent[a])
  /\ UNCHANGED <<tiers, conn, call, down, doubled>>

EvictSession(s) ==
  /\ Quiet
  /\ s \in armed
  /\ armed' = armed \ {s}
  /\ pool' = IF entry[s] = None THEN pool ELSE CloseAll({entry[s].own})
  /\ entry' = AgeAll([entry EXCEPT ![s] = None])
  /\ order' = Untracked({s})
  /\ glob' = [glob EXCEPT !.fresh = FALSE]
  /\ UNCHANGED <<tiers, agent, conn, call, down, doubled, raced>>

-----------------------------------------------------------------------------
(* tools/list_changed. *)

\* The server's tools change and it says so; notifications may overtake answers.
Changes(p) ==
  /\ Quiet
  /\ pool[p].st \in {"listed", "open"}
  /\ MapThenSumSet(LAMBDA q : pool[q].live, PoolIds) < MaxChanges[tiers]
  /\ pool' = [pool EXCEPT ![p].live = @ + 1, ![p].note = TRUE]
  /\ UNCHANGED <<tiers, rt, call, down, doubled, raced>>

\* handleServerNotification and refreshToolCatalog.  Before the pool has
\* registered its sessions there is nothing to fetch with.
Notified(p) ==
  /\ Quiet
  /\ pool[p].note
  /\ pool' = [pool EXCEPT ![p].note = FALSE,
       ![p].fetch = IF pool[p].st = "listed" THEN "idle" ELSE IF @ = "idle" THEN "asked" ELSE @,
       ![p].again = pool[p].fetch # "idle",
       ![p].missed = @ \/ pool[p].st = "listed"]
  /\ UNCHANGED <<tiers, rt, call, down, doubled, raced>>

\* The server answers tools/list with what it has.
Serves(p) ==
  /\ Quiet
  /\ pool[p].st = "open"
  /\ pool[p].fetch = "asked"
  /\ pool' = [pool EXCEPT ![p].fetch = "served", ![p].got = pool[p].live]
  /\ UNCHANGED <<tiers, rt, call, down, doubled, raced>>

\* Faulty variant: what was queued meanwhile is dropped.
NextFetchNone(p) == "idle"

\* The refresh is over; one queued meanwhile starts now.
NextFetch(p) == IF pool[p].again THEN "asked" ELSE "idle"

Fetched(p) ==
  /\ Quiet
  /\ pool[p].fetch = "served"
  /\ pool' = [pool EXCEPT ![p].cat = pool[p].got, ![p].missed = FALSE, ![p].got = 0,
                          ![p].fetch = NextFetch(p), ![p].again = FALSE]
  /\ entry' = AgeAll(entry)
  /\ glob' = [glob EXCEPT !.fresh = FALSE]
  /\ UNCHANGED <<tiers, agent, order, conn, armed, call, down, doubled, raced>>

\* The catalog that was there is kept.
FetchFails(p) ==
  /\ Quiet
  /\ pool[p].fetch # "idle"
  /\ pool' = [pool EXCEPT ![p].missed = TRUE, ![p].got = 0,
                          ![p].fetch = NextFetch(p), ![p].again = FALSE]
  /\ UNCHANGED <<tiers, rt, call, down, doubled, raced>>

\* The server's process ends: its session fails every request from now on, and
\* the runtime is not told.
Dies(p) ==
  /\ Quiet
  /\ tiers \in MayDie
  /\ pool[p].st = "open"
  /\ pool' = [pool EXCEPT ![p].st = "dead", ![p].note = FALSE, ![p].fetch = "idle",
                          ![p].got = 0, ![p].again = FALSE, ![p].missed = TRUE]
  /\ UNCHANGED <<tiers, rt, call, down, doubled, raced>>

-----------------------------------------------------------------------------
(* shutdown(), from one await to the next. *)

ShutdownGlobal ==
  /\ Quiet
  /\ tiers \in MayStop
  /\ down = "no"
  /\ down' = "global"
  /\ armed' = {}
  /\ pool' = CloseAll({glob.shut})
  /\ UNCHANGED <<tiers, glob, agent, entry, order, conn, call, doubled, raced>>

ShutdownAgents ==
  /\ Quiet
  /\ down = "global"
  /\ down' = "agents"
  /\ pool' = CloseAll({agent[a] : a \in Agents})
  /\ UNCHANGED <<tiers, rt, call, doubled, raced>>

ShutdownSessions ==
  /\ Quiet
  /\ down = "agents"
  /\ down' = "sessions"
  /\ pool' = CloseAll({entry[s].own : s \in {x \in Sessions : entry[x] # None}})
  /\ agent' = [a \in Agents |-> None]
  /\ conn' = [k \in DOMAIN conn |-> IF k \in Agents THEN None ELSE conn[k]]
  /\ UNCHANGED <<tiers, glob, entry, order, armed, call, doubled, raced>>

ShutdownDone ==
  /\ Quiet
  /\ down = "sessions"
  /\ down' = "done"
  /\ entry' = [s \in Sessions |-> None]
  /\ order' = [s \in Sessions |-> 0]
  /\ conn' = [k \in DOMAIN conn |-> IF k \in Sessions THEN None ELSE conn[k]]
  /\ UNCHANGED <<tiers, pool, glob, agent, armed, call, doubled, raced>>

-----------------------------------------------------------------------------
Resolve(c) ==
  \/ EnterConnects(c) \/ EnterPasses(c)
  \/ MiddleReturns(c) \/ MiddlePasses(c) \/ MiddleConnects(c)
  \/ LastReturns(c) \/ LastConnects(c)

Connect(p) == Lists(p) \/ AgentDone(p) \/ SessionUp(p) \/ SessionFails(p)

Next ==
  \/ \E c \in Callers : Begin(c) \/ Lapse(c) \/ End(c) \/ Resolve(c) \/ GlobalDone(c)
  \/ \E p \in PoolIds : Connect(p) \/ Changes(p) \/ Notified(p) \/ Serves(p) \/ Fetched(p) \/ FetchFails(p) \/ Dies(p)
  \/ EvictGlobal
  \/ \E a \in Agents : EvictAgent(a)
  \/ \E s \in Sessions : EvictSession(s)
  \/ ShutdownGlobal \/ ShutdownAgents \/ ShutdownSessions \/ ShutdownDone

Spec == Init /\ [][Next]_vars

-----------------------------------------------------------------------------
(* Properties. *)

TypeOK ==
  /\ tiers \in Configs
  /\ pool \in [PoolIds -> PoolRecords]
  /\ \A p \in PoolIds : pool[p].cat <= pool[p].live \/ pool[p].st = "closed"
  /\ glob \in GlobalRecords
  /\ agent \in [Agents -> PoolRef]
  /\ entry \in [Sessions -> Entries \cup {None}]
  /\ conn \in [Agents \cup Sessions -> PoolRef]
  /\ armed \subseteq Keys
  /\ call \in [Callers -> CallRecords]
  /\ down \in {"no", "global", "agents", "sessions", "done"}
  /\ doubled \in BOOLEAN /\ raced \in BOOLEAN

\* Who will close pool p: the runtime's own variables, or the connect that is
\* bringing it up.
Owned(p) ==
  \/ glob.shut = p
  \/ \E a \in Agents : agent[a] = p
  \/ \E s \in Sessions : entry[s] # None /\ entry[s].own = p

\* No pool outlives its owner: every pool that is up can be reached by the
\* eviction or the shutdown that will close it.  Callers of one agent or one
\* session join the connect under way; only connects of the global pool, which
\* nothing joins, can leave a pool behind.
NoPoolLeaks ==
  (down = "no" /\ ~doubled) => \A p \in PoolIds : Up(p) => Owned(p)

\* The same without the exception for overlapping connects of the global pool.
EveryPoolOwned == down = "no" => \A p \in PoolIds : Up(p) => Owned(p)

\* resolveContext never returns a context with a pool that was closed before it
\* was called, so the retry of a call whose pool was evicted reaches an open one.
NoClosedPoolServed ==
  (down = "no" /\ ~raced) => \A c \in Callers : call[c].pc = "run" => call[c].dead = {}

\* The same without the exception for an eviction during a session's connect.
NeverServesClosed ==
  down = "no" => \A c \in Callers : call[c].pc = "run" => call[c].dead = {}

\* What a snapshot advertises is what its pools have now.
Exact(snap) ==
  \A t \in DOMAIN snap : snap[t] # None =>
    snap[t] = Catalog(snap[t].pool) /\ pool[snap[t].pool].st # "closed"

\* A cached context that resolveContext would hand out without rebuilding it
\* lists exactly the tools its pools have, and no tool of a closed pool.
CacheCurrent ==
  (down = "no" /\ ~raced) =>
    /\ \A s \in Sessions : (entry[s] # None /\ entry[s].fresh) => Exact(entry[s].snap)
    /\ glob.fresh => Exact(glob.ctx)

\* A cached context that would not be rebuilt has the global pool's tools.
CacheComplete ==
  (down = "no" /\ ~doubled) =>
    \A s \in Sessions : (entry[s] # None /\ entry[s].fresh) =>
      entry[s].snap.global = Catalog(glob.use)

\* No list_changed is lost: a pool at rest whose last fetch succeeded has the
\* tools its server has, however notifications and answers overtook each other.
ChangesSeen ==
  \A p \in PoolIds :
    (pool[p].st = "open" /\ ~pool[p].note /\ pool[p].fetch = "idle" /\ ~pool[p].missed)
      => pool[p].cat = pool[p].live

\* A reconnect that resolveContext starts always re-arms the circuit breakers,
\* so the fail-fast path of an open breaker is never taken.
RearmedReconnect == NeedsGlobal => glob.rearm

\* Pools are closed by somebody and not used afterwards, whatever connects, idle
\* evictions and failures overlap; a reconnect after them is never cut short.
PoolsOwned == TypeOK /\ NoPoolLeaks /\ NoClosedPoolServed /\ RearmedReconnect

\* The tools a turn is shown are the tools the servers have: no list_changed is
\* lost, and no cached context outlives the catalogs it was made from.
CatalogsCurrent == CacheCurrent /\ ChangesSeen

\* The idle timer of the global pool runs only when no turn does.
LastTurnArms == Global \in armed => \A c \in Turns : call[c].pc = "idle"

\* When shutdown is over and nothing is connecting, no pool is up.
NothingLeftUp ==
  (down = "done" /\ \A c \in Callers : call[c].pc = "idle")
    => \A p \in PoolIds : ~Up(p)
=============================================================================
