--------------------------- MODULE AnalyticsCaches ---------------------------
(***************************************************************************)
(* The background caches of backend/service/api_service.go (healthService, *)
(* qualityService, duplicateService) with the statements that             *)
(* backend/repository/analytics_repository.go runs for them, the requests  *)
(* that share the connection pool with them, outages of the database and   *)
(* restarts of the process.                                                *)
(*                                                                         *)
(* A goroutine is an actor.  Its pc names the database operation it is at; *)
(* it waits for a connection while it holds none for it.  A "tx" use is a  *)
(* transaction's connection, a "stmt" use that of a single statement.  The *)
(* content of the tables is a version number, 0 where a cache holds        *)
(* nothing yet.                                                            *)
(***************************************************************************)
EXTENDS Integers, FiniteSets

CONSTANTS
    MaxOpen,        \* DB_MAX_OPEN_CONNS, any integer
    Clients,        \* goroutines serving HTTP requests
    MaxVersion,     \* bound on the changes of the tables
    MaxOutages      \* bound on the outages of the database

Refreshers == {"health", "quality", "duplicates"}
Actors == Refreshers \cup Clients
Uses == Actors \X {"tx", "stmt"}

ASSUME AnalyticsAssumption ==
    /\ MaxOpen \in Int
    /\ Refreshers \cap Clients = {}
    /\ MaxVersion \in Nat \ {0} /\ MaxOutages \in Nat

VARIABLES
    version,    \* content of the tables
    dbUp,       \* the database answers
    outages,    \* outages so far
    up,         \* the server process runs
    inUse,      \* the pool's connections: see ConnPool
    lost,
    pc,         \* actor -> the operation it is at
    got,        \* actor -> the version the refresh under way has read, or 0
    cache       \* cachedTotal, cached, cachedPairs, cachedIPs

env == <<version, dbUp, outages>>
pool == <<inUse, lost>>
vars == <<version, dbUp, outages, up, inUse, lost, pc, got, cache>>

Caches == {"total", "quality", "pairs", "ips"}

Pool == INSTANCE ConnPool

Published == INSTANCE PublishedValues WITH
    Names <- Caches, latest <- version, alive <- up, value <- cache

\* Operations that take a connection from the pool for one statement, those
\* that take one for a transaction, those that run inside one, and all those
\* during which a transaction keeps its connection.
Statements == {"count", "emailStats", "phoneStats", "ips", "query", "emails", "phones"}
Begins == {"beginQuality", "beginPairs"}
InTx == {"scan", "sample", "pairs"}
TxOpen == InTx \cup {"emailStats", "phoneStats"}

\* Where a refresher's goroutine starts each refresh.
FirstOp == [health |-> "count", quality |-> "beginQuality", duplicates |-> "beginPairs"]

RefresherOps == [
    health |-> {"sleep", "count"},
    quality |-> {"sleep", "beginQuality", "scan", "emailStats", "phoneStats", "sample"},
    duplicates |-> {"sleep", "beginPairs", "pairs", "ips"}]

OpsOf(a) == IF a \in Refreshers THEN RefresherOps[a] ELSE {"idle", "query", "emails", "phones"}

TypeOK ==
    /\ version \in 1 .. MaxVersion /\ dbUp \in BOOLEAN /\ outages \in 0 .. MaxOutages
    /\ up \in BOOLEAN
    /\ inUse \subseteq Uses /\ lost \subseteq inUse
    /\ \A a \in Actors : pc[a] \in OpsOf(a)
    /\ DOMAIN pc = Actors
    /\ got \in [Actors -> 0 .. MaxVersion]
    /\ cache \in [Caches -> 0 .. MaxVersion]

-----------------------------------------------------------------------------
(* The process and its surroundings. *)

\* The constructors start one goroutine each, which refreshes at once, before
\* its ticker has fired; nothing survives from an earlier process.
Init ==
    /\ version = 1 /\ dbUp = TRUE /\ outages = 0
    /\ up = TRUE
    /\ inUse = {} /\ lost = {}
    /\ pc = [a \in Actors |-> IF a \in Refreshers THEN FirstOp[a] ELSE "idle"]
    /\ got = [a \in Actors |-> 0]
    /\ cache = [x \in Caches |-> 0]

\* The process dies with everything it has in memory.
Die ==
    /\ up' = FALSE
    /\ Pool!EmptyPool
    /\ pc' = [a \in Actors |-> IF a \in Refreshers THEN FirstOp[a] ELSE "idle"]
    /\ got' = [a \in Actors |-> 0]
    /\ cache' = [x \in Caches |-> 0]

\* Docker starts it again; until the database answers, gorm.Open fails and main
\* ends in log.Fatalf.
Restart ==
    /\ ~up /\ dbUp
    /\ up' = TRUE
    /\ UNCHANGED <<env, pool, pc, got, cache>>

\* External: the tables change, the database goes down and comes back.
Change ==
    /\ version < MaxVersion
    /\ version' = version + 1
    /\ UNCHANGED <<dbUp, outages, up, pool, pc, got, cache>>

DatabaseDown ==
    /\ dbUp /\ outages < MaxOutages
    /\ dbUp' = FALSE /\ outages' = outages + 1
    /\ Pool!LoseSessions
    /\ UNCHANGED <<version, up, pc, got, cache>>

DatabaseBack ==
    /\ ~dbUp
    /\ dbUp' = TRUE
    /\ UNCHANGED <<version, outages, up, pool, pc, got, cache>>

-----------------------------------------------------------------------------
(* Statements and connections. *)

Stmt(a) == <<a, "stmt">>
Tx(a) == <<a, "tx">>

GoTo(a, op) == pc' = [pc EXCEPT ![a] = op]

Read(r) == got' = [got EXCEPT ![r] = version]

Publish(x, r) == cache' = [cache EXCEPT ![x] = got[r]]

\* Waiting for a connection, for a statement or to begin a transaction.
Waiting(a) == pc[a] \in Begins \/ (pc[a] \in Statements /\ ~Pool!Holds(Stmt(a)))

\* The pool hands a connection to a waiting statement, which starts; what the
\* refreshers count and group is read as it is now.
GetConn(a) ==
    /\ up
    /\ pc[a] \in Statements /\ Waiting(a)
    /\ Pool!Acquire(Stmt(a), dbUp)
    /\ IF pc[a] \in {"count", "ips"} THEN Read(a) ELSE UNCHANGED got
    /\ UNCHANGED <<env, up, pc, cache>>

\* A statement at op ends, well or badly, and a goes on to next with what a
\* transaction that goes on has read.
EndStatement(a, op, next) ==
    /\ pc[a] = op /\ Pool!Holds(Stmt(a))
    /\ Pool!Release(Stmt(a))
    /\ GoTo(a, next)
    /\ got' = [got EXCEPT ![a] = IF Pool!Holds(Tx(a)) THEN @ ELSE 0]
    /\ UNCHANGED <<env, up>>

\* bigWorkMemDB: Begin takes a connection, which Rollback will return.
Begin(a, op, next) ==
    /\ up /\ dbUp
    /\ pc[a] = op
    /\ Pool!Acquire(Tx(a), dbUp)
    /\ Read(a)
    /\ GoTo(a, next)
    /\ UNCHANGED <<env, up, cache>>

\* A transaction ends at op with the deferred Rollback, and a goes on to next.
EndTx(a, op, next) ==
    /\ pc[a] = op
    /\ Pool!Release(Tx(a))
    /\ GoTo(a, next)
    /\ got' = [got EXCEPT ![a] = 0]
    /\ UNCHANGED <<env, up>>

-----------------------------------------------------------------------------
(* The refreshers. *)

\* for range ticker.C { s.refresh() }: the ticker's channel keeps a tick that
\* fires during a refresh, so the next refresh starts at any time after it.
Wake(r) ==
    /\ up
    /\ pc[r] = "sleep"
    /\ GoTo(r, FirstOp[r])
    /\ UNCHANGED <<env, up, pool, got, cache>>

\* healthService.refresh: SELECT count(*).
CountOk ==
    /\ EndStatement("health", "count", "sleep")
    /\ Pool!Usable(Stmt("health"))
    /\ Publish("total", "health")

\* A mutation of CountFails: the goroutine returns at the first error.
CountFailsForGood ==
    /\ EndStatement("health", "count", "idle")
    /\ UNCHANGED cache

CountFails ==
    /\ EndStatement("health", "count", "sleep")
    /\ UNCHANGED cache

\* QualityMetrics: the scan in the transaction...
BeginQuality == Begin("quality", "beginQuality", "scan")

\* ...whose failed Begin leaves no row to scan: Row() is nil, Scan panics in
\* the refresher's goroutine, which no recover covers.
BeginQualityPanics ==
    /\ up /\ ~dbUp
    /\ pc["quality"] = "beginQuality" /\ ~Pool!Exhausted
    /\ Die
    /\ UNCHANGED env

ScanOk ==
    /\ pc["quality"] = "scan" /\ Pool!Usable(Tx("quality"))
    /\ GoTo("quality", "emailStats")
    /\ UNCHANGED <<env, up, pool, got, cache>>

\* A mutation of ScanFails: the early return comes before the deferred Rollback.
ScanFailsInTx ==
    /\ pc["quality"] = "scan"
    /\ GoTo("quality", "sleep")
    /\ UNCHANGED <<env, up, pool, got, cache>>

ScanFails ==
    /\ EndTx("quality", "scan", "sleep")
    /\ UNCHANGED cache

\* ...then two estimateDistinct statements on connections of their own, while
\* the transaction keeps its connection.  An error only loses the estimate...
EstimateEnds ==
    /\ \/ EndStatement("quality", "emailStats", "phoneStats")
       \/ EndStatement("quality", "phoneStats", "sample")
    /\ UNCHANGED cache

\* ...then the sample, in the transaction again.
SampleOk ==
    /\ EndTx("quality", "sample", "sleep")
    /\ Pool!Usable(Tx("quality"))
    /\ Publish("quality", "quality")

SampleFails ==
    /\ EndTx("quality", "sample", "sleep")
    /\ UNCHANGED cache

\* duplicateService.refresh: the pairs in a transaction, then, whatever became
\* of them, the IP groups in a plain statement.
BeginPairs == Begin("duplicates", "beginPairs", "pairs")

BeginPairsFails ==
    /\ up /\ ~dbUp
    /\ pc["duplicates"] = "beginPairs" /\ ~Pool!Exhausted
    /\ GoTo("duplicates", "ips")
    /\ UNCHANGED <<env, up, pool, got, cache>>

\* A mutation of IPsFail: an error drops the pairs it was refreshed with, too.
IPsFailEmpties ==
    /\ EndStatement("duplicates", "ips", "sleep")
    /\ cache' = [cache EXCEPT !["pairs"] = 0, !["ips"] = 0]

\* A mutation of PairsOk: the refresh goes on inside the transaction.
PairsOkInTx ==
    /\ pc["duplicates"] = "pairs" /\ Pool!Usable(Tx("duplicates"))
    /\ GoTo("duplicates", "ips")
    /\ Publish("pairs", "duplicates")
    /\ UNCHANGED <<env, up, pool, got>>

PairsOk ==
    /\ EndTx("duplicates", "pairs", "ips")
    /\ Pool!Usable(Tx("duplicates"))
    /\ Publish("pairs", "duplicates")

PairsFail ==
    /\ EndTx("duplicates", "pairs", "ips")
    /\ UNCHANGED cache

IPsOk ==
    /\ EndStatement("duplicates", "ips", "sleep")
    /\ Pool!Usable(Stmt("duplicates"))
    /\ Publish("ips", "duplicates")

IPsFail ==
    /\ EndStatement("duplicates", "ips", "sleep")
    /\ UNCHANGED cache

-----------------------------------------------------------------------------
(* Requests.  The endpoints that only read a cache change nothing. *)

\* /api/quality loads its cache and, if that holds something, samples emails
\* and phones; any other handler runs a "query", as /api/health does to ping.
Arrive(c) ==
    /\ up
    /\ pc[c] = "idle"
    /\ \/ GoTo(c, "query")
       \/ cache["quality"] # 0 /\ GoTo(c, "emails")
    /\ UNCHANGED <<env, up, pool, got, cache>>

\* The handler answers, with an error or without; Compute swallows the errors
\* of its samples.
RequestStatementEnds(c) ==
    /\ \/ EndStatement(c, "query", "idle")
       \/ EndStatement(c, "emails", "phones")
       \/ EndStatement(c, "phones", "idle")
    /\ UNCHANGED cache

-----------------------------------------------------------------------------
Health == GetConn("health") \/ CountOk \/ CountFails

Quality ==
    \/ GetConn("quality") \/ BeginQuality \/ BeginQualityPanics
    \/ ScanOk \/ ScanFails \/ EstimateEnds \/ SampleOk \/ SampleFails

Duplicates ==
    \/ GetConn("duplicates") \/ BeginPairs \/ BeginPairsFails
    \/ PairsOk \/ PairsFail \/ IPsOk \/ IPsFail

Serve(c) == GetConn(c) \/ RequestStatementEnds(c)

Next ==
    \/ Restart \/ Change \/ DatabaseDown \/ DatabaseBack
    \/ \E r \in Refreshers : Wake(r)
    \/ Health \/ Quality \/ Duplicates
    \/ \E c \in Clients : Arrive(c) \/ Serve(c)

Spec == Init /\ [][Next]_vars

\* What the schedulers give: goroutines run, tickers fire, Docker restarts, an
\* outage ends, and a statement ends (statement_timeout).  Waiters for a
\* connection are served in no order, but none is passed over for ever: a
\* goroutine that can go on again and again does.
Scheduling ==
    /\ WF_vars(Restart) /\ WF_vars(DatabaseBack)
    /\ \A r \in Refreshers : WF_vars(Wake(r))
    /\ SF_vars(Health) /\ SF_vars(Quality) /\ SF_vars(Duplicates)
    /\ \A c \in Clients : SF_vars(Serve(c))

\* A background query that is tried again and again succeeds some time.
QueriesSucceed ==
    /\ SF_vars(CountOk) /\ SF_vars(ScanOk) /\ SF_vars(SampleOk)
    /\ SF_vars(PairsOk) /\ SF_vars(IPsOk)

FairSpec == Spec /\ Scheduling
RefreshSpec == Spec /\ Scheduling /\ QueriesSucceed

-----------------------------------------------------------------------------
\* Connections are not leaked: every connection in use is held for an operation
\* its actor is at, and a transaction that goes on has its connection (the
\* deferred Rollbacks and early returns of analytics_repository.go).
NoLeak ==
    /\ \A u \in inUse :
          \/ u[2] = "stmt" /\ pc[u[1]] \in Statements
          \/ u[2] = "tx" /\ pc[u[1]] \in TxOpen
    /\ \A a \in Actors : pc[a] \in TxOpen => Pool!Holds(Tx(a))

\* Whenever every connection is in use, some connection is held by an actor
\* that is not itself waiting for one: QualityMetrics, which holds its
\* transaction's connection while estimateDistinct waits for another, never
\* blocks everybody.
NoGridlock == Pool!Exhausted => \E u \in inUse : ~Waiting(u[1])

\* "the cache just serves its last-good value while a refresh is in flight":
\* while the process lives, no refresh, failed, late or overtaken by a change
\* of the tables, empties a cache or takes it back to older content.  This
\* follows from PublishesInOrder.
CachesNeverGoBack ==
    [][up' => \A x \in Caches : cache'[x] >= cache[x]]_vars

\* The goroutines, statements and transactions together are a set of published
\* values: each cache is a register with one writer that moves on to content
\* the tables had, one cache at a time, or ends with the process.
PublishesInOrder == Published!Spec

\* After the last change and the last outage, every cache comes to hold the
\* content of the tables, and keeps it.
CachesCatchUp == \A x \in Caches : <>[](up /\ cache[x] = version)

\* Every request ends: the goroutine that serves it is free again and again.
EveryRequestEnds == \A c \in Clients : []<>(pc[c] = "idle")

\* The same promise whatever happens to the database: the process stays up and
\* keeps its last-good values.
LastGoodValueServed == [][\A x \in Caches : cache[x] # 0 => cache'[x] # 0]_vars
=============================================================================
