------------------------ MODULE AnalyticsCachesProofs ------------------------
(***************************************************************************)
(* Proofs about AnalyticsCaches, for any number of clients and of          *)
(* connections, any history of the tables and any number of outages.       *)
(***************************************************************************)
EXTENDS AnalyticsCaches, FiniteSetTheorems, TLAPS

-----------------------------------------------------------------------------
(* Type correctness. *)

LEMMA TypeInit == Init => TypeOK
  BY AnalyticsAssumption
  DEF Init, TypeOK, Uses, Actors, Refreshers, Caches, FirstOp, OpsOf, RefresherOps

\* The steps of the pool keep the types of its two variables.
LEMMA ReleaseType ==
  ASSUME TypeOK, NEW u, Pool!Release(u)
  PROVE  inUse' \subseteq Uses /\ lost' \subseteq inUse'
  BY DEF TypeOK, Pool!Release

LEMMA AcquireType ==
  ASSUME TypeOK, NEW u \in Uses, Pool!Acquire(u, dbUp)
  PROVE  inUse' \subseteq Uses /\ lost' \subseteq inUse'
  BY DEF TypeOK, Pool!Acquire

\* An actor that goes to one of its operations keeps the types of pc.
LEMMA GoToType ==
  ASSUME TypeOK, NEW a \in Actors, NEW op \in OpsOf(a), GoTo(a, op)
  PROVE  DOMAIN pc' = Actors /\ \A b \in Actors : pc'[b] \in OpsOf(b)
  BY DEF TypeOK, GoTo

\* What an actor has read can be published.
LEMMA PublishType ==
  ASSUME TypeOK, NEW x \in Caches, NEW r \in Actors, Publish(x, r)
  PROVE  cache' \in [Caches -> 0 .. MaxVersion]
  BY DEF TypeOK, Publish

\* Only known operations follow one another.
LEMMA Operations ==
  /\ {"health", "quality", "duplicates"} \subseteq Actors
  /\ Caches = {"total", "quality", "pairs", "ips"}
  /\ OpsOf("health") = {"sleep", "count"}
  /\ OpsOf("quality") = {"sleep", "beginQuality", "scan", "emailStats", "phoneStats", "sample"}
  /\ OpsOf("duplicates") = {"sleep", "beginPairs", "pairs", "ips"}
  /\ \A c \in Clients : c \in Actors /\ OpsOf(c) = {"idle", "query", "emails", "phones"}
  BY AnalyticsAssumption DEF Actors, Refreshers, Caches, OpsOf, RefresherOps

\* A new process starts with well-typed variables.
LEMMA DieType ==
  ASSUME TypeOK, Die, UNCHANGED env
  PROVE  TypeOK'
<1>1. inUse' = {} /\ lost' = {} /\ up' \in BOOLEAN
  BY DEF Die, Pool!EmptyPool
<1>2. DOMAIN pc' = Actors /\ \A a \in Actors : pc'[a] \in OpsOf(a)
  BY DEF Die, Actors, Refreshers, FirstOp, OpsOf, RefresherOps
<1>3. got' \in [Actors -> 0 .. MaxVersion] /\ cache' \in [Caches -> 0 .. MaxVersion]
  BY AnalyticsAssumption DEF Die
<1> QED
  BY <1>1, <1>2, <1>3 DEF TypeOK, env

LEMMA EndStatementType ==
  ASSUME TypeOK, NEW a \in Actors, NEW op, NEW next \in OpsOf(a), EndStatement(a, op, next),
         cache' \in [Caches -> 0 .. MaxVersion]
  PROVE  TypeOK'
<1>1. inUse' \subseteq Uses /\ lost' \subseteq inUse'
  BY ReleaseType DEF EndStatement
<1>2. DOMAIN pc' = Actors /\ \A b \in Actors : pc'[b] \in OpsOf(b)
  BY GoToType DEF EndStatement
<1>3. got' \in [Actors -> 0 .. MaxVersion]
  BY AnalyticsAssumption DEF EndStatement, TypeOK
<1> QED
  BY <1>1, <1>2, <1>3 DEF EndStatement, TypeOK, env

LEMMA EndTxType ==
  ASSUME TypeOK, NEW a \in Actors, NEW op, NEW next \in OpsOf(a), EndTx(a, op, next),
         cache' \in [Caches -> 0 .. MaxVersion]
  PROVE  TypeOK'
<1>1. inUse' \subseteq Uses /\ lost' \subseteq inUse'
  BY ReleaseType DEF EndTx
<1>2. DOMAIN pc' = Actors /\ \A b \in Actors : pc'[b] \in OpsOf(b)
  BY GoToType DEF EndTx
<1>3. got' \in [Actors -> 0 .. MaxVersion]
  BY AnalyticsAssumption DEF EndTx, TypeOK
<1> QED
  BY <1>1, <1>2, <1>3 DEF EndTx, TypeOK, env

LEMMA BeginType ==
  ASSUME TypeOK, NEW a \in Actors, NEW op, NEW next \in OpsOf(a), Begin(a, op, next)
  PROVE  TypeOK'
<1>1. inUse' \subseteq Uses /\ lost' \subseteq inUse'
  <2>1. Tx(a) \in Uses
    BY DEF Tx, Uses
  <2> QED
    BY <2>1, AcquireType DEF Begin
<1>2. DOMAIN pc' = Actors /\ \A b \in Actors : pc'[b] \in OpsOf(b)
  BY GoToType DEF Begin
<1>3. got' \in [Actors -> 0 .. MaxVersion]
  BY AnalyticsAssumption DEF Begin, Read, TypeOK
<1> QED
  BY <1>1, <1>2, <1>3 DEF Begin, TypeOK, env

LEMMA GetConnType ==
  ASSUME TypeOK, NEW a \in Actors, GetConn(a)
  PROVE  TypeOK'
<1>1. inUse' \subseteq Uses /\ lost' \subseteq inUse'
  <2>1. Stmt(a) \in Uses
    BY DEF Stmt, Uses
  <2> QED
    BY <2>1, AcquireType DEF GetConn
<1>2. got' \in [Actors -> 0 .. MaxVersion]
  BY AnalyticsAssumption DEF GetConn, Read, TypeOK
<1> QED
  BY <1>1, <1>2 DEF GetConn, TypeOK, env

\* An actor that goes on without using the pool.
LEMMA MoveType ==
  ASSUME TypeOK, NEW a \in Actors, NEW op \in OpsOf(a), GoTo(a, op),
         UNCHANGED <<env, up, pool, got, cache>>
  PROVE  TypeOK'
<1>1. DOMAIN pc' = Actors /\ \A b \in Actors : pc'[b] \in OpsOf(b)
  BY GoToType
<1> QED
  BY <1>1 DEF TypeOK, env, pool

LEMMA TypeStep == TypeOK /\ [Next]_vars => TypeOK'
<1> SUFFICES ASSUME TypeOK, [Next]_vars PROVE TypeOK'
  OBVIOUS
<1> USE Operations
<1>1. CASE Restart
  BY <1>1 DEF Restart, TypeOK, env, pool
<1>2. CASE Change
  BY <1>2, AnalyticsAssumption DEF Change, TypeOK, pool
<1>3. CASE DatabaseDown
  <2>1. inUse' \subseteq Uses /\ lost' \subseteq inUse' /\ dbUp' \in BOOLEAN
    BY <1>3 DEF DatabaseDown, TypeOK, Pool!LoseSessions
  <2>2. outages' \in 0 .. MaxOutages
    BY <1>3, AnalyticsAssumption DEF DatabaseDown, TypeOK
  <2> QED
    BY <1>3, <2>1, <2>2 DEF DatabaseDown, TypeOK
<1>4. CASE DatabaseBack
  BY <1>4 DEF DatabaseBack, TypeOK, pool
<1>5. ASSUME NEW r \in Refreshers, Wake(r) PROVE TypeOK'
  <2>1. r \in Actors /\ FirstOp[r] \in OpsOf(r)
    BY DEF Actors, Refreshers, FirstOp
  <2> QED
    BY <1>5, <2>1, MoveType DEF Wake
<1>6. CASE Health
  <2>1. CASE GetConn("health")
    BY <2>1, GetConnType
  <2>2. CASE CountOk
    BY <2>2, PublishType, EndStatementType DEF CountOk
  <2>3. CASE CountFails
    BY <2>3, EndStatementType DEF CountFails, TypeOK
  <2> QED
    BY <1>6, <2>1, <2>2, <2>3 DEF Health
<1>7. CASE Quality
  <2>1. CASE GetConn("quality")
    BY <2>1, GetConnType
  <2>2. CASE BeginQuality
    BY <2>2, BeginType DEF BeginQuality
  <2>3. CASE BeginQualityPanics
    BY <2>3, DieType DEF BeginQualityPanics
  <2>4. CASE ScanOk
    BY <2>4, MoveType DEF ScanOk
  <2>5. CASE ScanFails
    BY <2>5, EndTxType DEF ScanFails, TypeOK
  <2>6. CASE EstimateEnds
    BY <2>6, EndStatementType DEF EstimateEnds, TypeOK
  <2>7. CASE SampleOk
    BY <2>7, PublishType, EndTxType DEF SampleOk
  <2>8. CASE SampleFails
    BY <2>8, EndTxType DEF SampleFails, TypeOK
  <2> QED
    BY <1>7, <2>1, <2>2, <2>3, <2>4, <2>5, <2>6, <2>7, <2>8 DEF Quality
<1>8. CASE Duplicates
  <2>1. CASE GetConn("duplicates")
    BY <2>1, GetConnType
  <2>2. CASE BeginPairs
    BY <2>2, BeginType DEF BeginPairs
  <2>3. CASE BeginPairsFails
    BY <2>3, MoveType DEF BeginPairsFails
  <2>4. CASE PairsOk
    BY <2>4, PublishType, EndTxType DEF PairsOk
  <2>5. CASE PairsFail
    BY <2>5, EndTxType DEF PairsFail, TypeOK
  <2>6. CASE IPsOk
    BY <2>6, PublishType, EndStatementType DEF IPsOk
  <2>7. CASE IPsFail
    BY <2>7, EndStatementType DEF IPsFail, TypeOK
  <2> QED
    BY <1>8, <2>1, <2>2, <2>3, <2>4, <2>5, <2>6, <2>7 DEF Duplicates
<1>9. ASSUME NEW c \in Clients, Arrive(c) PROVE TypeOK'
  BY <1>9, MoveType DEF Arrive
<1>10. ASSUME NEW c \in Clients, Serve(c) PROVE TypeOK'
  <2>1. CASE GetConn(c)
    BY <2>1, GetConnType
  <2>2. CASE RequestStatementEnds(c)
    BY <2>2, EndStatementType DEF RequestStatementEnds, TypeOK
  <2> QED
    BY <1>10, <2>1, <2>2 DEF Serve
<1>11. CASE UNCHANGED vars
  BY <1>11 DEF vars, TypeOK
<1> QED
  BY <1>1, <1>2, <1>3, <1>4, <1>5, <1>6, <1>7, <1>8, <1>9, <1>10, <1>11 DEF Next

\* Every reachable state is well-typed: every goroutine is at an operation of
\* its own, only uses in use have lost sessions, and caches hold versions.
THEOREM TypeCorrect == Spec => []TypeOK
  BY TypeInit, TypeStep, PTL DEF Spec

-----------------------------------------------------------------------------
(* No connection leaks, and nobody waits for ever. *)

USE DEF Stmt, Tx, Pool!Holds

LEMMA Phases ==
  /\ Statements \cap Begins = {} /\ Begins \cap TxOpen = {}
  /\ TxOpen \cap Statements = {"emailStats", "phoneStats"}
  /\ "sleep" \notin Statements \cup TxOpen \cup Begins /\ "idle" \notin Statements \cup TxOpen
  BY DEF Statements, Begins, TxOpen, InTx

\* A statement that ends at op lets its transaction, if any, go on.
LEMMA EndStatementNoLeak ==
  ASSUME TypeOK, NoLeak, NEW a \in Actors, NEW op, NEW next, EndStatement(a, op, next),
         op \in TxOpen <=> next \in TxOpen
  PROVE  NoLeak'
<1> USE DEF EndStatement, Pool!Release, GoTo, TypeOK, NoLeak, Uses
<1>1. ASSUME NEW u \in inUse'
      PROVE  \/ u[2] = "stmt" /\ pc'[u[1]] \in Statements
             \/ u[2] = "tx" /\ pc'[u[1]] \in TxOpen
  <2>1. u \in inUse /\ u # <<a, "stmt">> /\ u \in Actors \X {"tx", "stmt"}
    OBVIOUS
  <2>2. CASE u[1] # a
    BY <2>1, <2>2
  <2>3. CASE u[1] = a
    <3>1. u[2] = "tx"
      BY <2>1, <2>3
    <3>2. op \in TxOpen /\ pc'[u[1]] = next
      BY <2>1, <2>3, <3>1
    <3> QED
      BY <3>1, <3>2
  <2> QED
    BY <2>2, <2>3
<1>2. ASSUME NEW b \in Actors, pc'[b] \in TxOpen PROVE <<b, "tx">> \in inUse'
  <2>1. pc[b] \in TxOpen
    BY <1>2
  <2> QED
    BY <2>1
<1> QED
  BY <1>1, <1>2

\* Rollback at the end of a transaction.
LEMMA EndTxNoLeak ==
  ASSUME TypeOK, NoLeak, NEW a \in Actors, NEW op, NEW next, EndTx(a, op, next),
         op \notin Statements, next \notin TxOpen
  PROVE  NoLeak'
<1> USE DEF EndTx, Pool!Release, GoTo, TypeOK, NoLeak, Uses
<1>1. ASSUME NEW u \in inUse'
      PROVE  \/ u[2] = "stmt" /\ pc'[u[1]] \in Statements
             \/ u[2] = "tx" /\ pc'[u[1]] \in TxOpen
  <2>1. u \in inUse /\ u # <<a, "tx">> /\ u \in Actors \X {"tx", "stmt"}
    OBVIOUS
  <2>2. u[1] # a
    BY <2>1
  <2> QED
    BY <2>1, <2>2
<1>2. ASSUME NEW b \in Actors, pc'[b] \in TxOpen PROVE <<b, "tx">> \in inUse'
  BY <1>2
<1> QED
  BY <1>1, <1>2

\* Begin, which waits outside any transaction.
LEMMA BeginNoLeak ==
  ASSUME TypeOK, NoLeak, NEW a \in Actors, NEW op \in Begins, NEW next \in TxOpen,
         Begin(a, op, next)
  PROVE  NoLeak'
<1> USE DEF Begin, Pool!Acquire, GoTo, TypeOK, NoLeak, Uses
<1>1. ASSUME NEW u \in inUse'
      PROVE  \/ u[2] = "stmt" /\ pc'[u[1]] \in Statements
             \/ u[2] = "tx" /\ pc'[u[1]] \in TxOpen
  <2>1. CASE u = <<a, "tx">>
    BY <2>1
  <2>2. CASE u \in inUse
    <3>1. u[1] # a
      BY <2>2, Phases
    <3> QED
      BY <2>2, <3>1
  <2> QED
    BY <2>1, <2>2
<1>2. ASSUME NEW b \in Actors, pc'[b] \in TxOpen PROVE <<b, "tx">> \in inUse'
  BY <1>2
<1> QED
  BY <1>1, <1>2

LEMMA GetConnNoLeak ==
  ASSUME TypeOK, NoLeak, NEW a \in Actors, GetConn(a)
  PROVE  NoLeak'
  BY DEF GetConn, Pool!Acquire, TypeOK, NoLeak, Uses

\* An actor that goes on from op to next without using the pool.
LEMMA MoveNoLeak ==
  ASSUME TypeOK, NoLeak, NEW a \in Actors, NEW next, GoTo(a, next), UNCHANGED pool,
         pc[a] \notin Statements, pc[a] \in TxOpen <=> next \in TxOpen
  PROVE  NoLeak'
<1> USE DEF GoTo, TypeOK, NoLeak, Uses, pool
<1>1. ASSUME NEW u \in inUse'
      PROVE  \/ u[2] = "stmt" /\ pc'[u[1]] \in Statements
             \/ u[2] = "tx" /\ pc'[u[1]] \in TxOpen
  <2>1. CASE u[1] # a
    BY <2>1
  <2>2. CASE u[1] = a
    BY <2>2
  <2> QED
    BY <2>1, <2>2
<1>2. ASSUME NEW b \in Actors, pc'[b] \in TxOpen PROVE <<b, "tx">> \in inUse'
  BY <1>2
<1> QED
  BY <1>1, <1>2

\* The pool of a new process is free, and its goroutines are in no transaction.
LEMMA FreshNoLeak ==
  /\ Init => NoLeak
  /\ Die => NoLeak'
<1>1. \A a \in Actors : (IF a \in Refreshers THEN FirstOp[a] ELSE "idle") \notin TxOpen
  BY DEF Refreshers, FirstOp, TxOpen, InTx
<1> QED
  BY <1>1 DEF Init, Die, Pool!EmptyPool, NoLeak

LEMMA NoLeakStep == TypeOK /\ NoLeak /\ [Next]_vars => NoLeak'
<1> SUFFICES ASSUME TypeOK, NoLeak, [Next]_vars PROVE NoLeak'
  OBVIOUS
<1> USE Operations, Phases DEF TxOpen, InTx, Statements, Begins
<1>1. CASE Restart \/ Change \/ DatabaseBack \/ UNCHANGED vars
  BY <1>1 DEF Restart, Change, DatabaseBack, vars, pool, NoLeak
<1>2. CASE DatabaseDown
  BY <1>2 DEF DatabaseDown, Pool!LoseSessions, NoLeak
<1>3. ASSUME NEW r \in Refreshers, Wake(r) PROVE NoLeak'
  BY <1>3, MoveNoLeak DEF Wake, Refreshers, FirstOp
<1>4. CASE Health
  <2>1. CASE GetConn("health")
    BY <2>1, GetConnNoLeak
  <2>2. CASE CountOk \/ CountFails
    BY <2>2, EndStatementNoLeak DEF CountOk, CountFails
  <2> QED
    BY <1>4, <2>1, <2>2 DEF Health
<1>5. CASE Quality
  <2>1. CASE GetConn("quality")
    BY <2>1, GetConnNoLeak
  <2>2. CASE BeginQuality
    BY <2>2, BeginNoLeak DEF BeginQuality
  <2>3. CASE BeginQualityPanics
    BY <2>3, FreshNoLeak DEF BeginQualityPanics
  <2>4. CASE ScanOk
    BY <2>4, MoveNoLeak DEF ScanOk
  <2>5. CASE ScanFails
    BY <2>5, EndTxNoLeak DEF ScanFails
  <2>6. CASE EstimateEnds
    BY <2>6, EndStatementNoLeak DEF EstimateEnds
  <2>7. CASE SampleOk \/ SampleFails
    BY <2>7, EndTxNoLeak DEF SampleOk, SampleFails
  <2> QED
    BY <1>5, <2>1, <2>2, <2>3, <2>4, <2>5, <2>6, <2>7 DEF Quality
<1>6. CASE Duplicates
  <2>1. CASE GetConn("duplicates")
    BY <2>1, GetConnNoLeak
  <2>2. CASE BeginPairs
    BY <2>2, BeginNoLeak DEF BeginPairs
  <2>3. CASE BeginPairsFails
    BY <2>3, MoveNoLeak DEF BeginPairsFails
  <2>4. CASE PairsOk \/ PairsFail
    BY <2>4, EndTxNoLeak DEF PairsOk, PairsFail
  <2>5. CASE IPsOk \/ IPsFail
    BY <2>5, EndStatementNoLeak DEF IPsOk, IPsFail
  <2> QED
    BY <1>6, <2>1, <2>2, <2>3, <2>4, <2>5 DEF Duplicates
<1>7. ASSUME NEW c \in Clients, Arrive(c) PROVE NoLeak'
  BY <1>7, MoveNoLeak DEF Arrive
<1>8. ASSUME NEW c \in Clients, Serve(c) PROVE NoLeak'
  <2>1. CASE GetConn(c)
    BY <2>1, GetConnNoLeak
  <2>2. CASE RequestStatementEnds(c)
    BY <2>2, EndStatementNoLeak DEF RequestStatementEnds
  <2> QED
    BY <1>8, <2>1, <2>2 DEF Serve
<1> QED
  BY <1>1, <1>2, <1>3, <1>4, <1>5, <1>6, <1>7, <1>8 DEF Next

\* Whatever fails, and wherever, every connection comes back to the pool: each
\* one in use is held for an operation its actor is at, and each open
\* transaction has one.
THEOREM NothingLeaks == Spec => []NoLeak
  BY TypeInit, TypeStep, FreshNoLeak, NoLeakStep, PTL DEF Spec

\* Of all that are waiting, only the quality refresher has a connection.
LEMMA OnlyQualityHoldsAndWaits ==
  ASSUME TypeOK, NoLeak, NEW u \in inUse, Waiting(u[1])
  PROVE  u = <<"quality", "tx">>
<1>1. u \in Actors \X {"tx", "stmt"} /\ u = <<u[1], u[2]>>
  BY DEF TypeOK, Uses
<1>2. u[2] = "tx" /\ pc[u[1]] \in TxOpen
  <2>1. u[2] # "stmt"
    BY <1>1, Phases DEF NoLeak, Waiting
  <2> QED
    BY <1>1, <2>1 DEF NoLeak
<1>3. pc[u[1]] \in {"emailStats", "phoneStats"}
  BY <1>2, Phases DEF Waiting
<1>4. u[1] = "quality"
  BY <1>1, <1>3, Operations DEF TypeOK, Actors, Refreshers
<1> QED
  BY <1>1, <1>2, <1>4

LEMMA AnyPoolButOne == TypeOK /\ NoLeak /\ MaxOpen # 1 => NoGridlock
<1> SUFFICES ASSUME TypeOK, NoLeak, MaxOpen # 1, Pool!Exhausted,
                    \A u \in inUse : Waiting(u[1])
             PROVE  FALSE
  BY DEF NoGridlock
<1>1. inUse \subseteq {<<"quality", "tx">>}
  BY OnlyQualityHoldsAndWaits
<1>2. IsFiniteSet({<<"quality", "tx">>}) /\ Cardinality({<<"quality", "tx">>}) = 1
  BY FS_Singleton
<1>3. Cardinality(inUse) \in Nat /\ Cardinality(inUse) <= 1
  BY <1>1, <1>2, FS_Subset, FS_CardinalityType
<1>4. Pool!Cardinality(inUse) = Cardinality(inUse)
  BY DEF Pool!Cardinality, Cardinality
<1> QED
  BY <1>3, <1>4, AnalyticsAssumption DEF Pool!Exhausted

\* With any DB_MAX_OPEN_CONNS but 1, the connections are never all held by
\* goroutines that wait for one more.
THEOREM NeverGridlocked ==
  ASSUME MaxOpen # 1
  PROVE  Spec => []NoGridlock
<1>1. TypeOK /\ NoLeak => NoGridlock
  BY AnyPoolButOne
<1> QED
  BY <1>1, TypeInit, TypeStep, FreshNoLeak, NoLeakStep, PTL DEF Spec

-----------------------------------------------------------------------------
(* Caches do not go back. *)

\* What a refresh under way has read is at least as new as what it will
\* replace: no two refreshes write the same cache, and nothing is read before
\* the operation that publishes it, or its transaction, has started.
ReadsAreNewer ==
    /\ \A x \in Caches : cache[x] <= version
    /\ \A a \in Actors : got[a] <= version
    /\ Pool!Holds(Stmt("health")) => 1 <= got["health"] /\ cache["total"] <= got["health"]
    /\ pc["quality"] \in TxOpen => 1 <= got["quality"] /\ cache["quality"] <= got["quality"]
    /\ pc["duplicates"] = "pairs" => 1 <= got["duplicates"] /\ cache["pairs"] <= got["duplicates"]
    /\ Pool!Holds(Stmt("duplicates")) => 1 <= got["duplicates"] /\ cache["ips"] <= got["duplicates"]

\* A step of a request's goroutine touches nothing that ReadsAreNewer is about.
LEMMA ServeReads ==
  ASSUME TypeOK, NoLeak, ReadsAreNewer, NEW c \in Clients, Arrive(c) \/ Serve(c)
  PROVE  ReadsAreNewer'
<1>1. c \notin {"health", "quality", "duplicates"} /\ c \in Actors
  BY AnalyticsAssumption DEF Refreshers, Actors
<1>2. cache' = cache /\ version' = version
  BY DEF Arrive, Serve, GetConn, RequestStatementEnds, EndStatement, env
<1>3. \A b \in {"health", "quality", "duplicates"} :
        /\ pc'[b] = pc[b] /\ got'[b] = got[b]
        /\ <<b, "stmt">> \in inUse' => <<b, "stmt">> \in inUse
  BY <1>1, Operations
  DEF Arrive, Serve, GetConn, RequestStatementEnds, EndStatement, GoTo, Read,
      Pool!Acquire, Pool!Release, TypeOK, pool
<1>4. \A b \in Actors : got'[b] <= version
  BY <1>1, AnalyticsAssumption
  DEF ReadsAreNewer, Arrive, Serve, GetConn, RequestStatementEnds, EndStatement, Read, TypeOK
<1> QED
  BY <1>2, <1>3, <1>4 DEF ReadsAreNewer

LEMMA ReadsInit == Init => ReadsAreNewer
  BY Operations, FreshNoLeak DEF Init, ReadsAreNewer, NoLeak, FirstOp, Refreshers

LEMMA ReadsHealth ==
  ASSUME TypeOK, NoLeak, ReadsAreNewer, Health
  PROVE  ReadsAreNewer' /\ \A x \in Caches : cache'[x] >= cache[x]
<1> USE Operations, AnalyticsAssumption DEF TypeOK, ReadsAreNewer
<1>1. CASE GetConn("health")
  <2>1. pc["health"] = "count"
    BY <1>1 DEF GetConn, Statements
  <2> QED
    BY <1>1, <2>1 DEF GetConn, Read, Pool!Acquire, env
<1>2. CASE CountOk
  BY <1>2 DEF CountOk, EndStatement, Publish, GoTo, Pool!Release, env
<1>3. CASE CountFails
  BY <1>3 DEF CountFails, EndStatement, GoTo, Pool!Release, env
<1> QED
  BY <1>1, <1>2, <1>3 DEF Health

LEMMA ReadsQuality ==
  ASSUME TypeOK, NoLeak, ReadsAreNewer, Quality, ~BeginQualityPanics
  PROVE  ReadsAreNewer' /\ \A x \in Caches : cache'[x] >= cache[x]
<1> USE Operations, AnalyticsAssumption DEF TypeOK, ReadsAreNewer
<1>1. CASE GetConn("quality")
  BY <1>1 DEF GetConn, Read, Pool!Acquire, env, Waiting
<1>2. CASE BeginQuality
  BY <1>2 DEF BeginQuality, Begin, Read, GoTo, Pool!Acquire, env
<1>4. CASE ScanOk
  BY <1>4 DEF ScanOk, GoTo, env, pool, TxOpen, InTx
<1>5. CASE ScanFails \/ SampleFails
  <2>1. PICK op : EndTx("quality", op, "sleep") /\ cache' = cache
    BY <1>5 DEF ScanFails, SampleFails
  <2>2. pc' = [pc EXCEPT !["quality"] = "sleep"] /\ got' = [got EXCEPT !["quality"] = 0]
        /\ inUse' \subseteq inUse /\ version' = version
    BY <2>1 DEF EndTx, GoTo, Pool!Release, env
  <2> QED
    BY <2>1, <2>2, Phases
<1>6. CASE EstimateEnds
  <2>1. pc["quality"] \in TxOpen /\ <<"quality", "tx">> \in inUse
    BY <1>6, Phases DEF EstimateEnds, EndStatement, NoLeak
  <2>2. PICK op, next : EndStatement("quality", op, next) /\ cache' = cache
    BY <1>6 DEF EstimateEnds
  <2>3. pc' = [pc EXCEPT !["quality"] = next] /\ inUse' \subseteq inUse /\ version' = version
    BY <2>2 DEF EndStatement, GoTo, Pool!Release, env
  <2>4. got' = [got EXCEPT !["quality"] = got["quality"]]
    BY <2>1, <2>2 DEF EndStatement
  <2> QED
    BY <2>1, <2>2, <2>3, <2>4
<1>7. CASE SampleOk
  BY <1>7, Phases DEF SampleOk, EndTx, Publish, GoTo, Pool!Release, env, TxOpen, InTx
<1> QED
  BY <1>1, <1>2, <1>4, <1>5, <1>6, <1>7 DEF Quality

LEMMA ReadsDuplicates ==
  ASSUME TypeOK, NoLeak, ReadsAreNewer, Duplicates
  PROVE  ReadsAreNewer' /\ \A x \in Caches : cache'[x] >= cache[x]
<1> USE Operations, AnalyticsAssumption DEF TypeOK, ReadsAreNewer
<1>1. CASE GetConn("duplicates")
  BY <1>1 DEF GetConn, Read, Pool!Acquire, env, Waiting, Statements
<1>2. CASE BeginPairs
  BY <1>2 DEF BeginPairs, Begin, Read, GoTo, Pool!Acquire, env
<1>3. CASE BeginPairsFails
  BY <1>3 DEF BeginPairsFails, GoTo, env, pool
<1>4. CASE PairsOk
  BY <1>4 DEF PairsOk, EndTx, Publish, GoTo, Pool!Release, env, NoLeak, Statements
<1>5. CASE PairsFail
  BY <1>5 DEF PairsFail, EndTx, GoTo, Pool!Release, env, NoLeak, Statements
<1>6. CASE IPsOk
  BY <1>6 DEF IPsOk, EndStatement, Publish, GoTo, Pool!Release, env
<1>7. CASE IPsFail
  BY <1>7 DEF IPsFail, EndStatement, GoTo, Pool!Release, env
<1> QED
  BY <1>1, <1>2, <1>3, <1>4, <1>5, <1>6, <1>7 DEF Duplicates

LEMMA ReadsDie ==
  ASSUME TypeOK, ReadsAreNewer, BeginQualityPanics
  PROVE  ReadsAreNewer'
<1>1. version' = version /\ version \in Nat
  BY AnalyticsAssumption DEF BeginQualityPanics, env, TypeOK
<1>2. /\ inUse' = {} /\ \A x \in Caches : cache'[x] = 0
      /\ \A a \in Actors : got'[a] = 0
      /\ pc'["quality"] = "beginQuality" /\ pc'["duplicates"] = "beginPairs"
  BY Operations DEF BeginQualityPanics, Die, Pool!EmptyPool, Refreshers, FirstOp
<1> QED
  BY <1>1, <1>2, Operations DEF ReadsAreNewer, TxOpen, InTx, Pool!Holds

LEMMA ReadsStep ==
  TypeOK /\ NoLeak /\ ReadsAreNewer /\ [Next]_vars
    => ReadsAreNewer' /\ (up' => \A x \in Caches : cache'[x] >= cache[x])
<1> SUFFICES ASSUME TypeOK, NoLeak, ReadsAreNewer, [Next]_vars
             PROVE  ReadsAreNewer' /\ (up' => \A x \in Caches : cache'[x] >= cache[x])
  OBVIOUS
<1> DEFINE Kept == ReadsAreNewer' /\ (up' => \A x \in Caches : cache'[x] >= cache[x])
<1>0. \A x \in Caches : cache[x] >= cache[x]
  BY AnalyticsAssumption DEF TypeOK
<1>1. CASE Restart \/ DatabaseBack \/ UNCHANGED vars
  BY <1>0, <1>1 DEF Restart, DatabaseBack, vars, env, pool, ReadsAreNewer
<1>2. CASE Change
  BY <1>0, <1>2, AnalyticsAssumption DEF Change, pool, ReadsAreNewer, TypeOK
<1>3. CASE DatabaseDown
  BY <1>0, <1>3 DEF DatabaseDown, Pool!LoseSessions, ReadsAreNewer
<1>4. ASSUME NEW r \in Refreshers, Wake(r) PROVE Kept
  <2>1. r \in Actors /\ pc'[r] \notin TxOpen /\ pc'[r] # "pairs"
    BY <1>4 DEF Wake, GoTo, Refreshers, FirstOp, Actors, TxOpen, InTx, TypeOK
  <2>2. \A b \in Actors : b # r => pc'[b] = pc[b]
    BY <1>4 DEF Wake, GoTo, TypeOK
  <2> QED
    BY <1>0, <1>4, <2>1, <2>2, Operations DEF Wake, env, pool, ReadsAreNewer
<1>5. CASE Health
  BY <1>5, ReadsHealth
<1>6. CASE Quality
  <2>1. CASE BeginQualityPanics
    BY <2>1, ReadsDie DEF BeginQualityPanics, Die
  <2>2. CASE ~BeginQualityPanics
    BY <1>6, <2>2, ReadsQuality
  <2> QED
    BY <2>1, <2>2
<1>7. CASE Duplicates
  BY <1>7, ReadsDuplicates
<1>8. ASSUME NEW c \in Clients, Arrive(c) \/ Serve(c) PROVE Kept
  <2>1. cache' = cache
    BY <1>8 DEF Arrive, Serve, GetConn, RequestStatementEnds, EndStatement
  <2> QED
    BY <1>0, <1>8, <2>1, ServeReads
<1> QED
  BY <1>1, <1>2, <1>3, <1>4, <1>5, <1>6, <1>7, <1>8 DEF Next

\* Whatever happens to the database and however refreshes, changes and requests
\* interleave, no refresh takes a cache back to older content or empties it;
\* only the end of the process does.
THEOREM NeverBack == Spec => CachesNeverGoBack
<1>1. TypeOK /\ NoLeak /\ ReadsAreNewer /\ [Next]_vars
        => [up' => \A x \in Caches : cache'[x] >= cache[x]]_vars
  BY ReadsStep
<1>2. TypeOK /\ NoLeak /\ ReadsAreNewer /\ [Next]_vars => ReadsAreNewer'
  BY ReadsStep
<1> QED
  BY <1>1, <1>2, TypeInit, TypeStep, FreshNoLeak, NoLeakStep, ReadsInit, PTL
  DEF Spec, CachesNeverGoBack

-----------------------------------------------------------------------------
(* The caches implement PublishedValues. *)

\* A process that is down holds no connection, so nothing it does can publish.
DownHoldsNothing == ~up => inUse = {}

LEMMA DownStep == DownHoldsNothing /\ [Next]_vars => DownHoldsNothing'
<1> SUFFICES ASSUME DownHoldsNothing, [Next]_vars
             PROVE  (up' = up /\ (up \/ inUse' \subseteq inUse)) \/ up' \/ inUse' = {}
  BY DEF DownHoldsNothing
<1>1. CASE Restart \/ Change \/ DatabaseDown \/ DatabaseBack \/ UNCHANGED vars
  BY <1>1 DEF Restart, Change, DatabaseDown, DatabaseBack, Pool!LoseSessions, vars, pool
<1>2. ASSUME NEW a, Wake(a) \/ GetConn(a) \/ Arrive(a)
      PROVE  up' = up /\ up
  BY <1>2 DEF Wake, GetConn, Arrive
<1>3. CASE BeginQuality \/ BeginPairs \/ BeginPairsFails
  BY <1>3 DEF BeginQuality, BeginPairs, BeginPairsFails, Begin
<1>4. CASE BeginQualityPanics
  BY <1>4 DEF BeginQualityPanics, Die, Pool!EmptyPool
<1>5. ASSUME NEW a, NEW op, NEW next, EndStatement(a, op, next) \/ EndTx(a, op, next)
      PROVE  up' = up /\ inUse' \subseteq inUse
  BY <1>5 DEF EndStatement, EndTx, Pool!Release
<1>6. CASE ScanOk
  BY <1>6 DEF ScanOk, pool
<1>7. CASE Health
  BY <1>2, <1>5, <1>7 DEF Health, CountOk, CountFails
<1>8. CASE Quality
  BY <1>2, <1>3, <1>4, <1>5, <1>6, <1>8 DEF Quality, ScanFails, EstimateEnds, SampleOk, SampleFails
<1>9. CASE Duplicates
  BY <1>2, <1>3, <1>5, <1>9 DEF Duplicates, PairsOk, PairsFail, IPsOk, IPsFail
<1>10. ASSUME NEW c \in Clients, Serve(c)
       PROVE  up' = up /\ (up \/ inUse' \subseteq inUse)
  BY <1>2, <1>5, <1>10 DEF Serve, RequestStatementEnds
<1> QED
  BY <1>1, <1>2, <1>7, <1>8, <1>9, <1>10 DEF Next

\* What a refresh has read is content that may be published.
LEMMA PublishIsOrdered ==
  ASSUME TypeOK, ReadsAreNewer, NEW x \in Caches, NEW r \in Refreshers, up, Publish(x, r),
         1 <= got[r], cache[x] <= got[r], version' = version, up' = up
  PROVE  Published!Publish(x)
<1>1. got[r] \in 1 .. version
  BY AnalyticsAssumption DEF TypeOK, ReadsAreNewer, Actors
<1> QED
  BY <1>1, AnalyticsAssumption DEF TypeOK, Publish, Published!Publish

\* A step that leaves the tables, the process and the caches alone.
LEMMA Stutters ==
  ASSUME version' = version, up' = up, cache' = cache
  PROVE  [Published!Next]_(Published!vars)
  BY DEF Published!vars

LEMMA HealthPublishes ==
  ASSUME TypeOK, ReadsAreNewer, DownHoldsNothing, Health
  PROVE  [Published!Next]_(Published!vars)
<1>1. CASE CountOk
  <2>1. Published!Publish("total")
    BY <1>1, PublishIsOrdered
    DEF CountOk, EndStatement, env, DownHoldsNothing, Pool!Holds, ReadsAreNewer, Caches, Refreshers
  <2> QED
    BY <2>1 DEF Published!Next, Caches
<1>2. CASE CountFails \/ GetConn("health")
  BY <1>2, Stutters DEF CountFails, EndStatement, GetConn, env
<1> QED
  BY <1>1, <1>2 DEF Health

LEMMA QualityPublishes ==
  ASSUME TypeOK, NoLeak, ReadsAreNewer, DownHoldsNothing, Quality
  PROVE  [Published!Next]_(Published!vars)
<1>1. CASE SampleOk
  <2>1. up /\ pc["quality"] \in TxOpen
    BY <1>1 DEF SampleOk, EndTx, Pool!Usable, DownHoldsNothing, TxOpen, InTx
  <2>2. Published!Publish("quality")
    BY <1>1, <2>1, PublishIsOrdered DEF SampleOk, EndTx, env, ReadsAreNewer, Caches, Refreshers
  <2> QED
    BY <2>2 DEF Published!Next, Caches
<1>2. CASE BeginQualityPanics
  <2>1. Published!Stop
    BY <1>2 DEF BeginQualityPanics, Die, env, Published!Stop
  <2> QED
    BY <2>1 DEF Published!Next
<1>3. CASE GetConn("quality") \/ BeginQuality \/ ScanOk \/ ScanFails \/ EstimateEnds \/ SampleFails
  BY <1>3, Stutters
  DEF GetConn, BeginQuality, Begin, ScanOk, ScanFails, EstimateEnds, SampleFails, EndStatement,
      EndTx, env
<1> QED
  BY <1>1, <1>2, <1>3 DEF Quality

LEMMA DuplicatesPublish ==
  ASSUME TypeOK, NoLeak, ReadsAreNewer, DownHoldsNothing, Duplicates
  PROVE  [Published!Next]_(Published!vars)
<1>1. CASE PairsOk
  <2>1. up /\ pc["duplicates"] = "pairs"
    BY <1>1 DEF PairsOk, EndTx, Pool!Usable, DownHoldsNothing
  <2>2. Published!Publish("pairs")
    BY <1>1, <2>1, PublishIsOrdered DEF PairsOk, EndTx, env, ReadsAreNewer, Caches, Refreshers
  <2> QED
    BY <2>2 DEF Published!Next, Caches
<1>2. CASE IPsOk
  <2>1. Published!Publish("ips")
    BY <1>2, PublishIsOrdered
    DEF IPsOk, EndStatement, env, DownHoldsNothing, Pool!Holds, ReadsAreNewer, Caches, Refreshers
  <2> QED
    BY <2>1 DEF Published!Next, Caches
<1>3. CASE GetConn("duplicates") \/ BeginPairs \/ BeginPairsFails \/ PairsFail \/ IPsFail
  BY <1>3, Stutters
  DEF GetConn, BeginPairs, Begin, BeginPairsFails, PairsFail, IPsFail, EndStatement, EndTx, env
<1> QED
  BY <1>1, <1>2, <1>3 DEF Duplicates

LEMMA StepPublishes ==
  TypeOK /\ NoLeak /\ ReadsAreNewer /\ DownHoldsNothing /\ [Next]_vars
    => [Published!Next]_(Published!vars)
<1> SUFFICES ASSUME TypeOK, NoLeak, ReadsAreNewer, DownHoldsNothing, [Next]_vars
             PROVE  [Published!Next]_(Published!vars)
  OBVIOUS
<1>1. CASE Change
  <2>1. Published!Change
    BY <1>1 DEF Change, Published!Change
  <2> QED
    BY <2>1 DEF Published!Next
<1>2. CASE Restart
  <2>1. Published!Start
    BY <1>2 DEF Restart, env, Published!Start
  <2> QED
    BY <2>1 DEF Published!Next
<1>3. CASE DatabaseDown \/ DatabaseBack \/ UNCHANGED vars
  BY <1>3, Stutters DEF DatabaseDown, DatabaseBack, vars
<1>4. ASSUME NEW a, Wake(a) \/ Arrive(a) \/ Serve(a)
      PROVE  [Published!Next]_(Published!vars)
  BY <1>4, Stutters DEF Wake, Arrive, Serve, GetConn, RequestStatementEnds, EndStatement, env
<1> QED
  BY <1>1, <1>2, <1>3, <1>4, HealthPublishes, QualityPublishes, DuplicatesPublish DEF Next

\* For any pool, clients, changes and outages, the four caches are values that
\* only move on, one at a time, to content the tables had, and end only with
\* the process: AnalyticsCaches implements PublishedValues.
THEOREM CachesArePublished == Spec => PublishesInOrder
<1>1. Init => Published!Init
  BY DEF Init, Published!Init
<1>2. Init => DownHoldsNothing
  BY DEF Init, DownHoldsNothing
<1>3. TypeOK /\ NoLeak /\ ReadsAreNewer /\ [Next]_vars => ReadsAreNewer'
  BY ReadsStep
<1> QED
  BY <1>1, <1>2, <1>3, TypeInit, TypeStep, FreshNoLeak, NoLeakStep, ReadsInit, DownStep,
     StepPublishes, PTL
  DEF Spec, PublishesInOrder, Published!Spec
=============================================================================
