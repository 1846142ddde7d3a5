----------------------------- MODULE SearchCache -----------------------------
(***************************************************************************)
(* searchService (backend/service/api_service.go): a sync.Map in front of  *)
(* the search repository (backend/repository/search_repository.go).        *)
(*                                                                         *)
(* Each worker is a goroutine that serves one request at a time.  Load,    *)
(* the expiry check with Delete, every start and every end of a statement, *)
(* and Store are separate steps, so the steps of requests for one key      *)
(* interleave as the goroutines of the server do.  The database is         *)
(* external: its content may change at any instant, so a statement's       *)
(* result is named by the instant of its snapshot.  A statement ends, with *)
(* an answer or with an error, at most StmtTimeout after it started (the   *)
(* connection's statement_timeout); waiting for a connection has no limit. *)
(***************************************************************************)
EXTENDS SearchRequests

CONSTANTS
    Workers,        \* goroutines serving requests
    TTL,            \* searchCacheTTL
    StmtTimeout,    \* statement_timeout of the DSN
    MaxTime,        \* bound on the clock
    Nothing         \* no request, no cache entry, no reply

ASSUME SearchAssumption ==
    /\ TTL \in Nat /\ StmtTimeout \in Nat /\ MaxTime \in Nat
    /\ Nothing \notin Requests

VARIABLES
    now,        \* the clock
    cache,      \* key -> searchCacheEntry, or Nothing
    pc,         \* worker -> where it is in Search
    req,        \* worker -> the request it serves, or Nothing
    held,       \* worker -> the entry it loaded, or Nothing
    started,    \* worker -> when its running statement started
    countAt,    \* worker -> the snapshot its total comes from
    reply       \* worker -> its reply to the last request it took, or Nothing

vars == <<now, cache, pc, req, held, started, countAt, reply>>

PCs == {"idle", "loaded", "dispatch", "counting", "counted", "reading"}

Entries == [question : Questions, err : {"none", "unsupported"},
            countAt : Nat, rowsAt : Nat, expires : Nat]

Replies == [to : Requests, question : Questions,
            err : {"none", "unsupported", "infra"},
            countAt : Nat, rowsAt : Nat, at : Nat]

TypeOK ==
    /\ now \in Nat
    /\ cache \in [Keys -> Entries \cup {Nothing}]
    /\ pc \in [Workers -> PCs]
    /\ req \in [Workers -> Requests \cup {Nothing}]
    /\ \A w \in Workers : req[w] = Nothing <=> pc[w] = "idle"
    /\ held \in [Workers -> Entries \cup {Nothing}]
    /\ started \in [Workers -> Nat]
    /\ countAt \in [Workers -> Nat]
    /\ reply \in [Workers -> Replies \cup {Nothing}]

Init ==
    /\ now = 0
    /\ cache = [k \in Keys |-> Nothing]
    /\ pc = [w \in Workers |-> "idle"]
    /\ req = [w \in Workers |-> Nothing]
    /\ held = [w \in Workers |-> Nothing]
    /\ started = [w \in Workers |-> 0]
    /\ countAt = [w \in Workers |-> 0]
    /\ reply = [w \in Workers |-> Nothing]

\* A mutation of Expiry: the TTL is taken in minutes.
ExpiryInMinutes == now + 60 * TTL

\* time.Now().Add(searchCacheTTL)
Expiry == now + TTL

\* time.Now().Before(entry.expires)
Fresh(e) == now < e.expires

\* Search returns to the handler; its locals go out of scope.
Return(w, q, err, count, rows) ==
    /\ reply' = [reply EXCEPT ![w] =
                    [to |-> req[w], question |-> q, err |-> err,
                     countAt |-> count, rowsAt |-> rows, at |-> now]]
    /\ pc' = [pc EXCEPT ![w] = "idle"]
    /\ req' = [req EXCEPT ![w] = Nothing]
    /\ held' = [held EXCEPT ![w] = Nothing]
    /\ started' = [started EXCEPT ![w] = 0]
    /\ countAt' = [countAt EXCEPT ![w] = 0]

\* s.cache.Store(key, &searchCacheEntry{...})
Store(w, count, rows) ==
    cache' = [cache EXCEPT ![KeyOf(req[w])] =
                [question |-> Question(req[w]), err |-> Verdict(Question(req[w])),
                 countAt |-> count, rowsAt |-> rows, expires |-> Expiry]]

\* A request arrives and its key is looked up.
Load(w, r) ==
    /\ pc[w] = "idle"
    /\ pc' = [pc EXCEPT ![w] = "loaded"]
    /\ req' = [req EXCEPT ![w] = r]
    /\ held' = [held EXCEPT ![w] = cache[KeyOf(r)]]
    /\ reply' = [reply EXCEPT ![w] = Nothing]
    /\ UNCHANGED <<now, cache, started, countAt>>

\* The loaded entry has not expired: answer from it.
Hit(w) ==
    /\ pc[w] = "loaded"
    /\ held[w] # Nothing /\ Fresh(held[w])
    /\ Return(w, held[w].question, held[w].err, held[w].countAt, held[w].rowsAt)
    /\ UNCHANGED <<now, cache>>

\* A mutation of Expire: the loop around the lookup keeps the loaded entry.
ExpireThatRetries(w) ==
    /\ pc[w] = "loaded"
    /\ held[w] # Nothing /\ ~Fresh(held[w])
    /\ cache' = [cache EXCEPT ![KeyOf(req[w])] = Nothing]
    /\ UNCHANGED <<now, pc, req, held, started, countAt, reply>>

\* The loaded entry has expired: delete whatever the key maps to by now.
Expire(w) ==
    /\ pc[w] = "loaded"
    /\ held[w] # Nothing /\ ~Fresh(held[w])
    /\ cache' = [cache EXCEPT ![KeyOf(req[w])] = Nothing]
    /\ pc' = [pc EXCEPT ![w] = "dispatch"]
    /\ held' = [held EXCEPT ![w] = Nothing]
    /\ UNCHANGED <<now, req, started, countAt, reply>>

Miss(w) ==
    /\ pc[w] = "loaded"
    /\ held[w] = Nothing
    /\ pc' = [pc EXCEPT ![w] = "dispatch"]
    /\ UNCHANGED <<now, cache, req, held, started, countAt, reply>>

\* dispatch needs no statement: no number in a user_id query, or an
\* unsupported type.  Both outcomes are cached.
AnswerImmediately(w) ==
    /\ pc[w] = "dispatch"
    /\ Immediate(Question(req[w]))
    /\ Store(w, now, now)
    /\ Return(w, Question(req[w]), Verdict(Question(req[w])), now, now)
    /\ UNCHANGED now

\* SearchByEmail and SearchByPhone send their count(*) first.
StartCount(w) ==
    /\ pc[w] = "dispatch"
    /\ Counted(req[w])
    /\ pc' = [pc EXCEPT ![w] = "counting"]
    /\ started' = [started EXCEPT ![w] = now]
    /\ UNCHANGED <<now, cache, req, held, countAt, reply>>

FinishCount(w) ==
    /\ pc[w] = "counting"
    /\ pc' = [pc EXCEPT ![w] = "counted"]
    /\ countAt' = [countAt EXCEPT ![w] = started[w]]
    /\ UNCHANGED <<now, cache, req, held, started, reply>>

\* The statement for the rows, which counts too in SearchByName and
\* SearchByUserID.
StartRows(w) ==
    /\ \/ pc[w] = "counted" /\ UNCHANGED countAt
       \/ /\ pc[w] = "dispatch"
          /\ ~Counted(req[w]) /\ ~Immediate(Question(req[w]))
          /\ countAt' = [countAt EXCEPT ![w] = now]
    /\ pc' = [pc EXCEPT ![w] = "reading"]
    /\ started' = [started EXCEPT ![w] = now]
    /\ UNCHANGED <<now, cache, req, held, reply>>

\* A mutation of FinishRows: the rows are read before the total is counted.
FinishRowsFirst(w) ==
    /\ pc[w] = "reading"
    /\ Store(w, started[w], countAt[w])
    /\ Return(w, Question(req[w]), "none", started[w], countAt[w])
    /\ UNCHANGED now

FinishRows(w) ==
    /\ pc[w] = "reading"
    /\ Store(w, countAt[w], started[w])
    /\ Return(w, Question(req[w]), "none", countAt[w], started[w])
    /\ UNCHANGED now

\* A mutation of Fail: every outcome is cached, errors too.
FailThatIsCached(w) ==
    /\ pc[w] \in {"dispatch", "counting", "counted", "reading"}
    /\ ~Immediate(Question(req[w]))
    /\ cache' = [cache EXCEPT ![KeyOf(req[w])] =
                    [question |-> Question(req[w]), err |-> "infra",
                     countAt |-> now, rowsAt |-> now, expires |-> Expiry]]
    /\ Return(w, Question(req[w]), "infra", now, now)
    /\ UNCHANGED now

\* Getting a connection, Begin or a statement fails: the error is returned
\* and not cached.
Fail(w) ==
    /\ pc[w] \in {"dispatch", "counting", "counted", "reading"}
    /\ ~Immediate(Question(req[w]))
    /\ Return(w, Question(req[w]), "infra", now, now)
    /\ UNCHANGED <<now, cache>>

\* Time passes, but no statement outlives statement_timeout.
Tick ==
    /\ now < MaxTime
    /\ \A w \in Workers : pc[w] \in {"counting", "reading"} => now < started[w] + StmtTimeout
    /\ now' = now + 1
    /\ UNCHANGED <<cache, pc, req, held, started, countAt, reply>>

Continue(w) ==
    \/ Hit(w) \/ Expire(w) \/ Miss(w) \/ AnswerImmediately(w)
    \/ StartCount(w) \/ FinishCount(w) \/ StartRows(w) \/ FinishRows(w)
    \/ Fail(w)

Next ==
    \/ Tick
    \/ \E w \in Workers : Continue(w) \/ \E r \in Requests : Load(w, r)

Spec == Init /\ [][Next]_vars

\* A goroutine that can run does, and a statement ends (it is cancelled at
\* statement_timeout).  Requests need not arrive, and time need not pass.
FairSpec == Spec /\ \A w \in Workers : WF_vars(Continue(w))

-----------------------------------------------------------------------------
Replied(w) == reply[w] # Nothing

\* Whoever put the answer into the cache, a reply answers the question of the
\* request it is a reply to (the key in Search tells requests apart).
OwnAnswer ==
    \A w \in Workers : Replied(w) => reply[w].question = Question(reply[w].to)

\* However requests interleave, an answer's rows were read at most a TTL and
\* one statement before it was given: a slow statement that overwrites a newer
\* entry does not make an older answer last longer than that.
BoundedStaleness ==
    \A w \in Workers : Replied(w) => reply[w].at <= reply[w].rowsAt + TTL + StmtTimeout

\* A failure of the database is told only to the request that met it ("Never
\* cache infrastructure errors"): a request that is answered from the cache or
\* without the database never gets one.
OnlyOwnFailure ==
    [][\A w \in Workers :
          reply'[w] \notin {reply[w], Nothing} /\ reply'[w].err = "infra"
             => /\ pc[w] \notin {"idle", "loaded"}
                /\ ~Immediate(Question(req[w]))
                /\ cache' = cache]_vars

\* The cache in front of the repository keeps what SearchPromise promises.
Promise == INSTANCE SearchPromise WITH asked <- req, Bound <- TTL + StmtTimeout
KeepsPromise == Promise!Spec

\* Every request that is taken is answered, with a result or an error: however
\* the others run, a worker is free again and again.
EveryRequestAnswered == \A w \in Workers : []<>(pc[w] = "idle")
=============================================================================
