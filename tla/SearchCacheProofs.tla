-------------------------- MODULE SearchCacheProofs --------------------------
(***************************************************************************)
(* What SearchCache guarantees for every set of workers and requests, every *)
(* TTL and every statement timeout.                                        *)
(***************************************************************************)
EXTENDS SearchCache, SequenceTheorems, TLAPS

LEMMA QuestionIsTyped ==
    ASSUME NEW r \in Requests
    PROVE  /\ Question(r) \in Questions
           /\ Verdict(Question(r)) \in {"none", "unsupported"}
           /\ KeyOf(r) \in Keys
BY DEF Questions, Verdict, Keys

LEMMA StoreIsTyped ==
    ASSUME NEW w \in Workers, NEW count \in Nat, NEW rows \in Nat,
           TypeOK, req[w] \in Requests, Store(w, count, rows)
    PROVE  cache' \in [Keys -> Entries \cup {Nothing}]
<1>1. Expiry \in Nat
  BY SearchAssumption DEF TypeOK, Expiry
<1>2. [question |-> Question(req[w]), err |-> Verdict(Question(req[w])),
       countAt |-> count, rowsAt |-> rows, expires |-> Expiry] \in Entries
  BY <1>1, QuestionIsTyped DEF Entries
<1> QED
  BY <1>2, QuestionIsTyped DEF TypeOK, Store

LEMMA ReturnIsTyped ==
    ASSUME NEW w \in Workers, NEW q \in Questions,
           NEW err \in {"none", "unsupported", "infra"},
           NEW count \in Nat, NEW rows \in Nat,
           TypeOK, req[w] \in Requests, Return(w, q, err, count, rows),
           now' = now, cache' \in [Keys -> Entries \cup {Nothing}]
    PROVE  TypeOK'
<1>1. [to |-> req[w], question |-> q, err |-> err,
       countAt |-> count, rowsAt |-> rows, at |-> now] \in Replies
  BY DEF TypeOK, Replies
<1>2. reply' \in [Workers -> Replies \cup {Nothing}]
  BY <1>1 DEF TypeOK, Return
<1>3. \A v \in Workers : req'[v] = Nothing <=> pc'[v] = "idle"
  BY DEF TypeOK, Return
<1> QED
  BY <1>2, <1>3 DEF TypeOK, Return, PCs

\* Search keeps its state well-typed: in particular every cache entry and
\* every reply is complete, and a worker has a request exactly while it is
\* inside Search.
THEOREM TypeCorrect == Spec => []TypeOK
<1>1. Init => TypeOK
  BY DEF Init, TypeOK, PCs
<1>2. TypeOK /\ [Next]_vars => TypeOK'
  <2> SUFFICES ASSUME TypeOK, [Next]_vars PROVE TypeOK'
    OBVIOUS
  <2>1. ASSUME NEW w \in Workers, pc[w] # "idle" PROVE req[w] \in Requests
    BY <2>1 DEF TypeOK
  <2>2. CASE Tick
    BY <2>2, SearchAssumption DEF Tick, TypeOK
  <2>3. ASSUME NEW w \in Workers, NEW r \in Requests, Load(w, r) PROVE TypeOK'
    BY <2>3, SearchAssumption, QuestionIsTyped DEF Load, TypeOK, PCs
  <2>4. ASSUME NEW w \in Workers, Continue(w) PROVE TypeOK'
    <3>1. req[w] \in Requests
      BY <2>1, <2>4 DEF Continue, Hit, Expire, Miss, AnswerImmediately, StartCount,
                        FinishCount, StartRows, FinishRows, Fail
    <3>2. CASE Hit(w)
      <4>1. held[w] \in Entries
        BY <3>2 DEF Hit, TypeOK
      <4>2. /\ held[w].question \in Questions
            /\ held[w].err \in {"none", "unsupported", "infra"}
            /\ held[w].countAt \in Nat /\ held[w].rowsAt \in Nat
        BY <4>1 DEF Entries
      <4>3. now' = now /\ cache' \in [Keys -> Entries \cup {Nothing}]
        BY <3>2 DEF Hit, TypeOK
      <4> QED
        BY <4>2, <4>3, <3>1, <3>2, ReturnIsTyped DEF Hit
    <3>3. CASE Expire(w)
      BY <3>1, <3>3, QuestionIsTyped DEF Expire, TypeOK, PCs
    <3>4. CASE Miss(w)
      BY <3>4 DEF Miss, TypeOK, PCs
    <3>5. CASE AnswerImmediately(w)
      <4>1. now \in Nat
        BY DEF TypeOK
      <4>2. cache' \in [Keys -> Entries \cup {Nothing}]
        BY <3>1, <3>5, <4>1, StoreIsTyped DEF AnswerImmediately
      <4> QED
        BY <3>1, <3>5, <4>1, <4>2, QuestionIsTyped, ReturnIsTyped DEF AnswerImmediately
    <3>6. CASE StartCount(w)
      BY <3>6 DEF StartCount, TypeOK, PCs
    <3>7. CASE FinishCount(w)
      BY <3>7 DEF FinishCount, TypeOK, PCs
    <3>8. CASE StartRows(w)
      BY <3>8 DEF StartRows, TypeOK, PCs
    <3>9. CASE FinishRows(w)
      <4>1. countAt[w] \in Nat /\ started[w] \in Nat
        BY DEF TypeOK
      <4>2. cache' \in [Keys -> Entries \cup {Nothing}]
        BY <3>1, <3>9, <4>1, StoreIsTyped DEF FinishRows
      <4> QED
        BY <3>1, <3>9, <4>1, <4>2, QuestionIsTyped, ReturnIsTyped DEF FinishRows
    <3>10. CASE Fail(w)
      BY <3>1, <3>10, QuestionIsTyped, ReturnIsTyped DEF Fail, TypeOK
    <3> QED
      BY <2>4, <3>2, <3>3, <3>4, <3>5, <3>6, <3>7, <3>8, <3>9, <3>10 DEF Continue
  <2>5. CASE UNCHANGED vars
    BY <2>5 DEF vars, TypeOK
  <2> QED
    BY <2>2, <2>3, <2>4, <2>5 DEF Next
<1> QED
  BY <1>1, <1>2, PTL DEF Spec

-----------------------------------------------------------------------------
(***************************************************************************)
(* How old an answer can be.  The clock never runs past the timeout of a   *)
(* running statement, so an entry is stored, and its TTL starts, at most   *)
(* StmtTimeout after its snapshot.                                         *)
(***************************************************************************)

\* An entry's rows are from the past, its total is not younger, and it expires
\* at most a TTL and a statement after its snapshot.
Aged(e) ==
    /\ e.countAt <= e.rowsAt /\ e.rowsAt <= now
    /\ e.expires <= e.rowsAt + TTL + StmtTimeout

\* A worker's statements: a running one is within its timeout, the total comes
\* before the rows.
Underway(w) ==
    /\ pc[w] \in {"counting", "reading"} =>
          started[w] <= now /\ now <= started[w] + StmtTimeout
    /\ pc[w] = "counted" => countAt[w] <= now
    /\ pc[w] = "reading" => countAt[w] <= started[w]

AgeInv ==
    /\ \A k \in Keys : cache[k] # Nothing => Aged(cache[k])
    /\ \A w \in Workers : held[w] # Nothing => Aged(held[w])
    /\ \A w \in Workers : Underway(w)
    /\ BoundedStaleness

LEMMA EntriesHaveTimes ==
    ASSUME TypeOK
    PROVE  /\ \A k \in Keys : cache[k] # Nothing =>
                 /\ cache[k].countAt \in Nat /\ cache[k].rowsAt \in Nat
                 /\ cache[k].expires \in Nat
           /\ \A w \in Workers : held[w] # Nothing =>
                 /\ held[w].countAt \in Nat /\ held[w].rowsAt \in Nat
                 /\ held[w].expires \in Nat
           /\ \A w \in Workers : Replied(w) =>
                 reply[w].at \in Nat /\ reply[w].rowsAt \in Nat
<1>1. \A e \in Entries : e.countAt \in Nat /\ e.rowsAt \in Nat /\ e.expires \in Nat
  BY DEF Entries
<1>2. \A e \in Replies : e.at \in Nat /\ e.rowsAt \in Nat
  BY DEF Replies
<1> QED
  BY <1>1, <1>2 DEF TypeOK, Replied

\* Storing and returning rows that were read within the timeout.
LEMMA AgeAfterAnswer ==
    ASSUME NEW w \in Workers, NEW q, NEW err, NEW count \in Nat, NEW rows \in Nat,
           TypeOK, AgeInv, req[w] \in Requests,
           count <= rows, rows <= now, now <= rows + TTL + StmtTimeout,
           Return(w, q, err, count, rows), now' = now,
           \/ cache' = cache
           \/ Store(w, count, rows) /\ now <= rows + StmtTimeout
    PROVE  AgeInv'
<1>1. \A k \in Keys : cache'[k] # Nothing => Aged(cache'[k])
  <2>1. CASE cache' = cache
    BY <2>1 DEF AgeInv
  <2>2. CASE Store(w, count, rows) /\ now <= rows + StmtTimeout
    <3> TAKE k \in Keys
    <3>1. CASE k = KeyOf(req[w])
      <4>1. /\ cache'[k].countAt = count /\ cache'[k].rowsAt = rows
            /\ cache'[k].expires = now + TTL
        BY <2>2, <3>1 DEF Store, TypeOK, Expiry
      <4> QED
        BY <2>2, <4>1, SearchAssumption DEF Aged, TypeOK
    <3>2. CASE k # KeyOf(req[w])
      BY <2>2, <3>2 DEF Store, TypeOK, AgeInv
    <3> QED
      BY <3>1, <3>2
  <2> QED
    BY <2>1, <2>2
<1>2. \A v \in Workers : held'[v] # Nothing => Aged(held'[v])
  BY DEF Return, AgeInv, TypeOK
<1>3. \A v \in Workers : Underway(v)'
  <2> TAKE v \in Workers
  <2>1. CASE v = w
    BY <2>1 DEF Return, Underway, TypeOK
  <2>2. CASE v # w
    BY <2>2 DEF Return, Underway, TypeOK, AgeInv
  <2> QED
    BY <2>1, <2>2
<1>4. BoundedStaleness'
  <2> SUFFICES ASSUME NEW v \in Workers, Replied(v)'
               PROVE  reply'[v].at <= reply'[v].rowsAt + TTL + StmtTimeout
    BY DEF BoundedStaleness
  <2>1. CASE v = w
    BY <2>1 DEF Return, TypeOK
  <2>2. CASE v # w
    BY <2>2 DEF Return, TypeOK, AgeInv, BoundedStaleness, Replied
  <2> QED
    BY <2>1, <2>2
<1> QED
  BY <1>1, <1>2, <1>3, <1>4 DEF AgeInv, Aged

LEMMA AgeInvHolds == Spec => []AgeInv
<1>1. Init => AgeInv
  BY DEF Init, AgeInv, Underway, BoundedStaleness, Replied
<1>2. TypeOK /\ AgeInv /\ [Next]_vars => AgeInv'
  <2> SUFFICES ASSUME TypeOK, AgeInv, [Next]_vars PROVE AgeInv'
    OBVIOUS
  <2>1. CASE Tick
    <3>1. now \in Nat /\ now' = now + 1
      BY <2>1 DEF Tick, TypeOK
    <3>2. \A k \in Keys : cache'[k] # Nothing => Aged(cache[k])'
      BY <2>1, <3>1, EntriesHaveTimes DEF Tick, AgeInv, Aged
    <3>3. \A w \in Workers : held'[w] # Nothing => Aged(held[w])'
      BY <2>1, <3>1, EntriesHaveTimes DEF Tick, AgeInv, Aged
    <3>4. \A w \in Workers : Underway(w)'
      BY <2>1, <3>1, SearchAssumption DEF Tick, AgeInv, Underway, TypeOK
    <3>5. BoundedStaleness'
      BY <2>1 DEF Tick, AgeInv, BoundedStaleness, Replied
    <3> QED
      BY <3>2, <3>3, <3>4, <3>5 DEF AgeInv
  <2>2. ASSUME NEW w \in Workers, NEW r \in Requests, Load(w, r) PROVE AgeInv'
    <3>1. KeyOf(r) \in Keys
      BY DEF Keys
    <3>2. \A v \in Workers : held'[v] # Nothing => Aged(held'[v])
      BY <2>2, <3>1 DEF Load, TypeOK, AgeInv
    <3>3. \A v \in Workers : Underway(v)'
      BY <2>2 DEF Load, TypeOK, AgeInv, Underway
    <3>4. BoundedStaleness'
      BY <2>2 DEF Load, TypeOK, AgeInv, BoundedStaleness, Replied
    <3> QED
      BY <2>2, <3>2, <3>3, <3>4 DEF Load, AgeInv, Aged
  <2>3. ASSUME NEW w \in Workers, Continue(w) PROVE AgeInv'
    <3>1. req[w] \in Requests
      BY <2>3 DEF Continue, Hit, Expire, Miss, AnswerImmediately, StartCount,
                  FinishCount, StartRows, FinishRows, Fail, TypeOK
    <3>2. now \in Nat /\ TTL \in Nat /\ StmtTimeout \in Nat
      BY SearchAssumption DEF TypeOK
    <3>3. CASE Hit(w)
      <4>1. /\ held[w].countAt \in Nat /\ held[w].rowsAt \in Nat
            /\ held[w].expires \in Nat
        BY <3>3, EntriesHaveTimes DEF Hit
      <4>2. Aged(held[w]) /\ now < held[w].expires
        BY <3>3 DEF Hit, AgeInv, Fresh
      <4>3. /\ held[w].countAt <= held[w].rowsAt /\ held[w].rowsAt <= now
            /\ now <= held[w].rowsAt + TTL + StmtTimeout
        BY <3>2, <4>1, <4>2 DEF Aged
      <4> QED
        BY <3>1, <3>3, <4>1, <4>3, AgeAfterAnswer DEF Hit
    <3>4. CASE Expire(w)
      <4>1. \A v \in Workers : Underway(v)'
        BY <3>4 DEF Expire, TypeOK, AgeInv, Underway
      <4>2. /\ \A k \in Keys : cache'[k] # Nothing => Aged(cache'[k])
            /\ \A v \in Workers : held'[v] # Nothing => Aged(held'[v])
        BY <3>4 DEF Expire, TypeOK, AgeInv
      <4>3. BoundedStaleness'
        BY <3>4 DEF Expire, AgeInv, BoundedStaleness, Replied
      <4> QED
        BY <3>4, <4>1, <4>2, <4>3 DEF Expire, AgeInv, Aged
    <3>5. CASE Miss(w) \/ StartCount(w) \/ FinishCount(w) \/ StartRows(w)
      <4>1. \A v \in Workers : Underway(v)'
        <5> TAKE v \in Workers
        <5>1. CASE v # w
          BY <3>5, <5>1 DEF Miss, StartCount, FinishCount, StartRows, TypeOK, AgeInv, Underway
        <5>2. CASE v = w /\ (Miss(w) \/ StartCount(w) \/ FinishCount(w))
          BY <3>2, <5>2 DEF Miss, StartCount, FinishCount, TypeOK, AgeInv, Underway
        <5>3. CASE v = w /\ StartRows(w)
          BY <3>2, <5>3 DEF StartRows, TypeOK, AgeInv, Underway
        <5> QED
          BY <3>5, <5>1, <5>2, <5>3
      <4>2. UNCHANGED <<now, cache, held, reply>>
        BY <3>5 DEF Miss, StartCount, FinishCount, StartRows
      <4> QED
        BY <4>1, <4>2 DEF AgeInv, Aged, BoundedStaleness, Replied
    <3>6. CASE AnswerImmediately(w)
      BY <3>1, <3>2, <3>6, AgeAfterAnswer DEF AnswerImmediately
    <3>7. CASE FinishRows(w)
      <4>1. countAt[w] \in Nat /\ started[w] \in Nat
        BY DEF TypeOK
      <4>2. /\ countAt[w] <= started[w] /\ started[w] <= now
            /\ now <= started[w] + StmtTimeout
        BY <3>7 DEF FinishRows, AgeInv, Underway
      <4>3. now <= started[w] + TTL + StmtTimeout
        BY <3>2, <4>1, <4>2
      <4> QED
        BY <3>1, <3>7, <4>1, <4>2, <4>3, AgeAfterAnswer DEF FinishRows
    <3>8. CASE Fail(w)
      BY <3>1, <3>2, <3>8, AgeAfterAnswer DEF Fail
    <3> QED
      BY <2>3, <3>3, <3>4, <3>5, <3>6, <3>7, <3>8 DEF Continue
  <2>4. CASE UNCHANGED vars
    BY <2>4 DEF vars, AgeInv, Aged, Underway, BoundedStaleness, Replied
  <2> QED
    BY <2>1, <2>2, <2>3, <2>4 DEF Next
<1> QED
  BY <1>1, <1>2, TypeCorrect, PTL DEF Spec

\* BoundedStaleness: every answer's rows were read at most a TTL and one
\* statement timeout before it was given.
THEOREM StalenessBounded == Spec => []BoundedStaleness
<1>1. AgeInv => BoundedStaleness
  BY DEF AgeInv
<1> QED
  BY <1>1, AgeInvHolds, PTL

-----------------------------------------------------------------------------
(***************************************************************************)
(* Whose answer a request gets.  The key tells requests apart as long as   *)
(* no search type has a bar in it; then an entry belongs to one request.   *)
(***************************************************************************)

BarFreeTypes == \A r \in Requests : Len(r.type) = 1

DistinctKeys == \A r, s \in Requests : KeyOf(r) = KeyOf(s) => r = s

LEMMA ConcatParts ==
    ASSUME NEW a \in Seq(Pieces), NEW b \in Seq(Pieces)
    PROVE  /\ a \o b \in Seq(Pieces) /\ Len(a \o b) = Len(a) + Len(b)
           /\ \A i \in 1 .. Len(a) : (a \o b)[i] = a[i]
           /\ \A i \in 1 .. Len(b) : (a \o b)[Len(a) + i] = b[i]
OBVIOUS

\* Where the fields of a request are in its key.
LEMMA KeyHoldsFields ==
    ASSUME NEW r \in Requests, Len(r.type) = 1
    PROVE  /\ Len(r.query) \in Nat /\ Len(KeyOf(r)) = Len(r.query) + 3
           /\ KeyOf(r)[1] = r.type[1]
           /\ \A i \in 1 .. Len(r.query) : KeyOf(r)[1 + i] = r.query[i]
           /\ KeyOf(r)[Len(r.query) + 2] = r.limit
           /\ KeyOf(r)[Len(r.query) + 3] = r.offset
<1> DEFINE texts == r.type \o r.query
           page  == <<r.limit, r.offset>>
<1>1. /\ r.type \in Seq(Pieces) /\ r.query \in Seq(Pieces) /\ page \in Seq(Pieces)
      /\ Len(r.query) \in Nat /\ Len(page) = 2
      /\ page[1] = r.limit /\ page[2] = r.offset
  BY RequestsAssumption
<1>2. /\ texts \in Seq(Pieces) /\ Len(texts) = Len(r.type) + Len(r.query)
      /\ \A i \in 1 .. Len(r.type) : texts[i] = r.type[i]
      /\ \A i \in 1 .. Len(r.query) : texts[Len(r.type) + i] = r.query[i]
  BY <1>1, ConcatParts
<1> HIDE DEF texts, page
<1>3. /\ Len(texts \o page) = Len(texts) + 2
      /\ \A i \in 1 .. Len(texts) : (texts \o page)[i] = texts[i]
      /\ \A i \in 1 .. 2 : (texts \o page)[Len(texts) + i] = page[i]
  <2>1. /\ Len(texts \o page) = Len(texts) + Len(page)
        /\ \A i \in 1 .. Len(texts) : (texts \o page)[i] = texts[i]
        /\ \A i \in 1 .. Len(page) : (texts \o page)[Len(texts) + i] = page[i]
    BY <1>1, <1>2, ConcatParts
  <2> QED
    BY <1>1, <2>1
<1>4. KeyOf(r) = texts \o page
  BY DEF KeyOf, texts, page
<1>5. \A i \in 1 .. Len(r.query) : 1 + i \in 1 .. Len(texts)
  BY <1>1, <1>2
<1>6. /\ 1 \in 1 .. Len(texts) /\ texts[1] = r.type[1]
      /\ Len(texts) + 1 = Len(r.query) + 2 /\ Len(texts) + 2 = Len(r.query) + 3
  BY <1>1, <1>2
<1>7. /\ (texts \o page)[Len(texts) + 1] = r.limit
      /\ (texts \o page)[Len(texts) + 2] = r.offset
  BY <1>1, <1>3
<1> QED
  BY <1>1, <1>2, <1>3, <1>4, <1>5, <1>6, <1>7

\* The key of Search is injective on requests whose type has no bar, whatever
\* bars their queries have.
LEMMA KeyTellsApart ==
    ASSUME BarFreeTypes
    PROVE  DistinctKeys
<1> SUFFICES ASSUME NEW r \in Requests, NEW s \in Requests, KeyOf(r) = KeyOf(s)
             PROVE  r = s
  BY DEF DistinctKeys
<1>1. /\ r \in [type : Seq(Pieces), query : Seq(Pieces), limit : Pieces, offset : Pieces]
      /\ s \in [type : Seq(Pieces), query : Seq(Pieces), limit : Pieces, offset : Pieces]
  BY RequestsAssumption
<1>2. Len(r.type) = 1 /\ Len(s.type) = 1
  BY DEF BarFreeTypes
<1>3. Len(r.query) = Len(s.query)
  BY <1>2, KeyHoldsFields
<1>4. r.query = s.query
  <2>1. \A i \in 1 .. Len(r.query) : r.query[i] = s.query[i]
    BY <1>2, <1>3, KeyHoldsFields
  <2> QED
    BY <1>1, <1>3, <2>1, SeqEqual
<1>5. r.type = s.type
  <2>1. \A i \in 1 .. Len(r.type) : r.type[i] = s.type[i]
    BY <1>2, KeyHoldsFields
  <2> QED
    BY <1>1, <1>2, <2>1, SeqEqual
<1>6. r.limit = s.limit /\ r.offset = s.offset
  BY <1>2, <1>3, KeyHoldsFields
<1> QED
  BY <1>1, <1>4, <1>5, <1>6

LEMMA CountedNeedsStatement ==
    ASSUME NEW r \in Requests, Counted(r)
    PROVE  ~Immediate(Question(r))
BY DEF Counted, Immediate, Question

LEMMA StatementVerdict ==
    ASSUME NEW r \in Requests, ~Immediate(Question(r))
    PROVE  Verdict(Question(r)) = "none"
BY DEF Immediate, Verdict

\* An entry is the answer to r, with a total as old as its rows unless r is
\* counted separately.
Answers(e, r) ==
    /\ e.question = Question(r) /\ e.err = Verdict(Question(r))
    /\ Counted(r) \/ e.countAt = e.rowsAt

\* What a worker is about to do fits its request.
FitsRequest(w) ==
    /\ pc[w] \in {"counting", "counted"} => Counted(req[w])
    /\ pc[w] = "reading" =>
          /\ ~Immediate(Question(req[w]))
          /\ Counted(req[w]) \/ countAt[w] = started[w]

OwnInv ==
    /\ \A r \in Requests : cache[KeyOf(r)] # Nothing => Answers(cache[KeyOf(r)], r)
    /\ \A w \in Workers : held[w] # Nothing => Answers(held[w], req[w])
    /\ \A w \in Workers : FitsRequest(w)
    /\ OwnAnswer

LEMMA OwnAfterReturn ==
    ASSUME NEW w \in Workers, NEW err, NEW count, NEW rows,
           TypeOK, OwnInv, req[w] \in Requests,
           Return(w, Question(req[w]), err, count, rows)
    PROVE  /\ \A v \in Workers : held'[v] # Nothing => Answers(held'[v], req'[v])
           /\ \A v \in Workers : FitsRequest(v)'
           /\ OwnAnswer'
<1>1. \A v \in Workers : held'[v] # Nothing => Answers(held'[v], req'[v])
  <2> TAKE v \in Workers
  <2>1. CASE v = w
    BY <2>1 DEF Return, TypeOK
  <2>2. CASE v # w
    BY <2>2 DEF Return, TypeOK, OwnInv
  <2> QED
    BY <2>1, <2>2
<1>2. \A v \in Workers : FitsRequest(v)'
  <2> TAKE v \in Workers
  <2>1. CASE v = w
    BY <2>1 DEF Return, TypeOK, FitsRequest
  <2>2. CASE v # w
    BY <2>2 DEF Return, TypeOK, OwnInv, FitsRequest
  <2> QED
    BY <2>1, <2>2
<1>3. OwnAnswer'
  <2> SUFFICES ASSUME NEW v \in Workers, Replied(v)'
               PROVE  reply'[v].question = Question(reply'[v].to)
    BY DEF OwnAnswer
  <2>1. CASE v = w
    BY <2>1 DEF Return, TypeOK
  <2>2. CASE v # w
    BY <2>2 DEF Return, TypeOK, OwnInv, OwnAnswer, Replied
  <2> QED
    BY <2>1, <2>2
<1> QED
  BY <1>1, <1>2, <1>3

LEMMA OwnAfterStore ==
    ASSUME NEW w \in Workers, NEW count, NEW rows,
           DistinctKeys, TypeOK, OwnInv, req[w] \in Requests,
           Counted(req[w]) \/ count = rows,
           Store(w, count, rows)
    PROVE  \A r \in Requests : cache'[KeyOf(r)] # Nothing => Answers(cache'[KeyOf(r)], r)
<1> TAKE r \in Requests
<1>1. KeyOf(r) \in Keys
  BY DEF Keys
<1>2. CASE r = req[w]
  <2>1. cache'[KeyOf(r)] = [question |-> Question(r), err |-> Verdict(Question(r)),
                            countAt |-> count, rowsAt |-> rows, expires |-> Expiry]
    BY <1>1, <1>2 DEF Store, TypeOK
  <2> QED
    BY <1>2, <2>1 DEF Answers
<1>3. CASE r # req[w]
  <2>1. KeyOf(r) # KeyOf(req[w])
    BY <1>3 DEF DistinctKeys
  <2> QED
    BY <1>1, <2>1 DEF Store, TypeOK, OwnInv
<1> QED
  BY <1>2, <1>3

LEMMA OwnInvHolds ==
    ASSUME BarFreeTypes
    PROVE  Spec => []OwnInv
<1>1. Init => OwnInv
  BY DEF Init, OwnInv, FitsRequest, OwnAnswer, Replied, Keys
<1>2. TypeOK /\ OwnInv /\ [Next]_vars => OwnInv'
  <2> SUFFICES ASSUME TypeOK, OwnInv, [Next]_vars PROVE OwnInv'
    OBVIOUS
  <2>1. DistinctKeys
    BY KeyTellsApart
  <2>2. CASE Tick \/ UNCHANGED vars
    BY <2>2 DEF Tick, vars, OwnInv, FitsRequest, OwnAnswer, Replied
  <2>3. ASSUME NEW w \in Workers, NEW r \in Requests, Load(w, r) PROVE OwnInv'
    <3>1. \A v \in Workers : held'[v] # Nothing => Answers(held'[v], req'[v])
      BY <2>3 DEF Load, TypeOK, OwnInv
    <3>2. \A v \in Workers : FitsRequest(v)'
      BY <2>3 DEF Load, TypeOK, OwnInv, FitsRequest
    <3>3. OwnAnswer'
      BY <2>3 DEF Load, TypeOK, OwnInv, OwnAnswer, Replied
    <3> QED
      BY <2>3, <3>1, <3>2, <3>3 DEF Load, OwnInv
  <2>4. ASSUME NEW w \in Workers, Continue(w) PROVE OwnInv'
    <3>1. req[w] \in Requests
      BY <2>4 DEF Continue, Hit, Expire, Miss, AnswerImmediately, StartCount,
                  FinishCount, StartRows, FinishRows, Fail, TypeOK
    <3>2. CASE Hit(w)
      <4>1. held[w].question = Question(req[w])
        BY <3>2 DEF Hit, OwnInv, Answers
      <4> QED
        BY <3>1, <3>2, <4>1, OwnAfterReturn DEF Hit, OwnInv
    <3>3. CASE Expire(w) \/ Miss(w) \/ StartCount(w) \/ FinishCount(w) \/ StartRows(w)
      <4>1. \A v \in Workers : FitsRequest(v)'
        <5> TAKE v \in Workers
        <5>1. CASE v # w
          BY <3>3, <5>1 DEF Expire, Miss, StartCount, FinishCount, StartRows, TypeOK,
                            OwnInv, FitsRequest
        <5>2. CASE v = w /\ ~StartRows(w)
          BY <3>3, <5>2 DEF Expire, Miss, StartCount, FinishCount, TypeOK, OwnInv, FitsRequest
        <5>3. CASE v = w /\ StartRows(w)
          BY <3>1, <5>3, CountedNeedsStatement DEF StartRows, TypeOK, OwnInv, FitsRequest
        <5> QED
          BY <5>1, <5>2, <5>3
      <4>2. UNCHANGED <<req, reply>>
        BY <3>3 DEF Expire, Miss, StartCount, FinishCount, StartRows
      <4>3. /\ \A r \in Requests : cache'[KeyOf(r)] # Nothing => Answers(cache'[KeyOf(r)], r)
            /\ \A v \in Workers : held'[v] # Nothing => Answers(held'[v], req'[v])
        BY <3>3, <4>2 DEF Expire, Miss, StartCount, FinishCount, StartRows, TypeOK,
                          OwnInv, Keys
      <4> QED
        BY <4>1, <4>2, <4>3 DEF OwnInv, OwnAnswer, Replied
    <3>4. CASE AnswerImmediately(w)
      BY <2>1, <3>1, <3>4, OwnAfterStore, OwnAfterReturn DEF AnswerImmediately, OwnInv
    <3>5. CASE FinishRows(w)
      <4>1. Counted(req[w]) \/ countAt[w] = started[w]
        BY <3>5 DEF FinishRows, OwnInv, FitsRequest
      <4> QED
        BY <2>1, <3>1, <3>5, <4>1, OwnAfterStore, OwnAfterReturn DEF FinishRows, OwnInv
    <3>6. CASE Fail(w)
      BY <3>1, <3>6, OwnAfterReturn DEF Fail, OwnInv
    <3> QED
      BY <2>4, <3>2, <3>3, <3>4, <3>5, <3>6 DEF Continue
  <2> QED
    BY <2>2, <2>3, <2>4 DEF Next
<1> QED
  BY <1>1, <1>2, TypeCorrect, PTL DEF Spec

\* OwnAnswer: while no search type has a bar in it, a reply answers the
\* question of the request it is a reply to, whoever filled the cache.
THEOREM AnswersOwnQuestion ==
    ASSUME BarFreeTypes
    PROVE  Spec => []OwnAnswer
<1>1. OwnInv => OwnAnswer
  BY DEF OwnInv
<1> QED
  BY <1>1, OwnInvHolds, PTL

-----------------------------------------------------------------------------
(***************************************************************************)
(* SearchCache implements SearchPromise: every step of the cache is a step *)
(* the promise allows, or one its client does not see.                     *)
(***************************************************************************)

LEMMA SameQuestions ==
    ASSUME NEW r
    PROVE  /\ Promise!Question(r) = Question(r) /\ Promise!Counted(r) = Counted(r)
           /\ Promise!Verdict(Question(r)) = Verdict(Question(r))
           /\ Promise!Immediate(Question(r)) = Immediate(Question(r))
BY DEF Promise!Question, Question, Promise!Counted, Counted, Promise!UserIDOf, UserIDOf,
       Promise!Verdict, Verdict, Promise!Immediate, Immediate

\* Returning the repository's answer, from the cache or not, is Answer.
LEMMA ReturnAnswers ==
    ASSUME NEW w \in Workers, NEW count \in Nat, NEW rows \in Nat,
           TypeOK, req[w] \in Requests,
           count <= rows, rows <= now, now <= rows + TTL + StmtTimeout,
           Counted(req[w]) \/ count = rows,
           Return(w, Question(req[w]), Verdict(Question(req[w])), count, rows),
           now' = now
    PROVE  Promise!Next
<1>1. count \in 0 .. now /\ rows \in 0 .. now /\ now <= rows + (TTL + StmtTimeout)
  BY SearchAssumption DEF TypeOK
<1>2. req[w] # Nothing
  BY SearchAssumption
<1>3. Promise!Answer(w, count, rows)
  BY <1>1, <1>2, SameQuestions DEF Return, Promise!Answer
<1> QED
  BY <1>1, <1>3 DEF Promise!Next

\* KeepsPromise: while no search type has a bar in it, the cache in front of
\* the repository keeps everything SearchPromise states.
THEOREM CacheKeepsPromise ==
    ASSUME BarFreeTypes
    PROVE  Spec => KeepsPromise
<1>1. Init => Promise!Init
  BY DEF Init, Promise!Init
<1>2. TypeOK /\ AgeInv /\ OwnInv /\ [Next]_vars => [Promise!Next]_(Promise!vars)
  <2> SUFFICES ASSUME TypeOK, AgeInv, OwnInv, [Next]_vars
               PROVE  Promise!Next \/ UNCHANGED <<now, req, reply>>
    BY DEF Promise!vars
  <2>1. CASE Tick
    BY <2>1 DEF Tick, Promise!Tick, Promise!Next
  <2>2. ASSUME NEW w \in Workers, NEW r \in Requests, Load(w, r) PROVE Promise!Next
    BY <2>2 DEF Load, TypeOK, Promise!Ask, Promise!Next
  <2>3. ASSUME NEW w \in Workers, Continue(w)
        PROVE  Promise!Next \/ UNCHANGED <<now, req, reply>>
    <3>1. req[w] \in Requests
      BY <2>3 DEF Continue, Hit, Expire, Miss, AnswerImmediately, StartCount,
                  FinishCount, StartRows, FinishRows, Fail, TypeOK
    <3>2. now \in Nat /\ TTL \in Nat /\ StmtTimeout \in Nat
      BY SearchAssumption DEF TypeOK
    <3>3. CASE Hit(w)
      <4>1. /\ held[w].countAt \in Nat /\ held[w].rowsAt \in Nat
            /\ held[w].expires \in Nat
        BY <3>3, EntriesHaveTimes DEF Hit
      <4>2. Aged(held[w]) /\ now < held[w].expires /\ Answers(held[w], req[w])
        BY <3>3 DEF Hit, AgeInv, OwnInv, Fresh
      <4>3. /\ held[w].countAt <= held[w].rowsAt /\ held[w].rowsAt <= now
            /\ now <= held[w].rowsAt + TTL + StmtTimeout
        BY <3>2, <4>1, <4>2 DEF Aged
      <4>4. /\ held[w].question = Question(req[w])
            /\ held[w].err = Verdict(Question(req[w]))
            /\ Counted(req[w]) \/ held[w].countAt = held[w].rowsAt
        BY <4>2 DEF Answers
      <4> QED
        BY <3>1, <3>3, <4>1, <4>3, <4>4, ReturnAnswers DEF Hit
    <3>4. CASE Expire(w) \/ Miss(w) \/ StartCount(w) \/ FinishCount(w) \/ StartRows(w)
      BY <3>4 DEF Expire, Miss, StartCount, FinishCount, StartRows
    <3>5. CASE AnswerImmediately(w)
      BY <3>1, <3>2, <3>5, ReturnAnswers DEF AnswerImmediately
    <3>6. CASE FinishRows(w)
      <4>1. countAt[w] \in Nat /\ started[w] \in Nat
        BY DEF TypeOK
      <4>2. /\ countAt[w] <= started[w] /\ started[w] <= now
            /\ now <= started[w] + StmtTimeout
        BY <3>6 DEF FinishRows, AgeInv, Underway
      <4>3. now <= started[w] + TTL + StmtTimeout
        BY <3>2, <4>1, <4>2
      <4>4. /\ ~Immediate(Question(req[w]))
            /\ Counted(req[w]) \/ countAt[w] = started[w]
        BY <3>6 DEF FinishRows, OwnInv, FitsRequest
      <4>5. Verdict(Question(req[w])) = "none"
        BY <3>1, <4>4, StatementVerdict
      <4> QED
        BY <3>1, <3>6, <4>1, <4>2, <4>3, <4>4, <4>5, ReturnAnswers DEF FinishRows
    <3>7. CASE Fail(w)
      <4>1. Promise!Refuse(w)
        BY <3>1, <3>7, SearchAssumption, SameQuestions DEF Fail, Return, Promise!Refuse
      <4> QED
        BY <4>1 DEF Promise!Next
    <3> QED
      BY <2>3, <3>3, <3>4, <3>5, <3>6, <3>7 DEF Continue
  <2>4. CASE UNCHANGED vars
    BY <2>4 DEF vars
  <2> QED
    BY <2>1, <2>2, <2>3, <2>4 DEF Next
<1> QED
  BY <1>1, <1>2, TypeCorrect, AgeInvHolds, OwnInvHolds, PTL
  DEF Spec, KeepsPromise, Promise!Spec
-----------------------------------------------------------------------------
(***************************************************************************)
(* Whose failure it is.  Entries hold no errors of the database, so a      *)
(* reply with one can only be given by Fail.                               *)
(***************************************************************************)

\* A worker's return leaves the others' replies alone.
LEMMA OthersKeepReplies ==
    ASSUME NEW w \in Workers, NEW v \in Workers, v # w, TypeOK,
           NEW q, NEW err, NEW count, NEW rows, Return(w, q, err, count, rows)
    PROVE  reply'[v] = reply[v]
BY DEF TypeOK, Return

\* A return without a failure of the database tells nobody of one.
LEMMA ReturnWithoutFailure ==
    ASSUME NEW w \in Workers, NEW v \in Workers, TypeOK,
           NEW q, NEW err \in {"none", "unsupported"}, NEW count, NEW rows,
           Return(w, q, err, count, rows), reply'[v] # reply[v]
    PROVE  reply'[v].err # "infra"
<1>1. v = w
  BY OthersKeepReplies
<1>2. reply'[w].err = err
  BY DEF TypeOK, Return
<1> QED
  BY <1>1, <1>2

\* OnlyOwnFailure: a failure of the database is told only to the request that
\* met it, and leaves the cache as it was.
THEOREM FailuresStayWhereTheyAre == Spec => OnlyOwnFailure
<1>1. TypeOK /\ [Next]_vars =>
        [\A w \in Workers :
            reply'[w] \notin {reply[w], Nothing} /\ reply'[w].err = "infra"
               => /\ pc[w] \notin {"idle", "loaded"}
                  /\ ~Immediate(Question(req[w]))
                  /\ cache' = cache]_vars
  <2> SUFFICES ASSUME TypeOK, Next, NEW v \in Workers,
                      reply'[v] # reply[v], reply'[v] # Nothing, reply'[v].err = "infra"
               PROVE  /\ pc[v] \notin {"idle", "loaded"}
                      /\ ~Immediate(Question(req[v]))
                      /\ cache' = cache
    OBVIOUS
  <2>1. CASE Tick
    BY <2>1 DEF Tick
  <2>2. ASSUME NEW w \in Workers, NEW r \in Requests, Load(w, r) PROVE FALSE
    BY <2>2 DEF Load, TypeOK
  <2>3. ASSUME NEW w \in Workers, Continue(w)
        PROVE  /\ pc[v] \notin {"idle", "loaded"}
               /\ ~Immediate(Question(req[v]))
               /\ cache' = cache
    <3>1. CASE Hit(w)
      <4>1. held[w].err \in {"none", "unsupported"}
        BY <3>1 DEF Hit, TypeOK, Entries
      <4> QED
        BY <3>1, <4>1, ReturnWithoutFailure DEF Hit
    <3>2. CASE Expire(w) \/ Miss(w) \/ StartCount(w) \/ FinishCount(w) \/ StartRows(w)
      BY <3>2 DEF Expire, Miss, StartCount, FinishCount, StartRows
    <3>3. CASE AnswerImmediately(w)
      <4>1. Verdict(Question(req[w])) \in {"none", "unsupported"}
        BY DEF Verdict
      <4> QED
        BY <3>3, <4>1, ReturnWithoutFailure DEF AnswerImmediately
    <3>4. CASE FinishRows(w)
      BY <3>4, ReturnWithoutFailure DEF FinishRows
    <3>5. CASE Fail(w)
      <4>1. v = w
        BY <3>5, OthersKeepReplies DEF Fail
      <4> QED
        BY <3>5, <4>1 DEF Fail
    <3> QED
      BY <2>3, <3>1, <3>2, <3>3, <3>4, <3>5 DEF Continue
  <2> QED
    BY <2>1, <2>2, <2>3 DEF Next
<1> QED
  BY <1>1, TypeCorrect, PTL DEF Spec, OnlyOwnFailure
=============================================================================
