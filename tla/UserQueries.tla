----------------------------- MODULE UserQueries -----------------------------
(***************************************************************************)
(* Requests for users while the tables change: a reader walks through the  *)
(* user listing or a search page by page (ListUsers, FindAll, and the      *)
(* statements of backend/repository/search_repository.go behind the cache  *)
(* of backend/service/api_service.go), and others look one user up         *)
(* (GetUser, UserProfile).                                                 *)
(*                                                                         *)
(* The contents of ws_user are kept, each with its number: a page of a     *)
(* search may come from the cache, where another request of any earlier    *)
(* time has put it, so it is of any content there has been.  That is what  *)
(* SearchPromise says and SearchCache implements: the rows have an age,    *)
(* and the total of an email or phone search may be older than they are.   *)
(* Within the age (searchCacheTTL and one statement) ws_user may change    *)
(* any number of times, so no content is too old here.                     *)
(*                                                                         *)
(* A user is a rank: how well the name matches what is searched for; one   *)
(* of rank 0 does not match.  An email or phone search matches whoever has *)
(* a rank.                                                                 *)
(***************************************************************************)
EXTENDS Paging, ProfileQuery, SequencesExt

CONSTANTS
    Ids,        \* user_id of the users there may be
    MaxRank,    \* the best rank
    MaxWrites,  \* bound on the changes of ws_user
    OrderIds, TransactionIds, ActivityIds,  \* keys of the other tables
    MaxAmount, MaxTime  \* bounds on amounts and timestamps

ASSUME UserQueriesAssumption ==
    /\ Ids \subseteq 1 .. IntLimit - 1 /\ IsFiniteSet(Ids)
    /\ {MaxRank, MaxWrites, MaxAmount, MaxTime} \subseteq Nat

VARIABLES
    contents,           \* ws_user as it has been, and last as it is: user_id -> rank
    orders, txs, acts,  \* ws_orders, ws_transactions, ws_user_activity
    walk                \* the reader's walk

others == <<orders, txs, acts>>
vars == <<contents, orders, txs, acts, walk>>

now == Len(contents)
users == contents[now]

Kinds == {"users", "email", "name"}

\* The limits readers ask for: too small, just right and too large.
Asked == {-1} \cup 1 .. MaxLimit + 1

\* The pages and offsets of requests out of turn: from those whose product with
\* a limit overflows to those that are no int.
Anywhere == {-2 * IntLimit, -1, 0} \cup IntLimit \div 2 .. IntLimit \cup {2 * IntLimit}

\* The partial functions from S to T.
Tables(S, T) == UNION {[D -> T] : D \in SUBSET S}

\* INSERT of a row.
Inserted(table, key, row) ==
    [k \in DOMAIN table \cup {key} |-> IF k = key THEN row ELSE table[k]]

\* A walk knows its answers and, as history, the contents they were of: that of
\* the first, that of the last and the one the last total was counted in (0 if
\* there is no answer yet), and whether one was older than the one before.
NoWalk == [at |-> "nowhere", alone |-> FALSE, kind |-> "users", limit |-> 0, next |-> 0, total |-> 0,
           skip |-> 0, page |-> <<>>, served |-> <<>>,
           first |-> 0, last |-> 0, counted |-> 0, back |-> FALSE]

Init ==
    /\ \E table \in Tables(Ids, 0 .. MaxRank) : contents = <<table>>
    /\ orders = <<>> /\ txs = <<>> /\ acts = <<>>
    /\ walk = NoWalk

\* A walk reads none of the other tables and a profile no rank: a state has
\* either walks and changes of ws_user, or users without a rank and rows in the
\* other tables.
Searching == orders = <<>> /\ acts = <<>>

Buying ==
    /\ walk = NoWalk /\ now = 1 /\ \A u \in DOMAIN users : users[u] = 0
    /\ UNCHANGED <<contents, walk>>

-----------------------------------------------------------------------------
(* Statements. *)

Matches(kind, table) == {u \in DOMAIN table : kind = "users" \/ table[u] > 0}

\* A mutation of Before: ORDER BY rank DESC alone.
BeforeByRank(kind, table, u, v) ==
    CASE kind = "name" -> table[u] >= table[v] [] kind = "email" -> u < v [] OTHER -> TRUE

\* ORDER BY user_id, ORDER BY rank DESC, user_id, and no ORDER BY.
Before(kind, table, u, v) ==
    CASE kind = "name" -> table[u] > table[v] \/ (table[u] = table[v] /\ u < v)
      [] kind = "email" -> u < v
      [] OTHER -> TRUE

Sorted(kind, table, s) == \A i, j \in DOMAIN s : i < j => Before(kind, table, s[i], s[j])

\* What LIMIT and OFFSET leave of any listing the ORDER BY allows.
Pages(kind, table, window) ==
    {SubSeq(s, window.skip + 1, Min({window.skip + window.rows, Len(s)})) :
        s \in {l \in SetToSeqs(Matches(kind, table)) : Sorted(kind, table, l)}}

\* count(*) OVER () of the first row, if there is one.
NameTotal(table, page) == IF page = <<>> THEN 0 ELSE Cardinality(Matches("name", table))

-----------------------------------------------------------------------------
(* A walk. *)

Window == IF walk.kind = "users" THEN UsersWindow(walk.next, walk.limit)
                                 ELSE SearchWindow(walk.next, walk.limit)

\* Requests start over tables without ranks that their statements do not tell
\* apart (a bound).
Telling(kind) ==
    /\ Searching
    /\ kind # "name" => \A u \in DOMAIN users : users[u] <= (IF kind = "email" THEN 1 ELSE 0)

\* The reader starts at page 1 or offset 0.
Start(kind, limit) ==
    /\ walk.at \in {"nowhere", "ended"}
    /\ Telling(kind)
    /\ walk' = [NoWalk EXCEPT !.at = "asked", !.kind = kind, !.limit = limit,
                              !.next = IF kind = "users" THEN 1 ELSE 0]
    /\ UNCHANGED <<contents, others>>

\* A request for any page or offset by itself, of a table that does not change
\* (a bound: walks race with every change).
Ask(kind, limit, next) ==
    /\ walk = NoWalk
    /\ Telling(kind) /\ now = 1
    /\ walk' = [NoWalk EXCEPT !.at = "asked", !.alone = TRUE, !.kind = kind,
                              !.limit = limit, !.next = next]
    /\ UNCHANGED <<contents, others>>

\* The response: the reader goes on to the next page until one is empty.
Answer(page, total, counted, read) ==
    walk' = [walk EXCEPT
        !.at = CASE walk.alone -> "answered"
                 [] page = <<>> /\ ~walk.alone -> "ended"
                 [] OTHER -> "asked",
        !.next = @ + (IF walk.kind = "users" THEN 1 ELSE EchoedLimit(walk.limit)),
        !.total = total, !.skip = Window.skip, !.page = page, !.served = @ \o page,
        !.first = IF @ = 0 THEN read ELSE @, !.last = read, !.counted = counted,
        !.back = @ \/ read < walk.last]

\* FindAll: the listing is not cached and has no total.
List ==
    /\ walk.at = "asked" /\ walk.kind = "users"
    /\ \E page \in Pages("users", users, Window) : Answer(page, 0, now, now)
    /\ UNCHANGED <<contents, others>>

\* A mutation of Search: the key of the cache has no offset.
SearchAnyOffset ==
    /\ walk.at = "asked" /\ walk.kind \in {"email", "name"}
    /\ \E read \in 1 .. now, skip \in 0 .. Window.skip :
          \E page \in Pages(walk.kind, contents[read], [Window EXCEPT !.skip = skip]) :
              Answer(page, Cardinality(Matches(walk.kind, contents[read])), read, read)
    /\ UNCHANGED <<contents, others>>

\* Search, from the cache or from the database: the statement of SearchByName,
\* or the two of SearchByEmail and SearchByPhone, count first.
Search ==
    /\ walk.at = "asked" /\ walk.kind \in {"email", "name"}
    /\ \E read \in 1 .. now : \E page \in Pages(walk.kind, contents[read], Window) :
          \/ /\ walk.kind = "name"
             /\ Answer(page, NameTotal(contents[read], page), read, read)
          \/ /\ walk.kind = "email"
             /\ \E counted \in 1 .. read :
                   Answer(page, Cardinality(Matches("email", contents[counted])), counted, read)
    /\ UNCHANGED <<contents, others>>

Write(table) ==
    /\ Searching /\ ~walk.alone /\ now <= MaxWrites
    /\ contents' = Append(contents, table)
    /\ UNCHANGED <<others, walk>>

\* External: a new user, and a user who is renamed or deleted.
Register(u) ==
    /\ u \notin DOMAIN users
    /\ \E r \in 0 .. MaxRank : Write(Inserted(users, u, r))

Edit(u) ==
    /\ u \in DOMAIN users
    /\ \/ \E r \in (0 .. MaxRank) \ {users[u]} : Write([users EXCEPT ![u] = r])
       \/ Write([v \in DOMAIN users \ {u} |-> users[v]])

-----------------------------------------------------------------------------
(* The other tables.  External: their rows refer to rows there are. *)

PlaceOrder(o) ==
    /\ Buying
    /\ o \notin DOMAIN orders
    /\ \E u \in DOMAIN users : orders' = Inserted(orders, o, u)
    /\ UNCHANGED <<txs, acts>>

Pay(t) ==
    /\ Buying
    /\ t \notin DOMAIN txs
    /\ \E o \in DOMAIN orders, n \in 1 .. MaxAmount :
          txs' = Inserted(txs, t, [order |-> o, amount |-> n])
    /\ UNCHANGED <<orders, acts>>

Act(a) ==
    /\ Buying
    /\ a \notin DOMAIN acts
    /\ \E u \in DOMAIN users, n \in 1 .. MaxTime :
          acts' = Inserted(acts, a, [user |-> u, time |-> n])
    /\ UNCHANGED <<orders, txs>>

Next ==
    \/ \E kind \in Kinds, limit \in Asked : Start(kind, limit)
    \/ \E kind \in Kinds, limit \in Asked, next \in Anywhere : Ask(kind, limit, next)
    \/ List \/ Search
    \/ \E u \in Ids : Register(u) \/ Edit(u)
    \/ \E o \in OrderIds : PlaceOrder(o)
    \/ \E t \in TransactionIds : Pay(t)
    \/ \E a \in ActivityIds : Act(a)

Spec == Init /\ [][Next]_vars

-----------------------------------------------------------------------------
(* Requests for one user.  None of them changes anything. *)

\* strconv.ParseUint takes numbers below 2^64, PostgreSQL ids below 2^63.
GetUserStatus(id) ==
    CASE id < 0 \/ id >= 2 * IntLimit -> 400
      [] id >= IntLimit /\ id < 2 * IntLimit -> 500
      [] OTHER -> IF id \in DOMAIN users THEN 200 ELSE 404

\* A mutation of UserProfileStatus: an empty result is a profile of zeros.
UserProfileStatusOfZeros(id) ==
    CASE id < 0 \/ id >= 2 * IntLimit -> 400
      [] id >= IntLimit /\ id < 2 * IntLimit -> 500
      [] OTHER -> 200

\* The profile that was scanned has UserID 0 if there was no row.
UserProfileStatus(id) ==
    LET scanned == IF id \in DOMAIN users THEN id ELSE 0 IN
    CASE id < 0 \/ id >= 2 * IntLimit -> 400
      [] id >= IntLimit /\ id < 2 * IntLimit -> 500
      [] OTHER -> IF scanned = 0 THEN 404 ELSE 200

-----------------------------------------------------------------------------
TypeOK ==
    /\ now \in 1 .. MaxWrites + 1 /\ \A i \in 1 .. now : contents[i] \in Tables(Ids, 0 .. MaxRank)
    /\ orders \in Tables(OrderIds, Ids)
    /\ txs \in Tables(TransactionIds, [order : OrderIds, amount : 1 .. MaxAmount])
    /\ acts \in Tables(ActivityIds, [user : Ids, time : 1 .. MaxTime])
    /\ walk.at \in {"nowhere", "asked", "ended", "answered"} /\ walk.kind \in Kinds
    /\ walk.alone \in BOOLEAN /\ walk.limit \in Asked \cup {0}
    /\ walk.total \in 0 .. Cardinality(Ids) /\ walk.skip \in Nat
    /\ walk.next \in Int /\ (~walk.alone => walk.next >= 0)
    /\ Range(walk.page) \subseteq Ids /\ Range(walk.served) \subseteq Ids
    /\ {walk.first, walk.last, walk.counted} \subseteq 0 .. now /\ walk.back \in BOOLEAN

Ended(kinds) == walk.at = "ended" /\ walk.kind \in kinds

\* All pages so far are of one content of the table.
OneContent == walk.first = walk.last /\ ~walk.back

\* Nobody who was there at i has changed or gone by j.
OnlyRegistered(i, j) ==
    \A a, b \in i .. j : a <= b =>
        \A u \in DOMAIN contents[a] : u \in DOMAIN contents[b] /\ contents[b][u] = contents[a][u]

\* "Pagination works (limit, offset respected)": a walk through a search whose
\* pages are of one content, however old they are, with any limit, serves every
\* match exactly once and in order, ties included.
WalkServesAll ==
    Ended({"email", "name"}) /\ OneContent =>
        /\ Range(walk.served) = Matches(walk.kind, contents[walk.last])
        /\ Sorted(walk.kind, contents[walk.last], walk.served)

\* New users push others to later offsets, never to earlier ones: if no page is
\* older than the one before, a walk during which users only registered misses
\* none of those who were there when its first page was read.
NewUsersHideNobody ==
    Ended({"email", "name"}) /\ ~walk.back /\ OnlyRegistered(walk.first, walk.last) =>
        Matches(walk.kind, contents[walk.first]) \subseteq Range(walk.served)

\* However old it is, a page of a search has the rows that offset and limit leave
\* of the table it was read from: it is short only if it is the last.  The total
\* beside it is right if it was counted in the same content, but for the 0 of a
\* name search beyond its end.
TotalFitsPage ==
    walk.kind # "users" /\ walk.last # 0 =>
        LET matches == Cardinality(Matches(walk.kind, contents[walk.last])) IN
        /\ Len(walk.page) = Max({0, Min({SearchLimit(Atoi(walk.limit)), matches - walk.skip})})
        /\ walk.counted = walk.last /\ walk.total # matches =>
               walk.kind = "name" /\ walk.page = <<>> /\ walk.total = 0

\* The listing has no ORDER BY, so pages may repeat and miss users, but together
\* they have as many rows as the table.
ListingHasAllRows ==
    Ended({"users"}) /\ OneContent => Len(walk.served) = Cardinality(DOMAIN contents[walk.last])

\* No request reaches PostgreSQL with a negative OFFSET or a LIMIT out of range,
\* whatever page, offset and limit it asks for, and page p of the listing starts
\* after p - 1 pages, unless that number overflows.
WindowsAreLegal ==
    walk.at = "asked" =>
        /\ Window.skip \in 0 .. IntLimit - 1 /\ Window.rows \in 1 .. MaxLimit
        /\ LET exact == (walk.next - 1) * Window.rows
           IN  walk.kind = "users" /\ walk.next \in 1 .. IntLimit - 1 /\ exact < IntLimit =>
                   Window.skip = exact

\* Every order, transaction and activity counts in exactly one profile: the
\* subqueries never multiply each other's rows.
ProfilesAddUp ==
    LET profile(u) == Profile(orders, txs, acts, u)
        amount(t) == txs[t].amount
        placed(u) == profile(u).orders
        spent(u) == profile(u).amount
        done(u) == profile(u).activities
    IN  /\ MapThenSumSet(placed, DOMAIN users) = Cardinality(DOMAIN orders)
        /\ MapThenSumSet(spent, DOMAIN users) = MapThenSumSet(amount, DOMAIN txs)
        /\ MapThenSumSet(done, DOMAIN users) = Cardinality(DOMAIN acts)
        /\ \A u \in DOMAIN users : profile(u).activities = 0 <=> profile(u).last = 0

\* The two endpoints for one user agree on who exists, for every id.
LookupsAgree == \A id \in -1 .. 2 * IntLimit : GetUserStatus(id) = UserProfileStatus(id)
=============================================================================
