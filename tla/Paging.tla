------------------------------- MODULE Paging -------------------------------
(***************************************************************************)
(* Pages of the user listing (backend/handlers/handlers.go,                *)
(* backend/service/user_service.go, backend/repository/user_repository.go) *)
(* and of the search (backend/handlers/api_handlers.go): what becomes of   *)
(* the page, limit and offset of a request on their way to LIMIT and       *)
(* OFFSET, in integers of Go's width.                                      *)
(***************************************************************************)
EXTENDS Integers

CONSTANTS
    IntLimit,       \* 2^63: an int is at least -IntLimit and below IntLimit
    MaxLimit,       \* the largest limit, 100
    DefaultUsers,   \* what the listing falls back to, 20
    DefaultSearch   \* what the search falls back to, 10

ASSUME PagingAssumption ==
    /\ {IntLimit, MaxLimit, DefaultUsers, DefaultSearch} \subseteq Nat \ {0}
    /\ DefaultUsers <= MaxLimit /\ DefaultSearch <= MaxLimit /\ MaxLimit < IntLimit

Ints == -IntLimit .. IntLimit - 1

\* strconv.Atoi, its error ignored: a number that is too large or too small is
\* the largest or smallest int.  A text that is no number gives 0.
Atoi(n) == IF n < -IntLimit THEN -IntLimit ELSE IF n >= IntLimit THEN IntLimit - 1 ELSE n

\* The result of an int multiplication.
Wrapped(n) == ((n + IntLimit) % (2 * IntLimit)) - IntLimit

PageOf(page) == IF page < 1 THEN 1 ELSE page

UsersLimit(limit) == IF limit < 1 \/ limit > MaxLimit THEN DefaultUsers ELSE limit

\* A mutation of UsersOffset: pages are counted from 0.
UsersOffsetFromZero(page, limit) == Wrapped(PageOf(page) * UsersLimit(limit))

UsersOffset(page, limit) == Wrapped((PageOf(page) - 1) * UsersLimit(limit))

\* A mutation of Skipped: the offset goes to the database as it is.
SkippedAsGiven(offset) == offset

\* External: GORM's Offset leaves out an OFFSET that is not positive.
Skipped(offset) == IF offset > 0 THEN offset ELSE 0

SearchLimit(limit) == IF limit < 1 \/ limit > MaxLimit THEN DefaultSearch ELSE limit

SearchOffset(offset) == IF offset < 0 THEN 0 ELSE offset

\* How many rows the two endpoints skip and serve.
UsersWindow(page, limit) ==
    [skip |-> Skipped(UsersOffset(Atoi(page), Atoi(limit))), rows |-> UsersLimit(Atoi(limit))]

SearchWindow(offset, limit) ==
    [skip |-> SearchOffset(Atoi(offset)), rows |-> SearchLimit(Atoi(limit))]

\* A mutation of EchoedLimit: the response repeats the limit of the request.
EchoedAsAsked(limit) == limit

\* The limit in a search response, by which its reader moves on.
EchoedLimit(limit) == SearchLimit(Atoi(limit))
=============================================================================
