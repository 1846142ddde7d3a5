--------------------------- MODULE SearchRequests ---------------------------
(***************************************************************************)
(* What GET /api/search can ask of searchService.Search, and what each     *)
(* request means to the repository (backend/service/api_service.go).       *)
(*                                                                         *)
(* The service joins the fields of a request with '|' into one cache key,  *)
(* so all that it can tell apart in a text is where the bars are.  A text  *)
(* is therefore the non-empty sequence of the pieces between its bars:     *)
(* "email" is <<"email">> and "a|b" is <<"a", "b">>.                       *)
(***************************************************************************)
EXTENDS Naturals, Sequences

CONSTANTS
    Pieces,     \* the bar-free texts that requests are made of
    Requests,   \* the requests that pass the handler's checks
    ParsedID,   \* piece -> the number Sscanf("%d") reads at its start
    NoID        \* what ParsedID gives where Sscanf fails

ASSUME RequestsAssumption ==
    /\ Requests \subseteq [type : Seq(Pieces), query : Seq(Pieces),
                           limit : Pieces, offset : Pieces]
    /\ \A r \in Requests : r.type # <<>> /\ r.query # <<>>
    /\ DOMAIN ParsedID = Pieces

\* A mutation of KeyOf: a field left out of the format.
KeyWithoutType(r) == r.query \o <<r.limit, r.offset>>

\* fmt.Sprintf("%s|%s|%d|%d", searchType, query, limit, offset): joining two
\* texts with a bar appends their pieces.
KeyOf(r) == r.type \o r.query \o <<r.limit, r.offset>>

Keys == {KeyOf(r) : r \in Requests}

\* email and phone: a count(*) statement, then a statement for the rows.
Counted(r) == r.type \in {<<"email">>, <<"phone">>}

\* The number Sscanf reads is in the piece before the query's first bar.
UserIDOf(r) == ParsedID[Head(r.query)]

\* dispatch: the repository call that a request stands for.  A user_id search
\* ignores the page; a query without a number is answered as "no rows".
Question(r) ==
    CASE r.type = <<"user_id">> /\ UserIDOf(r) = NoID -> [call |-> "no rows"]
      [] r.type = <<"user_id">> /\ UserIDOf(r) # NoID ->
            [call |-> "SearchByUserID", id |-> UserIDOf(r)]
      [] Counted(r) \/ r.type = <<"name">> ->
            [call |-> "Search", type |-> r.type, query |-> r.query,
             limit |-> r.limit, offset |-> r.offset]
      [] OTHER -> [call |-> "unsupported", type |-> r.type]

Questions == {Question(r) : r \in Requests}

\* Answered by dispatch itself, without a statement.
Immediate(q) == q.call \in {"no rows", "unsupported"}

\* The error that goes with the answer to a question once it has one.
Verdict(q) == IF q.call = "unsupported" THEN "unsupported" ELSE "none"
=============================================================================
