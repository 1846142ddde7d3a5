------------------------------ MODULE MCSearch ------------------------------
(***************************************************************************)
(* Small instances of SearchCache.                                         *)
(***************************************************************************)
EXTENDS SearchCache

Request(type, query, limit, offset) ==
    [type |-> type, query |-> query, limit |-> limit, offset |-> offset]

MCPieces == {"email", "phone", "user_id", "name", "ann", "7", "10", "0"}

\* Sscanf("%d") finds a number at the start of these pieces only.
MCParsedID == [p \in MCPieces |-> IF p \in {"7", "10", "0"} THEN p ELSE "none"]

\* A counted search, one whose only statement reads its own total, and one that
\* needs no statement.
SomeRequests == {
    Request(<<"email">>, <<"ann">>, "10", "0"),
    Request(<<"name">>, <<"ann">>, "10", "0"),
    Request(<<"user_id">>, <<"ann">>, "10", "0")}

\* A type with a bar in it, which the handler lets through.
BarRequests == {
    Request(<<"email", "ann">>, <<"7">>, "10", "0"),
    Request(<<"email">>, <<"ann", "7">>, "10", "0")}
=============================================================================
