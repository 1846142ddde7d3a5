---------------------------- MODULE SearchPromise ----------------------------
(***************************************************************************)
(* What a client of the search endpoint is promised, whatever the cache in *)
(* front of the database does:                                             *)
(*   - an answer is the database's answer to the question that was asked;  *)
(*   - its rows were in the database at most Bound time units ago;         *)
(*   - its total is as old as its rows, or older where the repository      *)
(*     counts before it reads (email and phone);                           *)
(*   - a question the database is not needed for is never refused because  *)
(*     of the database.                                                    *)
(* The database's content may change at any time: an instant of the clock  *)
(* stands for the snapshot that a statement started then reads.            *)
(***************************************************************************)
EXTENDS SearchRequests

CONSTANTS
    Workers,    \* requests in flight at once, one per worker
    Bound,      \* the age an answer may have
    MaxTime,    \* bound on the clock
    Nothing     \* no question asked, or no reply given

VARIABLES
    now,        \* the clock
    asked,      \* worker -> the request it is serving, or Nothing
    reply       \* worker -> its reply to the last request it took, or Nothing

vars == <<now, asked, reply>>

Init ==
    /\ now = 0
    /\ asked = [w \in Workers |-> Nothing]
    /\ reply = [w \in Workers |-> Nothing]

Tick ==
    /\ now < MaxTime
    /\ now' = now + 1
    /\ UNCHANGED <<asked, reply>>

\* A request arrives and a worker takes it.
Ask(w, r) ==
    /\ asked[w] = Nothing
    /\ asked' = [asked EXCEPT ![w] = r]
    /\ reply' = [reply EXCEPT ![w] = Nothing]
    /\ UNCHANGED now

\* The worker answers with a total counted at countAt and rows read at rowsAt.
Answer(w, countAt, rowsAt) ==
    /\ asked[w] # Nothing /\ asked' = [asked EXCEPT ![w] = Nothing]
    /\ UNCHANGED now
    /\ countAt <= rowsAt /\ rowsAt <= now /\ now <= rowsAt + Bound
    /\ Counted(asked[w]) \/ countAt = rowsAt
    /\ reply' = [reply EXCEPT ![w] =
                    [to |-> asked[w], question |-> Question(asked[w]),
                     err |-> Verdict(Question(asked[w])),
                     countAt |-> countAt, rowsAt |-> rowsAt, at |-> now]]

\* The database let the request down.
Refuse(w) ==
    /\ asked[w] # Nothing
    /\ ~Immediate(Question(asked[w]))
    /\ reply' = [reply EXCEPT ![w] =
                    [to |-> asked[w], question |-> Question(asked[w]), err |-> "infra",
                     countAt |-> now, rowsAt |-> now, at |-> now]]
    /\ asked' = [asked EXCEPT ![w] = Nothing]
    /\ UNCHANGED now

Next ==
    \/ Tick
    \/ \E w \in Workers :
          \/ \E r \in Requests : Ask(w, r)
          \/ \E countAt, rowsAt \in 0 .. now : Answer(w, countAt, rowsAt)
          \/ Refuse(w)

Spec == Init /\ [][Next]_vars
=============================================================================
