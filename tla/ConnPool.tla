------------------------------ MODULE ConnPool ------------------------------
(***************************************************************************)
(* The database/sql connection pool behind the one *gorm.DB of the server, *)
(* sized by SetMaxOpenConns in backend/database/database.go.  The pool is  *)
(* external; this is how the repositories use it: a connection belongs to  *)
(* one statement or one transaction from the moment it is handed out until *)
(* the statement ends or Rollback returns it, and whoever finds none free  *)
(* waits without a limit, in no particular order.                          *)
(***************************************************************************)
EXTENDS Integers, FiniteSets

CONSTANTS
    MaxOpen,    \* DB_MAX_OPEN_CONNS, any integer
    Uses        \* what a connection can be used for

VARIABLES
    inUse,      \* the uses that have a connection, one each
    lost        \* those among them whose session with the database is lost

Holds(u) == u \in inUse

\* A statement can succeed on the connection held for u.
Usable(u) == u \in inUse /\ u \notin lost

\* Zero and negative sizes mean no limit.
Exhausted == MaxOpen > 0 /\ Cardinality(inUse) >= MaxOpen

\* A free connection is handed out; with the database down, it has no session.
Acquire(u, dbUp) ==
    /\ ~Exhausted
    /\ u \notin inUse
    /\ inUse' = inUse \cup {u}
    /\ lost' = IF dbUp THEN lost ELSE lost \cup {u}

\* The connection held for u goes back to the pool, which discards it if its
\* session is lost.
Release(u) ==
    /\ inUse' = inUse \ {u}
    /\ lost' = lost \ {u}

\* The database goes down: every session in use is lost.
LoseSessions ==
    /\ lost' = inUse
    /\ UNCHANGED inUse

\* The pool of a new process.
EmptyPool ==
    /\ inUse' = {}
    /\ lost' = {}
=============================================================================
