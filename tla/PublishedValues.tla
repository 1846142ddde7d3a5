-------------------------- MODULE PublishedValues --------------------------
(***************************************************************************)
(* What the caches of backend/service/api_service.go that are "kept fresh  *)
(* on a timer" promise to their readers: values that only move on, each    *)
(* one taken from the tables at some time since the last one, and lost     *)
(* only with the process.  There are no goroutines, no statements and no   *)
(* connections here; AnalyticsCaches implements this.                      *)
(***************************************************************************)
EXTENDS Integers

CONSTANTS
    Names,      \* the values that are published
    MaxVersion  \* bound on the changes of the tables

VARIABLES
    latest,     \* version of the tables
    alive,      \* there is a process to ask
    value       \* name -> the version published, 0 for none

vars == <<latest, alive, value>>

Init ==
    /\ latest = 1
    /\ alive = TRUE
    /\ value = [x \in Names |-> 0]

Change ==
    /\ latest < MaxVersion
    /\ latest' = latest + 1
    /\ UNCHANGED <<alive, value>>

\* One value moves on, or is confirmed.
Publish(x) ==
    /\ alive
    /\ \E v \in 1 .. latest :
          /\ v >= value[x]
          /\ value' = [value EXCEPT ![x] = v]
    /\ UNCHANGED <<latest, alive>>

Stop ==
    /\ alive' = FALSE
    /\ value' = [x \in Names |-> 0]
    /\ UNCHANGED latest

Start ==
    /\ ~alive
    /\ alive' = TRUE
    /\ UNCHANGED <<latest, value>>

Next == Change \/ Stop \/ Start \/ \E x \in Names : Publish(x)

Spec == Init /\ [][Next]_vars
=============================================================================
