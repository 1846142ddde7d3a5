---------------------------- MODULE ProfileQuery ----------------------------
(***************************************************************************)
(* UserProfile of backend/repository/analytics_repository.go: a user with  *)
(* three subqueries over ws_orders, ws_transactions and ws_user_activity,  *)
(* as a function of the tables.                                            *)
(*                                                                         *)
(* orders maps an order to its user, txs a transaction to its order and    *)
(* amount, acts an activity to its user and time.                          *)
(***************************************************************************)
EXTENDS Integers, FiniteSetsExt

\* SELECT user_id, count(*) ... GROUP BY user_id, or COALESCE(..., 0).
OrderCount(orders, id) == Cardinality({o \in DOMAIN orders : orders[o] = id})

\* For the mutation of Profile below: orders and transactions joined before counting.
JoinedOrderCount(orders, txs, id) ==
    Cardinality({o \in DOMAIN orders : orders[o] = id /\ \A t \in DOMAIN txs : txs[t].order # o})
        + Cardinality({t \in DOMAIN txs : orders[txs[t].order] = id})

TransactionsOf(orders, txs, id) == {t \in DOMAIN txs : orders[txs[t].order] = id}

TotalAmount(orders, txs, id) ==
    LET amount(t) == txs[t].amount
    IN  MapThenSumSet(amount, TransactionsOf(orders, txs, id))

ActivitiesOf(acts, id) == {a \in DOMAIN acts : acts[a].user = id}

\* max(activity_timestamp), 0 for NULL.
LastActivity(acts, id) ==
    IF ActivitiesOf(acts, id) = {} THEN 0 ELSE Max({acts[a].time : a \in ActivitiesOf(acts, id)})

\* A mutation of Profile: one join over all tables, counted and summed at once.
ProfileByOneJoin(orders, txs, acts, id) ==
    LET many == IF ActivitiesOf(acts, id) = {} THEN 1 ELSE Cardinality(ActivitiesOf(acts, id)) IN
    [orders |-> JoinedOrderCount(orders, txs, id) * many,
     amount |-> TotalAmount(orders, txs, id) * many,
     activities |-> Cardinality(ActivitiesOf(acts, id)),
     last |-> LastActivity(acts, id)]

\* The three LEFT JOINs have one row each, so nothing is counted twice.
Profile(orders, txs, acts, id) ==
    [orders |-> OrderCount(orders, id),
     amount |-> TotalAmount(orders, txs, id),
     activities |-> Cardinality(ActivitiesOf(acts, id)),
     last |-> LastActivity(acts, id)]
=============================================================================
