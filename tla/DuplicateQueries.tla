-------------------------- MODULE DuplicateQueries --------------------------
(***************************************************************************)
(* The statements of backend/repository/analytics_repository.go that look  *)
(* for duplicate accounts, as functions of the tables they read: ws_user   *)
(* with its two contact columns, and the users seen at each address in     *)
(* ws_user_activity.                                                       *)
(*                                                                         *)
(* A statement with a LIMIT returns one of several listings: a LIMIT       *)
(* without ORDER BY keeps any rows in any order, and an ORDER BY says      *)
(* nothing of ties.                                                        *)
(***************************************************************************)
EXTENDS Integers, FiniteSets, Sequences

CONSTANTS
    Ids,        \* user_id of the users
    Emails,     \* user_email, as written
    lower(_),   \* PostgreSQL's lower()
    Phones,     \* msisdn
    IPs,        \* ip_address
    None        \* NULL or the empty string

ASSUME TablesAssumption ==
    /\ Ids \subseteq Nat \ {0} /\ IsFiniteSet(Ids) /\ IsFiniteSet(IPs)
    /\ None \notin Emails \cup Phones
    /\ \A e \in Emails : lower(e) # None

UserTables == [Ids -> [email : Emails \cup {None}, phone : Phones \cup {None}]]

ActivityTables == SUBSET (IPs \X Ids)

MatchTypes == {"email", "phone"}

\* What two users must share.
Contact(users, type, u) ==
    IF type = "phone" \/ users[u].email = None THEN users[u][type] ELSE lower(users[u].email)

\* The listings of rows under LIMIT limit.
Listings(rows, limit) ==
    UNION {{s \in [1 .. n -> rows] : \A i, j \in 1 .. n : s[i] = s[j] => i = j} :
        n \in {k \in {limit, Cardinality(rows)} : k <= limit /\ k <= Cardinality(rows)}}

-----------------------------------------------------------------------------
(* Users who share an email or a phone. *)

Row(id1, id2, type) == [id1 |-> id1, id2 |-> id2, match_type |-> type]

\* A mutation of Groups: users without an email are a group, too.
GroupsWithMissing(users, type) ==
    {g \in {{v \in Ids : Contact(users, type, v) = Contact(users, type, u)} : u \in Ids} :
        Cardinality(g) > 1}

\* email_groups and phone_groups: GROUP BY ... HAVING count(*) > 1.
Groups(users, type) ==
    {g \in {{v \in Ids : Contact(users, type, v) = Contact(users, type, u)} :
               u \in {w \in Ids : Contact(users, type, w) # None}} : Cardinality(g) > 1}

\* A mutation of Neighbours: the series ends one too early.
NeighboursButLast(g) ==
    {p \in g \X g : /\ p[1] < p[2]
                    /\ \A v \in g : v <= p[1] \/ p[2] <= v
                    /\ \E v \in g : p[2] < v}

\* A mutation of Neighbours: each user with every other.
AllOfGroup(g) == {p \in g \X g : p[1] < p[2]}

\* ids[i] and ids[i+1] for i in generate_series(1, array_length(ids) - 1), with
\* the ids of the group in order.
Neighbours(g) == {p \in g \X g : p[1] < p[2] /\ \A v \in g : v <= p[1] \/ p[2] <= v}

PairRows(users) ==
    UNION {UNION {{Row(p[1], p[2], type) : p \in Neighbours(g)} : g \in Groups(users, type)} :
              type \in MatchTypes}

\* A mutation of ExactDuplicatePairs: LIMIT only for one half of the union.
ExactDuplicatePairsUncut(users, limit) == Listings(PairRows(users), Cardinality(PairRows(users)))

\* No ORDER BY around the LIMIT.
ExactDuplicatePairs(users, limit) == Listings(PairRows(users), limit)

\* A mutation of OthersLike: an email must be written the same.
OthersLikeAsWritten(users, id, type) ==
    {v \in Ids \ {id} : users[v][type] = users[id][type] /\ users[id][type] # None}

\* The join of DuplicatesForUser for one of its two halves.
OthersLike(users, id, type) ==
    {v \in Ids \ {id} : /\ Contact(users, type, v) = Contact(users, type, id)
                        /\ Contact(users, type, id) # None}

\* An id that is not in the table has no duplicates.
RowsForUser(users, id) ==
    IF id \in Ids
    THEN UNION {{Row(id, v, type) : v \in OthersLike(users, id, type)} : type \in MatchTypes}
    ELSE {}

DuplicatesForUser(users, id, limit) == Listings(RowsForUser(users, id), limit)

-----------------------------------------------------------------------------
(* Users seen at one address. *)

UserIDs(activity, ip) == {u \in Ids : <<ip, u>> \in activity}

UserCount(g) == Cardinality(g.user_ids)

\* GROUP BY ip_address HAVING count(DISTINCT user_id) > 1.
IPGroups(activity) ==
    {g \in {[ip_address |-> ip, user_ids |-> UserIDs(activity, ip)] : ip \in IPs} : UserCount(g) > 1}

\* A mutation of DuplicateGroupsByIP: LIMIT before ORDER BY.
DuplicateGroupsCutFirst(activity, limit) ==
    {s \in Listings(IPGroups(activity), limit) :
        \A i, j \in DOMAIN s : i < j => UserCount(s[i]) >= UserCount(s[j])}

\* ORDER BY user_count DESC, inside with the LIMIT and around the join.
DuplicateGroupsByIP(activity, limit) ==
    {s \in Listings(IPGroups(activity), limit) :
        /\ \A i, j \in DOMAIN s : i < j => UserCount(s[i]) >= UserCount(s[j])
        /\ \A g \in IPGroups(activity) \ {s[i] : i \in DOMAIN s} :
              \A i \in DOMAIN s : UserCount(s[i]) >= UserCount(g)}
=============================================================================
