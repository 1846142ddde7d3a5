----------------------------- MODULE Duplicates -----------------------------
(***************************************************************************)
(* duplicateService of backend/service/api_service.go with its two cached  *)
(* listings, and the answers of the duplicate handlers of                  *)
(* backend/handlers/api_handlers.go to every limit.  AnalyticsCaches says  *)
(* how a refresh may fail; here it does not and the question is what the   *)
(* listings hold.                                                          *)
(***************************************************************************)
EXTENDS DuplicateQueries, FiniteSetsExt

CONSTANTS
    exactPairsCacheSize,    \* 1000 pairs are cached
    MaxPairs,               \* the largest limit of /api/duplicates, 1000,
    DefaultPairs,           \* and what it falls back to, 100
    ipGroupsCacheSize,      \* 200 groups are cached
    MaxGroups,              \* the largest limit of /api/duplicates/find, 500,
    DefaultGroups,          \* and what it falls back to, 50
    UserLimit,              \* the limit of /api/duplicates/{user_id}, 50
    NotYet,                 \* a pointer that was never stored
    MaxContacts,            \* bound on the emails and phones in the tables
    MaxSeen,                \* bound on the users seen at addresses
    MaxWrites               \* bound on the changes of the tables

ASSUME DuplicatesAssumption ==
    /\ 0 < DefaultPairs /\ DefaultPairs <= MaxPairs /\ MaxPairs <= exactPairsCacheSize
    /\ 0 < DefaultGroups /\ DefaultGroups <= MaxGroups /\ 0 < ipGroupsCacheSize
    /\ {exactPairsCacheSize, MaxPairs, DefaultPairs, ipGroupsCacheSize, MaxGroups, DefaultGroups,
        UserLimit, MaxContacts, MaxSeen, MaxWrites} \subseteq Nat

VARIABLES
    users, activity,    \* ws_user and ws_user_activity
    writes,             \* changes of the tables so far
    cachedPairs,        \* duplicateService.cachedPairs
    cachedIPs,          \* duplicateService.cachedIPs
    pairsFrom,          \* history: the users that cachedPairs was read from
    ipsFrom             \* history: the activity that cachedIPs was read from

tables == <<users, activity, writes>>
vars == <<users, activity, writes, cachedPairs, cachedIPs, pairsFrom, ipsFrom>>

\* The pairs depend on one table and the groups on the other: only one of them
\* is filled at a time.
Bounded(us, act) ==
    LET contacts == {c \in Ids \X MatchTypes : us[c[1]][c[2]] # None} IN
    /\ Cardinality(contacts) <= MaxContacts /\ Cardinality(act) <= MaxSeen
    /\ contacts = {} \/ act = {}

Init ==
    /\ users \in UserTables /\ activity \in ActivityTables
    /\ Bounded(users, activity)
    /\ writes = 0
    /\ cachedPairs = NotYet /\ cachedIPs = NotYet
    /\ pairsFrom = users /\ ipsFrom = activity

\* External: a user changes a contact, or is seen at an address.
Write ==
    /\ writes < MaxWrites
    /\ \/ \E u \in Ids, e \in Emails \cup {None} : users' = [users EXCEPT ![u].email = e]
          /\ UNCHANGED activity
       \/ \E u \in Ids, p \in Phones \cup {None} : users' = [users EXCEPT ![u].phone = p]
          /\ UNCHANGED activity
       \/ \E s \in IPs \X Ids : activity' = activity \cup {s} /\ UNCHANGED users
    /\ Bounded(users', activity')
    /\ writes' = writes + 1
    /\ UNCHANGED <<cachedPairs, cachedIPs, pairsFrom, ipsFrom>>

\* The two statements of duplicateService.refresh.
RefreshPairs ==
    /\ cachedPairs' \in ExactDuplicatePairs(users, exactPairsCacheSize)
    /\ pairsFrom' = users
    /\ UNCHANGED <<tables, cachedIPs, ipsFrom>>

RefreshIPs ==
    /\ cachedIPs' \in DuplicateGroupsByIP(activity, ipGroupsCacheSize)
    /\ ipsFrom' = activity
    /\ UNCHANGED <<tables, cachedPairs, pairsFrom>>

Next == Write \/ RefreshPairs \/ RefreshIPs

Spec == Init /\ [][Next]_vars

-----------------------------------------------------------------------------
(* The answers.  None of them changes anything; one that finds NotYet is an  *)
(* error.                                                                    *)

\* A limit that cannot be read is 0, or the largest or smallest int.
Clamp(limit, max, default) == IF limit < 1 \/ limit > max THEN default ELSE limit

FirstOf(listing, limit) == IF limit < Len(listing) THEN SubSeq(listing, 1, limit) ELSE listing

\* DuplicatesPost with ExactPairs.
PairsAnswer(limit) == FirstOf(cachedPairs, Clamp(limit, MaxPairs, DefaultPairs))

\* DuplicatesFind with FindByIP.
GroupsAnswer(limit) == FirstOf(cachedIPs, Clamp(limit, MaxGroups, DefaultGroups))

\* DuplicatesByUser with ForUser: any of these.
UserAnswers(id) == DuplicatesForUser(users, id, UserLimit)

Limits == -1 .. (MaxPairs + MaxGroups)

-----------------------------------------------------------------------------
TypeOK ==
    /\ users \in UserTables /\ activity \in ActivityTables
    /\ pairsFrom \in UserTables /\ ipsFrom \in ActivityTables
    /\ writes \in 0 .. MaxWrites
    /\ cachedPairs # NotYet =>
          cachedPairs \in UNION {[1 .. n -> [id1 : Ids, id2 : Ids, match_type : MatchTypes]] :
                                    n \in 0 .. exactPairsCacheSize}
    /\ cachedIPs # NotYet =>
          cachedIPs \in UNION {[1 .. n -> [ip_address : IPs, user_ids : SUBSET Ids]] :
                                  n \in 0 .. ipGroupsCacheSize}

\* The pairs of users that a chain of related ones connects: no set of users that
\* no pair leads out of has the first without the second.
Closed(C, related) == \A p \in related : p[1] \in C => p[2] \in C

Connected(related) ==
    {p \in Ids \X Ids : \A C \in SUBSET Ids : Closed(C, related) /\ p[1] \in C => p[2] \in C}

\* Two users are the same customer in the end if shared contacts connect them.
SameCustomer(us) ==
    Connected({p \in Ids \X Ids : \E type \in MatchTypes :
        /\ Contact(us, type, p[1]) = Contact(us, type, p[2])
        /\ Contact(us, type, p[1]) # None})

ConnectedBy(listing) ==
    Connected({p \in Ids \X Ids : \E i \in DOMAIN listing : {listing[i].id1, listing[i].id2} = {p[1], p[2]}})

\* The cache has room for all pairs.
AllCached == cachedPairs # NotYet /\ Cardinality(PairRows(pairsFrom)) <= exactPairsCacheSize

\* "pairs of users sharing the same email or phone": if the cache had room for
\* all of them, the neighbours it lists connect exactly those users whom shared
\* contacts connect, whatever the groups' sizes and overlaps.
PairsFindClusters ==
    AllCached =>
        ConnectedBy(cachedPairs) = SameCustomer(pairsFrom)

\* Nobody is listed without reason, and never twice for the same reason: every
\* pair of an answer shares the contact named, ids in order.
PairsAreReal ==
    cachedPairs # NotYet =>
        \A limit \in Limits : LET answer == PairsAnswer(limit) IN
            /\ \A i \in DOMAIN answer :
                  /\ answer[i].id1 < answer[i].id2
                  /\ Contact(pairsFrom, answer[i].match_type, answer[i].id1)
                        = Contact(pairsFrom, answer[i].match_type, answer[i].id2)
                  /\ Contact(pairsFrom, answer[i].match_type, answer[i].id1) # None
            /\ \A i, j \in DOMAIN answer : answer[i] = answer[j] => i = j

\* The two ways to ask agree: while the tables are as they were, a pair that is
\* listed is found from either of its users, unless that user has more
\* duplicates than one answer holds.
AnswersAgree ==
    cachedPairs # NotYet /\ pairsFrom = users =>
        \A i \in DOMAIN cachedPairs :
            LET pair == cachedPairs[i] IN
            \A ends \in {<<pair.id1, pair.id2>>, <<pair.id2, pair.id1>>} :
            \A answer \in UserAnswers(ends[1]) :
                Len(answer) < UserLimit =>
                    \E k \in DOMAIN answer : answer[k] = Row(ends[1], ends[2], pair.match_type)

\* The pairs of one kind are as many as the users minus the different contacts:
\* what the quality report calls the duplicate_count, if emails are taken in
\* lower case.
PairsCountDuplicates ==
    AllCached =>
        \A type \in MatchTypes :
            LET present == {u \in Ids : Contact(pairsFrom, type, u) # None} IN
            Cardinality({i \in DOMAIN cachedPairs : cachedPairs[i].match_type = type})
                = Cardinality(present) - Cardinality({Contact(pairsFrom, type, u) : u \in present})

\* "limit (default 100, max 1000)": two cuts, at the refresh and in the answer,
\* are as good as one.  Every limit up to the largest gets as many pairs as
\* there were, and no group left out of an answer has more users than one that
\* is in it.
TwoCutsAreOne ==
    /\ cachedPairs # NotYet =>
          \A limit \in 1 .. MaxPairs :
              Len(PairsAnswer(limit)) = Min({limit, Cardinality(PairRows(pairsFrom))})
    /\ cachedIPs # NotYet =>
          \A limit \in Limits : LET answer == GroupsAnswer(limit) IN
              \A g \in IPGroups(ipsFrom) \ {answer[i] : i \in DOMAIN answer} :
                  \A i \in DOMAIN answer : UserCount(answer[i]) >= UserCount(g)
=============================================================================
