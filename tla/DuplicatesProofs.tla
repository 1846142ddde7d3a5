--------------------------- MODULE DuplicatesProofs ---------------------------
(***************************************************************************)
(* Proofs about Duplicates, for any tables, cache sizes and limits.        *)
(***************************************************************************)
EXTENDS Duplicates, FiniteSetTheorems, FunctionTheorems, WellFoundedInduction, TLAPS

-----------------------------------------------------------------------------
(* Listings. *)

LEMMA IntervalSize ==
  ASSUME NEW n \in Nat
  PROVE  IsFiniteSet(1 .. n) /\ Cardinality(1 .. n) = n
<1>1. 1 \in Int /\ n \in Int
  OBVIOUS
<1>2. IsFiniteSet(1 .. n) /\ Cardinality(1 .. n) = IF 1 > n THEN 0 ELSE n - 1 + 1
  BY <1>1, FS_Interval
<1> QED
  BY <1>2

\* A LIMIT returns each row once, as many as there are or as it allows, and all
\* of them if there are fewer than it allows.
LEMMA ListingIs ==
  ASSUME NEW rows, IsFiniteSet(rows), NEW limit \in Nat, NEW s \in Listings(rows, limit)
  PROVE  /\ s \in Seq(rows) /\ s \in [1 .. Len(s) -> rows]
         /\ Len(s) = IF limit <= Cardinality(rows) THEN limit ELSE Cardinality(rows)
         /\ \A i, j \in DOMAIN s : s[i] = s[j] => i = j
         /\ Len(s) < limit => \A r \in rows : \E i \in DOMAIN s : s[i] = r
<1> DEFINE size == Cardinality(rows)
<1>1. size \in Nat
  BY FS_CardinalityType
<1>2. PICK n \in {k \in {limit, size} : k <= limit /\ k <= size} :
         s \in {t \in [1 .. n -> rows] : \A i, j \in 1 .. n : t[i] = t[j] => i = j}
  BY DEF Listings
<1>3. n \in Nat /\ n = IF limit <= size THEN limit ELSE size
  BY <1>1, <1>2
<1>4. s \in [1 .. n -> rows] /\ \A i, j \in 1 .. n : s[i] = s[j] => i = j
  BY <1>2
<1>5. s \in Seq(rows) /\ Len(s) = n /\ DOMAIN s = 1 .. n
  BY <1>3, <1>4
<1>6. ASSUME n < limit, NEW r \in rows
      PROVE  \E i \in 1 .. n : s[i] = r
  <2>1. Cardinality(1 .. n) = size
    BY <1>1, <1>3, <1>6, IntervalSize
  <2>2. s \in Injection(1 .. n, rows)
    BY <1>4 DEF Injection, IsInjective
  <2>3. s \in Surjection(1 .. n, rows)
    BY <2>1, <2>2, FS_Injection
  <2> QED
    BY <2>3 DEF Surjection
<1> QED
  BY <1>3, <1>4, <1>5, <1>6

\* The rows that an answer keeps of a cached listing.
LEMMA FirstRows ==
  ASSUME NEW S, NEW s \in Seq(S), NEW n \in Nat
  PROVE  /\ FirstOf(s, n) \in Seq(S)
         /\ Len(FirstOf(s, n)) = IF n < Len(s) THEN n ELSE Len(s)
         /\ DOMAIN FirstOf(s, n) \subseteq DOMAIN s
         /\ \A i \in DOMAIN FirstOf(s, n) : FirstOf(s, n)[i] = s[i]
<1>1. CASE n < Len(s)
  <2>1. FirstOf(s, n) = SubSeq(s, 1, n)
    BY <1>1 DEF FirstOf
  <2>2. /\ SubSeq(s, 1, n) \in Seq(S) /\ Len(SubSeq(s, 1, n)) = n
        /\ \A i \in 1 .. n : SubSeq(s, 1, n)[i] = s[i]
    BY <1>1
  <2> QED
    BY <1>1, <2>1, <2>2
<1>2. CASE ~(n < Len(s))
  BY <1>2 DEF FirstOf
<1> QED
  BY <1>1, <1>2

LEMMA ClampTypes ==
  ASSUME NEW limit \in Int
  PROVE  Clamp(limit, MaxPairs, DefaultPairs) \in Nat /\ Clamp(limit, MaxGroups, DefaultGroups) \in Nat
<1>1. {MaxPairs, DefaultPairs, MaxGroups, DefaultGroups} \subseteq Nat
  BY DuplicatesAssumption
<1> QED
  BY <1>1 DEF Clamp

-----------------------------------------------------------------------------
(* The rows of the two statements. *)

PairType == [id1 : Ids, id2 : Ids, match_type : MatchTypes]

GroupType == [ip_address : IPs, user_ids : SUBSET Ids]

LEMMA PairRowsAre ==
  ASSUME NEW us, NEW r \in PairRows(us)
  PROVE  /\ r \in PairType /\ r = Row(r.id1, r.id2, r.match_type) /\ r.id1 < r.id2
         /\ Contact(us, r.match_type, r.id1) = Contact(us, r.match_type, r.id2)
         /\ Contact(us, r.match_type, r.id1) # None
<1>1. PICK type \in MatchTypes :
         \E g \in Groups(us, type) : \E p \in Neighbours(g) : r = Row(p[1], p[2], type)
  BY DEF PairRows
<1> PICK g \in Groups(us, type) : \E p \in Neighbours(g) : r = Row(p[1], p[2], type)
  BY <1>1
<1>6. PICK p \in Neighbours(g) : r = Row(p[1], p[2], type)
  OBVIOUS
<1>2. PICK u \in Ids : /\ Contact(us, type, u) # None
                       /\ g = {v \in Ids : Contact(us, type, v) = Contact(us, type, u)}
  BY DEF Groups
<1>3. p[1] \in g /\ p[2] \in g /\ p[1] < p[2]
  BY DEF Neighbours
<1>4. /\ p[1] \in Ids /\ Contact(us, type, p[1]) = Contact(us, type, u)
      /\ p[2] \in Ids /\ Contact(us, type, p[2]) = Contact(us, type, u)
  BY <1>2, <1>3
<1>5. r.id1 = p[1] /\ r.id2 = p[2] /\ r.match_type = type
  BY <1>6 DEF Row
<1> QED
  BY <1>2, <1>3, <1>4, <1>5, <1>6 DEF Row, PairType

LEMMA PairTypeFinite == IsFiniteSet(PairType)
<1> DEFINE S == (Ids \X Ids) \X MatchTypes
           f == [x \in S |-> [id1 |-> x[1][1], id2 |-> x[1][2], match_type |-> x[2]]]
<1>1. IsFiniteSet(MatchTypes)
  <2>1. MatchTypes = {"email"} \cup {"phone"}
    BY DEF MatchTypes
  <2> QED
    BY <2>1, FS_Singleton, FS_Union
<1>2. IsFiniteSet(S)
  BY <1>1, FS_Product, TablesAssumption
<1>3. ASSUME NEW r \in PairType
      PROVE  \E x \in S : f[x] = r
  <2>1. <<<<r.id1, r.id2>>, r.match_type>> \in S
    BY DEF PairType
  <2>2. f[<<<<r.id1, r.id2>>, r.match_type>>] = r
    BY <2>1 DEF PairType
  <2> QED
    BY <2>1, <2>2
<1>4. f \in [S -> PairType]
  BY DEF PairType
<1>5. f \in Surjection(S, PairType)
  BY <1>3, <1>4 DEF Surjection
<1> QED
  BY <1>2, <1>5, FS_Surjection

LEMMA PairRowsFinite ==
  ASSUME NEW us
  PROVE  IsFiniteSet(PairRows(us)) /\ PairRows(us) \subseteq PairType
<1>1. PairRows(us) \subseteq PairType
  BY PairRowsAre
<1> QED
  BY <1>1, PairTypeFinite, FS_Subset

LEMMA IPGroupsFinite ==
  ASSUME NEW act
  PROVE  IsFiniteSet(IPGroups(act)) /\ IPGroups(act) \subseteq GroupType
<1> DEFINE all == {[ip_address |-> ip, user_ids |-> UserIDs(act, ip)] : ip \in IPs}
           f == [ip \in IPs |-> [ip_address |-> ip, user_ids |-> UserIDs(act, ip)]]
<1>1. f \in Surjection(IPs, all)
  BY DEF Surjection
<1>2. IsFiniteSet(all)
  BY <1>1, FS_Surjection, TablesAssumption
<1>3. IPGroups(act) \subseteq all
  BY DEF IPGroups
<1>4. \A ip \in IPs : UserIDs(act, ip) \in SUBSET Ids
  BY DEF UserIDs
<1>5. all \subseteq GroupType
  BY <1>4 DEF GroupType
<1> QED
  BY <1>2, <1>3, <1>5, FS_Subset

-----------------------------------------------------------------------------
(* What is cached. *)

\* Whatever was written since, a cached listing is one of those the statement
\* returns for the table it was read from.
CacheInv ==
  /\ cachedPairs # NotYet => cachedPairs \in ExactDuplicatePairs(pairsFrom, exactPairsCacheSize)
  /\ cachedIPs # NotYet => cachedIPs \in DuplicateGroupsByIP(ipsFrom, ipGroupsCacheSize)

LEMMA CacheStep == CacheInv /\ [Next]_vars => CacheInv'
<1> SUFFICES ASSUME CacheInv, [Next]_vars PROVE CacheInv'
  OBVIOUS
<1>1. CASE RefreshPairs
  BY <1>1 DEF RefreshPairs, CacheInv
<1>2. CASE RefreshIPs
  BY <1>2 DEF RefreshIPs, CacheInv
<1>3. CASE Write \/ UNCHANGED vars
  BY <1>3 DEF Write, vars, CacheInv
<1> QED
  BY <1>1, <1>2, <1>3 DEF Next

LEMMA CachedAlways == Spec => []CacheInv
<1>1. Init => CacheInv
  BY DEF Init, CacheInv
<1> QED
  BY <1>1, CacheStep, PTL DEF Spec

LEMMA CachedPairs ==
  ASSUME CacheInv, cachedPairs # NotYet
  PROVE  /\ cachedPairs \in Seq(PairRows(pairsFrom))
         /\ cachedPairs \in [1 .. Len(cachedPairs) -> PairRows(pairsFrom)]
         /\ Len(cachedPairs) = IF exactPairsCacheSize <= Cardinality(PairRows(pairsFrom))
                               THEN exactPairsCacheSize ELSE Cardinality(PairRows(pairsFrom))
         /\ \A i, j \in DOMAIN cachedPairs : cachedPairs[i] = cachedPairs[j] => i = j
  BY ListingIs, PairRowsFinite, DuplicatesAssumption DEF CacheInv, ExactDuplicatePairs

LEMMA CachedIPs ==
  ASSUME CacheInv, cachedIPs # NotYet
  PROVE  /\ cachedIPs \in Seq(IPGroups(ipsFrom))
         /\ cachedIPs \in [1 .. Len(cachedIPs) -> IPGroups(ipsFrom)]
         /\ Len(cachedIPs) <= ipGroupsCacheSize
<1>1. cachedIPs \in Listings(IPGroups(ipsFrom), ipGroupsCacheSize)
  BY DEF CacheInv, DuplicateGroupsByIP
<1>2. IsFiniteSet(IPGroups(ipsFrom)) /\ Cardinality(IPGroups(ipsFrom)) \in Nat
  BY IPGroupsFinite, FS_CardinalityType
<1> QED
  BY <1>1, <1>2, ListingIs, DuplicatesAssumption

-----------------------------------------------------------------------------
(* Types. *)

LEMMA TypeInit == Init => TypeOK
  BY DuplicatesAssumption DEF Init, TypeOK

LEMMA TypeStep == TypeOK /\ [Next]_vars => TypeOK'
<1> SUFFICES ASSUME TypeOK, [Next]_vars PROVE TypeOK'
  OBVIOUS
<1>1. CASE Write
  <2>1. users' \in UserTables /\ activity' \in ActivityTables /\ writes' \in 0 .. MaxWrites
    BY <1>1, DuplicatesAssumption DEF Write, TypeOK, UserTables, ActivityTables
  <2> QED
    BY <1>1, <2>1 DEF Write, TypeOK
<1>2. CASE RefreshPairs
  <2>1. cachedPairs' \in Listings(PairRows(users), exactPairsCacheSize)
    BY <1>2 DEF RefreshPairs, ExactDuplicatePairs
  <2>2. /\ cachedPairs' \in [1 .. Len(cachedPairs') -> PairType]
        /\ Len(cachedPairs') \in 0 .. exactPairsCacheSize
    <3>1. exactPairsCacheSize \in Nat /\ Cardinality(PairRows(users)) \in Nat
      BY PairRowsFinite, FS_CardinalityType, DuplicatesAssumption
    <3>2. /\ cachedPairs' \in [1 .. Len(cachedPairs') -> PairRows(users)]
          /\ Len(cachedPairs') = IF exactPairsCacheSize <= Cardinality(PairRows(users))
                                 THEN exactPairsCacheSize ELSE Cardinality(PairRows(users))
      BY <2>1, <3>1, ListingIs, PairRowsFinite
    <3> QED
      BY <3>1, <3>2, PairRowsFinite
  <2> QED
    BY <1>2, <2>2 DEF RefreshPairs, TypeOK, PairType, tables
<1>3. CASE RefreshIPs
  <2>1. cachedIPs' \in Listings(IPGroups(activity), ipGroupsCacheSize)
    BY <1>3 DEF RefreshIPs, DuplicateGroupsByIP
  <2>2. /\ cachedIPs' \in [1 .. Len(cachedIPs') -> GroupType]
        /\ Len(cachedIPs') \in 0 .. ipGroupsCacheSize
    <3>1. ipGroupsCacheSize \in Nat /\ Cardinality(IPGroups(activity)) \in Nat
      BY IPGroupsFinite, FS_CardinalityType, DuplicatesAssumption
    <3>2. /\ cachedIPs' \in [1 .. Len(cachedIPs') -> IPGroups(activity)]
          /\ Len(cachedIPs') = IF ipGroupsCacheSize <= Cardinality(IPGroups(activity))
                               THEN ipGroupsCacheSize ELSE Cardinality(IPGroups(activity))
      BY <2>1, <3>1, ListingIs, IPGroupsFinite
    <3> QED
      BY <3>1, <3>2, IPGroupsFinite
  <2> QED
    BY <1>3, <2>2 DEF RefreshIPs, TypeOK, GroupType, tables
<1>4. CASE UNCHANGED vars
  BY <1>4 DEF vars, TypeOK
<1> QED
  BY <1>1, <1>2, <1>3, <1>4 DEF Next

\* The cached listings are never longer than their caches, whatever the tables hold.
THEOREM TypeCorrect == Spec => []TypeOK
  BY TypeInit, TypeStep, PTL DEF Spec

-----------------------------------------------------------------------------
(* Pairs. *)

\* Whatever limit is asked for, an answer is the first pairs of the cache.
LEMMA AnswerIs ==
  ASSUME CacheInv, cachedPairs # NotYet, NEW limit \in Int
  PROVE  /\ DOMAIN PairsAnswer(limit) \subseteq DOMAIN cachedPairs
         /\ \A i \in DOMAIN PairsAnswer(limit) :
               PairsAnswer(limit)[i] = cachedPairs[i] /\ cachedPairs[i] \in PairRows(pairsFrom)
<1>1. Clamp(limit, MaxPairs, DefaultPairs) \in Nat
  BY ClampTypes
<1> QED
  BY <1>1, CachedPairs, FirstRows DEF PairsAnswer

LEMMA IdsAreNumbers == \A u \in Ids : u \in Int
<1>1. Ids \subseteq Nat \ {0}
  BY TablesAssumption, Zenon
<1> QED
  BY <1>1

LEMMA LimitsAreNumbers == Limits \subseteq Int
  BY DuplicatesAssumption DEF Limits

LEMMA PairsAreRealInv == CacheInv => PairsAreReal
<1> SUFFICES ASSUME CacheInv, cachedPairs # NotYet, NEW limit \in Limits
             PROVE  LET answer == PairsAnswer(limit) IN
                    /\ \A i \in DOMAIN answer :
                          /\ answer[i].id1 < answer[i].id2
                          /\ Contact(pairsFrom, answer[i].match_type, answer[i].id1)
                                = Contact(pairsFrom, answer[i].match_type, answer[i].id2)
                          /\ Contact(pairsFrom, answer[i].match_type, answer[i].id1) # None
                    /\ \A i, j \in DOMAIN answer : answer[i] = answer[j] => i = j
  BY DEF PairsAreReal
<1>1. /\ DOMAIN PairsAnswer(limit) \subseteq DOMAIN cachedPairs
      /\ \A i \in DOMAIN PairsAnswer(limit) :
            PairsAnswer(limit)[i] = cachedPairs[i] /\ cachedPairs[i] \in PairRows(pairsFrom)
  BY AnswerIs, LimitsAreNumbers
<1> QED
  BY <1>1, PairRowsAre, CachedPairs

\* Whenever the cache was filled and whatever is asked of it, every pair served
\* shares the contact it names, and none is served twice.
THEOREM EveryPairIsReal == Spec => []PairsAreReal
  BY CachedAlways, PairsAreRealInv, PTL

LEMMA AnswersAgreeInv == CacheInv => AnswersAgree
<1> SUFFICES ASSUME CacheInv, cachedPairs # NotYet, pairsFrom = users,
                    NEW i \in DOMAIN cachedPairs,
                    NEW ends \in {<<cachedPairs[i].id1, cachedPairs[i].id2>>,
                                  <<cachedPairs[i].id2, cachedPairs[i].id1>>},
                    NEW answer \in UserAnswers(ends[1]), Len(answer) < UserLimit
             PROVE  \E k \in DOMAIN answer :
                       answer[k] = Row(ends[1], ends[2], cachedPairs[i].match_type)
  BY DEF AnswersAgree
<1> DEFINE type == cachedPairs[i].match_type
<1>1. cachedPairs[i] \in PairRows(users)
  BY CachedPairs
<1>2. /\ cachedPairs[i] \in PairType /\ cachedPairs[i].id1 < cachedPairs[i].id2
      /\ Contact(users, type, cachedPairs[i].id1) = Contact(users, type, cachedPairs[i].id2)
      /\ Contact(users, type, cachedPairs[i].id1) # None
  BY <1>1, PairRowsAre
<1>3. type \in MatchTypes /\ cachedPairs[i].id1 \in Ids /\ cachedPairs[i].id2 \in Ids
  BY <1>2 DEF PairType
<1>4. cachedPairs[i].id1 # cachedPairs[i].id2
  <2>1. cachedPairs[i].id1 \in Int /\ cachedPairs[i].id2 \in Int
    BY <1>3, IdsAreNumbers
  <2>2. \A a, b \in Int : a < b => a # b
    OBVIOUS
  <2> QED
    BY <1>2, <2>1, <2>2, Zenon
<1> HIDE DEF type
<1>5. /\ ends[1] \in Ids /\ ends[2] \in Ids \ {ends[1]}
      /\ Contact(users, type, ends[2]) = Contact(users, type, ends[1])
      /\ Contact(users, type, ends[1]) # None
  BY <1>2, <1>3, <1>4
<1>6. Row(ends[1], ends[2], type) \in RowsForUser(users, ends[1])
  BY <1>3, <1>5 DEF RowsForUser, OthersLike
<1>7. IsFiniteSet(RowsForUser(users, ends[1]))
  <2>1. RowsForUser(users, ends[1]) \subseteq PairType
    BY <1>5 DEF RowsForUser, OthersLike, Row, PairType
  <2> QED
    BY <2>1, PairTypeFinite, FS_Subset
<1>8. answer \in Listings(RowsForUser(users, ends[1]), UserLimit)
  BY DEF UserAnswers, DuplicatesForUser
<1> QED
  BY <1>6, <1>7, <1>8, ListingIs, DuplicatesAssumption DEF type

\* A pair listed by one endpoint is found by the other from either user.
THEOREM EndpointsAgree == Spec => []AnswersAgree
  BY CachedAlways, AnswersAgreeInv, PTL

\* The cut at the refresh never shortens an answer that the limits allow.
LEMMA LimitIsMet ==
    ASSUME CacheInv, cachedPairs # NotYet, NEW limit \in 1 .. MaxPairs
    PROVE  Len(PairsAnswer(limit)) = Min({limit, Cardinality(PairRows(pairsFrom))})
<1> DEFINE size == Cardinality(PairRows(pairsFrom))
<1>1. size \in Nat /\ limit \in Nat /\ limit <= exactPairsCacheSize
      /\ exactPairsCacheSize \in Nat /\ MaxPairs \in Nat
  BY PairRowsFinite, FS_CardinalityType, DuplicatesAssumption
<1>2. Len(cachedPairs) = IF exactPairsCacheSize <= size THEN exactPairsCacheSize ELSE size
  BY CachedPairs
<1>3. Clamp(limit, MaxPairs, DefaultPairs) = limit
  BY <1>1 DEF Clamp
<1>4. Len(PairsAnswer(limit)) = IF limit < Len(cachedPairs) THEN limit ELSE Len(cachedPairs)
  BY <1>1, <1>3, CachedPairs, FirstRows DEF PairsAnswer
<1> HIDE DEF size
<1>5. Min({limit, size}) = IF limit <= size THEN limit ELSE size
  BY <1>1 DEF Min
<1> QED
  BY <1>1, <1>2, <1>4, <1>5 DEF size

-----------------------------------------------------------------------------
(* Groups. *)

\* Neither the limit of the statement nor that of the answer drops a group for
\* a smaller one.
LEMMA LargestGroupsStay ==
    ASSUME CacheInv, cachedIPs # NotYet, NEW limit \in Limits,
           NEW g \in IPGroups(ipsFrom),
           g \notin {GroupsAnswer(limit)[i] : i \in DOMAIN GroupsAnswer(limit)},
           NEW i \in DOMAIN GroupsAnswer(limit)
    PROVE  UserCount(GroupsAnswer(limit)[i]) >= UserCount(g)
<1> DEFINE n == Clamp(limit, MaxGroups, DefaultGroups)
<1>1. n \in Nat
  BY ClampTypes, LimitsAreNumbers
<1>2. /\ cachedIPs \in Seq(IPGroups(ipsFrom))
      /\ \A j, k \in DOMAIN cachedIPs :
            j < k => UserCount(cachedIPs[j]) >= UserCount(cachedIPs[k])
      /\ \A h \in IPGroups(ipsFrom) \ {cachedIPs[j] : j \in DOMAIN cachedIPs} :
            \A j \in DOMAIN cachedIPs : UserCount(cachedIPs[j]) >= UserCount(h)
  BY CachedIPs DEF CacheInv, DuplicateGroupsByIP
<1>3. GroupsAnswer(limit) = FirstOf(cachedIPs, n)
  BY DEF GroupsAnswer
<1> HIDE DEF n
<1>4. /\ FirstOf(cachedIPs, n) \in Seq(IPGroups(ipsFrom))
      /\ Len(FirstOf(cachedIPs, n)) = IF n < Len(cachedIPs) THEN n ELSE Len(cachedIPs)
      /\ \A j \in DOMAIN FirstOf(cachedIPs, n) :
            j \in DOMAIN cachedIPs /\ FirstOf(cachedIPs, n)[j] = cachedIPs[j]
  BY <1>1, <1>2, FirstRows
<1>5. i \in DOMAIN cachedIPs /\ GroupsAnswer(limit)[i] = cachedIPs[i]
  BY <1>3, <1>4
<1>6. CASE \E k \in DOMAIN cachedIPs : g = cachedIPs[k]
  <2>1. PICK k \in DOMAIN cachedIPs : g = cachedIPs[k]
    BY <1>6
  <2>2. k \notin DOMAIN FirstOf(cachedIPs, n)
    BY <1>3, <1>4, <2>1
  <2>3. i < k
    BY <1>2, <1>3, <1>4, <2>1, <2>2
  <2> QED
    BY <1>2, <1>5, <2>1, <2>3
<1>7. CASE ~\E k \in DOMAIN cachedIPs : g = cachedIPs[k]
  BY <1>2, <1>5, <1>7
<1> QED
  BY <1>6, <1>7

\* The cuts of the cached listings and of the answers are as good as one.
THEOREM CutsLoseNothing == Spec => []TwoCutsAreOne
<1>1. CacheInv => TwoCutsAreOne
  BY LimitIsMet, LargestGroupsStay DEF TwoCutsAreOne
<1> QED
  BY <1>1, CachedAlways, PTL

-----------------------------------------------------------------------------
(* Clusters. *)

\* A set of naturals has a least.
LEMMA LeastNatural ==
  ASSUME NEW T, T \subseteq Nat, T # {}
  PROVE  \E n \in T : \A k \in T : n <= k
<1> DEFINE R == {p \in Nat \X Nat : p[1] < p[2]}
<1>1. IsWellFoundedOn(R, Nat)
  BY NatLessThanWellFounded DEF OpToRel
<1>2. PICK n \in T : \A k \in T : <<k, n>> \notin R
  <2> HIDE DEF R
  <2> QED
    BY <1>1, WFMin
<1>3. ASSUME NEW k \in T PROVE n <= k
  <2>1. <<k, n>> \notin R /\ k \in Nat /\ n \in Nat
    BY <1>2
  <2> QED
    BY <2>1
<1> QED
  BY <1>3

\* The users with the contact of u.
Sharing(us, type, u) == {v \in Ids : Contact(us, type, v) = Contact(us, type, u)}

\* Two users with a contact in common are in one group.
LEMMA SharingIsGroup ==
  ASSUME NEW us, NEW type, NEW u \in Ids, Contact(us, type, u) # None,
         NEW v \in Sharing(us, type, u), v # u
  PROVE  Sharing(us, type, u) \in Groups(us, type)
<1> DEFINE g == Sharing(us, type, u)
<1>1. u \in g /\ v \in g /\ g \in SUBSET Ids
  BY DEF Sharing
<1>2. IsFiniteSet(g) /\ Cardinality(g) \in Nat
  BY <1>1, FS_Subset, FS_CardinalityType, TablesAssumption
<1>3. Cardinality(g) # 0
  BY <1>1, <1>2, FS_EmptySet
<1>4. Cardinality(g) # 1
  <2> HIDE DEF g
  <2> SUFFICES ASSUME Cardinality(g) = 1 PROVE FALSE
    OBVIOUS
  <2>1. \E x : g = {x}
    BY <1>2, FS_Singleton
  <2> QED
    BY <1>1, <2>1
<1>5. Cardinality(g) > 1
  <2> HIDE DEF g
  <2> QED
    BY <1>2, <1>3, <1>4
<1>6. g \in {{w \in Ids : Contact(us, type, w) = Contact(us, type, x)} :
               x \in {w \in Ids : Contact(us, type, w) # None}}
  BY DEF Sharing
<1> QED
  BY <1>5, <1>6 DEF Groups

\* Two users with nobody of their group between them are a pair.
LEMMA NextInGroup ==
  ASSUME NEW us, NEW type \in MatchTypes, NEW a \in Ids, Contact(us, type, a) # None,
         NEW b \in Sharing(us, type, a), a < b,
         \A w \in Sharing(us, type, a) : w <= a \/ b <= w
  PROVE  Row(a, b, type) \in PairRows(us)
<1> DEFINE g == Sharing(us, type, a)
<1>1. a # b
  <2>1. a \in Int /\ b \in Int
    BY IdsAreNumbers DEF Sharing
  <2>2. \A x, y \in Int : x < y => x # y
    OBVIOUS
  <2> QED
    BY <2>1, <2>2, Zenon
<1>2. g \in Groups(us, type)
  BY <1>1, SharingIsGroup
<1>3. a \in g
  BY DEF Sharing
<1> HIDE DEF g
<1> DEFINE p == <<a, b>>
<1>4. p \in Neighbours(g)
  BY <1>3 DEF Neighbours, g
<1>5. Row(p[1], p[2], type) \in PairRows(us)
  <2> HIDE DEF p
  <2> QED
    BY <1>2, <1>4 DEF PairRows
<1> QED
  BY <1>5

\* Nothing of the code: a measure that finds the nearest users of a group.
Distance(u, v) == IF u < v THEN v - u ELSE u - v

\* A set of users that has both users of a pair or none has all of a group or
\* none: otherwise the nearest users of the group, one inside the set and one
\* outside, would be a pair.
LEMMA GroupsHoldTogether ==
  ASSUME NEW us, NEW type \in MatchTypes, NEW C \in SUBSET Ids,
         \A r \in PairRows(us) : r.id1 \in C <=> r.id2 \in C,
         NEW a \in C, Contact(us, type, a) # None, NEW b \in Sharing(us, type, a)
  PROVE  b \in C
<1> DEFINE g == Sharing(us, type, a)
           D == {n \in Nat : \E u \in g \cap C, v \in g \ C : n = Distance(u, v)}
<1> SUFFICES ASSUME b \notin C PROVE FALSE
  OBVIOUS
<1>1. \A u \in g : u \in Int /\ u \in Ids
  BY IdsAreNumbers DEF Sharing
<1>2. \A u, v \in Int : Distance(u, v) \in Nat
  BY DEF Distance
<1>3. a \in g /\ b \in g
  BY DEF Sharing
<1>4. D # {}
  <2>1. Distance(a, b) \in Nat
    BY <1>1, <1>2, <1>3
  <2> QED
    BY <1>3, <2>1
<1>5. PICK n \in D : \A k \in D : n <= k
  <2>1. D \subseteq Nat
    OBVIOUS
  <2> HIDE DEF D
  <2> QED
    BY <1>4, <2>1, LeastNatural
<1>6. PICK u \in g \cap C, v \in g \ C : n = Distance(u, v)
  BY <1>5
<1>7. \A x \in g \cap C, y \in g \ C : Distance(u, v) <= Distance(x, y)
  <2> SUFFICES ASSUME NEW x \in g \cap C, NEW y \in g \ C PROVE Distance(u, v) <= Distance(x, y)
    OBVIOUS
  <2>1. Distance(x, y) \in D
    BY <1>1, <1>2
  <2> QED
    BY <1>5, <1>6, <2>1
<1> HIDE DEF D
<1>8. \A w \in g : ~(u < w /\ w < v) /\ ~(v < w /\ w < u)
  <2> SUFFICES ASSUME NEW w \in g, (u < w /\ w < v) \/ (v < w /\ w < u) PROVE FALSE
    OBVIOUS
  <2>1. u \in Int /\ v \in Int /\ w \in Int
    BY <1>1
  <2>2. Distance(w, v) < Distance(u, v) /\ Distance(u, w) < Distance(u, v)
    BY <2>1 DEF Distance
  <2>3. Distance(w, v) \in Int /\ Distance(u, w) \in Int /\ Distance(u, v) \in Int
    BY <1>2, <2>1
  <2>4. CASE w \in C
    <3>1. Distance(u, v) <= Distance(w, v)
      BY <1>7, <2>4
    <3> QED
      BY <2>2, <2>3, <3>1
  <2>5. CASE w \notin C
    <3>1. Distance(u, v) <= Distance(u, w)
      BY <1>7, <2>5
    <3> QED
      BY <2>2, <2>3, <3>1
  <2> QED
    BY <2>4, <2>5
<1>9. /\ u \in Int /\ v \in Int /\ u # v /\ u \in Ids /\ v \in Ids
      /\ \A w \in g : w \in Int
  BY <1>1, <1>6
<1>10. Sharing(us, type, u) = g /\ Sharing(us, type, v) = g
       /\ Contact(us, type, u) # None /\ Contact(us, type, v) # None
  BY <1>6 DEF Sharing
<1> HIDE DEF g
<1>11. CASE u < v
  <2>1. \A w \in g : w <= u \/ v <= w
    BY <1>8, <1>9
  <2>2. Row(u, v, type) \in PairRows(us)
    BY <1>6, <1>9, <1>10, <1>11, <2>1, NextInGroup
  <2>3. Row(u, v, type).id1 = u /\ Row(u, v, type).id2 = v
    BY DEF Row
  <2> QED
    BY <1>6, <2>2, <2>3
<1>12. CASE v < u
  <2>1. \A w \in g : w <= v \/ u <= w
    BY <1>8, <1>9
  <2>2. Row(v, u, type) \in PairRows(us)
    BY <1>6, <1>9, <1>10, <1>12, <2>1, NextInGroup
  <2>3. Row(v, u, type).id1 = v /\ Row(v, u, type).id2 = u
    BY DEF Row
  <2> QED
    BY <1>6, <2>2, <2>3
<1> QED
  BY <1>9, <1>11, <1>12

\* A cache with room for all pairs holds each of them once.
LEMMA AllListed ==
  ASSUME CacheInv, AllCached
  PROVE  /\ cachedPairs \in Bijection(1 .. Len(cachedPairs), PairRows(pairsFrom))
         /\ DOMAIN cachedPairs = 1 .. Len(cachedPairs) /\ Len(cachedPairs) \in Nat
<1> DEFINE rows == PairRows(pairsFrom)
           n == Len(cachedPairs)
<1>1. IsFiniteSet(rows) /\ Cardinality(rows) \in Nat
  BY PairRowsFinite, FS_CardinalityType
<1>2. /\ cachedPairs \in [1 .. n -> rows] /\ n = Cardinality(rows)
      /\ \A i, j \in DOMAIN cachedPairs : cachedPairs[i] = cachedPairs[j] => i = j
  <2>1. /\ cachedPairs \in [1 .. n -> rows]
        /\ n = IF exactPairsCacheSize <= Cardinality(rows) THEN exactPairsCacheSize
                                                           ELSE Cardinality(rows)
        /\ \A i, j \in DOMAIN cachedPairs : cachedPairs[i] = cachedPairs[j] => i = j
    BY CachedPairs DEF AllCached
  <2>2. Cardinality(rows) <= exactPairsCacheSize /\ exactPairsCacheSize \in Nat
    BY DuplicatesAssumption DEF AllCached
  <2> HIDE DEF rows, n
  <2> QED
    BY <1>1, <2>1, <2>2
<1> HIDE DEF rows, n
<1>3. cachedPairs \in Injection(1 .. n, rows)
  BY <1>2 DEF Injection, IsInjective
<1>4. Cardinality(1 .. n) = Cardinality(rows)
  BY <1>1, <1>2, IntervalSize
<1>5. cachedPairs \in Surjection(1 .. n, rows)
  BY <1>1, <1>3, <1>4, FS_Injection
<1> QED
  BY <1>1, <1>2, <1>3, <1>5 DEF Bijection, rows, n

\* The two relations that PairsFindClusters closes: shared contacts, and pairs.
Together(us) ==
  {p \in Ids \X Ids : \E type \in MatchTypes :
      /\ Contact(us, type, p[1]) = Contact(us, type, p[2])
      /\ Contact(us, type, p[1]) # None}

InListing(listing) ==
  {p \in Ids \X Ids : \E i \in DOMAIN listing : {listing[i].id1, listing[i].id2} = {p[1], p[2]}}

\* No pair of the listing leads out of a set of users exactly if no shared contact
\* does: one way because every row shares a contact, the other by GroupsHoldTogether.
LEMMA SameClosed ==
  ASSUME CacheInv, AllCached, NEW C \in SUBSET Ids
  PROVE  Closed(C, InListing(cachedPairs)) <=> Closed(C, Together(pairsFrom))
<1>1. /\ \A i \in DOMAIN cachedPairs : cachedPairs[i] \in PairRows(pairsFrom)
      /\ \A r \in PairRows(pairsFrom) : \E i \in DOMAIN cachedPairs : cachedPairs[i] = r
  BY AllListed DEF Bijection, Surjection
<1>2. ASSUME Closed(C, Together(pairsFrom)), NEW p \in InListing(cachedPairs), p[1] \in C
      PROVE  p[2] \in C
  <2>1. PICK i \in DOMAIN cachedPairs : {cachedPairs[i].id1, cachedPairs[i].id2} = {p[1], p[2]}
    BY DEF InListing
  <2> DEFINE r == cachedPairs[i]
  <2>2. r \in PairRows(pairsFrom)
    BY <1>1
  <2>3. /\ r.match_type \in MatchTypes
        /\ Contact(pairsFrom, r.match_type, r.id1) = Contact(pairsFrom, r.match_type, r.id2)
        /\ Contact(pairsFrom, r.match_type, r.id1) # None
    BY <2>2, PairRowsAre DEF PairType
  <2>4. (p[1] = r.id1 /\ p[2] = r.id2) \/ (p[1] = r.id2 /\ p[2] = r.id1) \/ p[1] = p[2]
    BY <2>1
  <2> HIDE DEF r
  <2>5. CASE p[1] = p[2]
    BY <1>2, <2>5
  <2>6. CASE p[1] # p[2]
    <3>1. p \in Together(pairsFrom)
      BY <2>3, <2>4, <2>6 DEF Together, InListing
    <3> QED
      BY <1>2, <3>1 DEF Closed
  <2> QED
    BY <2>5, <2>6
<1>3. ASSUME Closed(C, InListing(cachedPairs)), NEW p \in Together(pairsFrom), p[1] \in C
      PROVE  p[2] \in C
  <2>1. PICK type \in MatchTypes : /\ Contact(pairsFrom, type, p[1]) = Contact(pairsFrom, type, p[2])
                                   /\ Contact(pairsFrom, type, p[1]) # None
    BY DEF Together
  <2>2. p[2] \in Sharing(pairsFrom, type, p[1])
    BY <2>1 DEF Sharing, Together
  <2>3. ASSUME NEW r \in PairRows(pairsFrom)
        PROVE  r.id1 \in C <=> r.id2 \in C
    <3>1. PICK i \in DOMAIN cachedPairs : cachedPairs[i] = r
      BY <1>1
    <3>2. r.id1 \in Ids /\ r.id2 \in Ids
      BY PairRowsAre DEF PairType
    <3> DEFINE p1 == <<r.id1, r.id2>>
               p2 == <<r.id2, r.id1>>
    <3>3. p1 \in InListing(cachedPairs) /\ p2 \in InListing(cachedPairs)
      BY <3>1, <3>2 DEF InListing
    <3>4. p1[1] = r.id1 /\ p1[2] = r.id2 /\ p2[1] = r.id2 /\ p2[2] = r.id1
      OBVIOUS
    <3> HIDE DEF p1, p2
    <3> QED
      BY <1>3, <3>3, <3>4 DEF Closed
  <2> QED
    BY <1>3, <2>1, <2>2, <2>3, GroupsHoldTogether
<1> QED
  BY <1>2, <1>3 DEF Closed

\* The pairs of a cache with room for all connect the users whom shared contacts
\* connect, for groups of every size and however they overlap.
THEOREM PairsAlwaysFindClusters == Spec => []PairsFindClusters
<1>1. ASSUME CacheInv, AllCached
      PROVE  Connected(InListing(cachedPairs)) = Connected(Together(pairsFrom))
  BY <1>1, SameClosed DEF Connected
<1>2. CacheInv => PairsFindClusters
  BY <1>1 DEF PairsFindClusters, ConnectedBy, SameCustomer, InListing, Together
<1> QED
  BY <1>2, CachedAlways, PTL

-----------------------------------------------------------------------------
(* How many pairs there are. *)

\* The users of a pair have nobody of their group between them.
LEMMA NoneBetween ==
  ASSUME NEW us, NEW r \in PairRows(us), NEW w \in Sharing(us, r.match_type, r.id1)
  PROVE  w <= r.id1 \/ r.id2 <= w
<1>1. PICK type \in MatchTypes :
         \E g \in Groups(us, type) : \E p \in Neighbours(g) : r = Row(p[1], p[2], type)
  BY DEF PairRows
<1>2. PICK g \in Groups(us, type) : \E p \in Neighbours(g) : r = Row(p[1], p[2], type)
  BY <1>1
<1>3. PICK p \in Neighbours(g) : r = Row(p[1], p[2], type)
  BY <1>2
<1>4. PICK u \in Ids : g = {v \in Ids : Contact(us, type, v) = Contact(us, type, u)}
  BY DEF Groups
<1>5. p[1] \in g /\ \A v \in g : v <= p[1] \/ p[2] <= v
  BY DEF Neighbours
<1>6. r.match_type = type /\ r.id1 = p[1] /\ r.id2 = p[2]
  BY <1>3 DEF Row
<1>7. w \in g
  BY <1>4, <1>5, <1>6 DEF Sharing
<1> QED
  BY <1>5, <1>6, <1>7

\* The users with a contact, and the contacts they have.
Present(us, type) == {u \in Ids : Contact(us, type, u) # None}

\* The smallest user of each contact.
Firsts(us, type) == {u \in Present(us, type) : \A v \in Sharing(us, type, u) : u <= v}

Contacts(us, type) == {Contact(us, type, u) : u \in Present(us, type)}

\* The pairs of one kind.
RowsOf(us, type) == {r \in PairRows(us) : r.match_type = type}

\* Each contact has one smallest user.
LEMMA FirstPerContact ==
  ASSUME NEW us, NEW type \in MatchTypes
  PROVE  Cardinality(Contacts(us, type)) = Cardinality(Firsts(us, type))
<1> DEFINE f == [u \in Firsts(us, type) |-> Contact(us, type, u)]
<1>1. f \in [Firsts(us, type) -> Contacts(us, type)]
  BY DEF Firsts, Contacts
<1>2. ASSUME NEW u \in Firsts(us, type), NEW v \in Firsts(us, type), f[u] = f[v]
      PROVE  u = v
  <2>1. u \in Sharing(us, type, v) /\ v \in Sharing(us, type, u)
    BY <1>2 DEF Sharing, Firsts, Present
  <2>2. u <= v /\ v <= u
    BY <2>1 DEF Firsts
  <2>3. u \in Int /\ v \in Int
    BY IdsAreNumbers DEF Firsts, Present
  <2> QED
    BY <2>2, <2>3
<1>3. ASSUME NEW c \in Contacts(us, type)
      PROVE  \E u \in Firsts(us, type) : f[u] = c
  <2>1. PICK a \in Present(us, type) : c = Contact(us, type, a)
    BY DEF Contacts
  <2>2. Sharing(us, type, a) \subseteq Nat /\ a \in Sharing(us, type, a)
    <3>1. Ids \subseteq Nat
      BY TablesAssumption, Zenon
    <3> QED
      BY <3>1 DEF Sharing, Present
  <2>3. PICK u \in Sharing(us, type, a) : \A v \in Sharing(us, type, a) : u <= v
    BY <2>2, LeastNatural
  <2>4. u \in Ids /\ Contact(us, type, u) = Contact(us, type, a)
    BY DEF Sharing
  <2>5. Sharing(us, type, u) = Sharing(us, type, a)
    BY <2>4 DEF Sharing
  <2>6. u \in Firsts(us, type)
    BY <2>1, <2>3, <2>4, <2>5 DEF Firsts, Present
  <2> QED
    BY <2>1, <2>4, <2>6
<1>4. IsFiniteSet(Firsts(us, type))
  BY TablesAssumption, FS_Subset DEF Firsts, Present
<1>5. f \in Bijection(Firsts(us, type), Contacts(us, type))
  <2> HIDE DEF f
  <2> QED
    BY <1>1, <1>2, <1>3 DEF Bijection, Injection, Surjection, IsInjective
<1> QED
  BY <1>4, <1>5, FS_Bijection DEF ExistsBijection

\* A user who is not the first of a contact has a neighbour before.
LEMMA NeighbourBefore ==
  ASSUME NEW us, NEW type \in MatchTypes, NEW v \in Present(us, type) \ Firsts(us, type)
  PROVE  \E w \in Ids : Row(w, v, type) \in PairRows(us)
<1> DEFINE g == Sharing(us, type, v)
           D == {n \in Nat : \E w \in g : w < v /\ n = v - w}
<1>1. v \in Ids /\ v \in Int /\ \A w \in g : w \in Int /\ w \in Ids
  BY IdsAreNumbers DEF Sharing, Present
<1>2. PICK w \in g : ~(v <= w)
  BY DEF Firsts
<1>3. v - w \in D
  BY <1>1, <1>2
<1>4. D \subseteq Nat
  OBVIOUS
<1>5. PICK n \in D : \A k \in D : n <= k
  <2> HIDE DEF D
  <2> QED
    BY <1>3, <1>4, LeastNatural
<1>6. PICK x \in g : x < v /\ n = v - x
  BY <1>5
<1>7. ASSUME NEW y \in g
      PROVE  y <= x \/ v <= y
  <2> SUFFICES ASSUME x < y, y < v PROVE FALSE
    BY <1>1
  <2>1. v - y \in D
    BY <1>1
  <2>2. v - x <= v - y
    BY <1>5, <1>6, <2>1
  <2> QED
    BY <1>1, <2>2
<1>8. x \in Ids /\ Contact(us, type, x) = Contact(us, type, v)
      /\ Contact(us, type, x) # None
  BY DEF Sharing, Present
<1>9. Sharing(us, type, x) = g /\ v \in g
  BY <1>1, <1>8 DEF Sharing
<1> HIDE DEF g, D
<1>10. Row(x, v, type) \in PairRows(us)
  BY <1>6, <1>7, <1>8, <1>9, NextInGroup
<1> QED
  BY <1>8, <1>10

\* The second user of a pair tells it from the others of its kind.
LEMMA PairPerOther ==
  ASSUME NEW us, NEW type \in MatchTypes
  PROVE  Cardinality(RowsOf(us, type)) = Cardinality(Present(us, type) \ Firsts(us, type))
<1> DEFINE others == Present(us, type) \ Firsts(us, type)
           f == [r \in RowsOf(us, type) |-> r.id2]
<1>1. ASSUME NEW r \in RowsOf(us, type)
      PROVE  /\ r \in PairRows(us) /\ r = Row(r.id1, r.id2, type)
             /\ r.id1 \in Ids /\ r.id2 \in Ids /\ r.id1 < r.id2
             /\ Contact(us, type, r.id1) = Contact(us, type, r.id2)
             /\ Contact(us, type, r.id1) # None
             /\ \A w \in Sharing(us, type, r.id1) : w <= r.id1 \/ r.id2 <= w
  BY PairRowsAre, NoneBetween DEF RowsOf, PairType
<1>2. ASSUME NEW r \in RowsOf(us, type)
      PROVE  f[r] \in others
  <2>1. r.id2 \in Present(us, type)
    BY <1>1 DEF Present
  <2>2. r.id1 \in Sharing(us, type, r.id2)
    BY <1>1 DEF Sharing
  <2>3. ~(r.id2 <= r.id1)
    BY <1>1, IdsAreNumbers
  <2> QED
    BY <2>1, <2>2, <2>3 DEF Firsts
<1>3. ASSUME NEW r \in RowsOf(us, type), NEW s \in RowsOf(us, type), f[r] = f[s]
      PROVE  r = s
  <2>1. r.id2 = s.id2
    BY <1>3
  <2>2. s.id1 \in Sharing(us, type, r.id1) /\ r.id1 \in Sharing(us, type, s.id1)
    BY <1>1, <2>1 DEF Sharing
  <2>3. /\ s.id1 <= r.id1 \/ r.id2 <= s.id1
        /\ r.id1 <= s.id1 \/ s.id2 <= r.id1
    BY <1>1, <2>2
  <2>4. /\ r.id1 \in Int /\ s.id1 \in Int /\ r.id2 \in Int /\ s.id2 \in Int
        /\ r.id1 < r.id2 /\ s.id1 < s.id2
    BY <1>1, IdsAreNumbers
  <2>5. r.id1 = s.id1
    BY <2>1, <2>3, <2>4
  <2>6. r = Row(r.id1, r.id2, type) /\ s = Row(s.id1, s.id2, type)
    BY <1>1
  <2> QED
    BY <2>1, <2>5, <2>6
<1>4. ASSUME NEW v \in others
      PROVE  \E r \in RowsOf(us, type) : f[r] = v
  <2>1. PICK w \in Ids : Row(w, v, type) \in PairRows(us)
    BY NeighbourBefore
  <2> DEFINE r == Row(w, v, type)
  <2>2. r.match_type = type /\ r.id2 = v
    BY DEF Row
  <2> HIDE DEF r
  <2>3. r \in RowsOf(us, type)
    BY <2>1, <2>2 DEF RowsOf, r
  <2> QED
    BY <2>2, <2>3
<1>5. f \in [RowsOf(us, type) -> others]
  BY <1>2
<1>6. f \in Bijection(RowsOf(us, type), others)
  <2> HIDE DEF f, others
  <2> QED
    BY <1>3, <1>4, <1>5 DEF Bijection, Injection, Surjection, IsInjective
<1>7. IsFiniteSet(RowsOf(us, type))
  BY PairRowsFinite, FS_Subset DEF RowsOf
<1> QED
  BY <1>6, <1>7, FS_Bijection DEF ExistsBijection

\* A cache with room for all lists as many pairs of a kind as there are.
LEMMA ListedPerRow ==
  ASSUME CacheInv, AllCached, NEW type \in MatchTypes
  PROVE  Cardinality({i \in DOMAIN cachedPairs : cachedPairs[i].match_type = type})
            = Cardinality(RowsOf(pairsFrom, type))
<1> DEFINE n == Len(cachedPairs)
           I == {i \in 1 .. n : cachedPairs[i].match_type = type}
           f == [i \in I |-> cachedPairs[i]]
<1>1. /\ cachedPairs \in Bijection(1 .. n, PairRows(pairsFrom))
      /\ DOMAIN cachedPairs = 1 .. n /\ n \in Nat
  BY AllListed
<1>2. /\ \A i \in 1 .. n : cachedPairs[i] \in PairRows(pairsFrom)
      /\ \A i, j \in 1 .. n : cachedPairs[i] = cachedPairs[j] => i = j
      /\ \A r \in PairRows(pairsFrom) : \E i \in 1 .. n : cachedPairs[i] = r
  BY <1>1 DEF Bijection, Injection, Surjection, IsInjective
<1>3. f \in [I -> RowsOf(pairsFrom, type)]
  BY <1>2 DEF RowsOf
<1>4. \A i, j \in I : f[i] = f[j] => i = j
  BY <1>2
<1>5. \A r \in RowsOf(pairsFrom, type) : \E i \in I : f[i] = r
  BY <1>2 DEF RowsOf
<1>6. IsFiniteSet(I)
  <2>1. IsFiniteSet(1 .. n)
    BY <1>1, IntervalSize
  <2> QED
    BY <2>1, FS_Subset
<1>7. f \in Bijection(I, RowsOf(pairsFrom, type))
  <2> HIDE DEF f, I
  <2> QED
    BY <1>3, <1>4, <1>5 DEF Bijection, Injection, Surjection, IsInjective
<1>8. Cardinality(I) = Cardinality(RowsOf(pairsFrom, type))
  <2> HIDE DEF f, I
  <2> QED
    BY <1>6, <1>7, FS_Bijection DEF ExistsBijection
<1> QED
  BY <1>1, <1>8

\* A cache with room for all lists one pair of a kind for each user but the first
\* of each contact: the number of users minus the number of different contacts.
THEOREM PairsAlwaysCountDuplicates == Spec => []PairsCountDuplicates
<1>1. ASSUME CacheInv, AllCached, NEW type \in MatchTypes
      PROVE  Cardinality({i \in DOMAIN cachedPairs : cachedPairs[i].match_type = type})
                = Cardinality(Present(pairsFrom, type)) - Cardinality(Contacts(pairsFrom, type))
  <2> DEFINE all == Present(pairsFrom, type)
             first == Firsts(pairsFrom, type)
  <2>1. IsFiniteSet(all) /\ first \subseteq all
    BY TablesAssumption, FS_Subset DEF Present, Firsts
  <2>2. IsFiniteSet(first)
    BY <2>1, FS_Subset
  <2>3. all \cap first = first
    BY <2>1
  <2>4. /\ Cardinality(all \ first) = Cardinality(all) - Cardinality(first)
    <3> HIDE DEF all, first
    <3> QED
      BY <2>1, <2>2, <2>3, FS_Difference
  <2> QED
    BY <1>1, <2>4, ListedPerRow, PairPerOther, FirstPerContact
<1>2. CacheInv => PairsCountDuplicates
  BY <1>1 DEF PairsCountDuplicates, Present, Contacts
<1> QED
  BY <1>2, CachedAlways, PTL
=============================================================================
