--------------------------- MODULE DashboardProofs ---------------------------
(***************************************************************************)
(* Proofs about Dashboard, for any texts, users, page size and number of   *)
(* calls in flight.                                                        *)
(***************************************************************************)
EXTENDS Dashboard, FiniteSetTheorems, FunctionTheorems, TLAPS

-----------------------------------------------------------------------------
(* The calls in flight. *)

\* What is left of a sequence without its i-th element.
LEMMA Removed ==
  ASSUME NEW S, NEW s \in Seq(S), NEW i \in DOMAIN s
  PROVE  /\ RemoveAt(s, i) \in Seq(S)
         /\ DOMAIN RemoveAt(s, i) = 1 .. Len(s) - 1
         /\ \A k \in 1 .. Len(s) - 1 :
               RemoveAt(s, i)[k] = IF k < i THEN s[k] ELSE s[k + 1]
<1> DEFINE a == SubSeq(s, 1, i - 1)
           b == SubSeq(s, i + 1, Len(s))
<1>1. i \in 1 .. Len(s) /\ Len(s) \in Nat
  OBVIOUS
<1>2. a \in Seq(S) /\ Len(a) = i - 1 /\ \A k \in 1 .. i - 1 : a[k] = s[k]
  BY <1>1
<1>3. b \in Seq(S) /\ Len(b) = Len(s) - i /\ \A k \in 1 .. Len(s) - i : b[k] = s[i + k]
  BY <1>1
<1> HIDE DEF a, b
<1>4. a \o b \in Seq(S) /\ Len(a \o b) = Len(s) - 1
  BY <1>1, <1>2, <1>3
<1>5. ASSUME NEW k \in 1 .. Len(s) - 1
      PROVE  (a \o b)[k] = IF k < i THEN s[k] ELSE s[k + 1]
  <2>1. CASE k < i
    BY <1>1, <1>2, <1>3, <2>1
  <2>2. CASE k >= i
    <3>1. (a \o b)[k] = b[k - Len(a)]
      BY <1>1, <1>2, <1>3, <2>2
    <3> QED
      BY <1>1, <1>2, <1>3, <2>2, <3>1
  <2>3. k < i \/ k >= i
    BY <1>1
  <2> QED
    BY <2>1, <2>2, <2>3
<1>6. DOMAIN (a \o b) = 1 .. Len(s) - 1
  BY <1>4
<1>7. RemoveAt(s, i) = a \o b
  BY DEF RemoveAt, a, b
<1> QED
  BY <1>4, <1>5, <1>6, <1>7

LEMMA IntervalSize ==
  ASSUME NEW n \in Nat
  PROVE  IsFiniteSet(1 .. n) /\ Cardinality(1 .. n) = n
<1>1. 1 \in Int /\ n \in Int
  OBVIOUS
<1>2. IsFiniteSet(1 .. n) /\ Cardinality(1 .. n) = IF 1 > n THEN 0 ELSE n - 1 + 1
  BY <1>1, FS_Interval
<1> QED
  BY <1>2

\* A call goes behind those in flight.
LEMMA Sent ==
  ASSUME inflight \in Seq(Calls), NEW call \in Calls, Send(call)
  PROVE  /\ inflight' \in Seq(Calls)
         /\ DOMAIN inflight' = 1 .. Len(inflight) + 1
         /\ \A k \in DOMAIN inflight : inflight'[k] = inflight[k]
         /\ inflight'[Len(inflight) + 1] = call
         /\ Len(inflight') <= MaxCalls
  BY DashboardAssumption DEF Send

\* An answered call goes, the others close up.
LEMMA Settled ==
  ASSUME inflight \in Seq(Calls), NEW i \in DOMAIN inflight, Settle(i)
  PROVE  /\ inflight' \in Seq(Calls)
         /\ DOMAIN inflight' = 1 .. Len(inflight) - 1
         /\ Len(inflight') = Len(inflight) - 1
         /\ \A k \in DOMAIN inflight' :
               inflight'[k] = inflight[IF k < i THEN k ELSE k + 1]
         /\ \A k \in DOMAIN inflight \ {i} :
               \E j \in DOMAIN inflight' : inflight'[j] = inflight[k]
<1>1. /\ inflight' = RemoveAt(inflight, i)
      /\ inflight' \in Seq(Calls)
      /\ DOMAIN inflight' = 1 .. Len(inflight) - 1
      /\ \A k \in 1 .. Len(inflight) - 1 :
            inflight'[k] = IF k < i THEN inflight[k] ELSE inflight[k + 1]
  BY Removed DEF Settle
<1>2. i \in 1 .. Len(inflight) /\ Len(inflight) \in Nat
  OBVIOUS
<1>3. ASSUME NEW k \in DOMAIN inflight \ {i}
      PROVE  \E j \in DOMAIN inflight' : inflight'[j] = inflight[k]
  <2>1. CASE k < i
    <3>1. k \in DOMAIN inflight'
      BY <1>1, <1>2, <2>1
    <3>2. inflight'[k] = inflight[k]
      BY <1>1, <1>2, <2>1, <3>1
    <3> QED BY <3>1, <3>2
  <2>2. CASE k > i
    <3>1. k - 1 \in DOMAIN inflight'
      BY <1>1, <1>2, <2>2
    <3>2. inflight'[k - 1] = inflight[k]
      BY <1>1, <1>2, <2>2, <3>1
    <3> QED BY <3>1, <3>2
  <2> QED
    BY <1>2, <2>1, <2>2
<1> QED
  BY <1>1, <1>2, <1>3

LEMMA CallTabs == \A call \in Calls : call.tab \in Tabs
  BY DEF Calls, Tabs

LEMMA SearchCalls ==
  \A call \in Calls : call.tab = "search" => call.offset \in Offsets
  BY DEF Calls

LEMMA MethodCalls ==
  \A call \in Calls : call.tab = "duplicates" => call.method \in {"ip", "exact"}
  BY DEF Calls

LEMMA ProfileCalls ==
  \A call \in Calls : call.tab = "profile" => call.id \in UserIDs
  BY DEF Calls

-----------------------------------------------------------------------------
(* Types. *)

\* The quality tab can only get as many sets of cards as it has calls in flight
\* beside those it already shows.
QualityCalls == {i \in DOMAIN inflight : inflight[i].tab = "quality"}

\* The offset is that of a page that an answer said to exist, and where Next
\* leads exists, too.
OffsetInv ==
  /\ searchOffset <= MaxTotal
  /\ shown /\ pager.next => searchOffset + PageSize <= MaxTotal

TypeInv ==
  /\ TypeOK
  /\ inflight \in Seq(Calls)
  /\ OffsetInv
  /\ IsFiniteSet(QualityCalls)
  /\ reports + Cardinality(QualityCalls) <= MaxCalls

\* Offsets are whole pages.
LEMMA FirstPage == 0 \in Offsets
<1>1. 0 = PageSize * 0 /\ 0 \in 0 .. MaxTotal
  BY DashboardAssumption
<1> QED
  BY <1>1 DEF Offsets

LEMMA PreviousPage ==
  ASSUME NEW o \in Offsets, o >= PageSize
  PROVE  o - PageSize \in Offsets
<1>1. PICK i \in 0 .. MaxTotal : o = PageSize * i
  BY DEF Offsets
<1>2. i # 0
  BY <1>1, DashboardAssumption
<1>3. i - 1 \in 0 .. MaxTotal /\ PageSize * (i - 1) = o - PageSize
  BY <1>1, <1>2, DashboardAssumption
<1> QED
  BY <1>3 DEF Offsets

LEMMA FollowingPage ==
  ASSUME NEW o \in Offsets, o + PageSize <= MaxTotal
  PROVE  o + PageSize \in Offsets
<1>1. PICK i \in 0 .. MaxTotal : o = PageSize * i
  BY DEF Offsets
<1>2. PageSize * (i + 1) = o + PageSize
  BY <1>1, DashboardAssumption
<1>3. i + 1 <= PageSize * (i + 1)
  BY <1>1, DashboardAssumption
<1>4. i + 1 \in 0 .. MaxTotal
  BY <1>1, <1>2, <1>3, DashboardAssumption
<1> QED
  BY <1>2, <1>4 DEF Offsets

LEMMA OffsetsAreNumbers == Offsets \subseteq Nat
<1>1. \A i \in 0 .. MaxTotal : PageSize * i \in Nat
  BY DashboardAssumption
<1> QED
  BY <1>1 DEF Offsets

\* A call more.
LEMMA SendTypes ==
  ASSUME TypeInv, NEW call \in Calls, Send(call)
  PROVE  /\ inflight' \in Seq(Calls)
         /\ Len(inflight') <= MaxCalls /\ \A i \in DOMAIN inflight' : inflight'[i] \in Calls
         /\ loading' \in [Tabs -> BOOLEAN]
         /\ IsFiniteSet(QualityCalls') /\ Cardinality(QualityCalls') <= MaxCalls
         /\ call.tab # "quality" => QualityCalls' = QualityCalls
<1>1. /\ inflight' \in Seq(Calls)
      /\ DOMAIN inflight' = 1 .. Len(inflight) + 1
      /\ \A k \in DOMAIN inflight : inflight'[k] = inflight[k]
      /\ inflight'[Len(inflight) + 1] = call
      /\ Len(inflight') <= MaxCalls
  BY Sent DEF TypeInv
<1>2. loading' \in [Tabs -> BOOLEAN]
  BY CallTabs DEF TypeInv, TypeOK, Send
<1>3. IsFiniteSet(QualityCalls') /\ Cardinality(QualityCalls') <= MaxCalls
  <2>0. Len(inflight') \in Nat
    BY <1>1
  <2>1. IsFiniteSet(1 .. Len(inflight')) /\ Cardinality(1 .. Len(inflight')) = Len(inflight')
    BY <2>0, IntervalSize
  <2>2. QualityCalls' \subseteq 1 .. Len(inflight')
    BY <1>1 DEF QualityCalls
  <2>3. IsFiniteSet(QualityCalls') /\ Cardinality(QualityCalls') <= Cardinality(1 .. Len(inflight'))
    BY <2>1, <2>2, FS_Subset
  <2>4. Cardinality(QualityCalls') \in Nat /\ Len(inflight') \in Nat
    BY <1>1, <2>3, FS_CardinalityType
  <2> QED
    BY <1>1, <2>1, <2>3, <2>4, DashboardAssumption
<1>4. ASSUME call.tab # "quality"
      PROVE  QualityCalls' = QualityCalls
  <2>1. inflight \in Seq(Calls) /\ DOMAIN inflight = 1 .. Len(inflight) /\ Len(inflight) \in Nat
    BY DEF TypeInv
  <2>2. 1 .. Len(inflight) + 1 = (1 .. Len(inflight)) \cup {Len(inflight) + 1}
    BY <2>1
  <2> QED
    BY <1>1, <1>4, <2>1, <2>2 DEF QualityCalls
<1> QED
  BY <1>1, <1>2, <1>3, <1>4

\* A call less: where QualityCalls loses one, there is room for its cards.
LEMMA SettleTypes ==
  ASSUME TypeInv, NEW i \in DOMAIN inflight, Settle(i)
  PROVE  /\ inflight' \in Seq(Calls)
         /\ Len(inflight') <= MaxCalls /\ \A k \in DOMAIN inflight' : inflight'[k] \in Calls
         /\ loading' \in [Tabs -> BOOLEAN]
         /\ IsFiniteSet(QualityCalls') /\ Cardinality(QualityCalls') <= Cardinality(QualityCalls)
         /\ inflight[i].tab = "quality" => Cardinality(QualityCalls') < Cardinality(QualityCalls)
<1>1. /\ inflight' \in Seq(Calls)
      /\ DOMAIN inflight' = 1 .. Len(inflight) - 1
      /\ Len(inflight') = Len(inflight) - 1
      /\ \A k \in DOMAIN inflight' : inflight'[k] = inflight[IF k < i THEN k ELSE k + 1]
  BY Settled DEF TypeInv
<1>2. /\ inflight \in Seq(Calls) /\ DOMAIN inflight = 1 .. Len(inflight) /\ Len(inflight) \in Nat
      /\ Len(inflight) <= MaxCalls /\ IsFiniteSet(QualityCalls)
  BY DEF TypeInv, TypeOK
<1>3. Len(inflight') <= MaxCalls
  BY <1>1, <1>2, DashboardAssumption
<1>4. loading' \in [Tabs -> BOOLEAN]
  BY CallTabs DEF TypeInv, TypeOK, Settle
<1> DEFINE Q == QualityCalls \ {i}
           f == [k \in QualityCalls' |-> IF k < i THEN k ELSE k + 1]
<1>5. \A k \in QualityCalls' : f[k] \in Q
  BY <1>1, <1>2 DEF QualityCalls
<1>6. \A j, k \in QualityCalls' : f[j] = f[k] => j = k
  <2>1. QualityCalls' \subseteq Nat /\ i \in Nat
    BY <1>1, <1>2 DEF QualityCalls
  <2> QED
    BY <2>1
<1>7. f \in Injection(QualityCalls', Q)
  <2>1. f \in [QualityCalls' -> Q]
    BY <1>5
  <2> HIDE DEF f
  <2> QED
    BY <1>6, <2>1 DEF Injection, IsInjective
<1>8. /\ IsFiniteSet(Q)
      /\ Cardinality(Q) = IF i \in QualityCalls THEN Cardinality(QualityCalls) - 1
                                               ELSE Cardinality(QualityCalls)
  BY <1>2, FS_RemoveElement
<1>9. IsFiniteSet(QualityCalls') /\ Cardinality(QualityCalls') <= Cardinality(Q)
  BY <1>7, <1>8, FS_Injection
<1>10. {Cardinality(Q), Cardinality(QualityCalls), Cardinality(QualityCalls')} \subseteq Nat
  BY <1>2, <1>8, <1>9, FS_CardinalityType
<1>11. inflight[i].tab = "quality" => i \in QualityCalls
  BY DEF QualityCalls
<1>12. \A k \in DOMAIN inflight' : inflight'[k] \in Calls
  BY <1>1
<1> HIDE DEF Q
<1> QED
  BY <1>1, <1>3, <1>4, <1>8, <1>9, <1>10, <1>11, <1>12

LEMMA TypeInit == Init => TypeInv
<1> SUFFICES ASSUME Init PROVE TypeInv
  OBVIOUS
<1>1. inflight = <<>> /\ QualityCalls = {} /\ reports = 0
  BY DEF Init, QualityCalls
<1>2. IsFiniteSet(QualityCalls) /\ Cardinality(QualityCalls) = 0
  BY <1>1, FS_EmptySet
<1>3. TypeOK
  <2>1. Len(inflight) <= MaxCalls /\ \A i \in DOMAIN inflight : inflight[i] \in Calls
    BY <1>1, DashboardAssumption
  <2>2. profiles \in Seq(UserIDs) /\ loading \in [Tabs -> BOOLEAN] /\ reports \in 0 .. MaxCalls
    BY <1>1, DashboardAssumption DEF Init
  <2>3. /\ rows.first - 1 \in Offsets /\ rows.count \in 0 .. PageSize /\ rows.paged \in BOOLEAN
        /\ searchOffset \in Offsets
    BY FirstPage, DashboardAssumption DEF Init
  <2>4. /\ pager.first \in Nat /\ pager.last \in Nat
        /\ {pager.prev, pager.next, shown, chart} \subseteq BOOLEAN
    BY DEF Init
  <2> QED
    BY <2>1, <2>2, <2>3, <2>4 DEF Init, TypeOK
<1>4. OffsetInv
  BY DashboardAssumption DEF Init, OffsetInv
<1> QED
  BY <1>1, <1>2, <1>3, <1>4, DashboardAssumption DEF TypeInv

LEMMA UseTypes ==
  ASSUME TypeOK, NEW t \in Tabs, Use(t)
  PROVE  rushed' \subseteq Tabs
  BY DEF TypeOK, Use

\* Calls in flight stay as they are.
LEMMA SameCalls ==
  ASSUME TypeInv, UNCHANGED inflight
  PROVE  /\ QualityCalls' = QualityCalls
         /\ inflight' \in Seq(Calls)
  BY DEF TypeInv, QualityCalls

LEMMA RunSearchTypes ==
  ASSUME TypeInv, NEW offset \in Offsets, offset <= MaxTotal, RunSearch(offset)
  PROVE  TypeInv'
<1> DEFINE call == [tab |-> "search", query |-> query, offset |-> offset]
<1>1. /\ inflight' \in Seq(Calls)
      /\ Len(inflight') <= MaxCalls /\ \A i \in DOMAIN inflight' : inflight'[i] \in Calls
      /\ loading' \in [Tabs -> BOOLEAN]
      /\ QualityCalls' = QualityCalls
  <2>1. CASE query = Blank
    BY <2>1, SameCalls DEF RunSearch, TypeInv, TypeOK
  <2>2. CASE query # Blank
    <3>1. call \in Calls /\ call.tab # "quality"
      BY <2>2 DEF TypeInv, TypeOK, Calls
    <3>2. Send(call)
      BY <2>2 DEF RunSearch
    <3> HIDE DEF call
    <3> QED
      BY <3>1, <3>2, SendTypes
  <2> QED
    BY <2>1, <2>2
<1>2. rushed' \subseteq Tabs
  BY UseTypes DEF TypeInv, RunSearch, Tabs
<1>3. OffsetInv' /\ searchOffset' \in Offsets /\ shown' \in BOOLEAN
  BY DEF RunSearch, OffsetInv
<1> QED
  BY <1>1, <1>2, <1>3 DEF TypeInv, TypeOK, RunSearch, fields, others

\* Every search is for a page that is known to exist.
LEMMA SearchRuns ==
  ASSUME TypeInv, SearchClick \/ PrevClick \/ NextClick
  PROVE  \E offset \in Offsets : offset <= MaxTotal /\ RunSearch(offset)
<1>1. searchOffset \in Offsets /\ searchOffset \in Nat /\ searchOffset <= MaxTotal
  BY OffsetsAreNumbers DEF TypeInv, TypeOK, OffsetInv
<1>2. CASE SearchClick
  BY <1>2, FirstPage, DashboardAssumption DEF SearchClick
<1>3. CASE PrevClick
  <2> DEFINE offset == IF searchOffset >= PageSize THEN searchOffset - PageSize ELSE 0
  <2>1. offset \in Offsets /\ offset <= MaxTotal
    BY <1>1, PreviousPage, FirstPage, DashboardAssumption
  <2>2. RunSearch(offset)
    BY <1>3 DEF PrevClick
  <2> HIDE DEF offset
  <2> QED
    BY <2>1, <2>2
<1>4. CASE NextClick
  <2>1. searchOffset + PageSize <= MaxTotal
    BY <1>4 DEF TypeInv, OffsetInv, NextClick
  <2>2. searchOffset + PageSize \in Offsets
    BY <1>1, <2>1, FollowingPage
  <2> QED
    BY <1>4, <2>1, <2>2 DEF NextClick
<1> QED
  BY <1>2, <1>3, <1>4

LEMMA EditTypes ==
  ASSUME TypeInv,
         \/ \E q \in Queries \cup {Blank} : EditQuery(q)
         \/ \E id \in UserIDs \cup {Blank} : EditUserID(id)
  PROVE  TypeInv'
<1>1. UNCHANGED inflight
  BY DEF EditQuery, EditUserID
<1>2. QualityCalls' = QualityCalls /\ inflight' \in Seq(Calls)
  BY <1>1, SameCalls
<1>3. TypeOK' /\ OffsetInv' /\ UNCHANGED reports
  BY DEF TypeInv, TypeOK, OffsetInv, EditQuery, EditUserID, search, others
<1> QED
  BY <1>2, <1>3 DEF TypeInv

LEMMA QualityClickTypes ==
  ASSUME TypeInv, QualityClick
  PROVE  TypeInv'
<1> DEFINE call == [tab |-> "quality"]
<1>1. call \in Calls
  BY DEF Calls
<1>2. Send(call)
  BY DEF QualityClick
<1> HIDE DEF call
<1>3. /\ inflight' \in Seq(Calls)
      /\ Len(inflight') <= MaxCalls /\ \A i \in DOMAIN inflight' : inflight'[i] \in Calls
      /\ loading' \in [Tabs -> BOOLEAN]
      /\ IsFiniteSet(QualityCalls') /\ Cardinality(QualityCalls') <= MaxCalls
  BY <1>1, <1>2, SendTypes
<1>4. rushed' \subseteq Tabs
  BY UseTypes DEF TypeInv, QualityClick, Tabs
<1>5. Cardinality(QualityCalls') \in Nat
  BY <1>3, FS_CardinalityType
<1>6. reports' = 0 /\ reports' \in 0 .. MaxCalls
  BY DashboardAssumption DEF QualityClick
<1>7. TypeOK'
  BY <1>3, <1>4, <1>6 DEF TypeInv, TypeOK, QualityClick, fields, search
<1>8. OffsetInv'
  BY DEF TypeInv, OffsetInv, QualityClick, search
<1> QED
  BY <1>3, <1>5, <1>6, <1>7, <1>8 DEF TypeInv

LEMMA DuplicatesClickTypes ==
  ASSUME TypeInv, IPClick \/ ExactClick
  PROVE  TypeInv'
<1>1. PICK method \in {"ip", "exact"} : Send([tab |-> "duplicates", method |-> method])
  BY DEF IPClick, ExactClick
<1> DEFINE call == [tab |-> "duplicates", method |-> method]
<1>2. call \in Calls /\ call.tab # "quality" /\ Send(call)
  BY <1>1 DEF Calls
<1> HIDE DEF call
<1>3. /\ inflight' \in Seq(Calls)
      /\ Len(inflight') <= MaxCalls /\ \A i \in DOMAIN inflight' : inflight'[i] \in Calls
      /\ loading' \in [Tabs -> BOOLEAN]
      /\ QualityCalls' = QualityCalls
  BY <1>2, SendTypes
<1>4. rushed' \subseteq Tabs
  BY UseTypes DEF TypeInv, IPClick, ExactClick, Tabs
<1>5. TypeOK'
  BY <1>3, <1>4 DEF TypeInv, TypeOK, IPClick, ExactClick, fields, search
<1>6. OffsetInv' /\ UNCHANGED reports
  BY DEF TypeInv, OffsetInv, IPClick, ExactClick, search
<1> QED
  BY <1>3, <1>5, <1>6 DEF TypeInv

LEMMA ProfileClickTypes ==
  ASSUME TypeInv, ProfileClick
  PROVE  TypeInv'
<1> DEFINE call == [tab |-> "profile", id |-> userID]
<1>1. /\ inflight' \in Seq(Calls)
      /\ Len(inflight') <= MaxCalls /\ \A i \in DOMAIN inflight' : inflight'[i] \in Calls
      /\ loading' \in [Tabs -> BOOLEAN]
      /\ QualityCalls' = QualityCalls
  <2>1. CASE userID = Blank
    BY <2>1, SameCalls DEF ProfileClick, TypeInv, TypeOK
  <2>2. CASE userID # Blank
    <3>1. call \in Calls /\ call.tab # "quality"
      BY <2>2 DEF TypeInv, TypeOK, Calls
    <3>2. Send(call)
      BY <2>2 DEF ProfileClick
    <3> HIDE DEF call
    <3> QED
      BY <3>1, <3>2, SendTypes
  <2> QED
    BY <2>1, <2>2
<1>2. rushed' \subseteq Tabs
  BY UseTypes DEF TypeInv, ProfileClick, Tabs
<1>3. profiles' \in Seq(UserIDs)
  BY DEF ProfileClick
<1>4. TypeOK'
  BY <1>1, <1>2, <1>3 DEF TypeInv, TypeOK, ProfileClick, fields, search
<1>5. OffsetInv' /\ UNCHANGED reports
  BY DEF TypeInv, OffsetInv, ProfileClick, search
<1> QED
  BY <1>1, <1>4, <1>5 DEF TypeInv

\* Rows, and what goes on from them, are of a page or of one user.
LEMMA FoundFit ==
  ASSUME NEW call \in Calls, call.tab = "search", NEW found \in Found(call)
  PROVE  /\ found.first - 1 \in Offsets /\ found.count \in 0 .. PageSize
         /\ found.paged \in BOOLEAN
         /\ found.total \in Nat /\ (found.total <= MaxTotal \/ found.total <= 1)
         /\ found.paged => found.first = call.offset + 1
         /\ ~found.paged => found.first = 1 /\ found.count <= 1
<1>1. call.offset \in Offsets /\ call.offset \in Nat
  BY SearchCalls, OffsetsAreNumbers
<1>2. CASE call.query \in IDQueries
  <2>1. found.first = 1 /\ found.count \in {0, 1} /\ found.paged = FALSE /\ found.total \in {0, 1}
    BY <1>2 DEF Found
  <2>2. found.paged \in BOOLEAN /\ ~found.paged
    BY <2>1, Zenon
  <2>3. /\ found.first - 1 \in Offsets /\ found.count \in 0 .. PageSize /\ found.count <= 1
        /\ found.total \in Nat /\ found.total <= 1
    BY <2>1, FirstPage, DashboardAssumption
  <2> QED
    BY <2>1, <2>2, <2>3, Zenon
<1>3. CASE call.query \notin IDQueries
  <2>1. found \in [first : {call.offset + 1}, count : 0 .. PageSize, paged : {TRUE},
                   total : 0 .. MaxTotal]
    BY <1>3 DEF Found
  <2>2. /\ found.first = call.offset + 1 /\ found.count \in 0 .. PageSize
        /\ found.paged = TRUE /\ found.total \in 0 .. MaxTotal
    BY <2>1
  <2>3. found.paged \in BOOLEAN /\ found.paged
    BY <2>2, Zenon
  <2>4. found.first - 1 = call.offset /\ found.total \in Nat /\ found.total <= MaxTotal
    BY <1>1, <2>2, DashboardAssumption
  <2>5. found.first - 1 \in Offsets
    BY <1>1, <2>4
  <2> QED
    BY <2>2, <2>3, <2>4, <2>5, Zenon
<1> QED
  BY <1>2, <1>3

\* What the answer to a search does to the page.
Displays(found) ==
  /\ rows' = [first |-> found.first, count |-> found.count, paged |-> found.paged]
  /\ IF found.count = 0
     THEN UNCHANGED <<shown, pager>>
     ELSE /\ shown' = TRUE
          /\ pager' = [first |-> searchOffset + 1, last |-> searchOffset + found.count,
                       prev |-> searchOffset # 0,
                       next |-> searchOffset + PageSize < found.total]

LEMMA SearchAnswers ==
  ASSUME NEW i \in DOMAIN inflight, SearchAnswer(i)
  PROVE  /\ inflight[i].tab = "search" /\ Settle(i)
         /\ \E found \in Found(inflight[i]) : Displays(found)
  BY DEF SearchAnswer, Displays

LEMMA SearchAnswerTypes ==
  ASSUME TypeInv, NEW i \in DOMAIN inflight, SearchAnswer(i)
  PROVE  TypeInv'
<1>1. /\ inflight' \in Seq(Calls)
      /\ Len(inflight') <= MaxCalls /\ \A k \in DOMAIN inflight' : inflight'[k] \in Calls
      /\ loading' \in [Tabs -> BOOLEAN]
      /\ IsFiniteSet(QualityCalls') /\ Cardinality(QualityCalls') <= Cardinality(QualityCalls)
  BY SettleTypes DEF SearchAnswer
<1>2. inflight[i] \in Calls /\ inflight[i].tab = "search" /\ searchOffset \in Nat
  BY OffsetsAreNumbers DEF TypeInv, TypeOK, SearchAnswer
<1>3. PICK found \in Found(inflight[i]) : Displays(found)
  BY SearchAnswers
<1> DEFINE n == found.count
           total == found.total
<1>4. /\ found.first - 1 \in Offsets /\ n \in 0 .. PageSize /\ found.paged \in BOOLEAN
      /\ total \in Nat /\ (total <= MaxTotal \/ total <= 1)
  BY <1>2, FoundFit
<1>5. /\ rows' = [first |-> found.first, count |-> n, paged |-> found.paged]
      /\ \/ UNCHANGED <<shown, pager>>
         \/ /\ shown' = TRUE
            /\ pager' = [first |-> searchOffset + 1, last |-> searchOffset + n,
                         prev |-> searchOffset # 0, next |-> searchOffset + PageSize < total]
  BY <1>3 DEF Displays
<1> HIDE DEF n, total
<1>6. /\ pager.first' \in Nat /\ pager.last' \in Nat
      /\ {pager.prev', pager.next', shown'} \subseteq BOOLEAN
      /\ rows'.first - 1 \in Offsets /\ rows'.count \in 0 .. PageSize /\ rows'.paged \in BOOLEAN
  <2>1. CASE UNCHANGED <<shown, pager>>
    BY <1>4, <1>5, <2>1 DEF TypeInv, TypeOK
  <2>2. CASE /\ shown' = TRUE
             /\ pager' = [first |-> searchOffset + 1, last |-> searchOffset + n,
                          prev |-> searchOffset # 0, next |-> searchOffset + PageSize < total]
    <3>1. /\ pager.first' = searchOffset + 1 /\ pager.last' = searchOffset + n
          /\ pager.prev' = (searchOffset # 0) /\ pager.next' = (searchOffset + PageSize < total)
      BY <2>2
    <3>2. pager.first' \in Nat /\ pager.last' \in Nat
      BY <1>2, <1>4, <3>1, DashboardAssumption
    <3> QED
      BY <1>4, <1>5, <2>2, <3>1, <3>2
  <2> QED
    BY <1>5, <2>1, <2>2
<1>7. UNCHANGED <<fields, rushed, searchOffset, others>>
  BY DEF SearchAnswer, Settle
<1>8. OffsetInv'
  <2>1. searchOffset' <= MaxTotal
    BY <1>7 DEF TypeInv, OffsetInv
  <2>2. ASSUME shown', pager.next' PROVE searchOffset' + PageSize <= MaxTotal
    <3>1. CASE UNCHANGED <<shown, pager>>
      BY <1>7, <2>2, <3>1 DEF TypeInv, OffsetInv
    <3>2. CASE pager' = [first |-> searchOffset + 1, last |-> searchOffset + n,
                         prev |-> searchOffset # 0, next |-> searchOffset + PageSize < total]
      <4>1. searchOffset + PageSize < total
        BY <2>2, <3>2
      <4> QED
        BY <1>2, <1>4, <1>7, <4>1, DashboardAssumption
    <3> QED
      BY <1>5, <3>1, <3>2
  <2> QED
    BY <2>1, <2>2 DEF OffsetInv
<1>9. TypeOK'
  BY <1>1, <1>6, <1>7 DEF TypeInv, TypeOK, fields, others
<1>10. Cardinality(QualityCalls') \in Nat /\ Cardinality(QualityCalls) \in Nat
  BY <1>1, FS_CardinalityType DEF TypeInv
<1>11. reports' + Cardinality(QualityCalls') <= MaxCalls
  BY <1>1, <1>7, <1>10, DashboardAssumption DEF TypeInv, TypeOK, others
<1> QED
  BY <1>1, <1>8, <1>9, <1>11 DEF TypeInv

LEMMA QualityAnswerTypes ==
  ASSUME TypeInv, NEW i \in DOMAIN inflight, QualityAnswer(i)
  PROVE  TypeInv'
<1>1. /\ inflight' \in Seq(Calls)
      /\ Len(inflight') <= MaxCalls /\ \A k \in DOMAIN inflight' : inflight'[k] \in Calls
      /\ loading' \in [Tabs -> BOOLEAN]
      /\ IsFiniteSet(QualityCalls') /\ Cardinality(QualityCalls') < Cardinality(QualityCalls)
  BY SettleTypes DEF QualityAnswer
<1>2. Cardinality(QualityCalls') \in Nat /\ Cardinality(QualityCalls) \in Nat
  BY <1>1, FS_CardinalityType DEF TypeInv
<1>3. reports' + Cardinality(QualityCalls') <= MaxCalls /\ reports' \in 0 .. MaxCalls
  BY <1>1, <1>2, DashboardAssumption DEF TypeInv, TypeOK, QualityAnswer
<1>4. UNCHANGED <<fields, rushed, searchOffset, rows, pager, shown, table, chart, profiles>>
  BY DEF QualityAnswer, Settle
<1>5. TypeOK'
  BY <1>1, <1>3, <1>4 DEF TypeInv, TypeOK, fields
<1>6. OffsetInv'
  BY <1>4 DEF TypeInv, OffsetInv
<1> QED
  BY <1>1, <1>3, <1>5, <1>6 DEF TypeInv

LEMMA OtherAnswerTypes ==
  ASSUME TypeInv, NEW i \in DOMAIN inflight,
         DuplicatesAnswer(i) \/ ProfileAnswer(i) \/ Error(i)
  PROVE  TypeInv'
<1>1. /\ inflight' \in Seq(Calls)
      /\ Len(inflight') <= MaxCalls /\ \A k \in DOMAIN inflight' : inflight'[k] \in Calls
      /\ loading' \in [Tabs -> BOOLEAN]
      /\ IsFiniteSet(QualityCalls') /\ Cardinality(QualityCalls') <= Cardinality(QualityCalls)
  BY SettleTypes DEF DuplicatesAnswer, ProfileAnswer, Error
<1>2. UNCHANGED <<fields, rushed, searchOffset, rows, pager, shown, reports>>
  BY DEF DuplicatesAnswer, ProfileAnswer, Error, Settle, others
<1>3. inflight[i] \in Calls
  BY DEF TypeInv, TypeOK
<1>4. table' \in {"hidden", "ip", "exact"} /\ chart' \in BOOLEAN
  <2>1. CASE DuplicatesAnswer(i)
    BY <1>3, <2>1, MethodCalls DEF TypeInv, TypeOK, DuplicatesAnswer
  <2>2. CASE ProfileAnswer(i) \/ Error(i)
    BY <2>2 DEF TypeInv, TypeOK, ProfileAnswer, Error, others
  <2> QED
    BY <2>1, <2>2
<1>5. profiles' \in Seq(UserIDs)
  <2>1. CASE ProfileAnswer(i)
    BY <1>3, <2>1, ProfileCalls DEF TypeInv, TypeOK, ProfileAnswer
  <2>2. CASE DuplicatesAnswer(i) \/ Error(i)
    BY <2>2 DEF TypeInv, TypeOK, DuplicatesAnswer, Error, others
  <2> QED
    BY <2>1, <2>2
<1>6. Cardinality(QualityCalls') \in Nat /\ Cardinality(QualityCalls) \in Nat
  BY <1>1, FS_CardinalityType DEF TypeInv
<1>7. reports' + Cardinality(QualityCalls') <= MaxCalls
  BY <1>1, <1>2, <1>6, DashboardAssumption DEF TypeInv, TypeOK
<1>8. TypeOK'
  BY <1>1, <1>2, <1>4, <1>5 DEF TypeInv, TypeOK, fields
<1>9. OffsetInv'
  BY <1>2 DEF TypeInv, OffsetInv
<1> QED
  BY <1>1, <1>7, <1>8, <1>9 DEF TypeInv

LEMMA StutterTypes ==
  ASSUME TypeInv, UNCHANGED vars
  PROVE  TypeInv'
<1>1. UNCHANGED inflight
  BY DEF vars
<1>2. QualityCalls' = QualityCalls /\ inflight' \in Seq(Calls)
  BY <1>1, SameCalls
<1>3. TypeOK' /\ OffsetInv' /\ UNCHANGED reports
  BY DEF TypeInv, TypeOK, OffsetInv, vars
<1> QED
  BY <1>2, <1>3 DEF TypeInv

LEMMA TypeStep == TypeInv /\ [Next]_vars => TypeInv'
<1> SUFFICES ASSUME TypeInv, [Next]_vars PROVE TypeInv'
  OBVIOUS
<1>1. CASE User
  BY <1>1, EditTypes, SearchRuns, RunSearchTypes, QualityClickTypes, DuplicatesClickTypes,
     ProfileClickTypes DEF User
<1>2. CASE Answer
  BY <1>2, SearchAnswerTypes, QualityAnswerTypes, OtherAnswerTypes DEF Answer
<1> QED
  BY <1>1, <1>2, StutterTypes DEF Next

\* Whatever is clicked and however calls are answered, the page's variables keep
\* their types; there are never more sets of cards than calls in flight allow.
THEOREM TypeCorrect == Spec => []TypeOK
<1>1. TypeInv => TypeOK
  BY DEF TypeInv
<1> QED
  BY <1>1, TypeInit, TypeStep, PTL DEF Spec

-----------------------------------------------------------------------------
(* Loading indicators. *)

\* A call for t alone in flight, or none.
Alone(t) ==
  \A i, j \in DOMAIN inflight : inflight[i].tab = t /\ inflight[j].tab = t => i = j

\* A step that makes no call for t.
NoNew(t) ==
  \A i \in DOMAIN inflight' :
     inflight'[i].tab = t => \E k \in DOMAIN inflight : inflight[k] = inflight'[i]

\* What a call more means for the tabs.
LEMMA Sends ==
  ASSUME TypeInv, NEW call \in Calls, Send(call)
  PROVE  /\ \A t \in Tabs : Pending(t) \/ t = call.tab => Pending(t)'
         /\ \A t \in Tabs \ {call.tab} : NoNew(t) /\ (Alone(t) => Alone(t)')
         /\ ~Pending(call.tab) =>
               /\ Alone(call.tab)'
               /\ \A k \in DOMAIN inflight' : inflight'[k].tab = call.tab => inflight'[k] = call
<1> DEFINE n == Len(inflight) + 1
<1>1. /\ DOMAIN inflight' = 1 .. n /\ DOMAIN inflight = 1 .. Len(inflight) /\ Len(inflight) \in Nat
      /\ \A k \in DOMAIN inflight : inflight'[k] = inflight[k]
      /\ inflight'[n] = call
  BY Sent DEF TypeInv
<1>2. DOMAIN inflight' = DOMAIN inflight \cup {n} /\ n \notin DOMAIN inflight
  BY <1>1
<1> HIDE DEF n
<1>3. \A t \in Tabs : Pending(t) \/ t = call.tab => Pending(t)'
  BY <1>1, <1>2, Zenon DEF Pending
<1>4. \A t \in Tabs \ {call.tab} : NoNew(t) /\ (Alone(t) => Alone(t)')
  BY <1>1, <1>2, Zenon DEF NoNew, Alone
<1>5. ~Pending(call.tab) =>
         /\ Alone(call.tab)'
         /\ \A k \in DOMAIN inflight' : inflight'[k].tab = call.tab => inflight'[k] = call
  BY <1>1, <1>2, Zenon DEF Pending, Alone
<1> QED
  BY <1>3, <1>4, <1>5

\* What an answer means for them.
LEMMA Settles ==
  ASSUME TypeInv, NEW i \in DOMAIN inflight, Settle(i)
  PROVE  /\ \A t \in Tabs : NoNew(t) /\ (Alone(t) => Alone(t)')
         /\ \A t \in Tabs \ {inflight[i].tab} : Pending(t) => Pending(t)'
         /\ \A t \in Tabs : t = inflight[i].tab /\ Alone(t) => ~Pending(t)'
<1> DEFINE up(k) == IF k < i THEN k ELSE k + 1
<1>1. /\ DOMAIN inflight' = 1 .. Len(inflight) - 1
      /\ \A k \in DOMAIN inflight' : inflight'[k] = inflight[up(k)]
      /\ \A k \in DOMAIN inflight \ {i} : \E j \in DOMAIN inflight' : inflight'[j] = inflight[k]
  BY Settled DEF TypeInv
<1>2. DOMAIN inflight = 1 .. Len(inflight) /\ Len(inflight) \in Nat
  BY DEF TypeInv
<1>3. \A k \in DOMAIN inflight' : up(k) \in DOMAIN inflight /\ up(k) # i
  BY <1>1, <1>2
<1>4. \A j, k \in DOMAIN inflight' : up(j) = up(k) => j = k
  BY <1>1, <1>2
<1> HIDE DEF up
<1>5. \A t \in Tabs : NoNew(t) /\ (Alone(t) => Alone(t)')
  BY <1>1, <1>3, <1>4, Zenon DEF NoNew, Alone
<1>6. \A t \in Tabs \ {inflight[i].tab} : Pending(t) => Pending(t)'
  BY <1>1, Zenon DEF Pending
<1>7. ASSUME NEW t \in Tabs, t = inflight[i].tab, Alone(t)
      PROVE  ~Pending(t)'
  BY <1>1, <1>3, <1>7, Zenon DEF Pending, Alone
<1> QED
  BY <1>5, <1>6, <1>7

\* Every step makes a call, ends one, or leaves them and the indicators alone.
LEMMA Moves ==
  ASSUME TypeInv, [Next]_vars
  PROVE  \/ UNCHANGED <<inflight, loading>>
         \/ \E call \in Calls : Send(call)
         \/ \E i \in DOMAIN inflight : Settle(i)
<1>1. CASE \E offset \in Offsets : RunSearch(offset)
  <2>1. PICK offset \in Offsets : RunSearch(offset)
    BY <1>1
  <2>2. query # Blank => [tab |-> "search", query |-> query, offset |-> offset] \in Calls
    BY DEF TypeInv, TypeOK, Calls
  <2> QED
    BY <2>1, <2>2 DEF RunSearch
<1>2. CASE QualityClick \/ IPClick \/ ExactClick
  <2>1. /\ [tab |-> "quality"] \in Calls
        /\ \A method \in {"ip", "exact"} : [tab |-> "duplicates", method |-> method] \in Calls
    BY DEF Calls
  <2> QED
    BY <1>2, <2>1 DEF QualityClick, IPClick, ExactClick
<1>3. CASE ProfileClick
  <2>1. userID # Blank => [tab |-> "profile", id |-> userID] \in Calls
    BY DEF TypeInv, TypeOK, Calls
  <2> QED
    BY <1>3, <2>1 DEF ProfileClick
<1>4. CASE Answer
  BY <1>4 DEF Answer, SearchAnswer, QualityAnswer, DuplicatesAnswer, ProfileAnswer, Error
<1>5. CASE UNCHANGED vars
  BY <1>5 DEF vars
<1>6. CASE \/ \E q \in Queries \cup {Blank} : EditQuery(q)
           \/ \E id \in UserIDs \cup {Blank} : EditUserID(id)
  BY <1>6 DEF EditQuery, EditUserID
<1> QED
  BY <1>1, <1>2, <1>3, <1>4, <1>5, <1>6, SearchRuns DEF Next, User

LEMMA LoadingStep == TypeInv /\ LoadingEnds /\ [Next]_vars => LoadingEnds'
<1> SUFFICES ASSUME TypeInv, LoadingEnds, [Next]_vars, NEW t \in Tabs, loading'[t]
             PROVE  Pending(t)'
  BY DEF LoadingEnds
<1>1. CASE UNCHANGED <<inflight, loading>>
  BY <1>1 DEF LoadingEnds, Pending
<1>2. CASE \E call \in Calls : Send(call)
  <2>1. PICK call \in Calls : Send(call)
    BY <1>2
  <2>2. loading[t] \/ t = call.tab
    BY <2>1 DEF Send, TypeInv, TypeOK
  <2> QED
    BY <2>1, <2>2, Sends DEF LoadingEnds
<1>3. CASE \E i \in DOMAIN inflight : Settle(i)
  <2>1. PICK i \in DOMAIN inflight : Settle(i)
    BY <1>3
  <2>2. loading[t] /\ t # inflight[i].tab
    BY <2>1 DEF Settle, TypeInv, TypeOK
  <2> QED
    BY <2>1, <2>2, Settles DEF LoadingEnds
<1> QED
  BY <1>1, <1>2, <1>3, Moves

\* However calls are answered, no tab looks busy without a call in flight.
THEOREM NothingLoadsForGood == Spec => []LoadingEnds
<1>1. Init => LoadingEnds
  BY DEF Init, LoadingEnds
<1> QED
  BY <1>1, TypeInit, TypeStep, LoadingStep, PTL DEF Spec

-----------------------------------------------------------------------------
(* Whose step it is. *)

LEMMA SameNoNew ==
  ASSUME TypeInv, UNCHANGED inflight, NEW t \in Tabs
  PROVE  NoNew(t)
  BY DEF NoNew

LEMMA SendsElsewhere ==
  ASSUME TypeInv, NEW call \in Calls, Send(call), NEW t \in Tabs, t # call.tab
  PROVE  NoNew(t)
  BY Sends

\* A step of another tab than t makes no call for t and leaves what t displays
\* alone.  Who was in a hurry is patient again with a click that waits.
LEMMA Elsewhere ==
  ASSUME TypeInv, [Next]_vars
  PROVE  /\ \A t \in rushed \ rushed' :
               /\ ~Pending(t)
               /\ t = "search" => \E offset \in Offsets : RunSearch(offset)
               /\ t = "quality" => QualityClick
               /\ t = "duplicates" => IPClick \/ ExactClick
               /\ t = "profile" => ProfileClick
         /\ \/ \E offset \in Offsets : RunSearch(offset)
            \/ \E i \in DOMAIN inflight : SearchAnswer(i)
            \/ UNCHANGED search /\ NoNew("search")
         /\ \/ QualityClick
            \/ \E i \in DOMAIN inflight : QualityAnswer(i)
            \/ UNCHANGED reports /\ NoNew("quality")
         /\ \/ IPClick \/ ExactClick
            \/ \E i \in DOMAIN inflight : DuplicatesAnswer(i)
            \/ UNCHANGED <<table, chart>> /\ NoNew("duplicates")
         /\ \/ ProfileClick
            \/ \E i \in DOMAIN inflight : ProfileAnswer(i)
            \/ UNCHANGED profiles /\ NoNew("profile")
<1> USE DEF Tabs
<1>1. CASE \E offset \in Offsets : RunSearch(offset)
  <2>1. PICK offset \in Offsets : RunSearch(offset)
    BY <1>1
  <2>2. ASSUME NEW t \in Tabs, t # "search"
        PROVE  NoNew(t)
    <3>1. CASE query = Blank
      BY <2>1, <2>2, <3>1, SameNoNew DEF RunSearch
    <3>2. CASE query # Blank
      <4> DEFINE call == [tab |-> "search", query |-> query, offset |-> offset]
      <4>1. call \in Calls /\ call.tab = "search"
        BY <3>2 DEF TypeInv, TypeOK, Calls
      <4>2. Send(call)
        BY <2>1, <3>2 DEF RunSearch
      <4> HIDE DEF call
      <4> QED
        BY <2>2, <4>1, <4>2, SendsElsewhere
    <3> QED
      BY <3>1, <3>2
  <2> QED
    BY <2>1, <2>2 DEF RunSearch, Use, others
<1>2. CASE QualityClick
  <2>1. /\ [tab |-> "quality"] \in Calls /\ [tab |-> "quality"].tab = "quality"
        /\ Send([tab |-> "quality"])
    BY <1>2 DEF QualityClick, Calls
  <2>2. NoNew("search") /\ NoNew("duplicates") /\ NoNew("profile")
    BY <2>1, SendsElsewhere
  <2> QED
    BY <1>2, <2>2 DEF QualityClick, Use
<1>3. CASE IPClick \/ ExactClick
  <2>1. PICK method \in {"ip", "exact"} : Send([tab |-> "duplicates", method |-> method])
    BY <1>3 DEF IPClick, ExactClick
  <2>2. /\ [tab |-> "duplicates", method |-> method] \in Calls
        /\ [tab |-> "duplicates", method |-> method].tab = "duplicates"
    BY DEF Calls
  <2>3. NoNew("search") /\ NoNew("quality") /\ NoNew("profile")
    BY <2>1, <2>2, SendsElsewhere
  <2> QED
    BY <1>3, <2>3 DEF IPClick, ExactClick, Use
<1>4. CASE ProfileClick
  <2>1. ASSUME NEW t \in Tabs, t # "profile"
        PROVE  NoNew(t)
    <3>1. CASE userID = Blank
      BY <1>4, <2>1, <3>1, SameNoNew DEF ProfileClick
    <3>2. CASE userID # Blank
      <4> DEFINE call == [tab |-> "profile", id |-> userID]
      <4>1. call \in Calls /\ call.tab = "profile"
        BY <3>2 DEF TypeInv, TypeOK, Calls
      <4>2. Send(call)
        BY <1>4, <3>2 DEF ProfileClick
      <4> HIDE DEF call
      <4> QED
        BY <2>1, <4>1, <4>2, SendsElsewhere
    <3> QED
      BY <3>1, <3>2
  <2> QED
    BY <1>4, <2>1 DEF ProfileClick, Use
<1>5. CASE Answer
  <2>1. PICK i \in DOMAIN inflight :
           /\ Settle(i)
           /\ \/ SearchAnswer(i) \/ QualityAnswer(i) \/ DuplicatesAnswer(i) \/ ProfileAnswer(i) \/ Error(i)
    BY <1>5 DEF Answer, SearchAnswer, QualityAnswer, DuplicatesAnswer, ProfileAnswer, Error
  <2>2. \A t \in Tabs : NoNew(t)
    BY <2>1, Settles
  <2>3. UNCHANGED <<rushed, searchOffset>>
    BY <2>1 DEF Settle
  <2> QED
    BY <2>1, <2>2, <2>3
       DEF SearchAnswer, QualityAnswer, DuplicatesAnswer, ProfileAnswer, Error, search, others
<1>6. CASE \/ \E q \in Queries \cup {Blank} : EditQuery(q)
           \/ \E id \in UserIDs \cup {Blank} : EditUserID(id)
  BY <1>6, SameNoNew DEF EditQuery, EditUserID, others
<1>7. CASE UNCHANGED vars
  BY <1>7, SameNoNew DEF vars, search
<1> QED
  BY <1>1, <1>2, <1>3, <1>4, <1>5, <1>6, <1>7, SearchRuns DEF Next, User

-----------------------------------------------------------------------------
(* The pager. *)

PagerInv ==
  shown => pager.first = searchOffset + 1 /\ (pager.prev <=> searchOffset # 0)

LEMMA PagerStep == TypeInv /\ PagerInv /\ [Next]_vars => PagerInv'
<1> SUFFICES ASSUME TypeInv, PagerInv, [Next]_vars PROVE PagerInv'
  OBVIOUS
<1>1. CASE \E offset \in Offsets : RunSearch(offset)
  BY <1>1 DEF PagerInv, RunSearch
<1>2. CASE \E i \in DOMAIN inflight : SearchAnswer(i)
  <2>1. PICK i \in DOMAIN inflight : SearchAnswer(i)
    BY <1>2
  <2>2. searchOffset' = searchOffset
    BY <2>1 DEF SearchAnswer, Settle
  <2>3. CASE UNCHANGED <<shown, pager>>
    BY <2>2, <2>3 DEF PagerInv
  <2>4. ASSUME NEW n, NEW total, pager' = [first |-> searchOffset + 1, last |-> searchOffset + n,
                                prev |-> searchOffset # 0,
                                next |-> searchOffset + PageSize < total]
        PROVE  PagerInv'
    <3>1. pager'.first = searchOffset + 1
      BY <2>4
    <3>2. pager'.prev <=> searchOffset # 0
      BY <2>4, Zenon
    <3> QED
      BY <2>2, <3>1, <3>2 DEF PagerInv
  <2>5. PICK found : Displays(found)
    BY <2>1, SearchAnswers
  <2> QED
    BY <2>3, <2>4, <2>5 DEF Displays
<1>3. CASE UNCHANGED search
  BY <1>3 DEF PagerInv, search
<1> QED
  BY <1>1, <1>2, <1>3, Elsewhere

\* However clicks and answers interleave, the displayed pager fits the offset
\* from which its buttons go on, and that offset is of a page there was.
THEOREM PagerAlwaysFits == Spec => []PagerFitsOffset
<1>1. Init => PagerInv
  BY DEF Init, PagerInv
<1>2. TypeInv /\ PagerInv => PagerFitsOffset
  BY DEF TypeInv, OffsetInv, PagerInv, PagerFitsOffset
<1> QED
  BY <1>1, <1>2, TypeInit, TypeStep, PagerStep, PTL DEF Spec

-----------------------------------------------------------------------------
(* The user who waits. *)

\* Nobody who waits in a tab has two of its calls in flight.
AloneInv == \A t \in Tabs \ rushed : Alone(t)

\* Clicking in a tab that waits for nothing makes the tab's only call.
LEMMA Click ==
  ASSUME TypeInv, NEW call \in Calls, Send(call), Use(call.tab), call.tab \notin rushed'
  PROVE  /\ Alone(call.tab)'
         /\ \A k \in DOMAIN inflight' : inflight'[k].tab = call.tab => inflight'[k] = call
<1>1. ~Pending(call.tab)
  BY CallTabs DEF Use
<1> QED
  BY <1>1, Sends

LEMMA AloneStep == TypeInv /\ AloneInv /\ [Next]_vars => AloneInv'
<1> SUFFICES ASSUME TypeInv, AloneInv, [Next]_vars, NEW t \in Tabs, t \notin rushed'
             PROVE  Alone(t)'
  BY DEF AloneInv, Tabs
<1>1. Alone(t)
  <2>1. CASE t \notin rushed
    BY <2>1 DEF AloneInv
  <2>2. CASE t \in rushed
    <3>1. ~Pending(t)
      BY <2>2, Elsewhere
    <3> QED
      BY <3>1 DEF Pending, Alone
  <2> QED
    BY <2>1, <2>2
<1>2. CASE UNCHANGED inflight
  BY <1>1, <1>2 DEF Alone
<1>3. CASE \E call \in Calls : Send(call) /\ Use(call.tab)
  <2>1. PICK call \in Calls : Send(call) /\ Use(call.tab)
    BY <1>3
  <2>2. CASE t = call.tab
    BY <2>1, <2>2, Click
  <2>3. CASE t # call.tab
    BY <1>1, <2>1, <2>3, Sends
  <2> QED
    BY <2>2, <2>3
<1>4. CASE \E i \in DOMAIN inflight : Settle(i)
  BY <1>1, <1>4, Settles
<1>5. ASSUME NEW offset \in Offsets, RunSearch(offset)
      PROVE  UNCHANGED inflight \/ \E call \in Calls : Send(call) /\ Use(call.tab)
  <2> DEFINE call == [tab |-> "search", query |-> query, offset |-> offset]
  <2>1. query # Blank => call \in Calls
    BY DEF TypeInv, TypeOK, Calls
  <2>2. call.tab = "search" /\ (query = Blank => UNCHANGED inflight)
        /\ (query # Blank => Send(call)) /\ Use("search")
    BY <1>5 DEF RunSearch
  <2> HIDE DEF call
  <2> QED
    BY <2>1, <2>2
<1>6. ASSUME QualityClick \/ IPClick \/ ExactClick
      PROVE  \E call \in Calls : Send(call) /\ Use(call.tab)
  <2> DEFINE duplicates(method) == [tab |-> "duplicates", method |-> method]
  <2>1. /\ [tab |-> "quality"] \in Calls /\ [tab |-> "quality"].tab = "quality"
        /\ \A method \in {"ip", "exact"} :
              duplicates(method) \in Calls /\ duplicates(method).tab = "duplicates"
    BY DEF Calls
  <2>2. CASE QualityClick
    BY <2>1, <2>2 DEF QualityClick
  <2>3. CASE IPClick \/ ExactClick
    <3>1. PICK method \in {"ip", "exact"} : Send(duplicates(method)) /\ Use("duplicates")
      BY <2>3 DEF IPClick, ExactClick
    <3> HIDE DEF duplicates
    <3> QED
      BY <2>1, <3>1
  <2> QED
    BY <1>6, <2>2, <2>3
<1>7. ASSUME ProfileClick
      PROVE  UNCHANGED inflight \/ \E call \in Calls : Send(call) /\ Use(call.tab)
  <2> DEFINE call == [tab |-> "profile", id |-> userID]
  <2>1. userID # Blank => call \in Calls
    BY DEF TypeInv, TypeOK, Calls
  <2>2. call.tab = "profile" /\ (userID = Blank => UNCHANGED inflight)
        /\ (userID # Blank => Send(call)) /\ Use("profile")
    BY <1>7 DEF ProfileClick
  <2> HIDE DEF call
  <2> QED
    BY <2>1, <2>2
<1>8. ASSUME Answer PROVE \E i \in DOMAIN inflight : Settle(i)
  BY <1>8 DEF Answer, SearchAnswer, QualityAnswer, DuplicatesAnswer, ProfileAnswer, Error
<1>9. \/ \E q \in Queries \cup {Blank} : EditQuery(q)
      \/ \E id \in UserIDs \cup {Blank} : EditUserID(id)
      \/ UNCHANGED vars
      => UNCHANGED inflight
  BY DEF EditQuery, EditUserID, vars
<1>10. CASE User
  <2>1. CASE SearchClick \/ PrevClick \/ NextClick
    <3>1. PICK offset \in Offsets : RunSearch(offset)
      BY <2>1, SearchRuns
    <3> QED
      BY <1>2, <1>3, <1>5, <3>1
  <2> QED
    BY <1>2, <1>3, <1>6, <1>7, <1>9, <1>10, <2>1 DEF User
<1> QED
  BY <1>2, <1>4, <1>8, <1>9, <1>10 DEF Next

\* The call in flight of a patient search is for the offset the page is at, and
\* nothing is displayed until it is answered.
PageInv ==
  "search" \notin rushed =>
     /\ \A i \in DOMAIN inflight :
           inflight[i].tab = "search" => inflight[i].offset = searchOffset /\ ~shown
     /\ shown => /\ rows.count # 0
                 /\ pager.first = searchOffset + 1 /\ pager.last = searchOffset + rows.count
                 /\ rows.first = IF rows.paged THEN searchOffset + 1 ELSE 1

LEMMA PageStep == TypeInv /\ AloneInv /\ PageInv /\ [Next]_vars => PageInv'
<1> SUFFICES ASSUME TypeInv, AloneInv, PageInv, [Next]_vars, "search" \notin rushed'
             PROVE  PageInv'
  BY DEF PageInv
<1>1. "search" \in rushed => \E offset \in Offsets : RunSearch(offset)
  BY Elsewhere
<1>2. CASE \E offset \in Offsets : RunSearch(offset)
  <2>1. PICK offset \in Offsets : RunSearch(offset)
    BY <1>2
  <2>2. CASE query = Blank
    <3>1. ~Pending("search") /\ UNCHANGED inflight /\ ~shown'
      BY <1>1, <2>1, <2>2 DEF RunSearch, Use
    <3> QED
      BY <3>1 DEF PageInv, Pending
  <2>3. CASE query # Blank
    <3> DEFINE call == [tab |-> "search", query |-> query, offset |-> offset]
    <3>1. call \in Calls /\ call.tab = "search" /\ call.offset = offset
      BY <2>3 DEF TypeInv, TypeOK, Calls
    <3>2. Send(call) /\ Use("search") /\ searchOffset' = offset /\ ~shown'
      BY <2>1, <2>3 DEF RunSearch
    <3> HIDE DEF call
    <3>3. \A k \in DOMAIN inflight' : inflight'[k].tab = "search" => inflight'[k] = call
      BY <3>1, <3>2, Click
    <3> QED
      BY <3>1, <3>2, <3>3 DEF PageInv
  <2> QED
    BY <2>2, <2>3
<1>3. CASE "search" \notin rushed /\ \E i \in DOMAIN inflight : SearchAnswer(i)
  <2>1. PICK i \in DOMAIN inflight : SearchAnswer(i)
    BY <1>3
  <2>2. /\ inflight[i].tab = "search" /\ inflight[i].offset = searchOffset /\ ~shown
        /\ searchOffset' = searchOffset /\ Settle(i) /\ inflight[i] \in Calls
    BY <1>3, <2>1 DEF SearchAnswer, Settle, PageInv, TypeInv, TypeOK
  <2>3. \A k \in DOMAIN inflight' : inflight'[k].tab # "search"
    <3>1. Alone("search") /\ "search" \in Tabs
      BY <1>3 DEF AloneInv, Tabs
    <3> QED
      BY <2>2, <3>1, Settles DEF Pending
  <2>4. PICK found \in Found(inflight[i]) : Displays(found)
    BY <2>1, SearchAnswers
  <2>5. CASE found.count = 0
    BY <2>2, <2>3, <2>4, <2>5 DEF Displays, PageInv
  <2>6. CASE found.count # 0
    <3> DEFINE n == found.count
    <3>1. /\ rows' = [first |-> found.first, count |-> n, paged |-> found.paged]
          /\ pager' = [first |-> searchOffset + 1, last |-> searchOffset + n,
                       prev |-> searchOffset # 0,
                       next |-> searchOffset + PageSize < found.total]
      BY <2>4, <2>6 DEF Displays
    <3>2. /\ found.paged \in BOOLEAN
          /\ found.paged => found.first = searchOffset + 1
          /\ ~found.paged => found.first = 1
      BY <2>2, FoundFit
    <3>3. rows'.count = n /\ rows'.first = found.first /\ rows'.paged = found.paged
      BY <3>1
    <3>4. pager'.first = searchOffset + 1 /\ pager'.last = searchOffset + n
      BY <3>1
    <3> HIDE DEF n
    <3>5. rows'.first = IF rows'.paged THEN searchOffset + 1 ELSE 1
      BY <3>2, <3>3
    <3>6. n # 0
      BY <2>6 DEF n
    <3> QED
      BY <2>2, <2>3, <3>3, <3>4, <3>5, <3>6 DEF PageInv
  <2> QED
    BY <2>5, <2>6
<1>4. CASE "search" \notin rushed /\ UNCHANGED search /\ NoNew("search")
  BY <1>4 DEF PageInv, NoNew, search
<1> QED
  BY <1>1, <1>2, <1>3, <1>4, Elsewhere

\* However many times who waits for each answer searches and turns pages, and
\* whatever other tabs do meanwhile or were done to this one before, the rows of a
\* page are those its label announces, and so is the match of a user_id unless the
\* page was turned to get there.
THEOREM PatientUserIsServed == Spec => []PatientUserSeesPage
<1>1. Init => AloneInv /\ PageInv
  BY DEF Init, AloneInv, Alone, PageInv
<1>2. TypeInv /\ PageInv => PatientUserSeesPage
  <2> SUFFICES ASSUME TypeInv, PageInv, "search" \notin rushed, shown,
                      rows.paged \/ searchOffset = 0
               PROVE  /\ rows.count # 0
                      /\ pager.first = rows.first /\ pager.last = rows.first + rows.count - 1
    BY DEF PatientUserSeesPage
  <2>1. searchOffset \in Nat /\ rows.count \in Nat
    BY OffsetsAreNumbers, DashboardAssumption DEF TypeInv, TypeOK
  <2>2. /\ rows.count # 0
        /\ pager.first = searchOffset + 1 /\ pager.last = searchOffset + rows.count
        /\ rows.first = IF rows.paged THEN searchOffset + 1 ELSE 1
    BY DEF PageInv
  <2>3. rows.first = searchOffset + 1
    BY <2>1, <2>2
  <2> QED
    BY <2>1, <2>2, <2>3
<1> QED
  BY <1>1, <1>2, TypeInit, TypeStep, AloneStep, PageStep, PTL DEF Spec

\* Nothing is displayed beside a call of a patient user that clears it.
AnswerInv ==
  /\ "quality" \notin rushed => reports <= 1 /\ (Pending("quality") => reports = 0)
  /\ "profile" \notin rushed =>
        Len(profiles) <= 1 /\ (Pending("profile") => profiles = <<>>)

LEMMA NoneNew ==
  ASSUME NEW t, NoNew(t), Pending(t)'
  PROVE  Pending(t)
  BY DEF NoNew, Pending

LEMMA AnswerStep == TypeInv /\ AloneInv /\ AnswerInv /\ [Next]_vars => AnswerInv'
<1> SUFFICES ASSUME TypeInv, AloneInv, AnswerInv, [Next]_vars PROVE AnswerInv'
  OBVIOUS
<1>1. ASSUME NEW t \in Tabs, t \notin rushed, NEW i \in DOMAIN inflight,
             inflight[i].tab = t, Settle(i)
      PROVE  ~Pending(t)'
  BY <1>1, Settles DEF AloneInv
<1>2. ASSUME "quality" \notin rushed'
      PROVE  (reports <= 1)' /\ (Pending("quality") => reports = 0)'
  <2>1. ("quality" \in rushed => QualityClick) /\ "quality" \in Tabs
    BY <1>2, Elsewhere DEF Tabs
  <2>2. CASE QualityClick
    BY <2>2 DEF QualityClick
  <2>3. CASE "quality" \notin rushed /\ \E i \in DOMAIN inflight : QualityAnswer(i)
    <3>1. PICK i \in DOMAIN inflight : QualityAnswer(i)
      BY <2>3
    <3>2. Pending("quality") /\ reports' = reports + 1 /\ ~Pending("quality")'
      BY <1>1, <2>1, <2>3, <3>1 DEF QualityAnswer, Pending
    <3> QED
      BY <2>3, <3>2 DEF AnswerInv
  <2>4. CASE "quality" \notin rushed /\ UNCHANGED reports /\ NoNew("quality")
    BY <2>1, <2>4, NoneNew DEF AnswerInv
  <2> QED
    BY <2>1, <2>2, <2>3, <2>4, Elsewhere
<1>3. ASSUME "profile" \notin rushed'
      PROVE  (Len(profiles) <= 1)' /\ (Pending("profile") => profiles = <<>>)'
  <2>1. ("profile" \in rushed => ProfileClick) /\ "profile" \in Tabs
    BY <1>3, Elsewhere DEF Tabs
  <2>2. CASE ProfileClick
    BY <2>2 DEF ProfileClick
  <2>3. CASE "profile" \notin rushed /\ \E i \in DOMAIN inflight : ProfileAnswer(i)
    <3>1. PICK i \in DOMAIN inflight : ProfileAnswer(i)
      BY <2>3
    <3>2. /\ Pending("profile") /\ ~Pending("profile")'
          /\ profiles' = Append(profiles, inflight[i].id)
      BY <1>1, <2>1, <2>3, <3>1 DEF ProfileAnswer, Pending
    <3>3. profiles = <<>>
      BY <2>3, <3>2 DEF AnswerInv
    <3> QED
      BY <3>2, <3>3
  <2>4. CASE "profile" \notin rushed /\ UNCHANGED profiles /\ NoNew("profile")
    BY <2>1, <2>4, NoneNew DEF AnswerInv
  <2> QED
    BY <2>1, <2>2, <2>3, <2>4, Elsewhere
<1> QED
  BY <1>2, <1>3 DEF AnswerInv

\* A patient user's call for duplicates has the table hidden, one for exact
\* pairs the chart removed.
ChartInv ==
  "duplicates" \notin rushed =>
     /\ table = "exact" => ~chart
     /\ \A i \in DOMAIN inflight :
           inflight[i].tab = "duplicates" =>
              table = "hidden" /\ (inflight[i].method = "exact" => ~chart)

LEMMA ChartStep == TypeInv /\ AloneInv /\ ChartInv /\ [Next]_vars => ChartInv'
<1> SUFFICES ASSUME TypeInv, AloneInv, ChartInv, [Next]_vars, "duplicates" \notin rushed'
             PROVE  ChartInv'
  BY DEF ChartInv
<1>1. ("duplicates" \in rushed => IPClick \/ ExactClick) /\ "duplicates" \in Tabs
  BY Elsewhere DEF Tabs
<1>2. CASE IPClick
  <2> DEFINE call == [tab |-> "duplicates", method |-> "ip"]
  <2>1. call \in Calls /\ call.tab = "duplicates" /\ call.method = "ip"
    BY DEF Calls
  <2>2. Send(call) /\ Use("duplicates") /\ table' = "hidden"
    BY <1>2 DEF IPClick
  <2> HIDE DEF call
  <2>3. \A k \in DOMAIN inflight' : inflight'[k].tab = "duplicates" => inflight'[k] = call
    BY <2>1, <2>2, Click
  <2> QED
    BY <2>1, <2>2, <2>3 DEF ChartInv
<1>3. CASE ExactClick
  BY <1>3 DEF ExactClick, ChartInv
<1>4. CASE "duplicates" \notin rushed /\ \E i \in DOMAIN inflight : DuplicatesAnswer(i)
  <2>1. PICK i \in DOMAIN inflight : DuplicatesAnswer(i)
    BY <1>4
  <2>2. /\ inflight[i].tab = "duplicates" /\ table' = inflight[i].method
        /\ inflight[i].method # "ip" => chart' = chart
        /\ Settle(i)
    BY <2>1 DEF DuplicatesAnswer
  <2>3. \A k \in DOMAIN inflight' : inflight'[k].tab # "duplicates"
    BY <1>1, <1>4, <2>2, Settles DEF AloneInv, Pending
  <2>4. inflight[i].method = "exact" => ~chart
    BY <1>1, <1>4, <2>2 DEF ChartInv
  <2> QED
    BY <2>2, <2>3, <2>4 DEF ChartInv
<1>5. CASE "duplicates" \notin rushed /\ UNCHANGED <<table, chart>> /\ NoNew("duplicates")
  BY <1>1, <1>5 DEF ChartInv, NoNew
<1> QED
  BY <1>1, <1>2, <1>3, <1>4, <1>5, Elsewhere

\* Who waits for each answer never sees two reports or two profiles at once,
\* nor the chart of the IP groups beside the exact pairs.
THEOREM PatientUserIsAnsweredOnce == Spec => []PatientUserSeesOneAnswer
<1>1. Init => AloneInv /\ AnswerInv /\ ChartInv
  BY DEF Init, AloneInv, Alone, AnswerInv, ChartInv, Pending
<1>2. AnswerInv /\ ChartInv => PatientUserSeesOneAnswer
  BY DEF AnswerInv, ChartInv, PatientUserSeesOneAnswer
<1> QED
  BY <1>1, <1>2, TypeInit, TypeStep, AloneStep, AnswerStep, ChartStep, PTL DEF Spec
=============================================================================
