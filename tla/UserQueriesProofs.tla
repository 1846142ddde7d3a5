--------------------------- MODULE UserQueriesProofs ---------------------------
(***************************************************************************)
(* Proofs about UserQueries, for integers of any width, any limits and any *)
(* number of users and changes.                                            *)
(***************************************************************************)
EXTENDS UserQueries, FiniteSetTheorems, WellFoundedInduction, TLAPS

-----------------------------------------------------------------------------
(* Integers. *)

LEMMA Numbers ==
  /\ IntLimit \in Nat \ {0} /\ MaxLimit \in Nat \ {0} /\ MaxLimit < IntLimit
  /\ DefaultUsers \in 1 .. MaxLimit /\ DefaultSearch \in 1 .. MaxLimit
  BY PagingAssumption

LEMMA AtoiType == ASSUME NEW n \in Int PROVE Atoi(n) \in Ints
  BY Numbers DEF Atoi, Ints

\* A product is an int again, and itself unless it is too large.
LEMMA WrappedIs ==
  ASSUME NEW n \in Int
  PROVE  Wrapped(n) \in Ints /\ (n \in Ints => Wrapped(n) = n)
<1>1. IntLimit \in Nat \ {0}
  BY Numbers
<1>2. 2 * IntLimit \in Nat \ {0} /\ n + IntLimit \in Int
  BY <1>1
<1>3. (n + IntLimit) % (2 * IntLimit) \in 0 .. 2 * IntLimit - 1
  BY <1>2
<1>4. \A a \in Int, b \in Nat \ {0} : 0 <= a /\ a < b => a % b = a
  OBVIOUS
<1>5. n \in Ints => (n + IntLimit) % (2 * IntLimit) = n + IntLimit
  BY <1>1, <1>2, <1>4 DEF Ints
<1> QED
  BY <1>1, <1>3, <1>5 DEF Wrapped, Ints

LEMMA LimitTypes ==
  ASSUME NEW limit \in Int
  PROVE  UsersLimit(limit) \in 1 .. MaxLimit /\ SearchLimit(limit) \in 1 .. MaxLimit
  BY Numbers DEF UsersLimit, SearchLimit

LEMMA IntsAre == Ints \subseteq Int /\ \A n \in Ints : n < IntLimit /\ -IntLimit <= n
  BY Numbers DEF Ints

\* Whatever a request asks for, the window it gets is legal.
LEMMA Windows ==
  ASSUME NEW next \in Int, NEW limit \in Int
  PROVE  /\ UsersWindow(next, limit).skip \in 0 .. IntLimit - 1
         /\ UsersWindow(next, limit).rows \in 1 .. MaxLimit
         /\ SearchWindow(next, limit).skip \in 0 .. IntLimit - 1
         /\ SearchWindow(next, limit).rows \in 1 .. MaxLimit
         /\ LET exact == (next - 1) * UsersWindow(next, limit).rows
            IN  next \in 1 .. IntLimit - 1 /\ exact < IntLimit =>
                    UsersWindow(next, limit).skip = exact
<1> DEFINE page == Atoi(next)
           rows == UsersLimit(Atoi(limit))
           exact == (next - 1) * rows
<1>1. page \in Int /\ page < IntLimit /\ Atoi(limit) \in Int
  BY AtoiType, IntsAre
<1>2. rows \in 1 .. MaxLimit /\ SearchLimit(Atoi(limit)) \in 1 .. MaxLimit
  BY <1>1, LimitTypes
<1>3. /\ UsersWindow(next, limit).rows = rows
      /\ UsersWindow(next, limit).skip = Skipped(UsersOffset(page, Atoi(limit)))
      /\ SearchWindow(next, limit).rows = SearchLimit(Atoi(limit))
      /\ SearchWindow(next, limit).skip = SearchOffset(page)
  BY DEF UsersWindow, SearchWindow
<1>4. UsersOffset(page, Atoi(limit)) = Wrapped((PageOf(page) - 1) * rows)
  BY DEF UsersOffset
<1>5. next \in 1 .. IntLimit - 1 => page = next /\ PageOf(page) = next
  BY Numbers DEF Atoi, PageOf
<1> HIDE DEF page, rows
<1>6. PageOf(page) - 1 \in Int /\ PageOf(page) - 1 >= 0
  BY <1>1 DEF PageOf
<1>7. (PageOf(page) - 1) * rows \in Int
  BY <1>2, <1>6, Numbers
<1>8. Wrapped((PageOf(page) - 1) * rows) \in Ints
  BY <1>7, WrappedIs
<1>9. UsersWindow(next, limit).skip \in 0 .. IntLimit - 1
  BY <1>3, <1>4, <1>8, Numbers DEF Skipped, Ints
<1>10. SearchWindow(next, limit).skip \in 0 .. IntLimit - 1
  BY <1>1, <1>3, Numbers DEF SearchOffset
<1>11. ASSUME next \in 1 .. IntLimit - 1, exact < IntLimit
       PROVE  UsersWindow(next, limit).skip = exact
  <2>1. exact \in Int /\ exact >= 0
    <3>1. next - 1 \in Nat /\ rows \in Nat
      BY <1>2, <1>11, Numbers
    <3> QED
      BY <3>1
  <2>2. exact \in Ints
    BY <1>11, <2>1, Numbers DEF Ints
  <2> HIDE DEF exact
  <2>3. Wrapped(exact) = exact
    BY <2>1, <2>2, WrappedIs
  <2>4. UsersWindow(next, limit).skip = Skipped(exact)
    BY <1>3, <1>4, <1>5, <1>11, <2>3 DEF exact
  <2> QED
    BY <2>1, <2>4 DEF Skipped
<1> QED
  BY <1>2, <1>3, <1>9, <1>10, <1>11

-----------------------------------------------------------------------------
(* Types. *)

WalkType ==
  [at : {"nowhere", "asked", "ended", "answered"}, alone : BOOLEAN, kind : Kinds,
   limit : Asked \cup {0}, next : Int, total : 0 .. Cardinality(Ids), skip : Nat,
   page : Seq(Ids), served : Seq(Ids), first : Nat, last : Nat, counted : Nat, back : BOOLEAN]

UserTables == Tables(Ids, 0 .. MaxRank)

TypeInv == TypeOK /\ walk \in WalkType /\ contents \in Seq(UserTables)

LEMMA ContentsAre ==
  ASSUME TypeInv
  PROVE  /\ now \in Nat /\ 1 <= now /\ users \in Tables(Ids, 0 .. MaxRank)
         /\ \A i \in 1 .. now : contents[i] \in Tables(Ids, 0 .. MaxRank)
<1>1. now \in 1 .. MaxWrites + 1 /\ \A i \in 1 .. now : contents[i] \in Tables(Ids, 0 .. MaxRank)
  BY DEF TypeInv, TypeOK
<1>2. now \in Nat /\ 1 <= now
  BY <1>1, UserQueriesAssumption
<1> QED
  BY <1>1, <1>2 DEF users

LEMMA IdsFinite == IsFiniteSet(Ids) /\ Cardinality(Ids) \in Nat
  BY UserQueriesAssumption, FS_CardinalityType

LEMMA MatchesAre ==
  ASSUME NEW kind, NEW table \in Tables(Ids, 0 .. MaxRank)
  PROVE  /\ Matches(kind, table) \subseteq Ids /\ IsFiniteSet(Matches(kind, table))
         /\ Cardinality(Matches(kind, table)) \in 0 .. Cardinality(Ids)
<1>1. Matches(kind, table) \subseteq Ids
  BY DEF Matches, Tables
<1>2. /\ IsFiniteSet(Matches(kind, table))
      /\ Cardinality(Matches(kind, table)) <= Cardinality(Ids)
  BY <1>1, IdsFinite, FS_Subset
<1> QED
  BY <1>1, <1>2, IdsFinite, FS_CardinalityType

LEMMA AskedAre == Asked \cup {0} \subseteq Int
  BY Numbers DEF Asked

LEMMA WindowTypes ==
  ASSUME TypeInv
  PROVE  /\ Window.skip \in 0 .. IntLimit - 1 /\ Window.rows \in 1 .. MaxLimit
         /\ LET exact == (walk.next - 1) * Window.rows
            IN  walk.kind = "users" /\ walk.next \in 1 .. IntLimit - 1 /\ exact < IntLimit =>
                    Window.skip = exact
<1>1. walk.next \in Int /\ walk.limit \in Int
  BY AskedAre DEF TypeInv, WalkType
<1>2. CASE walk.kind = "users"
  <2>1. Window = UsersWindow(walk.next, walk.limit)
    BY <1>2 DEF Window
  <2> QED
    BY <1>1, <2>1, Windows
<1>3. CASE walk.kind # "users"
  <2>1. Window = SearchWindow(walk.next, walk.limit)
    BY <1>3 DEF Window
  <2> QED
    BY <1>1, <1>3, <2>1, Windows
<1> QED
  BY <1>2, <1>3

LEMMA TwoMin ==
  ASSUME NEW a \in Nat, NEW b \in Nat
  PROVE  Min({a, b}) = IF a <= b THEN a ELSE b
  BY DEF Min

LEMMA PageTypes ==
  ASSUME NEW kind, NEW table \in Tables(Ids, 0 .. MaxRank), NEW window,
         window.skip \in Nat, window.rows \in Nat,
         NEW page \in Pages(kind, table, window)
  PROVE  page \in Seq(Ids)
<1> DEFINE rows == Matches(kind, table)
<1>1. PICK s \in SetToSeqs(rows) :
         page = SubSeq(s, window.skip + 1, Min({window.skip + window.rows, Len(s)}))
  BY DEF Pages
<1>2. rows \subseteq Ids /\ Cardinality(rows) \in Nat
  BY MatchesAre, IdsFinite
<1> HIDE DEF rows
<1>3. s \in [1 .. Cardinality(rows) -> rows]
  BY DEF SetToSeqs
<1>4. s \in Seq(Ids) /\ Len(s) \in Nat
  BY <1>2, <1>3
<1>5. window.skip + window.rows \in Nat
  OBVIOUS
<1> DEFINE last == Min({window.skip + window.rows, Len(s)})
<1>6. last \in Nat /\ last <= Len(s)
  BY <1>4, <1>5, TwoMin
<1> HIDE DEF last
<1>7. SubSeq(s, window.skip + 1, last) \in Seq(Ids)
  BY <1>4, <1>6
<1> QED
  BY <1>1, <1>7 DEF last

LEMMA NoWalkType == NoWalk \in WalkType
<1>1. 0 \in 0 .. Cardinality(Ids)
  BY IdsFinite
<1> QED
  BY <1>1 DEF NoWalk, WalkType, Kinds

\* Walks of the types above keep what TypeOK says of them.
LEMMA WalkTypes ==
  ASSUME NEW w \in WalkType
  PROVE  /\ w.at \in {"nowhere", "asked", "ended", "answered"} /\ w.kind \in Kinds
         /\ w.alone \in BOOLEAN /\ w.limit \in Asked \cup {0}
         /\ w.total \in 0 .. Cardinality(Ids) /\ w.skip \in Nat /\ w.next \in Int
         /\ Range(w.page) \subseteq Ids /\ Range(w.served) \subseteq Ids
         /\ w.back \in BOOLEAN
<1>1. w.page \in Seq(Ids) /\ w.served \in Seq(Ids)
  BY DEF WalkType
<1>2. \A q \in Seq(Ids) : Range(q) \subseteq Ids
  BY DEF Range
<1> QED
  BY <1>1, <1>2 DEF WalkType

\* Kept by steps that leave the walk alone, and by those that leave the tables.
TablesOK ==
  /\ contents \in Seq(UserTables) /\ Len(contents) \in 1 .. MaxWrites + 1
  /\ orders \in Tables(OrderIds, Ids)
  /\ txs \in Tables(TransactionIds, [order : OrderIds, amount : 1 .. MaxAmount])
  /\ acts \in Tables(ActivityIds, [user : Ids, time : 1 .. MaxTime])

WalkOK ==
  /\ walk \in WalkType /\ (~walk.alone => walk.next >= 0)
  /\ {walk.first, walk.last, walk.counted} \subseteq 0 .. Len(contents)

LEMMA TypeParts ==
  /\ TypeInv => TablesOK /\ WalkOK
  /\ TablesOK /\ WalkOK => TypeInv
  /\ TablesOK' /\ WalkOK' => TypeInv'
<1>1. TypeInv => TablesOK /\ WalkOK
  BY DEF TypeInv, TypeOK, TablesOK, WalkOK, now
<1>2. TablesOK /\ WalkOK => TypeInv
  <2>1. contents \in Seq(UserTables) => \A i \in 1 .. now : contents[i] \in UserTables
    BY DEF now
  <2> QED
    BY <2>1, WalkTypes DEF TypeInv, TypeOK, TablesOK, WalkOK, now, UserTables
<1>3. TablesOK' /\ WalkOK' => TypeInv'
  <2>1. contents' \in Seq(UserTables) => \A i \in 1 .. now' : contents'[i] \in UserTables
    BY DEF now
  <2> QED
    BY <2>1, WalkTypes DEF TypeInv, TypeOK, TablesOK, WalkOK, now, UserTables
<1> QED
  BY <1>1, <1>2, <1>3

LEMMA EmptyTable == ASSUME NEW S, NEW T PROVE <<>> \in Tables(S, T)
<1>1. <<>> \in [{} -> T]
  OBVIOUS
<1> QED
  BY <1>1 DEF Tables

\* A row more, a row changed, and a row less.
LEMMA RowAdded ==
  ASSUME NEW S, NEW T, NEW f \in Tables(S, T), NEW x \in S, NEW y \in T
  PROVE  Inserted(f, x, y) \in Tables(S, T)
<1>1. PICK D \in SUBSET S : f \in [D -> T]
  BY DEF Tables
<1>2. Inserted(f, x, y) \in [D \cup {x} -> T]
  BY <1>1 DEF Inserted
<1> QED
  BY <1>2 DEF Tables

LEMMA RowChanged ==
  ASSUME NEW S, NEW T, NEW f \in Tables(S, T), NEW x \in S, NEW y \in T
  PROVE  [f EXCEPT ![x] = y] \in Tables(S, T)
<1>1. PICK D \in SUBSET S : f \in [D -> T]
  BY DEF Tables
<1>2. [f EXCEPT ![x] = y] \in [D -> T]
  BY <1>1
<1> QED
  BY <1>2 DEF Tables

LEMMA RowGone ==
  ASSUME NEW S, NEW T, NEW f \in Tables(S, T), NEW x
  PROVE  [v \in DOMAIN f \ {x} |-> f[v]] \in Tables(S, T)
<1>1. PICK D \in SUBSET S : f \in [D -> T]
  BY DEF Tables
<1>2. [v \in DOMAIN f \ {x} |-> f[v]] \in [D \ {x} -> T]
  BY <1>1
<1> QED
  BY <1>2 DEF Tables

LEMMA TypeInit == Init => TypeInv
<1> SUFFICES ASSUME Init PROVE TablesOK /\ WalkOK
  BY TypeParts
<1>1. PICK table \in UserTables : contents = <<table>>
  BY DEF Init, UserTables
<1>2. contents \in Seq(UserTables) /\ Len(contents) = 1 /\ 1 \in 1 .. MaxWrites + 1
  BY <1>1, UserQueriesAssumption
<1>3. WalkOK
  BY <1>2, NoWalkType DEF Init, WalkOK, NoWalk
<1>4. TablesOK
  BY <1>2, EmptyTable DEF Init, TablesOK
<1> QED
  BY <1>3, <1>4

LEMMA StartTypes ==
  ASSUME TypeInv, NEW kind \in Kinds, NEW limit \in Asked,
         \/ Start(kind, limit)
         \/ \E next \in Anywhere : Ask(kind, limit, next)
  PROVE  TypeInv'
<1>1. Anywhere \subseteq Int /\ Len(contents) \in Nat
  BY Numbers, ContentsAre DEF Anywhere, now
<1>2. CASE Start(kind, limit)
  <2> DEFINE next == IF kind = "users" THEN 1 ELSE 0
  <2>1. walk' = [NoWalk EXCEPT !.at = "asked", !.kind = kind, !.limit = limit, !.next = next]
    BY <1>2 DEF Start
  <2>2. next \in Int /\ next >= 0
    OBVIOUS
  <2> HIDE DEF next
  <2>3. walk' \in WalkType /\ walk'.next >= 0
        /\ walk'.first = 0 /\ walk'.last = 0 /\ walk'.counted = 0
    BY <2>1, <2>2, NoWalkType DEF NoWalk, WalkType
  <2> QED
    BY <1>1, <1>2, <2>3, TypeParts DEF Start, TablesOK, WalkOK, others
<1>3. ASSUME NEW next \in Anywhere, Ask(kind, limit, next)
      PROVE  TypeInv'
  <2>1. walk' = [NoWalk EXCEPT !.at = "asked", !.alone = TRUE, !.kind = kind,
                               !.limit = limit, !.next = next]
    BY <1>3 DEF Ask
  <2>2. walk' \in WalkType /\ walk'.first = 0 /\ walk'.last = 0 /\ walk'.counted = 0
    BY <1>1, <2>1, NoWalkType DEF NoWalk, WalkType
  <2>5. walk'.alone
    BY <2>1 DEF NoWalk
  <2>6. contents' = contents
    BY <1>3 DEF Ask
  <2>3. WalkOK'
    BY <1>1, <2>2, <2>5, <2>6 DEF WalkOK
  <2>4. TablesOK'
    BY <1>3, TypeParts DEF Ask, TablesOK, others
  <2> QED
    BY <2>3, <2>4, TypeParts
<1> QED
  BY <1>2, <1>3

\* A response, field by field.
Step(walked) == IF walked.kind = "users" THEN 1 ELSE EchoedLimit(walked.limit)

IsAnswer(to, from, page, total, counted, read, skip) ==
  /\ to.at = (CASE from.alone -> "answered"
                [] page = <<>> /\ ~from.alone -> "ended"
                [] OTHER -> "asked")
  /\ to.next = from.next + Step(from) /\ to.total = total /\ to.skip = skip
  /\ to.page = page /\ to.served = from.served \o page
  /\ to.alone = from.alone /\ to.kind = from.kind /\ to.limit = from.limit
  /\ to.first = (IF from.first = 0 THEN read ELSE from.first)
  /\ to.last = read /\ to.counted = counted
  /\ to.back \in BOOLEAN /\ (~to.back => ~from.back /\ ~(read < from.last))

LEMMA AnswerIs ==
  ASSUME TypeInv, NEW page, NEW total, NEW counted, NEW read, Answer(page, total, counted, read)
  PROVE  IsAnswer(walk', walk, page, total, counted, read, Window.skip)
<1> DEFINE at == CASE walk.alone -> "answered"
                   [] page = <<>> /\ ~walk.alone -> "ended"
                   [] OTHER -> "asked"
           step == IF walk.kind = "users" THEN 1 ELSE EchoedLimit(walk.limit)
           skip == Window.skip
<1>1. walk' = [walk EXCEPT
                  !.at = at, !.next = @ + step, !.total = total, !.skip = skip,
                  !.page = page, !.served = @ \o page,
                  !.first = IF @ = 0 THEN read ELSE @, !.last = read, !.counted = counted,
                  !.back = @ \/ read < walk.last]
  BY DEF Answer
<1>2. walk \in WalkType
  BY DEF TypeInv
<1> HIDE DEF at, step, skip
<1>3. /\ walk'.at = at /\ walk'.next = walk.next + step /\ walk'.total = total
      /\ walk'.skip = skip /\ walk'.page = page /\ walk'.served = walk.served \o page
      /\ walk'.alone = walk.alone /\ walk'.kind = walk.kind /\ walk'.limit = walk.limit
      /\ walk'.first = (IF walk.first = 0 THEN read ELSE walk.first)
      /\ walk'.last = read /\ walk'.counted = counted
      /\ walk'.back = (walk.back \/ read < walk.last)
  BY <1>1, <1>2 DEF WalkType
<1>4. walk'.back \in BOOLEAN /\ (~walk'.back => ~walk.back /\ ~(read < walk.last))
  BY <1>3, Zenon
<1> QED
  BY <1>3, <1>4 DEF IsAnswer, Step, at, step, skip

LEMMA StepType == TypeInv => Step(walk) \in Nat
<1> SUFFICES ASSUME TypeInv PROVE Step(walk) \in Nat
  OBVIOUS
<1>1. Atoi(walk.limit) \in Int
  BY AskedAre, AtoiType, IntsAre DEF TypeInv, WalkType
<1> QED
  BY <1>1, LimitTypes, Numbers DEF Step, EchoedLimit

\* What is answered: a page of a content there has been, and a total.
LEMMA AnsweredIs ==
  ASSUME TypeInv, List \/ Search
  PROVE  /\ walk.at = "asked" /\ contents' = contents
         /\ orders' = orders /\ txs' = txs /\ acts' = acts
         /\ \E read \in 1 .. now, counted \in 1 .. now, total \in 0 .. Cardinality(Ids) :
               \E page \in Pages(walk.kind, contents[read], Window) :
                  /\ IsAnswer(walk', walk, page, total, counted, read, Window.skip)
                  /\ walk.kind = "name" => counted = read /\ total = NameTotal(contents[read], page)
                  /\ walk.kind = "email" => total = Cardinality(Matches("email", contents[counted]))
<1>1. 0 \in 0 .. Cardinality(Ids) /\ now \in 1 .. now
  BY IdsFinite, ContentsAre
<1>2. CASE List
  <2>1. PICK page \in Pages("users", users, Window) : Answer(page, 0, now, now)
    BY <1>2 DEF List
  <2>2. walk.kind = "users" /\ users = contents[now]
    BY <1>2 DEF List, users
  <2>3. IsAnswer(walk', walk, page, 0, now, now, Window.skip)
    BY <2>1, AnswerIs
  <2>4. page \in Pages(walk.kind, contents[now], Window)
    BY <2>1, <2>2
  <2> QED
    BY <1>1, <1>2, <2>2, <2>3, <2>4 DEF List, others
<1>3. CASE Search
  <2>7. PICK read \in 1 .. now : \E page \in Pages(walk.kind, contents[read], Window) :
           \/ /\ walk.kind = "name"
              /\ Answer(page, NameTotal(contents[read], page), read, read)
           \/ /\ walk.kind = "email"
              /\ \E counted \in 1 .. read :
                    Answer(page, Cardinality(Matches("email", contents[counted])), counted, read)
    BY <1>3 DEF Search
  <2>1. PICK page \in Pages(walk.kind, contents[read], Window) :
           \/ /\ walk.kind = "name"
              /\ Answer(page, NameTotal(contents[read], page), read, read)
           \/ /\ walk.kind = "email"
              /\ \E counted \in 1 .. read :
                    Answer(page, Cardinality(Matches("email", contents[counted])), counted, read)
    BY <2>7
  <2>2. \A i \in 1 .. now : \A kind : Cardinality(Matches(kind, contents[i])) \in 0 .. Cardinality(Ids)
    BY ContentsAre, MatchesAre
  <2>3. CASE /\ walk.kind = "name"
             /\ Answer(page, NameTotal(contents[read], page), read, read)
    <3>1. IsAnswer(walk', walk, page, NameTotal(contents[read], page), read, read, Window.skip)
      BY <2>3, AnswerIs
    <3>2. NameTotal(contents[read], page) \in 0 .. Cardinality(Ids)
      BY <1>1, <2>2 DEF NameTotal
    <3> QED
      BY <1>3, <2>1, <2>3, <3>1, <3>2 DEF Search, others
  <2>4. ASSUME walk.kind = "email", NEW counted \in 1 .. read,
               Answer(page, Cardinality(Matches("email", contents[counted])), counted, read)
        PROVE  \E c \in 1 .. now, total \in 0 .. Cardinality(Ids) :
                  /\ IsAnswer(walk', walk, page, total, c, read, Window.skip)
                  /\ total = Cardinality(Matches("email", contents[c]))
    <3> DEFINE total == Cardinality(Matches("email", contents[counted]))
    <3>1. IsAnswer(walk', walk, page, total, counted, read, Window.skip)
      BY <2>4, AnswerIs
    <3>2. counted \in 1 .. now
      BY ContentsAre
    <3>3. total \in 0 .. Cardinality(Ids)
      BY <2>2, <3>2
    <3> QED
      BY <3>1, <3>2, <3>3
  <2> QED
    BY <1>3, <2>1, <2>3, <2>4 DEF Search, others
<1> QED
  BY <1>2, <1>3

LEMMA AnswerTypes == ASSUME TypeInv, List \/ Search PROVE TypeInv'
<1>8. PICK read \in 1 .. now, counted \in 1 .. now, total \in 0 .. Cardinality(Ids) :
         \E page \in Pages(walk.kind, contents[read], Window) :
            IsAnswer(walk', walk, page, total, counted, read, Window.skip)
  BY AnsweredIs
<1>1. PICK page \in Pages(walk.kind, contents[read], Window) :
         IsAnswer(walk', walk, page, total, counted, read, Window.skip)
  BY <1>8
<1>2. walk \in WalkType /\ (~walk.alone => walk.next >= 0)
      /\ {walk.first, walk.last, walk.counted} \subseteq 0 .. now
  BY DEF TypeInv, TypeOK
<1>3. Window.skip \in Nat /\ Window.rows \in Nat /\ Step(walk) \in Nat /\ now \in Nat
  BY WindowTypes, StepType, Numbers, ContentsAre
<1>4. page \in Seq(Ids)
  BY <1>1, <1>3, ContentsAre, PageTypes
<1>5. walk.served \o page \in Seq(Ids)
  BY <1>2, <1>4 DEF WalkType
<1>6. walk.next + Step(walk) \in Int /\ (walk.next >= 0 => walk.next + Step(walk) >= 0)
  BY <1>2, <1>3 DEF WalkType
<1>7. walk' \in WalkType
  <2> DEFINE made == [at |-> walk'.at, alone |-> walk.alone, kind |-> walk.kind, limit |-> walk.limit,
                      next |-> walk'.next, total |-> total, skip |-> Window.skip, page |-> page,
                      served |-> walk.served \o page, first |-> walk'.first, last |-> read,
                      counted |-> counted, back |-> walk'.back]
  <2>1. walk' = made
    <3>1. \E p, t, c, r : Answer(p, t, c, r)
      BY DEF List, Search
    <3>2. DOMAIN walk' = DOMAIN walk
      BY <3>1 DEF Answer
    <3> QED
      BY <1>1, <1>2, <3>1, <3>2 DEF IsAnswer, WalkType, Answer
  <2>2. /\ walk'.at \in {"nowhere", "asked", "ended", "answered"} /\ walk'.next \in Int
        /\ walk'.first \in Nat /\ walk'.back \in BOOLEAN
    BY <1>1, <1>2, <1>3, <1>6 DEF IsAnswer, WalkType
  <2>3. /\ walk.alone \in BOOLEAN /\ walk.kind \in Kinds /\ walk.limit \in Asked \cup {0}
        /\ read \in Nat /\ counted \in Nat
    BY <1>2, <1>3 DEF WalkType
  <2>4. made \in WalkType
    <3>1. PICK at \in {"nowhere", "asked", "ended", "answered"}, next \in Int, first \in Nat,
               back \in BOOLEAN, alone \in BOOLEAN :
             /\ at = walk'.at /\ next = walk'.next /\ first = walk'.first /\ back = walk'.back
             /\ alone = walk.alone
      BY <2>2, <2>3
    <3>2. made = [at |-> at, alone |-> alone, kind |-> walk.kind, limit |-> walk.limit,
                  next |-> next, total |-> total, skip |-> Window.skip, page |-> page,
                  served |-> walk.served \o page, first |-> first, last |-> read,
                  counted |-> counted, back |-> back]
      BY <3>1, Zenon
    <3> QED
      BY <1>3, <1>4, <1>5, <2>3, <3>2 DEF WalkType
  <2> HIDE DEF made
  <2> QED
    BY <2>1, <2>4
<1> QED
  BY <1>1, <1>2, <1>3, <1>6, <1>7, AnsweredIs, TypeParts DEF TablesOK, WalkOK, IsAnswer, now

\* A write adds a content and changes nothing of the others, nor of the walk.
Grown ==
  /\ now \in Nat /\ now' = now + 1 /\ walk' = walk
  /\ \A i \in 1 .. now : contents'[i] = contents[i]

LEMMA WriteIs ==
  ASSUME TypeInv, NEW table \in UserTables, Write(table)
  PROVE  Grown /\ TypeInv'
<1>1. contents \in Seq(UserTables) /\ contents' = Append(contents, table) /\ walk' = walk
      /\ UNCHANGED others /\ Len(contents) <= MaxWrites
  BY DEF TypeInv, Write, now
<1>2. /\ contents' \in Seq(UserTables) /\ Len(contents') = Len(contents) + 1
      /\ \A i \in 1 .. Len(contents) : contents'[i] = contents[i]
      /\ Len(contents) \in Nat
  BY <1>1
<1>3. TablesOK' /\ WalkOK'
  <2>1. TablesOK /\ WalkOK
    BY TypeParts
  <2>2. TablesOK'
    BY <1>1, <1>2, <2>1, UserQueriesAssumption DEF TablesOK, others
  <2>3. WalkOK'
    BY <1>1, <1>2, <2>1 DEF WalkOK
  <2> QED
    BY <2>2, <2>3
<1> QED
  BY <1>1, <1>2, <1>3, TypeParts DEF Grown, now

LEMMA WriteTypes ==
  ASSUME TypeInv, NEW u \in Ids, Register(u) \/ Edit(u)
  PROVE  Grown /\ TypeInv'
<1>1. users \in Tables(Ids, 0 .. MaxRank)
  BY ContentsAre
<1>2. ASSUME NEW r \in 0 .. MaxRank, Write(Inserted(users, u, r))
      PROVE  Grown /\ TypeInv'
  BY <1>1, <1>2, RowAdded, WriteIs DEF UserTables
<1>3. ASSUME NEW r \in 0 .. MaxRank, Write([users EXCEPT ![u] = r])
      PROVE  Grown /\ TypeInv'
  BY <1>1, <1>3, RowChanged, WriteIs DEF UserTables
<1>4. ASSUME Write([v \in DOMAIN users \ {u} |-> users[v]])
      PROVE  Grown /\ TypeInv'
  BY <1>1, <1>4, RowGone, WriteIs DEF UserTables
<1> QED
  BY <1>2, <1>3, <1>4 DEF Register, Edit

LEMMA PurchaseTypes ==
  ASSUME TypeInv,
         \/ \E o \in OrderIds : PlaceOrder(o)
         \/ \E t \in TransactionIds : Pay(t)
         \/ \E a \in ActivityIds : Act(a)
  PROVE  TypeInv'
<1>1. /\ \A u \in DOMAIN users : u \in Ids
      /\ \A o \in DOMAIN orders : o \in OrderIds
  BY ContentsAre DEF TypeInv, TypeOK, Tables
<1>2. CASE \E o \in OrderIds : PlaceOrder(o)
  BY <1>1, <1>2, RowAdded, TypeParts DEF PlaceOrder, Buying, TablesOK, WalkOK
<1>3. CASE \E t \in TransactionIds : Pay(t)
  <2>1. PICK t \in TransactionIds, o \in DOMAIN orders, n \in 1 .. MaxAmount :
           Pay(t) /\ txs' = Inserted(txs, t, [order |-> o, amount |-> n])
    BY <1>3 DEF Pay
  <2>2. txs' \in Tables(TransactionIds, [order : OrderIds, amount : 1 .. MaxAmount])
    BY <1>1, <2>1, RowAdded DEF TypeInv, TypeOK
  <2> QED
    BY <2>1, <2>2, TypeParts DEF Pay, Buying, TablesOK, WalkOK
<1>4. CASE \E a \in ActivityIds : Act(a)
  <2>1. PICK a \in ActivityIds, u \in DOMAIN users, n \in 1 .. MaxTime :
           Act(a) /\ acts' = Inserted(acts, a, [user |-> u, time |-> n])
    BY <1>4 DEF Act
  <2>2. acts' \in Tables(ActivityIds, [user : Ids, time : 1 .. MaxTime])
    BY <1>1, <2>1, RowAdded DEF TypeInv, TypeOK
  <2> QED
    BY <2>1, <2>2, TypeParts DEF Act, Buying, TablesOK, WalkOK
<1> QED
  BY <1>2, <1>3, <1>4

LEMMA TypeStep == TypeInv /\ [Next]_vars => TypeInv'
<1> SUFFICES ASSUME TypeInv, [Next]_vars PROVE TypeInv'
  OBVIOUS
<1>1. CASE UNCHANGED vars
  BY <1>1, TypeParts DEF vars, TablesOK, WalkOK
<1> QED
  BY <1>1, StartTypes, AnswerTypes, WriteTypes, PurchaseTypes DEF Next

\* Whatever is asked for and however the tables change, offsets of walks never
\* become negative and totals never exceed the users there may be.
THEOREM TypeCorrect == Spec => []TypeOK
<1>1. TypeInv => TypeOK
  BY DEF TypeInv
<1> QED
  BY <1>1, TypeInit, TypeStep, PTL DEF Spec

-----------------------------------------------------------------------------
(* Requests. *)

\* Whatever page, offset and limit a request names, in integers of any width,
\* its statement gets a legal window, and the right one unless it overflows.
THEOREM EveryWindowIsLegal == Spec => []WindowsAreLegal
<1>1. TypeInv => WindowsAreLegal
  BY WindowTypes DEF WindowsAreLegal
<1> QED
  BY <1>1, TypeInit, TypeStep, PTL DEF Spec

\* Whether a user exists is answered by both endpoints alike, for every id: the
\* profile of id 0 is no exception, as ids begin at 1.
THEOREM LookupsAlwaysAgree == Spec => []LookupsAgree
<1>1. TypeInv => LookupsAgree
  <2> SUFFICES ASSUME TypeInv, NEW id \in -1 .. 2 * IntLimit
               PROVE  GetUserStatus(id) = UserProfileStatus(id)
    BY DEF LookupsAgree
  <2>1. 0 \notin DOMAIN users
    <3>1. DOMAIN users \subseteq Ids
      BY ContentsAre DEF Tables
    <3> QED
      BY <3>1, UserQueriesAssumption
  <2> QED
    BY <2>1 DEF GetUserStatus, UserProfileStatus
<1> QED
  BY <1>1, TypeInit, TypeStep, PTL DEF Spec

-----------------------------------------------------------------------------
(* The order of a search, and what a page of it holds. *)

Searches == {"email", "name"}

\* The matches that come before a user, and how many they are: the offset at
\* which a search finds the user.
Ahead(kind, table, u) == {v \in Matches(kind, table) : Before(kind, table, v, u)}

Place(kind, table, u) == Cardinality(Ahead(kind, table, u))

LEMMA RanksAre ==
  ASSUME NEW table \in Tables(Ids, 0 .. MaxRank), NEW u \in DOMAIN table
  PROVE  u \in Int /\ table[u] \in Int
<1>1. PICK D \in SUBSET Ids : table \in [D -> 0 .. MaxRank]
  BY DEF Tables
<1> QED
  BY <1>1, UserQueriesAssumption

\* Of two matches exactly one comes before the other.
LEMMA BeforeIsOrder ==
  ASSUME NEW kind \in Searches, NEW table \in Tables(Ids, 0 .. MaxRank)
  PROVE  /\ \A u \in DOMAIN table : ~Before(kind, table, u, u)
         /\ \A u, v \in DOMAIN table : u # v => Before(kind, table, u, v) \/ Before(kind, table, v, u)
         /\ \A u, v, w \in DOMAIN table :
               Before(kind, table, u, v) /\ Before(kind, table, v, w) => Before(kind, table, u, w)
<1>1. \A u \in DOMAIN table : u \in Int /\ table[u] \in Int
  BY RanksAre
<1>2. CASE kind = "email"
  <2>1. \A u, v \in DOMAIN table : Before(kind, table, u, v) <=> u < v
    BY <1>2 DEF Before
  <2> QED
    BY <1>1, <2>1
<1>3. CASE kind = "name"
  <2>1. \A u, v \in DOMAIN table :
           Before(kind, table, u, v) <=> table[u] > table[v] \/ (table[u] = table[v] /\ u < v)
    BY <1>3 DEF Before
  <2> QED
    BY <1>1, <2>1
<1> QED
  BY <1>2, <1>3 DEF Searches

LEMMA MatchesIn == \A kind, table : Matches(kind, table) \subseteq DOMAIN table
  BY DEF Matches

\* A place is a number below that of the matches, and grows along the order.
LEMMA PlaceTypes ==
  ASSUME NEW kind, NEW table \in Tables(Ids, 0 .. MaxRank), NEW u
  PROVE  /\ IsFiniteSet(Ahead(kind, table, u)) /\ Place(kind, table, u) \in Nat
         /\ Place(kind, table, u) <= Cardinality(Matches(kind, table))
<1>1. Ahead(kind, table, u) \subseteq Matches(kind, table)
  BY DEF Ahead
<1>2. IsFiniteSet(Matches(kind, table))
  BY MatchesAre
<1>3. /\ IsFiniteSet(Ahead(kind, table, u))
      /\ Cardinality(Ahead(kind, table, u)) <= Cardinality(Matches(kind, table))
  BY <1>1, <1>2, FS_Subset
<1> QED
  BY <1>3, FS_CardinalityType DEF Place

LEMMA PlacesGrow ==
  ASSUME NEW kind \in Searches, NEW table \in Tables(Ids, 0 .. MaxRank),
         NEW u \in Matches(kind, table), NEW v \in Matches(kind, table)
  PROVE  /\ Place(kind, table, u) < Cardinality(Matches(kind, table))
         /\ Before(kind, table, u, v) <=> Place(kind, table, u) < Place(kind, table, v)
<1> DEFINE ahead(w) == Ahead(kind, table, w)
<1>1. u \in DOMAIN table /\ v \in DOMAIN table
  BY MatchesIn
<1>2. \A w \in Matches(kind, table) :
         /\ IsFiniteSet(ahead(w)) /\ w \notin ahead(w) /\ ahead(w) \subseteq Matches(kind, table)
         /\ Cardinality(ahead(w)) \in Nat /\ Place(kind, table, w) = Cardinality(ahead(w))
  <2>1. ASSUME NEW w \in Matches(kind, table)
        PROVE  w \notin Ahead(kind, table, w) /\ Ahead(kind, table, w) \subseteq Matches(kind, table)
    BY BeforeIsOrder, MatchesIn DEF Ahead
  <2>2. \A w : /\ IsFiniteSet(Ahead(kind, table, w)) /\ Cardinality(Ahead(kind, table, w)) \in Nat
               /\ Place(kind, table, w) = Cardinality(Ahead(kind, table, w))
    BY PlaceTypes DEF Place
  <2> QED
    BY <2>1, <2>2
<1>3. ASSUME NEW x \in Matches(kind, table), NEW y \in Matches(kind, table), Before(kind, table, x, y)
      PROVE  Cardinality(ahead(x)) < Cardinality(ahead(y))
  <2>1. ahead(x) \subseteq ahead(y) /\ x \in ahead(y)
    BY <1>3, BeforeIsOrder, MatchesIn DEF Ahead
  <2>2. /\ Cardinality(ahead(x)) <= Cardinality(ahead(y))
        /\ Cardinality(ahead(x)) = Cardinality(ahead(y)) => ahead(x) = ahead(y)
    BY <1>2, <2>1, FS_Subset
  <2> QED
    BY <1>2, <2>1, <2>2
<1>4. Cardinality(ahead(u)) < Cardinality(Matches(kind, table))
  <2>1. IsFiniteSet(Matches(kind, table)) /\ Cardinality(Matches(kind, table)) \in Nat
    BY MatchesAre, FS_CardinalityType
  <2>2. /\ Cardinality(ahead(u)) <= Cardinality(Matches(kind, table))
        /\ Cardinality(ahead(u)) = Cardinality(Matches(kind, table)) => ahead(u) = Matches(kind, table)
    BY <1>2, <2>1, FS_Subset
  <2> QED
    BY <1>2, <2>1, <2>2
<1> HIDE DEF ahead
<1>5. ASSUME Place(kind, table, u) < Place(kind, table, v)
      PROVE  Before(kind, table, u, v)
  <2>1. u # v
    BY <1>2, <1>5
  <2>2. ~Before(kind, table, v, u)
    BY <1>2, <1>3, <1>5
  <2> QED
    BY <1>1, <2>1, <2>2, BeforeIsOrder
<1> QED
  BY <1>2, <1>3, <1>4, <1>5

LEMMA IntervalSize ==
  ASSUME NEW n \in Nat
  PROVE  IsFiniteSet(1 .. n) /\ Cardinality(1 .. n) = n
<1>1. 1 \in Int /\ n \in Int
  OBVIOUS
<1>2. IsFiniteSet(1 .. n) /\ Cardinality(1 .. n) = IF 1 > n THEN 0 ELSE n - 1 + 1
  BY <1>1, FS_Interval
<1> QED
  BY <1>2

\* A listing has every row, once.
LEMMA ListingIs ==
  ASSUME NEW S, IsFiniteSet(S), NEW s \in SetToSeqs(S)
  PROVE  /\ s \in Seq(S) /\ Len(s) = Cardinality(S) /\ s \in [1 .. Len(s) -> S]
         /\ \A i, j \in 1 .. Len(s) : s[i] = s[j] => i = j
         /\ \A x \in S : \E i \in 1 .. Len(s) : s[i] = x
<1> DEFINE n == Cardinality(S)
<1>1. n \in Nat
  BY FS_CardinalityType
<1>2. s \in [1 .. n -> S] /\ \A i, j \in 1 .. n : i # j => s[i] # s[j]
  BY DEF SetToSeqs
<1>3. s \in Seq(S) /\ Len(s) = n
  BY <1>1, <1>2
<1>4. Cardinality(1 .. n) = n
  BY <1>1, IntervalSize
<1>5. s \in Injection(1 .. n, S)
  BY <1>2 DEF Injection, IsInjective
<1>6. s \in Surjection(1 .. n, S)
  BY <1>4, <1>5, FS_Injection
<1> QED
  BY <1>2, <1>3, <1>6 DEF Surjection

\* In a listing that is sorted, everyone is at his place.
LEMMA SortedIsByPlace ==
  ASSUME NEW kind \in Searches, NEW table \in Tables(Ids, 0 .. MaxRank),
         NEW s \in SetToSeqs(Matches(kind, table)), Sorted(kind, table, s)
  PROVE  \A i \in 1 .. Len(s) : Place(kind, table, s[i]) = i - 1
<1> DEFINE M == Matches(kind, table)
<1>1. IsFiniteSet(M)
  BY MatchesAre
<1>2. /\ s \in [1 .. Len(s) -> M] /\ Len(s) \in Nat
      /\ \A i, j \in 1 .. Len(s) : s[i] = s[j] => i = j
      /\ \A x \in M : \E i \in 1 .. Len(s) : s[i] = x
  BY <1>1, ListingIs, FS_CardinalityType
<1>3. \A i, j \in 1 .. Len(s) : i < j => Before(kind, table, s[i], s[j])
  BY <1>2 DEF Sorted
<1> SUFFICES ASSUME NEW i \in 1 .. Len(s) PROVE Place(kind, table, s[i]) = i - 1
  OBVIOUS
<1> DEFINE f == [j \in 1 .. i - 1 |-> s[j]]
<1>4. \A j \in 1 .. Len(s) : Before(kind, table, s[j], s[i]) <=> j < i
  <2>1. \A j \in 1 .. Len(s) : s[j] \in DOMAIN table
    BY <1>2, MatchesIn
  <2>2. ASSUME NEW j \in 1 .. Len(s), Before(kind, table, s[j], s[i]), ~(j < i)
        PROVE  FALSE
    <3>1. CASE j = i
      BY <2>1, <2>2, <3>1, BeforeIsOrder
    <3>2. CASE i < j
      <4>1. Before(kind, table, s[i], s[j])
        BY <1>3, <3>2
      <4> QED
        BY <2>1, <2>2, <4>1, BeforeIsOrder
    <3> QED
      BY <1>2, <2>2, <3>1, <3>2
  <2> QED
    BY <1>3, <2>2
<1>5. f \in Bijection(1 .. i - 1, Ahead(kind, table, s[i]))
  <2>1. \A j \in 1 .. i - 1 : j \in 1 .. Len(s) /\ j < i
    BY <1>2
  <2>2. f \in [1 .. i - 1 -> Ahead(kind, table, s[i])]
    BY <1>2, <1>4, <2>1 DEF Ahead
  <2>3. \A j, k \in 1 .. i - 1 : f[j] = f[k] => j = k
    BY <1>2, <2>1
  <2>4. ASSUME NEW x \in Ahead(kind, table, s[i]) PROVE \E j \in 1 .. i - 1 : f[j] = x
    <3>1. PICK j \in 1 .. Len(s) : s[j] = x
      BY <1>2 DEF Ahead
    <3>2. j < i
      BY <1>4, <3>1 DEF Ahead
    <3> QED
      BY <1>2, <3>1, <3>2
  <2> QED
    BY <2>2, <2>3, <2>4 DEF Bijection, Injection, IsInjective, Surjection
<1>6. i - 1 \in Nat
  BY <1>2
<1> HIDE DEF f
<1>7. Cardinality(Ahead(kind, table, s[i])) = Cardinality(1 .. i - 1)
  BY <1>5, <1>6, IntervalSize, FS_Bijection DEF ExistsBijection
<1> QED
  BY <1>6, <1>7, IntervalSize DEF Place

\* A window of a sequence.
LEMMA SubSeqIs ==
  ASSUME NEW S, NEW s \in Seq(S), NEW skip \in Nat, NEW last \in Nat, last <= Len(s)
  PROVE  /\ SubSeq(s, skip + 1, last) \in Seq(S)
         /\ Len(SubSeq(s, skip + 1, last)) = IF skip + 1 <= last THEN last - skip ELSE 0
         /\ \A i \in 1 .. last - skip : SubSeq(s, skip + 1, last)[i] = s[skip + i]
  OBVIOUS

LEMMA SliceIs ==
  ASSUME NEW S, NEW s \in Seq(S), NEW skip \in Nat, NEW rows \in Nat, NEW last \in Nat,
         last = IF skip + rows <= Len(s) THEN skip + rows ELSE Len(s)
  PROVE  LET page == SubSeq(s, skip + 1, last)
         IN  /\ page \in Seq(S)
             /\ Len(page) = IF Len(s) <= skip THEN 0 ELSE IF Len(s) - skip < rows THEN Len(s) - skip ELSE rows
             /\ \A i \in 1 .. Len(page) : skip + i \in 1 .. Len(s) /\ page[i] = s[skip + i]
<1>1. Len(s) \in Nat
  OBVIOUS
<1>2. last <= Len(s)
  BY <1>1
<1> DEFINE page == SubSeq(s, skip + 1, last)
<1>3. /\ page \in Seq(S) /\ Len(page) = IF skip + 1 <= last THEN last - skip ELSE 0
      /\ \A i \in 1 .. last - skip : page[i] = s[skip + i]
  BY <1>2, SubSeqIs
<1> HIDE DEF page
<1>4. Len(page) = IF Len(s) <= skip THEN 0 ELSE IF Len(s) - skip < rows THEN Len(s) - skip ELSE rows
  BY <1>1, <1>3
<1>5. ASSUME NEW i \in 1 .. Len(page) PROVE skip + i \in 1 .. Len(s) /\ page[i] = s[skip + i]
  <2>1. i \in 1 .. last - skip
    BY <1>3
  <2> QED
    BY <1>1, <1>2, <1>3, <2>1
<1> QED
  BY <1>3, <1>4, <1>5 DEF page

IsSlice(page, s, skip, rows) ==
  /\ Len(page) = IF Len(s) <= skip THEN 0 ELSE IF Len(s) - skip < rows THEN Len(s) - skip ELSE rows
  /\ \A i \in 1 .. Len(page) : skip + i \in 1 .. Len(s) /\ page[i] = s[skip + i]

\* A page is a window of a listing.
LEMMA PageIsSlice ==
  ASSUME NEW kind, NEW table \in Tables(Ids, 0 .. MaxRank), NEW window, NEW skip \in Nat,
         NEW rows \in Nat, window.skip = skip, window.rows = rows,
         NEW page \in Pages(kind, table, window)
  PROVE  \E s \in SetToSeqs(Matches(kind, table)) :
            /\ Sorted(kind, table, s)
            /\ page \in Seq(Matches(kind, table)) /\ IsSlice(page, s, skip, rows)
<1>1. PICK s \in SetToSeqs(Matches(kind, table)) :
         /\ Sorted(kind, table, s)
         /\ page = SubSeq(s, skip + 1, Min({skip + rows, Len(s)}))
  BY DEF Pages
<1>2. IsFiniteSet(Matches(kind, table))
  BY MatchesAre
<1>3. s \in Seq(Matches(kind, table)) /\ skip + rows \in Nat /\ Len(s) \in Nat
  BY <1>2, ListingIs
<1>4. PICK last \in Nat : last = Min({skip + rows, Len(s)})
  BY <1>3, TwoMin
<1>5. last = IF skip + rows <= Len(s) THEN skip + rows ELSE Len(s)
  BY <1>3, <1>4, TwoMin
<1>6. page = SubSeq(s, skip + 1, last)
  BY <1>1, <1>4
<1> DEFINE slice == SubSeq(s, skip + 1, last)
<1>7. slice \in Seq(Matches(kind, table)) /\ IsSlice(slice, s, skip, rows)
  BY <1>3, <1>5, SliceIs DEF IsSlice
<1>8. page = slice
  BY <1>6
<1> HIDE DEF slice
<1> QED
  BY <1>1, <1>7, <1>8

\* The number of rows of a page, in any order, and what they are in a search.
LEMMA PageSize ==
  ASSUME NEW kind, NEW table \in Tables(Ids, 0 .. MaxRank), NEW window, NEW skip \in Nat,
         NEW rows \in Nat, window.skip = skip, window.rows = rows,
         NEW page \in Pages(kind, table, window)
  PROVE  LET left == Cardinality(Matches(kind, table)) - skip
         IN  /\ page \in Seq(Matches(kind, table)) /\ Len(page) \in Nat
             /\ Len(page) = IF left <= 0 THEN 0 ELSE IF left < rows THEN left ELSE rows
<1>1. PICK s \in SetToSeqs(Matches(kind, table)) :
         page \in Seq(Matches(kind, table)) /\ IsSlice(page, s, skip, rows)
  BY PageIsSlice
<1>2. IsFiniteSet(Matches(kind, table)) /\ Cardinality(Matches(kind, table)) \in Nat
  BY MatchesAre, FS_CardinalityType
<1>3. Len(s) = Cardinality(Matches(kind, table))
  BY <1>2, ListingIs
<1> QED
  BY <1>1, <1>2, <1>3 DEF IsSlice

LEMMA PageHolds ==
  ASSUME NEW kind \in Searches, NEW table \in Tables(Ids, 0 .. MaxRank), NEW window,
         NEW skip \in Nat, NEW rows \in Nat, window.skip = skip, window.rows = rows,
         NEW page \in Pages(kind, table, window)
  PROVE  /\ \A i \in 1 .. Len(page) : Place(kind, table, page[i]) = skip + i - 1
         /\ \A u \in Matches(kind, table) :
               Place(kind, table, u) \in skip .. skip + rows - 1 => u \in Range(page)
<1>1. PICK s \in SetToSeqs(Matches(kind, table)) :
         /\ Sorted(kind, table, s)
         /\ page \in Seq(Matches(kind, table)) /\ IsSlice(page, s, skip, rows)
  BY PageIsSlice
<1> DEFINE M == Matches(kind, table)
<1>2. IsFiniteSet(M) /\ Cardinality(M) \in Nat
  BY MatchesAre, FS_CardinalityType
<1>3. Len(s) \in Nat /\ \A x \in M : \E i \in 1 .. Len(s) : s[i] = x
  BY <1>2, ListingIs
<1>4. \A i \in 1 .. Len(s) : Place(kind, table, s[i]) = i - 1
  BY <1>1, SortedIsByPlace
<1> HIDE DEF M
<1>6. ASSUME NEW i \in 1 .. Len(page) PROVE Place(kind, table, page[i]) = skip + i - 1
  <2>1. skip + i \in 1 .. Len(s) /\ page[i] = s[skip + i]
    BY <1>1 DEF IsSlice
  <2> QED
    BY <1>4, <2>1
<1>7. ASSUME NEW u \in M, Place(kind, table, u) \in skip .. skip + rows - 1
      PROVE  u \in Range(page)
  <2>1. PICK j \in 1 .. Len(s) : s[j] = u
    BY <1>3, <1>7
  <2>2. Place(kind, table, u) = j - 1
    BY <1>4, <2>1
  <2>3. j - skip \in 1 .. Len(page) /\ skip + (j - skip) = j
    <3>1. j \in Nat /\ skip <= j - 1 /\ j - 1 <= skip + rows - 1 /\ j <= Len(s)
      BY <1>3, <1>7, <2>1, <2>2
    <3> QED
      BY <1>1, <1>3, <3>1 DEF IsSlice
  <2>4. page[j - skip] = u
    BY <1>1, <2>1, <2>3 DEF IsSlice
  <2>5. DOMAIN page = 1 .. Len(page)
    BY <1>1
  <2> QED
    BY <2>3, <2>4, <2>5 DEF Range
<1> QED
  BY <1>6, <1>7 DEF M

\* There are fewer users than ints.
LEMMA FewMatches ==
  ASSUME NEW kind, NEW table \in Tables(Ids, 0 .. MaxRank)
  PROVE  Cardinality(Matches(kind, table)) \in Nat /\ Cardinality(Matches(kind, table)) < IntLimit
<1>1. IntLimit - 1 \in Nat
  BY Numbers
<1>2. IsFiniteSet(1 .. IntLimit - 1) /\ Cardinality(1 .. IntLimit - 1) = IntLimit - 1
  BY <1>1, IntervalSize
<1>3. Cardinality(Ids) <= IntLimit - 1
  BY <1>2, FS_Subset, UserQueriesAssumption
<1>4. Cardinality(Matches(kind, table)) \in 0 .. Cardinality(Ids)
  BY MatchesAre
<1> QED
  BY <1>1, <1>3, <1>4, IdsFinite, Numbers

\* The window of the next page of a walk begins where the walk is, or at the
\* last int if that is too far.
LEMMA NextWindow ==
  ASSUME TypeInv, walk.kind \in Searches
  PROVE  /\ Window.rows = EchoedLimit(walk.limit) /\ EchoedLimit(walk.limit) \in 1 .. MaxLimit
         /\ Window.skip \in Nat
         /\ ~walk.alone => /\ walk.next \in Nat
                           /\ Window.skip = IF walk.next < IntLimit THEN walk.next ELSE IntLimit - 1
<1>1. Window = SearchWindow(walk.next, walk.limit)
  BY DEF Window, Searches
<1>2. Window.rows = SearchLimit(Atoi(walk.limit)) /\ Window.skip = SearchOffset(Atoi(walk.next))
  BY <1>1 DEF SearchWindow
<1>3. Window.rows \in 1 .. MaxLimit /\ Window.skip \in Nat
  BY WindowTypes, Numbers
<1>4. ~walk.alone => walk.next \in Nat
  BY DEF TypeInv, TypeOK
<1>5. ASSUME walk.next \in Nat
      PROVE  SearchOffset(Atoi(walk.next)) = IF walk.next < IntLimit THEN walk.next ELSE IntLimit - 1
  BY <1>5, Numbers DEF SearchOffset, Atoi
<1> QED
  BY <1>2, <1>3, <1>4, <1>5 DEF EchoedLimit


\* One sequence after another.
IsJoin(r, s, t) ==
  /\ Len(r) = Len(s) + Len(t) /\ Len(s) \in Nat /\ Len(t) \in Nat
  /\ \A i \in 1 .. Len(s) : r[i] = s[i]
  /\ \A i \in 1 .. Len(t) : r[Len(s) + i] = t[i]

LEMMA Joined == ASSUME NEW S, NEW s \in Seq(S), NEW t \in Seq(S) PROVE IsJoin(s \o t, s, t)
  BY DEF IsJoin

LEMMA Beyond ==
  ASSUME NEW n \in Nat, NEW m \in Nat, NEW i \in 1 .. n + m, i > n
  PROVE  \E j \in 1 .. m : i = n + j
<1>1. i - n \in 1 .. m /\ i = n + (i - n)
  OBVIOUS
<1> QED
  BY <1>1

LEMMA RangeOfBoth ==
  ASSUME NEW S, NEW s \in Seq(S), NEW t \in Seq(S), NEW r \in Seq(S), IsJoin(r, s, t)
  PROVE  Range(r) = Range(s) \cup Range(t)
<1>1. DOMAIN r = 1 .. Len(s) + Len(t) /\ DOMAIN s = 1 .. Len(s) /\ DOMAIN t = 1 .. Len(t)
  BY DEF IsJoin
<1>2. \A i \in 1 .. Len(s) : r[i] = s[i] /\ i \in 1 .. Len(s) + Len(t)
  BY DEF IsJoin
<1>3. \A i \in 1 .. Len(t) : r[Len(s) + i] = t[i] /\ Len(s) + i \in 1 .. Len(s) + Len(t)
  BY DEF IsJoin
<1>4. ASSUME NEW i \in 1 .. Len(s) + Len(t) PROVE r[i] \in Range(s) \cup Range(t)
  <2>1. CASE i <= Len(s)
    BY <1>1, <1>2, <2>1 DEF Range
  <2>2. CASE i > Len(s)
    <3>1. PICK j \in 1 .. Len(t) : i = Len(s) + j
      <4>1. Len(s) \in Nat /\ Len(t) \in Nat
        OBVIOUS
      <4> QED
        BY <2>2, <4>1, Beyond
    <3> QED
      BY <1>1, <1>3, <3>1 DEF Range
  <2> QED
    BY <1>1, <2>1, <2>2
<1>5. Range(r) \subseteq Range(s) \cup Range(t)
  BY <1>1, <1>4 DEF Range
<1>6. Range(s) \subseteq Range(r)
  BY <1>1, <1>2 DEF Range
<1>7. Range(t) \subseteq Range(r)
  BY <1>1, <1>3 DEF Range
<1> QED
  BY <1>5, <1>6, <1>7

-----------------------------------------------------------------------------
(* Walks through a search. *)

\* New users push others to later places only.
LEMMA NewcomersKeepPlaces ==
  ASSUME NEW old \in UserTables, NEW new \in UserTables, NEW kind,
         \A v \in DOMAIN old : v \in DOMAIN new /\ new[v] = old[v]
  PROVE  /\ Matches(kind, old) \subseteq Matches(kind, new)
         /\ \A v \in Matches(kind, old) : Place(kind, old, v) <= Place(kind, new, v)
<1>1. Matches(kind, old) \subseteq Matches(kind, new)
  BY DEF Matches
<1>2. ASSUME NEW v \in Matches(kind, old)
      PROVE  Place(kind, old, v) <= Place(kind, new, v)
  <2>1. \A w \in Matches(kind, old) : Before(kind, old, w, v) <=> Before(kind, new, w, v)
    BY DEF Before, Matches
  <2>2. Ahead(kind, old, v) \subseteq Ahead(kind, new, v)
    BY <1>1, <2>1 DEF Ahead
  <2>3. IsFiniteSet(Ahead(kind, new, v))
    BY PlaceTypes DEF UserTables
  <2> QED
    BY <2>2, <2>3, FS_Subset DEF Place
<1> QED
  BY <1>1, <1>2

\* A walk between two of its pages.
UnderWay == walk.at = "asked" /\ ~walk.alone

\* A page of any content that is served to a search under way.
LEMMA SearchPage ==
  ASSUME TypeInv, walk.kind \in Searches, UnderWay, NEW read \in 1 .. now,
         NEW page \in Pages(walk.kind, contents[read], Window)
  PROVE  LET kind == walk.kind
             table == contents[read]
             matches == Cardinality(Matches(kind, table))
             rows == EchoedLimit(walk.limit)
         IN  /\ matches \in Nat /\ walk.next \in Nat /\ rows \in Nat \ {0}
             /\ page \in Seq(Matches(kind, table)) /\ page \in Seq(Ids) /\ Len(page) \in Nat
             /\ Len(page) = IF matches <= walk.next THEN 0
                            ELSE IF matches - walk.next < rows THEN matches - walk.next ELSE rows
             /\ \A i \in 1 .. Len(page) : Place(kind, table, page[i]) = walk.next + i - 1
             /\ \A u \in Matches(kind, table) :
                   /\ Place(kind, table, u) \in Nat /\ Place(kind, table, u) < matches
                   /\ Place(kind, table, u) \in walk.next .. walk.next + rows - 1 => u \in Range(page)
<1> DEFINE kind == walk.kind
           table == contents[read]
           matches == Cardinality(Matches(kind, table))
           rows == EchoedLimit(walk.limit)
           skip == Window.skip
           next == walk.next
           place(u) == Place(kind, table, u)
<1>1. table \in Tables(Ids, 0 .. MaxRank) /\ kind \in Searches /\ ~walk.alone
  BY ContentsAre DEF UnderWay
<1>3. /\ Window.rows = rows /\ rows \in Nat \ {0} /\ skip \in Nat /\ next \in Nat
      /\ skip = IF next < IntLimit THEN next ELSE IntLimit - 1
  BY <1>1, NextWindow, Numbers
<1>4. matches \in Nat /\ matches < IntLimit
  BY <1>1, FewMatches
<1>6. /\ page \in Seq(Matches(kind, table)) /\ Len(page) \in Nat
      /\ Len(page) = IF matches - skip <= 0 THEN 0 ELSE IF matches - skip < rows THEN matches - skip ELSE rows
  BY <1>1, <1>3, PageSize
<1>5. page \in Seq(Ids)
  BY <1>1, <1>3, PageTypes
<1>7. /\ \A i \in 1 .. Len(page) : place(page[i]) = skip + i - 1
      /\ \A u \in Matches(kind, table) : place(u) \in skip .. skip + rows - 1 => u \in Range(page)
  BY <1>1, <1>3, PageHolds
<1>8. \A u \in Matches(kind, table) : place(u) \in Nat /\ place(u) < matches
  BY <1>1, PlaceTypes, PlacesGrow
<1>9. next < matches => skip = next
  BY <1>3, <1>4, Numbers
<1>13. ~(next < matches) => ~(skip < matches)
  BY <1>3, <1>4, Numbers
<1> HIDE DEF kind, table, matches, rows, skip, next, place
<1>10. Len(page) = IF matches <= next THEN 0 ELSE IF matches - next < rows THEN matches - next ELSE rows
  BY <1>3, <1>4, <1>6, <1>9, <1>13
<1>11. \A i \in 1 .. Len(page) : place(page[i]) = next + i - 1
  BY <1>3, <1>4, <1>6, <1>7, <1>9, <1>13
<1>12. ASSUME NEW u \in Matches(kind, table), place(u) \in next .. next + rows - 1
       PROVE  u \in Range(page)
  <2>1. next < matches
    BY <1>3, <1>4, <1>8, <1>12
  <2> QED
    BY <1>7, <1>9, <1>12, <2>1
<1>15. page \in Seq(Matches(kind, table)) /\ Len(page) \in Nat
  BY <1>6
<1>17. \A u \in Matches(kind, table) : place(u) \in next .. next + rows - 1 => u \in Range(page)
  BY <1>12
<1> USE DEF kind, table, matches, rows, next, place
<1> QED
  BY <1>3, <1>4, <1>5, <1>8, <1>10, <1>11, <1>15, <1>17, Zenon


LEMMA BeginIs ==
  ASSUME NEW kind, NEW limit, Start(kind, limit) \/ \E next \in Anywhere : Ask(kind, limit, next)
  PROVE  /\ contents' = contents /\ walk'.kind = kind /\ walk'.at = "asked"
         /\ walk'.served = <<>> /\ walk'.first = 0 /\ walk'.last = 0 /\ walk'.back = FALSE
         /\ walk'.alone \/ (~walk'.alone /\ walk'.next = IF kind = "users" THEN 1 ELSE 0)
<1>1. CASE Start(kind, limit)
  BY <1>1 DEF Start, NoWalk
<1>2. ASSUME NEW next \in Anywhere, Ask(kind, limit, next)
      PROVE  /\ contents' = contents /\ walk'.kind = kind /\ walk'.at = "asked"
             /\ walk'.served = <<>> /\ walk'.first = 0 /\ walk'.last = 0 /\ walk'.back = FALSE
             /\ walk'.alone
  BY <1>2 DEF Ask, NoWalk
<1> QED
  BY <1>1, <1>2

\* Steps as walks see them: one begins, one gets an answer, or none is concerned.
Begin == \E kind \in Kinds, limit \in Asked :
           Start(kind, limit) \/ \E next \in Anywhere : Ask(kind, limit, next)

Unconcerned ==
  /\ walk' = walk /\ now \in Nat
  /\ \A i \in 1 .. now : contents'[i] = contents[i]

LEMMA StepsAre ==
  TypeInv /\ [Next]_vars => TypeInv' /\ (Begin \/ List \/ Search \/ Unconcerned)
<1> SUFFICES ASSUME TypeInv, [Next]_vars PROVE Begin \/ List \/ Search \/ Unconcerned
  BY TypeStep
<1>1. now \in Nat
  BY ContentsAre
<1>2. ASSUME NEW u \in Ids, Register(u) \/ Edit(u) PROVE Unconcerned
  BY <1>2, WriteTypes DEF Grown, Unconcerned
<1>3. \A o, t, a : PlaceOrder(o) \/ Pay(t) \/ Act(a) => Unconcerned
  BY <1>1 DEF PlaceOrder, Pay, Act, Buying, Unconcerned
<1>4. UNCHANGED vars => Unconcerned
  BY <1>1 DEF vars, Unconcerned
<1> QED
  BY <1>2, <1>3, <1>4 DEF Next, Begin

\* Where a walk begins, and that its contents follow each other.
Begun ==
  /\ walk.first = 0 =>
        /\ walk.last = 0 /\ walk.served = <<>> /\ ~walk.back /\ walk.at \in {"nowhere", "asked"}
        /\ UnderWay => walk.next = IF walk.kind = "users" THEN 1 ELSE 0
  /\ walk.first # 0 => walk.last # 0 /\ (~walk.back => walk.first <= walk.last)

LEMMA BegunStep == TypeInv /\ Begun /\ [Next]_vars => Begun'
<1> SUFFICES ASSUME TypeInv, Begun, [Next]_vars PROVE Begun'
  OBVIOUS
<1>1. CASE Begin
  BY <1>1, BeginIs DEF Begin, Begun, UnderWay
<1>2. CASE List \/ Search
  <2>1. PICK read \in 1 .. now, counted \in 1 .. now, total \in 0 .. Cardinality(Ids) :
           \E page \in Pages(walk.kind, contents[read], Window) :
              IsAnswer(walk', walk, page, total, counted, read, Window.skip)
    BY <1>2, AnsweredIs
  <2>2. read \in Nat /\ read # 0 /\ walk.first \in Nat /\ walk.last \in Nat
    BY ContentsAre DEF TypeInv, WalkType
  <2>3. /\ walk'.first = (IF walk.first = 0 THEN read ELSE walk.first) /\ walk'.last = read
        /\ ~walk'.back => ~walk.back /\ walk.last <= read
    BY <2>1, <2>2 DEF IsAnswer
  <2>4. CASE walk.first = 0
    BY <2>2, <2>3, <2>4 DEF Begun
  <2>5. CASE walk.first # 0
    BY <2>2, <2>3, <2>5 DEF Begun
  <2> QED
    BY <2>4, <2>5
<1>3. CASE Unconcerned
  BY <1>3 DEF Unconcerned, Begun, UnderWay
<1> QED
  BY <1>1, <1>2, <1>3, StepsAre

\* The contents of a walk during which users only registered.
LEMMA OnlyRegisteredIs ==
  ASSUME TypeInv, NEW i \in 1 .. now, NEW j \in 1 .. now, i <= j, OnlyRegistered(i, j)
  PROVE  \A k \in i .. j :
            /\ OnlyRegistered(i, k)
            /\ \A v \in DOMAIN contents[k] : v \in DOMAIN contents[j] /\ contents[j][v] = contents[k][v]
  BY ContentsAre DEF OnlyRegistered

\* Whoever the walk has not served yet is still ahead of it.
NoneMissed ==
  walk.kind \in Searches /\ walk.first # 0 /\ ~walk.back /\ OnlyRegistered(walk.first, walk.last) =>
    /\ UnderWay => \A u \in Matches(walk.kind, contents[walk.first]) :
          u \in Range(walk.served) \/ Place(walk.kind, contents[walk.last], u) >= walk.next
    /\ walk.at = "ended" => Matches(walk.kind, contents[walk.first]) \subseteq Range(walk.served)

\* So it is in the content that the next page is read from.
LEMMA StillAhead ==
  ASSUME TypeInv, Begun, NoneMissed, walk.kind \in Searches, UnderWay, ~walk.back,
         NEW read \in 1 .. now, walk.first # 0 => walk.last <= read,
         NEW base, base = IF walk.first = 0 THEN read ELSE walk.first,
         OnlyRegistered(base, read)
  PROVE  /\ Matches(walk.kind, contents[base]) \subseteq Matches(walk.kind, contents[read])
         /\ \A u \in Matches(walk.kind, contents[base]) :
               u \in Range(walk.served) \/ Place(walk.kind, contents[read], u) >= walk.next
<1> DEFINE kind == walk.kind
           place(i, u) == Place(kind, contents[i], u)
<1>1. \A i \in 1 .. now : /\ contents[i] \in UserTables
                          /\ \A u : place(i, u) \in Nat
  BY ContentsAre, PlaceTypes DEF UserTables
<1>2. walk.first \in 0 .. now /\ walk.last \in 0 .. now /\ walk.next \in Nat /\ now \in Nat
  BY ContentsAre DEF TypeInv, TypeOK, UnderWay
<1>3. CASE walk.first = 0
  <2>1. base = read /\ walk.next = 0
    BY <1>3 DEF Begun, Searches
  <2>2. \A u : place(read, u) >= 0
    BY <1>1
  <2> QED
    BY <2>1, <2>2
<1>4. CASE walk.first # 0
  <2>1. /\ base = walk.first /\ base \in 1 .. now /\ walk.last \in 1 .. now
        /\ base <= walk.last /\ walk.last <= read /\ base <= read
    BY <1>2, <1>4 DEF Begun
  <2>2. \A k \in base .. read :
            /\ OnlyRegistered(base, k)
            /\ \A v \in DOMAIN contents[k] : v \in DOMAIN contents[read] /\ contents[read][v] = contents[k][v]
    BY <2>1, OnlyRegisteredIs
  <2>3. base \in base .. read /\ walk.last \in base .. read
    BY <1>2, <2>1
  <2>4. Matches(kind, contents[base]) \subseteq Matches(kind, contents[read])
    BY <1>1, <2>1, <2>2, <2>3, NewcomersKeepPlaces
  <2>5. \A v \in Matches(kind, contents[walk.last]) : place(walk.last, v) <= place(read, v)
    BY <1>1, <2>1, <2>2, <2>3, NewcomersKeepPlaces
  <2>6. Matches(kind, contents[base]) \subseteq Matches(kind, contents[walk.last])
    <3>1. OnlyRegistered(base, walk.last)
      BY <2>2, <2>3
    <3>2. base \in base .. walk.last
      BY <1>2, <2>1
    <3>3. \A v \in DOMAIN contents[base] :
             v \in DOMAIN contents[walk.last] /\ contents[walk.last][v] = contents[base][v]
      BY <2>1, <3>1, <3>2, OnlyRegisteredIs
    <3> QED
      BY <1>1, <2>1, <3>3, NewcomersKeepPlaces
  <2>7. \A u \in Matches(kind, contents[base]) : u \in Range(walk.served) \/ place(walk.last, u) >= walk.next
    BY <1>4, <2>1, <2>2, <2>3 DEF NoneMissed
  <2>8. ASSUME NEW u \in Matches(kind, contents[base]), u \notin Range(walk.served)
        PROVE  place(read, u) >= walk.next
    <3>1. place(walk.last, u) >= walk.next /\ place(walk.last, u) <= place(read, u)
      BY <2>5, <2>6, <2>7, <2>8
    <3>2. place(walk.last, u) \in Nat /\ place(read, u) \in Nat
      BY <1>1, <2>1
    <3> HIDE DEF place
    <3> QED
      BY <1>2, <3>1, <3>2
  <2> QED
    BY <2>1, <2>4, <2>8
<1> QED
  BY <1>3, <1>4


\* An answer to a search, and that it ends the walk if it is empty.
LEMMA SearchAnswers ==
  ASSUME TypeInv, List \/ Search, walk'.kind \in Searches
  PROVE  /\ walk.kind \in Searches /\ walk.at = "asked" /\ contents' = contents
         /\ walk.last \in Nat /\ TypeInv'
         /\ \E read \in 1 .. now, counted \in 1 .. now, total \in 0 .. Cardinality(Ids) :
            \E page \in Pages(walk.kind, contents[read], Window) :
               /\ IsAnswer(walk', walk, page, total, counted, read, Window.skip)
               /\ walk'.next = walk.next + EchoedLimit(walk.limit)
               /\ walk'.at = IF walk.alone THEN "answered" ELSE IF page = <<>> THEN "ended" ELSE "asked"
               /\ ~walk'.back => ~walk.back /\ walk.last <= read
               /\ walk.kind = "name" => counted = read /\ total = NameTotal(contents[read], page)
               /\ walk.kind = "email" => total = Cardinality(Matches("email", contents[counted]))
<1>1. PICK read \in 1 .. now, counted \in 1 .. now, total \in 0 .. Cardinality(Ids) :
        \E page \in Pages(walk.kind, contents[read], Window) :
           /\ IsAnswer(walk', walk, page, total, counted, read, Window.skip)
           /\ walk.kind = "name" => counted = read /\ total = NameTotal(contents[read], page)
           /\ walk.kind = "email" => total = Cardinality(Matches("email", contents[counted]))
  BY AnsweredIs
<1>2. PICK page \in Pages(walk.kind, contents[read], Window) :
        /\ IsAnswer(walk', walk, page, total, counted, read, Window.skip)
        /\ walk.kind = "name" => counted = read /\ total = NameTotal(contents[read], page)
        /\ walk.kind = "email" => total = Cardinality(Matches("email", contents[counted]))
  BY <1>1
<1>3. read \in Nat /\ walk.last \in Nat
  BY ContentsAre DEF TypeInv, WalkType
<1>4. walk.kind \in Searches /\ Step(walk) = EchoedLimit(walk.limit)
  BY <1>2 DEF IsAnswer, Step, Searches
<1>5. walk'.at = IF walk.alone THEN "answered" ELSE IF page = <<>> THEN "ended" ELSE "asked"
  BY <1>2 DEF IsAnswer
<1>6. ~walk'.back => ~walk.back /\ walk.last <= read
  BY <1>2, <1>3 DEF IsAnswer
<1>7. walk'.next = walk.next + EchoedLimit(walk.limit)
  BY <1>2, <1>4 DEF IsAnswer
<1> QED
  BY <1>2, <1>3, <1>4, <1>5, <1>6, <1>7, AnsweredIs, AnswerTypes

\* What a walk has been served, with the page it is served now.
LEMMA ServedIs ==
  ASSUME NEW s \in Seq(Ids), NEW page \in Seq(Ids), NEW all, all = s \o page
  PROVE  IsJoin(all, s, page) /\ Range(all) = Range(s) \cup Range(page)
<1>1. IsJoin(all, s, page) /\ all \in Seq(Ids)
  BY Joined
<1> QED
  BY <1>1, RangeOfBoth

LEMMA NoneMissedStep == TypeInv /\ Begun /\ NoneMissed /\ [Next]_vars => NoneMissed'
<1> SUFFICES ASSUME TypeInv, Begun, NoneMissed, [Next]_vars,
                    walk'.kind \in Searches, walk'.first # 0, ~walk'.back,
                    OnlyRegistered(walk.first, walk.last)'
             PROVE  NoneMissed'
  BY DEF NoneMissed
<1>1. CASE Begin
  BY <1>1, BeginIs DEF Begin
<1>2. CASE List \/ Search
  <2>1. PICK read \in 1 .. now, counted \in 1 .. now, total \in 0 .. Cardinality(Ids) :
          \E page \in Pages(walk.kind, contents[read], Window) :
             /\ IsAnswer(walk', walk, page, total, counted, read, Window.skip)
             /\ walk'.next = walk.next + EchoedLimit(walk.limit)
             /\ walk'.at = IF walk.alone THEN "answered" ELSE IF page = <<>> THEN "ended" ELSE "asked"
             /\ ~walk'.back => ~walk.back /\ walk.last <= read
    BY <1>2, SearchAnswers
  <2>2. PICK page \in Pages(walk.kind, contents[read], Window) :
          /\ IsAnswer(walk', walk, page, total, counted, read, Window.skip)
          /\ walk'.next = walk.next + EchoedLimit(walk.limit)
          /\ walk'.at = IF walk.alone THEN "answered" ELSE IF page = <<>> THEN "ended" ELSE "asked"
          /\ ~walk'.back => ~walk.back /\ walk.last <= read
    BY <2>1
  <2>3. walk.kind \in Searches /\ walk.at = "asked" /\ contents' = contents
    BY <1>2, SearchAnswers
  <2> DEFINE kind == walk.kind
             base == walk'.first
             rows == EchoedLimit(walk.limit)
             matches == Cardinality(Matches(kind, contents[read]))
             place(u) == Place(kind, contents[read], u)
  <2>4. /\ walk'.kind = kind /\ walk'.last = read /\ walk'.alone = walk.alone
        /\ walk'.served = walk.served \o page
        /\ base = IF walk.first = 0 THEN read ELSE walk.first
    BY <2>2 DEF IsAnswer
  <2>5. CASE walk.alone
    BY <2>2, <2>4, <2>5 DEF NoneMissed, UnderWay
  <2>6. CASE ~walk.alone
    <3>1. UnderWay
      BY <2>3, <2>6 DEF UnderWay
    <3>2. ~walk.back /\ walk.last <= read /\ OnlyRegistered(base, read)
      BY <2>2, <2>3, <2>4 DEF OnlyRegistered
    <3>3. /\ Matches(kind, contents[base]) \subseteq Matches(kind, contents[read])
          /\ \A u \in Matches(kind, contents[base]) : u \in Range(walk.served) \/ place(u) >= walk.next
      BY <2>3, <2>4, <3>1, <3>2, StillAhead
    <3>4. /\ matches \in Nat /\ walk.next \in Nat /\ rows \in Nat \ {0}
          /\ page \in Seq(Matches(kind, contents[read])) /\ page \in Seq(Ids) /\ Len(page) \in Nat
          /\ Len(page) = IF matches <= walk.next THEN 0
                         ELSE IF matches - walk.next < rows THEN matches - walk.next ELSE rows
          /\ \A u \in Matches(kind, contents[read]) :
                /\ place(u) \in Nat /\ place(u) < matches
                /\ place(u) \in walk.next .. walk.next + rows - 1 => u \in Range(page)
      BY <2>3, <3>1, SearchPage
    <3>5. Range(walk'.served) = Range(walk.served) \cup Range(page)
      <4>1. walk.served \in Seq(Ids)
        BY DEF TypeInv, WalkType
      <4> QED
        BY <2>4, <3>4, <4>1, ServedIs
    <3>6. /\ walk'.next = walk.next + rows
          /\ walk'.at = IF page = <<>> THEN "ended" ELSE "asked"
      BY <2>2, <2>6
    <3> HIDE DEF kind, base, rows, place, matches
    <3>7. CASE page = <<>>
      <4>1. Len(page) = 0
        BY <3>7
      <4>2. matches <= walk.next
        <5>1. matches \in Nat /\ walk.next \in Nat /\ rows \in Nat \ {0}
          BY <3>4
        <5>2. ASSUME matches > walk.next PROVE Len(page) # 0
          <6>1. Len(page) = IF matches - walk.next < rows THEN matches - walk.next ELSE rows
            BY <3>4, <5>1, <5>2
          <6> QED
            BY <5>1, <5>2, <6>1
        <5> QED
          BY <4>1, <5>1, <5>2
      <4>3. Matches(kind, contents[base]) \subseteq Range(walk.served)
        BY <3>3, <3>4, <4>2
      <4>4. walk'.at = "ended"
        BY <3>6, <3>7
      <4> QED
        BY <2>3, <2>4, <3>5, <4>3, <4>4 DEF NoneMissed, UnderWay, base
    <3>8. CASE page # <<>>
      <4>1. ASSUME NEW u \in Matches(kind, contents[base])
            PROVE  u \in Range(walk'.served) \/ place(u) >= walk'.next
        BY <3>3, <3>4, <3>5, <3>6, <4>1
      <4>2. walk'.at # "ended"
        BY <3>6, <3>8
      <4> QED
        BY <2>3, <2>4, <4>1, <4>2 DEF NoneMissed, place, base
    <3> QED
      BY <3>7, <3>8
  <2> QED
    BY <2>5, <2>6
<1>3. CASE Unconcerned
  <2>1. /\ walk' = walk /\ walk.first \in 1 .. now /\ walk.last \in 1 .. now
        /\ \A i \in 1 .. now : contents'[i] = contents[i]
    BY <1>3 DEF Unconcerned, Begun, TypeInv, TypeOK
  <2>2. OnlyRegistered(walk.first, walk.last)
    <3>1. \A i \in walk.first .. walk.last : contents'[i] = contents[i]
      BY <1>3, <2>1 DEF Unconcerned
    <3> QED
      BY <2>1, <3>1 DEF OnlyRegistered
  <2> QED
    BY <2>1, <2>2 DEF NoneMissed, UnderWay
<1> QED
  BY <1>1, <1>2, <1>3, StepsAre

\* What has been served of one content is the beginning of its sorted listing.
InOrder ==
  walk.kind \in Searches /\ walk.first # 0 /\ OneContent /\ (UnderWay \/ walk.at = "ended") =>
    LET table == contents[walk.last]
        matches == Cardinality(Matches(walk.kind, table))
    IN  /\ \A i \in 1 .. Len(walk.served) :
              walk.served[i] \in Matches(walk.kind, table) /\ Place(walk.kind, table, walk.served[i]) = i - 1
        /\ UnderWay => Len(walk.served) = IF walk.next < matches THEN walk.next ELSE matches

LEMMA InOrderStep == TypeInv /\ Begun /\ InOrder /\ [Next]_vars => InOrder'
<1> SUFFICES ASSUME TypeInv, Begun, InOrder, [Next]_vars,
                    walk'.kind \in Searches, walk'.first # 0, OneContent', UnderWay' \/ walk'.at = "ended"
             PROVE  InOrder'
  BY DEF InOrder
<1>1. CASE Begin
  BY <1>1, BeginIs DEF Begin
<1>2. CASE List \/ Search
  <2>1. PICK read \in 1 .. now, counted \in 1 .. now, total \in 0 .. Cardinality(Ids) :
          \E page \in Pages(walk.kind, contents[read], Window) :
             /\ IsAnswer(walk', walk, page, total, counted, read, Window.skip)
             /\ walk'.next = walk.next + EchoedLimit(walk.limit)
             /\ walk'.at = IF walk.alone THEN "answered" ELSE IF page = <<>> THEN "ended" ELSE "asked"
             /\ ~walk'.back => ~walk.back /\ walk.last <= read
    BY <1>2, SearchAnswers
  <2>2. PICK page \in Pages(walk.kind, contents[read], Window) :
          /\ IsAnswer(walk', walk, page, total, counted, read, Window.skip)
          /\ walk'.next = walk.next + EchoedLimit(walk.limit)
          /\ walk'.at = IF walk.alone THEN "answered" ELSE IF page = <<>> THEN "ended" ELSE "asked"
          /\ ~walk'.back => ~walk.back /\ walk.last <= read
    BY <2>1
  <2>3. walk.kind \in Searches /\ walk.at = "asked" /\ contents' = contents
    BY <1>2, SearchAnswers
  <2> DEFINE kind == walk.kind
             rows == EchoedLimit(walk.limit)
             matches == Cardinality(Matches(kind, contents[read]))
             place(u) == Place(kind, contents[read], u)
  <2>4. /\ walk'.kind = kind /\ walk'.last = read /\ walk'.alone = walk.alone
        /\ walk'.served = walk.served \o page
        /\ walk'.first = IF walk.first = 0 THEN read ELSE walk.first
    BY <2>2 DEF IsAnswer
  <2>5. UnderWay
    BY <2>2, <2>3, <2>4 DEF UnderWay
  <2>6. /\ matches \in Nat /\ walk.next \in Nat /\ rows \in Nat \ {0}
        /\ page \in Seq(Matches(kind, contents[read])) /\ page \in Seq(Ids) /\ Len(page) \in Nat
        /\ Len(page) = IF matches <= walk.next THEN 0
                       ELSE IF matches - walk.next < rows THEN matches - walk.next ELSE rows
        /\ \A i \in 1 .. Len(page) : place(page[i]) = walk.next + i - 1
    BY <2>3, <2>5, SearchPage
  <2>7. /\ \A i \in 1 .. Len(walk.served) :
              walk.served[i] \in Matches(kind, contents[read]) /\ place(walk.served[i]) = i - 1
        /\ Len(walk.served) = IF walk.next < matches THEN walk.next ELSE matches
    <3>1. CASE walk.first = 0
      <4>1. Len(walk.served) = 0 /\ walk.next = 0
        BY <2>3, <2>5, <3>1 DEF Begun, Searches
      <4> QED
        BY <2>6, <4>1
    <3>2. CASE walk.first # 0
      <4>1. ~walk.back /\ walk.last <= read /\ walk.first = read
        BY <2>2, <2>4, <3>2 DEF OneContent
      <4>2. walk.first <= walk.last /\ walk.first \in Nat /\ walk.last \in Nat
        BY <3>2, <4>1 DEF Begun, TypeInv, WalkType
      <4>3. walk.last = read /\ OneContent
        BY <4>1, <4>2 DEF OneContent
      <4> QED
        BY <2>3, <2>5, <3>2, <4>3 DEF InOrder
    <3> QED
      BY <3>1, <3>2
  <2>8. IsJoin(walk'.served, walk.served, page)
    <3>1. walk.served \in Seq(Ids)
      BY DEF TypeInv, WalkType
    <3> QED
      BY <2>4, <2>6, <3>1, ServedIs
  <2> HIDE DEF kind, rows, place, matches
  <2>9. Len(page) = IF matches <= walk.next THEN 0
                    ELSE IF matches - walk.next < rows THEN matches - walk.next ELSE rows
    BY <2>6
  <2>10. ASSUME NEW i \in 1 .. Len(walk'.served)
         PROVE  walk'.served[i] \in Matches(kind, contents[read]) /\ place(walk'.served[i]) = i - 1
    <3>1. CASE i <= Len(walk.served)
      BY <2>7, <2>8, <3>1 DEF IsJoin
    <3>2. CASE i > Len(walk.served)
      <4>1. PICK j \in 1 .. Len(page) : i = Len(walk.served) + j
        <5>1. /\ Len(walk.served) \in Nat /\ Len(page) \in Nat
              /\ i \in 1 .. Len(walk.served) + Len(page)
          BY <2>8 DEF IsJoin
        <5> QED
          BY <3>2, <5>1, Beyond
      <4>2. walk'.served[i] = page[j]
        BY <2>8, <4>1 DEF IsJoin
      <4>3. page[j] \in Matches(kind, contents[read])
        BY <2>6
      <4>4. place(page[j]) = walk.next + j - 1
        BY <2>6
      <4>5. Len(walk.served) = walk.next
        BY <2>6, <2>7, <2>9, <4>1
      <4> QED
        BY <2>6, <4>1, <4>2, <4>3, <4>4, <4>5
    <3> QED
      BY <2>8, <3>1, <3>2 DEF IsJoin
  <2>11. Len(walk'.served) = IF walk'.next < matches THEN walk'.next ELSE matches
    <3>1. /\ matches \in Nat /\ walk.next \in Nat /\ rows \in Nat \ {0}
          /\ walk'.next = walk.next + rows
      BY <2>2, <2>6 DEF rows
    <3>2. Len(walk'.served) = Len(walk.served) + Len(page)
      BY <2>8 DEF IsJoin
    <3>3. Len(walk.served) = IF walk.next < matches THEN walk.next ELSE matches
      BY <2>7
    <3> QED
      BY <2>9, <3>1, <3>2, <3>3
  <2> QED
    BY <2>3, <2>4, <2>10, <2>11 DEF InOrder, place, matches
<1>3. CASE Unconcerned
  <2>1. walk' = walk /\ walk.last \in 1 .. now /\ contents'[walk.last] = contents[walk.last]
    BY <1>3 DEF Unconcerned, Begun, TypeInv, TypeOK
  <2> QED
    BY <2>1 DEF InOrder, UnderWay, OneContent
<1> QED
  BY <1>1, <1>2, <1>3, StepsAre

LEMMA Bounded ==
  ASSUME NEW rows \in Nat, NEW left \in Int
  PROVE  Max({0, Min({rows, left})}) = IF left <= 0 THEN 0 ELSE IF left < rows THEN left ELSE rows
<1>1. Min({rows, left}) = IF rows <= left THEN rows ELSE left
  BY DEF Min
<1>2. \A n \in Int : Max({0, n}) = IF n <= 0 THEN 0 ELSE n
  BY DEF Max
<1>3. Min({rows, left}) \in Int
  BY <1>1
<1> QED
  BY <1>1, <1>2, <1>3


\* Counted first or with the rows, the total is that of the content it is of.
Totals ==
  walk.kind \in Searches /\ walk.last # 0 =>
    LET matches == Cardinality(Matches(walk.kind, contents[walk.last])) IN
    /\ Len(walk.page) = Max({0, Min({SearchLimit(Atoi(walk.limit)), matches - walk.skip})})
    /\ walk.counted = walk.last /\ walk.total # matches =>
           walk.kind = "name" /\ walk.page = <<>> /\ walk.total = 0

LEMMA TotalsStep == TypeInv /\ Totals /\ [Next]_vars => Totals'
<1> SUFFICES ASSUME TypeInv, Totals, [Next]_vars, walk'.kind \in Searches, walk'.last # 0
             PROVE  Totals'
  BY DEF Totals
<1>1. CASE Begin
  BY <1>1, BeginIs DEF Begin
<1>2. CASE List \/ Search
  <2>1. PICK read \in 1 .. now, counted \in 1 .. now, total \in 0 .. Cardinality(Ids) :
          \E page \in Pages(walk.kind, contents[read], Window) :
             /\ IsAnswer(walk', walk, page, total, counted, read, Window.skip)
             /\ walk.kind = "name" => counted = read /\ total = NameTotal(contents[read], page)
             /\ walk.kind = "email" => total = Cardinality(Matches("email", contents[counted]))
    BY <1>2, SearchAnswers
  <2>2. PICK page \in Pages(walk.kind, contents[read], Window) :
          /\ IsAnswer(walk', walk, page, total, counted, read, Window.skip)
          /\ walk.kind = "name" => counted = read /\ total = NameTotal(contents[read], page)
          /\ walk.kind = "email" => total = Cardinality(Matches("email", contents[counted]))
    BY <2>1
  <2>3. walk.kind \in Searches /\ contents' = contents /\ contents[read] \in Tables(Ids, 0 .. MaxRank)
    BY <1>2, SearchAnswers, ContentsAre
  <2> DEFINE matches == Cardinality(Matches(walk.kind, contents[read]))
             rows == SearchLimit(Atoi(walk.limit))
  <2>4. Window.rows = rows /\ rows \in Nat /\ Window.skip \in Nat
    BY <2>3, NextWindow, Numbers DEF EchoedLimit
  <2>5. matches \in Nat
    BY <2>3, FewMatches
  <2>6. Len(page) = IF matches - Window.skip <= 0 THEN 0
                    ELSE IF matches - Window.skip < rows THEN matches - Window.skip ELSE rows
    BY <2>3, <2>4, PageSize
  <2>7. matches - Window.skip \in Int
    BY <2>4, <2>5
  <2>8. /\ walk'.total = total /\ walk'.skip = Window.skip /\ walk'.page = page
        /\ walk'.kind = walk.kind /\ walk'.limit = walk.limit
        /\ walk'.last = read /\ walk'.counted = counted
    BY <2>2 DEF IsAnswer
  <2>9. counted = read /\ total # matches => walk.kind = "name" /\ page = <<>> /\ total = 0
    <3>1. CASE walk.kind = "email"
      BY <2>2, <3>1 DEF matches
    <3>2. CASE walk.kind = "name"
      BY <2>2, <3>2 DEF NameTotal, matches
    <3> QED
      BY <2>3, <3>1, <3>2 DEF Searches
  <2>10. /\ Cardinality(Matches(walk'.kind, contents'[walk'.last])) = matches
         /\ SearchLimit(Atoi(walk'.limit)) = rows
    BY <2>3, <2>8
  <2> HIDE DEF matches, rows
  <2>11. Len(page) = Max({0, Min({rows, matches - Window.skip})})
    BY <2>4, <2>6, <2>7, Bounded
  <2> QED
    BY <2>8, <2>9, <2>10, <2>11 DEF Totals
<1>3. CASE Unconcerned
  <2>1. walk' = walk /\ walk.last \in 1 .. now /\ contents'[walk.last] = contents[walk.last]
    BY <1>3 DEF Unconcerned, TypeInv, TypeOK
  <2> QED
    BY <2>1 DEF Totals
<1> QED
  BY <1>1, <1>2, <1>3, StepsAre

PagesInv == TypeInv /\ Begun /\ NoneMissed /\ InOrder /\ Totals

LEMMA PagesAlways == Spec => []PagesInv
<1>1. Init => PagesInv
  BY TypeInit DEF Init, NoWalk, PagesInv, Begun, UnderWay, NoneMissed, InOrder, Totals, Searches
<1>2. PagesInv /\ [Next]_vars => PagesInv'
  BY TypeStep, BegunStep, NoneMissedStep, InOrderStep, TotalsStep DEF PagesInv
<1> QED
  BY <1>1, <1>2, PTL DEF Spec

\* A walk that has ended has had an answer.
LEMMA EndedIs == PagesInv /\ walk.at = "ended" => walk.first # 0 /\ walk.last # 0
  BY DEF PagesInv, Begun

\* However many users register while a walk through a search is under way, it
\* misses none of those who were there when its first page was read, as long as
\* the cache never gives it a page older than the one before: newcomers push
\* others to later offsets only (OFFSET of search_repository.go, over a fixed
\* order).
THEOREM NewUsersNeverHideAnyone == Spec => []NewUsersHideNobody
<1>1. PagesInv => NewUsersHideNobody
  BY EndedIs DEF PagesInv, NoneMissed, NewUsersHideNobody, Ended, Searches
<1> QED
  BY <1>1, PagesAlways, PTL

\* A walk through a search all of whose pages are of one content of the table,
\* however old they are, serves every match exactly once and in order, whatever
\* limit it asks for and however wide integers are.
THEOREM WalksServeAll == Spec => []WalkServesAll
<1>1. PagesInv => WalkServesAll
  <2> DEFINE table == contents[walk.last]
  <2> SUFFICES ASSUME PagesInv, walk.at = "ended", walk.kind \in Searches, OneContent
               PROVE  /\ Range(walk.served) = Matches(walk.kind, table)
                      /\ Sorted(walk.kind, table, walk.served)
    BY DEF WalkServesAll, Ended, Searches
  <2>1. /\ walk.served \in Seq(Ids) /\ table \in Tables(Ids, 0 .. MaxRank)
        /\ walk.first \in 1 .. now /\ walk.last = walk.first
    <3>1. TypeInv /\ walk.first \in 0 .. now /\ walk.first # 0 /\ now \in Nat
      BY EndedIs, ContentsAre DEF PagesInv, TypeInv, TypeOK
    <3>2. walk.served \in Seq(Ids) /\ walk.first \in 1 .. now /\ walk.last = walk.first
      BY <3>1 DEF TypeInv, WalkType, OneContent
    <3> QED
      BY <3>1, <3>2, ContentsAre
  <2>2. DOMAIN walk.served = 1 .. Len(walk.served)
    BY <2>1
  <2>3. \A i \in DOMAIN walk.served :
           walk.served[i] \in Matches(walk.kind, table) /\ Place(walk.kind, table, walk.served[i]) = i - 1
    BY <2>2, EndedIs DEF PagesInv, InOrder
  <2>4. Range(walk.served) \subseteq Matches(walk.kind, table)
    BY <2>3 DEF Range
  <2>5. OnlyRegistered(walk.first, walk.last)
    <3>1. \A a, b \in walk.first .. walk.last : a = b
      BY <2>1
    <3> QED
      BY <3>1 DEF OnlyRegistered
  <2>6. Matches(walk.kind, table) \subseteq Range(walk.served)
    BY <2>1, <2>5, EndedIs DEF PagesInv, NoneMissed, OneContent
  <2>7. ASSUME NEW i \in DOMAIN walk.served, NEW j \in DOMAIN walk.served, i < j
        PROVE  Before(walk.kind, table, walk.served[i], walk.served[j])
    <3>1. Place(walk.kind, table, walk.served[i]) < Place(walk.kind, table, walk.served[j])
      BY <2>2, <2>3, <2>7
    <3> QED
      BY <2>1, <2>3, <3>1, PlacesGrow
  <2> QED
    BY <2>4, <2>6, <2>7 DEF Sorted
<1> QED
  BY <1>1, PagesAlways, PTL

\* Every page of a search, however old it is, has the rows its offset and limit
\* leave of the content it was read from, and the total next to it is right if
\* it was counted in the same content, but for a page of a name search beyond
\* the end (count and COUNT(*) OVER of search_repository.go).
THEOREM TotalsFitPages == Spec => []TotalFitsPage
<1>1. PagesInv => TotalFitsPage
  <2>1. PagesInv /\ walk.kind # "users" => walk.kind \in Searches
    BY DEF PagesInv, TypeInv, WalkType, Kinds, Searches
  <2> QED
    BY <2>1 DEF PagesInv, Totals, TotalFitsPage
<1> QED
  BY <1>1, PagesAlways, PTL

-----------------------------------------------------------------------------
(* Walks through the listing of all users. *)

\* There are so few users that no offset overflows before a page is empty; of
\* 2^63 ints, all but 100.
FewUsers == Cardinality(Ids) + MaxLimit < IntLimit

\* The listing so far has as many rows as the pages asked for, or as the table.
Listed ==
  walk.kind = "users" /\ walk.first # 0 /\ OneContent =>
    LET rows == Window.rows
        all == Cardinality(DOMAIN contents[walk.last])
        passed == (walk.next - 1) * rows
    IN  /\ UnderWay => /\ walk.next >= 1
                       /\ walk.next > 1 => passed - rows < all
                       /\ Len(walk.served) = IF passed < all THEN passed ELSE all
        /\ walk.at = "ended" => Len(walk.served) = all

\* A walk that is not past the table by more than a page is not past the ints.
LEMMA PassedIs ==
  ASSUME NEW next \in Nat, next >= 1, NEW rows \in Nat \ {0}, NEW all \in Nat, NEW limit \in Nat,
         all + rows < limit, next > 1 => (next - 1) * rows - rows < all
  PROVE  /\ (next - 1) * rows \in Nat /\ (next - 1) * rows < limit /\ next < limit
         /\ (next + 1 - 1) * rows - rows = (next - 1) * rows
         /\ (next + 1 - 1) * rows = (next - 1) * rows + rows
<1>1. PICK k \in Nat : next = k + 1
  <2>1. next - 1 \in Nat /\ next = (next - 1) + 1
    OBVIOUS
  <2> QED
    BY <2>1
<1>2. next - 1 = k /\ next + 1 - 1 = k + 1
  BY <1>1
<1>3. k * rows \in Nat /\ (k + 1) * rows = k * rows + rows
  BY <1>1
<1>4. k <= k * rows
  BY <1>1
<1>5. k * rows < all + rows
  BY <1>1, <1>2, <1>3
<1>6. k < all + rows
  BY <1>1, <1>3, <1>4, <1>5
<1> QED
  BY <1>1, <1>2, <1>3, <1>5, <1>6

LEMMA AllMatch == \A table : Matches("users", table) = DOMAIN table
  BY DEF Matches

\* An answer to a request for the listing.
LEMMA ListingAnswers ==
  ASSUME TypeInv, List \/ Search, walk'.kind = "users"
  PROVE  /\ walk.kind = "users" /\ walk.at = "asked" /\ contents' = contents /\ TypeInv'
         /\ walk.last \in Nat
         /\ \E read \in 1 .. now : \E page \in Pages("users", contents[read], Window) :
               /\ walk'.next = walk.next + 1 /\ walk'.alone = walk.alone /\ walk'.limit = walk.limit
               /\ walk'.at = IF walk.alone THEN "answered" ELSE IF page = <<>> THEN "ended" ELSE "asked"
               /\ walk'.first = IF walk.first = 0 THEN read ELSE walk.first
               /\ walk'.last = read /\ walk'.served = walk.served \o page
               /\ ~walk'.back => ~walk.back /\ walk.last <= read
<1>1. PICK read \in 1 .. now, counted \in 1 .. now, total \in 0 .. Cardinality(Ids) :
        \E page \in Pages(walk.kind, contents[read], Window) :
           IsAnswer(walk', walk, page, total, counted, read, Window.skip)
  BY AnsweredIs
<1>2. PICK page \in Pages(walk.kind, contents[read], Window) :
        IsAnswer(walk', walk, page, total, counted, read, Window.skip)
  BY <1>1
<1>3. read \in Nat /\ walk.last \in Nat
  BY ContentsAre DEF TypeInv, WalkType
<1>4. walk.kind = "users" /\ Step(walk) = 1
  BY <1>2 DEF IsAnswer, Step
<1>5. walk'.at = IF walk.alone THEN "answered" ELSE IF page = <<>> THEN "ended" ELSE "asked"
  BY <1>2 DEF IsAnswer
<1>6. ~walk'.back => ~walk.back /\ walk.last <= read
  BY <1>2, <1>3 DEF IsAnswer
<1>7. /\ walk'.next = walk.next + 1 /\ walk'.alone = walk.alone /\ walk'.limit = walk.limit
      /\ walk'.first = IF walk.first = 0 THEN read ELSE walk.first
      /\ walk'.last = read /\ walk'.served = walk.served \o page
  BY <1>2, <1>4 DEF IsAnswer
<1>8. page \in Pages("users", contents[read], Window)
  BY <1>2, <1>4
<1> QED
  BY <1>3, <1>4, <1>5, <1>6, <1>7, <1>8, AnsweredIs, AnswerTypes

LEMMA ListedStep == FewUsers /\ TypeInv /\ Begun /\ Listed /\ [Next]_vars => Listed'
<1> SUFFICES ASSUME FewUsers, TypeInv, Begun, Listed, [Next]_vars,
                    walk'.kind = "users", walk'.first # 0, OneContent'
             PROVE  Listed'
  BY DEF Listed
<1>1. CASE Begin
  BY <1>1, BeginIs DEF Begin
<1>2. CASE List \/ Search
  <2>1. PICK read \in 1 .. now : \E p \in Pages("users", contents[read], Window) :
          /\ walk'.next = walk.next + 1 /\ walk'.alone = walk.alone /\ walk'.limit = walk.limit
          /\ walk'.at = IF walk.alone THEN "answered" ELSE IF p = <<>> THEN "ended" ELSE "asked"
          /\ walk'.first = IF walk.first = 0 THEN read ELSE walk.first
          /\ walk'.last = read /\ walk'.served = walk.served \o p
          /\ ~walk'.back => ~walk.back /\ walk.last <= read
    BY <1>2, ListingAnswers
  <2>2. PICK p \in Pages("users", contents[read], Window) :
          /\ walk'.next = walk.next + 1 /\ walk'.alone = walk.alone /\ walk'.limit = walk.limit
          /\ walk'.at = IF walk.alone THEN "answered" ELSE IF p = <<>> THEN "ended" ELSE "asked"
          /\ walk'.first = IF walk.first = 0 THEN read ELSE walk.first
          /\ walk'.last = read /\ walk'.served = walk.served \o p
          /\ ~walk'.back => ~walk.back /\ walk.last <= read
    BY <2>1
  <2>3. /\ walk.kind = "users" /\ walk.at = "asked" /\ contents' = contents /\ TypeInv'
        /\ contents[read] \in Tables(Ids, 0 .. MaxRank)
    BY <1>2, ListingAnswers, ContentsAre
  <2> DEFINE rows == Window.rows
             all == Cardinality(DOMAIN contents[read])
             passed == (walk.next - 1) * rows
  <2>4. CASE walk.alone
    BY <2>2, <2>4 DEF Listed, UnderWay
  <2>5. CASE ~walk.alone
    <3>1. UnderWay
      BY <2>3, <2>5 DEF UnderWay
    <3>2. /\ walk.next \in Nat /\ rows \in Nat \ {0} /\ rows <= MaxLimit
          /\ Window.skip \in Nat
      BY <2>5, WindowTypes, Numbers DEF TypeInv, TypeOK
    <3>3. all \in Nat /\ all + rows < IntLimit
      <4>1. Cardinality(Matches("users", contents[read])) \in 0 .. Cardinality(Ids)
        BY <2>3, MatchesAre
      <4>2. Cardinality(Ids) + MaxLimit < IntLimit
        BY DEF FewUsers
      <4> HIDE DEF rows
      <4> QED
        BY <3>2, <4>1, <4>2, AllMatch, IdsFinite, Numbers
    <3>4. /\ walk.next >= 1 /\ (walk.next > 1 => passed - rows < all)
          /\ Len(walk.served) = IF passed < all THEN passed ELSE all
      <4>1. CASE walk.first = 0
        <5>1. walk.next = 1 /\ walk.served = <<>>
          BY <2>3, <3>1, <4>1 DEF Begun
        <5>2. passed = 0 /\ Len(walk.served) = 0
          <6> HIDE DEF rows
          <6> QED
            BY <3>2, <5>1
        <5> HIDE DEF passed, rows, all
        <5> QED
          BY <3>3, <5>1, <5>2
      <4>2. CASE walk.first # 0
        <5>1. ~walk.back /\ walk.last <= read /\ walk.first = read
          BY <2>2, <4>2 DEF OneContent
        <5>2. walk.first <= walk.last /\ walk.first \in Nat /\ walk.last \in Nat
          BY <4>2, <5>1 DEF Begun, TypeInv, WalkType
        <5>3. walk.last = read /\ OneContent
          BY <5>1, <5>2 DEF OneContent
        <5> QED
          BY <2>3, <3>1, <4>2, <5>3 DEF Listed
      <4> QED
        BY <4>1, <4>2
    <3>5. /\ passed \in Nat /\ passed < IntLimit /\ walk.next < IntLimit
          /\ (walk'.next - 1) * rows - rows = passed
          /\ (walk'.next - 1) * rows = passed + rows
      <4> HIDE DEF rows, all
      <4> DEFINE next == walk.next
      <4>1. /\ next \in Nat /\ next >= 1 /\ rows \in Nat \ {0} /\ all \in Nat /\ IntLimit \in Nat
            /\ all + rows < IntLimit /\ (next > 1 => (next - 1) * rows - rows < all)
        BY <3>2, <3>3, <3>4, Numbers
      <4> HIDE DEF next
      <4>2. /\ (next - 1) * rows \in Nat /\ (next - 1) * rows < IntLimit /\ next < IntLimit
            /\ (next + 1 - 1) * rows - rows = (next - 1) * rows
            /\ (next + 1 - 1) * rows = (next - 1) * rows + rows
        BY <4>1, PassedIs
      <4>3. walk'.next = next + 1 /\ passed = (next - 1) * rows /\ walk.next = next
        BY <2>2 DEF next
      <4> HIDE DEF passed
      <4>4. passed \in Nat /\ passed < IntLimit /\ walk.next < IntLimit
        BY <4>2, <4>3
      <4>5. (walk'.next - 1) * rows = (next + 1 - 1) * rows
        BY <4>1, <4>3
      <4>6. (next + 1 - 1) * rows - rows = passed /\ (next + 1 - 1) * rows = passed + rows
        BY <4>2, <4>3
      <4> HIDE DEF next
      <4> QED
        BY <4>4, <4>5, <4>6, Zenon
    <3>6. Window.skip = passed
      <4>1. walk.next \in 1 .. IntLimit - 1
        BY <3>2, <3>4, <3>5, Numbers
      <4> QED
        BY <2>3, <3>5, <4>1, WindowTypes
    <3>7. Window'.rows = rows
      BY <2>2, <2>3 DEF Window, UsersWindow
    <3>8. /\ p \in Seq(Ids) /\ Len(p) \in Nat
          /\ Len(p) = IF all - passed <= 0 THEN 0 ELSE IF all - passed < rows THEN all - passed ELSE rows
      BY <2>3, <3>2, <3>5, <3>6, PageSize, PageTypes, AllMatch
    <3>9. IsJoin(walk'.served, walk.served, p)
      <4>1. walk.served \in Seq(Ids)
        BY DEF TypeInv, WalkType
      <4> QED
        BY <2>2, <3>8, <4>1, ServedIs
    <3>10. Len(walk'.served) = Len(walk.served) + Len(p) /\ Len(walk.served) \in Nat
      BY <3>9 DEF IsJoin
    <3>11. Cardinality(DOMAIN contents'[walk'.last]) = all
      BY <2>2, <2>3
    <3> HIDE DEF rows, all, passed
    <3>12. CASE p = <<>>
      <4>1. Len(p) = 0
        BY <3>12
      <4>2. all <= passed
        BY <3>2, <3>3, <3>5, <3>8, <4>1
      <4>3. Len(walk'.served) = all
        BY <3>3, <3>4, <3>5, <3>10, <4>1, <4>2
      <4>4. walk'.at = "ended"
        BY <2>2, <2>5, <3>12
      <4> QED
        BY <3>11, <4>3, <4>4 DEF Listed, UnderWay
    <3>13. CASE p # <<>>
      <4>1. Len(p) # 0
        BY <3>8, <3>13
      <4>2. passed < all
        BY <3>3, <3>5, <3>8, <4>1
      <4>3. Len(walk'.served) = IF passed + rows < all THEN passed + rows ELSE all
        BY <3>2, <3>3, <3>4, <3>5, <3>8, <3>10, <4>2
      <4>4. walk'.at = "asked"
        BY <2>2, <2>5, <3>13
      <4>5. walk'.next >= 1
        BY <2>2, <3>2
      <4>6. /\ (walk'.next - 1) * Window'.rows = passed + rows
            /\ (walk'.next - 1) * Window'.rows - Window'.rows = passed
        BY <3>5, <3>7
      <4> QED
        BY <3>11, <4>2, <4>3, <4>4, <4>5, <4>6 DEF Listed
    <3> QED
      BY <3>12, <3>13
  <2> QED
    BY <2>4, <2>5
<1>3. CASE Unconcerned
  <2>1. walk' = walk /\ walk.last \in 1 .. now /\ contents'[walk.last] = contents[walk.last]
    BY <1>3 DEF Unconcerned, Begun, TypeInv, TypeOK
  <2> QED
    BY <2>1 DEF Listed, UnderWay, OneContent, Window
<1> QED
  BY <1>1, <1>2, <1>3, StepsAre

\* However pages of the unordered listing repeat and miss users, the walk ends
\* with as many rows as the table has, if the table did not change: the pages
\* are as long as they should be, and the walk stops at the first empty one.
THEOREM ListingsHaveAllRows == FewUsers => (Spec => []ListingHasAllRows)
<1> SUFFICES ASSUME FewUsers PROVE Spec => []ListingHasAllRows
  OBVIOUS
<1>1. Init => Listed
  BY DEF Init, NoWalk, Listed, UnderWay
<1>2. PagesInv /\ Listed /\ [Next]_vars => Listed'
  BY ListedStep DEF PagesInv
<1>3. PagesInv /\ Listed => ListingHasAllRows
  BY EndedIs DEF Listed, ListingHasAllRows, Ended
<1> QED
  BY <1>1, <1>2, <1>3, PagesAlways, PTL DEF Spec

-----------------------------------------------------------------------------
(* Sums over finite sets. *)

\* Among sets of elements of S there is a smallest: what induction over finite
\* sets comes to for the provers, which take no induction hypothesis as operator.
LEMMA Smallest ==
  ASSUME NEW S, IsFiniteSet(S), NEW T, T \subseteq SUBSET S, T # {}
  PROVE  \E x \in T : \A y \in T : y \subseteq x => y = x
<1>1. T \subseteq FiniteSubsetsOf(S)
  BY FS_FiniteSubsetsOfFinite
<1>2. PICK x \in T : \A y \in T : <<y, x>> \notin StrictSubsetOrdering(S)
  BY <1>1, FS_StrictSubsetOrderingWellFounded, WFMin
<1>3. ASSUME NEW y \in T, y \subseteq x, y # x PROVE FALSE
  BY <1>2, <1>3 DEF StrictSubsetOrdering
<1> QED
  BY <1>3

\* Induction over the subsets of a finite set.
LEMMA SetInduction ==
  ASSUME NEW S, IsFiniteSet(S), NEW T, {} \in T,
         \A s \in SUBSET S : \A x \in s : s \ {x} \in T => s \in T
  PROVE  SUBSET S \subseteq T
<1> DEFINE W == (SUBSET S) \ T
<1> SUFFICES ASSUME W # {} PROVE FALSE
  OBVIOUS
<1>1. PICK w \in W : \A y \in W : y \subseteq w => y = w
  <2>1. W \subseteq SUBSET S
    OBVIOUS
  <2> HIDE DEF W
  <2> QED
    BY <2>1, Smallest
<1>2. PICK x \in w : TRUE
  OBVIOUS
<1>3. w \ {x} \in T
  BY <1>1, <1>2
<1> QED
  BY <1>1, <1>2, <1>3

\* The element that MapThenSumSet takes next.
Pick(s) == CHOOSE x \in s : TRUE

\* g adds up f over each subset of S, in the order of CHOOSE.
Adds(g, f, S) ==
  g = [s \in SUBSET S |-> IF s = {} THEN 0 ELSE f[Pick(s)] + g[s \ {Pick(s)}]]

\* g adds up f over each subset of S, in any order.
IsSum(g, f, S) ==
  /\ g \in [SUBSET S -> Int]
  /\ g[{}] = 0
  /\ \A s \in SUBSET S : \A x \in s : g[s] = f[x] + g[s \ {x}]

LEMMA Picked == \A s : s # {} => Pick(s) \in s
  BY DEF Pick

LEMMA AddsAt ==
  ASSUME NEW S, NEW f, NEW g, Adds(g, f, S), NEW s \in SUBSET S
  PROVE  /\ s = {} => g[s] = 0
         /\ s # {} => g[s] = f[Pick(s)] + g[s \ {Pick(s)}]
  BY DEF Adds

LEMMA AddsIsSum ==
  ASSUME NEW S, IsFiniteSet(S), NEW f, \A x \in S : f[x] \in Int, NEW g, Adds(g, f, S)
  PROVE  IsSum(g, f, S)
<1>1. \A s \in SUBSET S : s # {} => Pick(s) \in s /\ f[Pick(s)] \in Int
                                    /\ g[s] = f[Pick(s)] + g[s \ {Pick(s)}]
  <2> SUFFICES ASSUME NEW s \in SUBSET S, s # {}
               PROVE  /\ Pick(s) \in s /\ f[Pick(s)] \in Int
                      /\ g[s] = f[Pick(s)] + g[s \ {Pick(s)}]
    OBVIOUS
  <2>1. Pick(s) \in s /\ Pick(s) \in S
    BY Picked
  <2>2. g[s] = f[Pick(s)] + g[s \ {Pick(s)}]
    BY AddsAt
  <2>3. f[Pick(s)] \in Int
    BY <2>1
  <2> QED
    BY <2>1, <2>2, <2>3
<1>2. g[{}] = 0
  BY AddsAt
<1>3. \A s \in SUBSET S : g[s] \in Int
  <2> DEFINE T == {s \in SUBSET S : g[s] \notin Int}
  <2> SUFFICES ASSUME T # {} PROVE FALSE
    OBVIOUS
  <2>1. PICK w \in T : \A y \in T : y \subseteq w => y = w
    <3>1. T \subseteq SUBSET S
      OBVIOUS
    <3> HIDE DEF T
    <3> QED
      BY <3>1, Smallest
  <2>2. w \in SUBSET S /\ g[w] \notin Int
    BY <2>1
  <2>3. w # {}
    BY <2>2, <1>2
  <2> DEFINE rest == w \ {Pick(w)}
  <2>4. rest \in SUBSET S /\ rest \subseteq w /\ rest # w
    BY <2>2, <2>3, Picked
  <2>5. f[Pick(w)] \in Int /\ g[w] = f[Pick(w)] + g[rest]
    BY <1>1, <2>2, <2>3
  <2> HIDE DEF rest
  <2>6. g[rest] \in Int
    BY <2>1, <2>4
  <2> QED
    BY <2>2, <2>5, <2>6
<1>4. \A s \in SUBSET S : \A x \in s : g[s] = f[x] + g[s \ {x}]
  <2> DEFINE T == {s \in SUBSET S : \E x \in s : g[s] # f[x] + g[s \ {x}]}
  <2> SUFFICES ASSUME T # {} PROVE FALSE
    OBVIOUS
  <2>1. PICK w \in T : \A y \in T : y \subseteq w => y = w
    <3>1. T \subseteq SUBSET S
      OBVIOUS
    <3> HIDE DEF T
    <3> QED
      BY <3>1, Smallest
  <2>2. PICK x \in w : g[w] # f[x] + g[w \ {x}]
    BY <2>1
  <2>3. PICK p \in w : g[w] = f[p] + g[w \ {p}]
    BY <1>1, <2>1, <2>2
  <2>4. p # x
    BY <2>2, <2>3
  <2> DEFINE wp == w \ {p}
             wx == w \ {x}
             wpx == (w \ {p}) \ {x}
  <2>5. /\ wp \in SUBSET S /\ wx \in SUBSET S /\ wpx \in SUBSET S
        /\ wp # w /\ wx # w /\ wp \subseteq w /\ wx \subseteq w
        /\ x \in wp /\ p \in wx /\ wx \ {p} = wpx /\ wp \ {x} = wpx
    BY <2>1, <2>2, <2>3, <2>4
  <2>6. wp \notin T /\ wx \notin T
    BY <2>1, <2>5
  <2> HIDE DEF wp, wx, wpx
  <2>7. g[wp] = f[x] + g[wpx] /\ g[wx] = f[p] + g[wpx]
    BY <2>5, <2>6
  <2>8. f[x] \in Int /\ f[p] \in Int /\ g[wpx] \in Int
    BY <1>3, <2>1, <2>2, <2>3, <2>5
  <2> QED
    BY <2>2, <2>3, <2>7, <2>8 DEF wp, wx
<1> QED
  BY <1>2, <1>3, <1>4 DEF IsSum, Adds

\* Two of them agree wherever both are defined...
LEMMA SumsAgree ==
  ASSUME NEW S, NEW R, IsFiniteSet(S), NEW f, NEW g, NEW h, Adds(g, f, S), Adds(h, f, R),
         NEW t \in SUBSET (S \cap R)
  PROVE  g[t] = h[t]
<1> DEFINE T == {s \in SUBSET (S \cap R) : g[s] # h[s]}
<1> SUFFICES ASSUME T # {} PROVE FALSE
  OBVIOUS
<1>1. T \subseteq SUBSET S
  OBVIOUS
<1> HIDE DEF T
<1>2. PICK x \in T : \A y \in T : y \subseteq x => y = x
  BY <1>1, Smallest
<1>3. x \in SUBSET (S \cap R) /\ x \in SUBSET S /\ x \in SUBSET R /\ g[x] # h[x]
  BY DEF T
<1>4. x # {}
  <2> SUFFICES ASSUME x = {} PROVE FALSE
    OBVIOUS
  <2>1. g[{}] = 0 /\ h[{}] = 0
    BY AddsAt
  <2> QED
    BY <1>3, <2>1
<1> DEFINE rest == x \ {Pick(x)}
<1>5. rest \subseteq x /\ rest # x /\ rest \in SUBSET (S \cap R)
  BY <1>3, <1>4, Picked
<1>6. g[x] = f[Pick(x)] + g[rest]
  BY <1>3, <1>4 DEF Adds
<1>9. h[x] = f[Pick(x)] + h[rest]
  BY <1>3, <1>4 DEF Adds
<1> HIDE DEF rest
<1>7. rest \notin T
  BY <1>2, <1>5
<1>8. g[rest] = h[rest]
  BY <1>5, <1>7 DEF T
<1> QED
  BY <1>3, <1>6, <1>8, <1>9

\* ... so that each finite set has one, made of those of its subsets: the
\* recursive function that MapThenSumSet chooses is what its definition says.
LEMMA SumsExist ==
  ASSUME NEW S, IsFiniteSet(S), NEW f
  PROVE  \E g : Adds(g, f, S)
<1> DEFINE T == {s \in SUBSET S : ~\E g : Adds(g, f, s)}
<1> SUFFICES ASSUME T # {} PROVE FALSE
  OBVIOUS
<1>1. T \subseteq SUBSET S
  OBVIOUS
<1> HIDE DEF T
<1>2. PICK x \in T : \A y \in T : y \subseteq x => y = x
  BY <1>1, Smallest
<1> DEFINE H(s) == CHOOSE g : Adds(g, f, s)
           v(s) == s \ {Pick(s)}
<1>3. \A s : s \subseteq x /\ s # x => Adds(H(s), f, s)
  <2> SUFFICES ASSUME NEW s, s \subseteq x, s # x PROVE Adds(H(s), f, s)
    OBVIOUS
  <2>1. s \notin T
    BY <1>2
  <2>2. \E g : Adds(g, f, s)
    BY <1>1, <2>1 DEF T
  <2> QED
    BY <2>2
<1>4. \A s : s # {} => v(s) \subseteq s /\ v(s) # s
  BY Picked
<1>5. \A s : s \subseteq x => IsFiniteSet(s)
  BY <1>1, FS_Subset
<1> HIDE DEF H
<1> DEFINE g == [s \in SUBSET x |-> IF s = {} THEN 0 ELSE f[Pick(s)] + H(v(s))[v(s)]]
<1>6. ASSUME NEW s \in SUBSET x, s # {}
      PROVE  g[v(s)] = H(v(s))[v(s)]
  <2> DEFINE w == v(s)
  <2>1. w \subseteq x /\ w # x
    BY <1>4, <1>6
  <2>2. Adds(H(w), f, w) /\ w \in SUBSET w /\ IsFiniteSet(w)
    BY <1>3, <1>5, <2>1
  <2> HIDE DEF w
  <2>3. CASE w = {}
    <3>1. H(w)[w] = 0
      BY <2>2, <2>3, AddsAt
    <3>2. g[w] = 0
      BY <2>1, <2>3
    <3> QED
      BY <3>1, <3>2 DEF w
  <2>4. CASE w # {}
    <3>1. v(w) \subseteq w /\ v(w) # w
      BY <1>4, <2>4
    <3>2. v(w) \subseteq x /\ v(w) # x
      BY <2>1, <3>1
    <3>3. Adds(H(v(w)), f, v(w))
      BY <1>3, <3>2
    <3>4. H(w)[v(w)] = H(v(w))[v(w)]
      <4>1. v(w) \in SUBSET (w \cap v(w))
        BY <3>1
      <4> HIDE DEF v
      <4> QED
        BY <2>2, <3>3, <4>1, SumsAgree
    <3>5. H(w)[w] = f[Pick(w)] + H(w)[v(w)]
      BY <2>2, <2>4, AddsAt
    <3>6. g[w] = f[Pick(w)] + H(v(w))[v(w)]
      BY <2>1, <2>4
    <3>7. g[w] = H(w)[w]
      BY <3>4, <3>5, <3>6
    <3> QED
      BY <3>7 DEF w
  <2> QED
    BY <2>3, <2>4
<1>7. g = [s \in SUBSET x |-> IF s = {} THEN 0 ELSE f[Pick(s)] + g[v(s)]]
  <2>1. \A s \in SUBSET x : g[s] = IF s = {} THEN 0 ELSE f[Pick(s)] + g[v(s)]
    BY <1>6
  <2> QED
    BY <2>1
<1>8. Adds(g, f, x)
  <2> HIDE DEF g
  <2> QED
    BY <1>7 DEF Adds
<1> QED
  BY <1>2, <1>8 DEF T

\* Sums over the same elements are the same.
LEMMA SumsAreOne ==
  ASSUME NEW S, NEW R, IsFiniteSet(S), NEW f, NEW g, NEW h, IsSum(g, f, S), IsSum(h, f, R),
         NEW t \in SUBSET (S \cap R)
  PROVE  g[t] = h[t]
<1> DEFINE T == {s \in SUBSET S : s \in SUBSET R => g[s] = h[s]}
<1>1. {} \in T
  BY DEF IsSum
<1>2. \A s \in SUBSET S : \A x \in s : s \ {x} \in T => s \in T
  BY DEF IsSum
<1>3. SUBSET S \subseteq T
  <2> HIDE DEF T
  <2> QED
    BY <1>1, <1>2, SetInduction
<1> QED
  BY <1>3

LEMMA SumOfBoth ==
  ASSUME NEW S, IsFiniteSet(S), NEW f, NEW g, IsSum(g, f, S), \A x \in S : f[x] \in Int,
         NEW a \in SUBSET S, NEW b \in SUBSET S, a \cap b = {}
  PROVE  g[a \cup b] = g[a] + g[b]
<1> DEFINE T == {s \in SUBSET b : g[a \cup s] = g[a] + g[s]}
<1>1. {} \in T
  BY DEF IsSum
<1>2. ASSUME NEW s \in SUBSET b, NEW x \in s, s \ {x} \in T
      PROVE  s \in T
  <2> DEFINE rest == s \ {x}
             both == a \cup s
  <2>1. s \in SUBSET S /\ rest \in SUBSET S /\ both \in SUBSET S /\ x \in both /\ x \in S
        /\ both \ {x} = a \cup rest
    OBVIOUS
  <2>2. g[a \cup rest] = g[a] + g[rest]
    BY <1>2
  <2>3. g[s] = f[x] + g[rest] /\ g[both] = f[x] + g[a \cup rest]
    BY <2>1 DEF IsSum
  <2>4. f[x] \in Int /\ g[a] \in Int /\ g[rest] \in Int
    BY <2>1 DEF IsSum
  <2> HIDE DEF rest
  <2> QED
    BY <2>2, <2>3, <2>4
<1>3. SUBSET b \subseteq T
  <2>1. IsFiniteSet(b)
    BY FS_Subset
  <2> HIDE DEF T
  <2> QED
    BY <1>1, <1>2, <2>1, SetInduction
<1> QED
  BY <1>3

\* The elements that f sends to u.
Fiber(f, S, u) == {x \in S : f[x] = u}

\* What is added up by the places that f sends it to is added up.
LEMMA FibersAddUp ==
  ASSUME NEW S, IsFiniteSet(S), NEW amount, NEW a, IsSum(a, amount, S),
         \A x \in S : amount[x] \in Int,
         NEW U, IsFiniteSet(U), NEW f \in [S -> U],
         NEW c, \A u \in U : c[u] = a[Fiber(f, S, u)], NEW g, IsSum(g, c, U)
  PROVE  g[U] = a[S]
<1> DEFINE Over(w) == {x \in S : f[x] \in w}
           T == {w \in SUBSET U : g[w] = a[Over(w)]}
<1>1. {} \in T
  BY DEF IsSum
<1>2. ASSUME NEW w \in SUBSET U, NEW u \in w, w \ {u} \in T
      PROVE  w \in T
  <2> DEFINE one == Fiber(f, S, u)
             more == Over(w \ {u})
  <2>1. one \in SUBSET S /\ more \in SUBSET S /\ one \cap more = {} /\ Over(w) = one \cup more
    BY DEF Fiber
  <2>2. g[w \ {u}] = a[more]
    BY <1>2
  <2>3. g[w] = c[u] + g[w \ {u}]
    BY <1>2 DEF IsSum
  <2>4. c[u] = a[one]
    BY <1>2
  <2> HIDE DEF one, more, Over
  <2>5. a[one \cup more] = a[one] + a[more]
    BY <2>1, SumOfBoth
  <2>6. g[w] = a[Over(w)]
    BY <2>1, <2>2, <2>3, <2>4, <2>5
  <2> QED
    BY <2>6
<1>3. SUBSET U \subseteq T
  <2> HIDE DEF T
  <2> QED
    BY <1>1, <1>2, SetInduction
<1>4. Over(U) = S
  OBVIOUS
<1> QED
  BY <1>3, <1>4

\* To count is to add up ones.
LEMMA CountIsSum ==
  ASSUME NEW S, IsFiniteSet(S)
  PROVE  IsSum([s \in SUBSET S |-> Cardinality(s)], [x \in S |-> 1], S)
<1>1. \A s \in SUBSET S : IsFiniteSet(s) /\ Cardinality(s) \in Int
  BY FS_Subset, FS_CardinalityType
<1>2. Cardinality({}) = 0
  BY FS_EmptySet
<1>3. ASSUME NEW s \in SUBSET S, NEW x \in s
      PROVE  Cardinality(s) = 1 + Cardinality(s \ {x})
  <2>1. Cardinality(s \ {x}) = Cardinality(s) - 1
    BY <1>1, FS_RemoveElement
  <2> QED
    BY <1>1, <2>1
<1> QED
  BY <1>1, <1>2, <1>3 DEF IsSum

-----------------------------------------------------------------------------
(* Profiles. *)

\* What ProfilesAddUp adds up, by names that lemmas can be about.
AmountsOf(table, S) ==
  LET amount(t) == table[t].amount IN MapThenSumSet(amount, S)

Placed(os, ts, as, S) ==
  LET placed(u) == Profile(os, ts, as, u).orders IN MapThenSumSet(placed, S)

Spent(os, ts, as, S) ==
  LET spent(u) == Profile(os, ts, as, u).amount IN MapThenSumSet(spent, S)

Done(os, ts, as, S) ==
  LET done(u) == Profile(os, ts, as, u).activities IN MapThenSumSet(done, S)

LEMMA AmountSum ==
  ASSUME NEW table, NEW S, IsFiniteSet(S), \A t \in S : table[t].amount \in Int
  PROVE  \E h : IsSum(h, [t \in S |-> table[t].amount], S) /\ AmountsOf(table, S) = h[S]
<1> DEFINE amount(t) == table[t].amount
           f == [t \in S |-> table[t].amount]
           body(g, s) == IF s = {} THEN 0
                         ELSE LET x == CHOOSE x \in s : TRUE IN amount(x) + g[s \ {x}]
           h == CHOOSE g : g = [s \in SUBSET S |-> body(g, s)]
<1>1. \A x \in S : f[x] \in Int
  OBVIOUS
<1>2. PICK g : Adds(g, f, S)
  <2> HIDE DEF f
  <2> QED
    BY SumsExist
<1>3. g = [s \in SUBSET S |-> body(g, s)]
  BY <1>2 DEF Adds, Pick
<1>4. h = [s \in SUBSET S |-> body(h, s)]
  <2> HIDE DEF body
  <2> QED
    BY <1>3
<1>5. Adds(h, f, S)
  <2> HIDE DEF h
  <2> QED
    BY <1>4 DEF Adds, Pick
<1>6. MapThenSumSet(amount, S) = h[S]
  BY DEF MapThenSumSet, MapThenFoldSet
<1>7. IsSum(h, f, S)
  <2> HIDE DEF f, h
  <2> QED
    BY <1>1, <1>5, AddsIsSum
<1> QED
  BY <1>6, <1>7 DEF AmountsOf

LEMMA PlacedSum ==
  ASSUME NEW os, NEW ts, NEW as, NEW S, IsFiniteSet(S), \A u \in S : OrderCount(os, u) \in Int
  PROVE  \E h : IsSum(h, [u \in S |-> OrderCount(os, u)], S) /\ Placed(os, ts, as, S) = h[S]
<1> DEFINE placed(u) == Profile(os, ts, as, u).orders
           f == [u \in S |-> OrderCount(os, u)]
           body(g, s) == IF s = {} THEN 0
                         ELSE LET x == CHOOSE x \in s : TRUE IN placed(x) + g[s \ {x}]
           h == CHOOSE g : g = [s \in SUBSET S |-> body(g, s)]
<1>1. \A x \in S : f[x] \in Int
  OBVIOUS
<1>8. \A u : placed(u) = OrderCount(os, u)
  BY DEF Profile
<1> HIDE DEF placed
<1>2. PICK g : Adds(g, f, S)
  <2> HIDE DEF f
  <2> QED
    BY SumsExist
<1>3. g = [s \in SUBSET S |-> body(g, s)]
  BY <1>2, <1>8 DEF Adds, Pick
<1>4. h = [s \in SUBSET S |-> body(h, s)]
  <2> HIDE DEF body
  <2> QED
    BY <1>3
<1>5. Adds(h, f, S)
  <2> HIDE DEF h
  <2> QED
    BY <1>4, <1>8 DEF Adds, Pick
<1>6. MapThenSumSet(placed, S) = h[S]
  BY DEF MapThenSumSet, MapThenFoldSet
<1>7. IsSum(h, f, S)
  <2> HIDE DEF f, h
  <2> QED
    BY <1>1, <1>5, AddsIsSum
<1> QED
  BY <1>6, <1>7 DEF placed, Placed
LEMMA SpentSum ==
  ASSUME NEW os, NEW ts, NEW as, NEW S, IsFiniteSet(S), \A u \in S : TotalAmount(os, ts, u) \in Int
  PROVE  \E h : IsSum(h, [u \in S |-> TotalAmount(os, ts, u)], S) /\ Spent(os, ts, as, S) = h[S]
<1> DEFINE spent(u) == Profile(os, ts, as, u).amount
           f == [u \in S |-> TotalAmount(os, ts, u)]
           body(g, s) == IF s = {} THEN 0
                         ELSE LET x == CHOOSE x \in s : TRUE IN spent(x) + g[s \ {x}]
           h == CHOOSE g : g = [s \in SUBSET S |-> body(g, s)]
<1>1. \A x \in S : f[x] \in Int
  OBVIOUS
<1>8. \A u : spent(u) = TotalAmount(os, ts, u)
  BY DEF Profile
<1> HIDE DEF spent
<1>2. PICK g : Adds(g, f, S)
  <2> HIDE DEF f
  <2> QED
    BY SumsExist
<1>3. g = [s \in SUBSET S |-> body(g, s)]
  BY <1>2, <1>8 DEF Adds, Pick
<1>4. h = [s \in SUBSET S |-> body(h, s)]
  <2> HIDE DEF body
  <2> QED
    BY <1>3
<1>5. Adds(h, f, S)
  <2> HIDE DEF h
  <2> QED
    BY <1>4, <1>8 DEF Adds, Pick
<1>6. MapThenSumSet(spent, S) = h[S]
  BY DEF MapThenSumSet, MapThenFoldSet
<1>7. IsSum(h, f, S)
  <2> HIDE DEF f, h
  <2> QED
    BY <1>1, <1>5, AddsIsSum
<1> QED
  BY <1>6, <1>7 DEF spent, Spent
LEMMA DoneSum ==
  ASSUME NEW os, NEW ts, NEW as, NEW S, IsFiniteSet(S), \A u \in S : Cardinality(ActivitiesOf(as, u)) \in Int
  PROVE  \E h : IsSum(h, [u \in S |-> Cardinality(ActivitiesOf(as, u))], S) /\ Done(os, ts, as, S) = h[S]
<1> DEFINE done(u) == Profile(os, ts, as, u).activities
           f == [u \in S |-> Cardinality(ActivitiesOf(as, u))]
           body(g, s) == IF s = {} THEN 0
                         ELSE LET x == CHOOSE x \in s : TRUE IN done(x) + g[s \ {x}]
           h == CHOOSE g : g = [s \in SUBSET S |-> body(g, s)]
<1>1. \A x \in S : f[x] \in Int
  OBVIOUS
<1>8. \A u : done(u) = Cardinality(ActivitiesOf(as, u))
  BY DEF Profile
<1> HIDE DEF done
<1>2. PICK g : Adds(g, f, S)
  <2> HIDE DEF f
  <2> QED
    BY SumsExist
<1>3. g = [s \in SUBSET S |-> body(g, s)]
  BY <1>2, <1>8 DEF Adds, Pick
<1>4. h = [s \in SUBSET S |-> body(h, s)]
  <2> HIDE DEF body
  <2> QED
    BY <1>3
<1>5. Adds(h, f, S)
  <2> HIDE DEF h
  <2> QED
    BY <1>4, <1>8 DEF Adds, Pick
<1>6. MapThenSumSet(done, S) = h[S]
  BY DEF MapThenSumSet, MapThenFoldSet
<1>7. IsSum(h, f, S)
  <2> HIDE DEF f, h
  <2> QED
    BY <1>1, <1>5, AddsIsSum
<1> QED
  BY <1>6, <1>7 DEF done, Done

\* Each row counts once among the users it may belong to.
LEMMA RowsCountOnce ==
  ASSUME NEW S, IsFiniteSet(S), NEW U, IsFiniteSet(U), NEW f \in [S -> U],
         NEW g, IsSum(g, [u \in U |-> Cardinality(Fiber(f, S, u))], U)
  PROVE  g[U] = Cardinality(S)
<1> DEFINE a == [s \in SUBSET S |-> Cardinality(s)]
           ones == [x \in S |-> 1]
           c == [u \in U |-> Cardinality(Fiber(f, S, u))]
<1>1. IsSum(a, ones, S) /\ \A x \in S : ones[x] \in Int
  BY CountIsSum
<1>2. \A u \in U : c[u] = a[Fiber(f, S, u)]
  BY DEF Fiber
<1>3. a[S] = Cardinality(S)
  OBVIOUS
<1>4. g[U] = a[S]
  <2> HIDE DEF a, ones, c
  <2>1. IsSum(g, c, U)
    BY DEF c
  <2> QED
    BY <1>1, <1>2, <2>1, FibersAddUp
<1> QED
  BY <1>3, <1>4

LEMMA CountsAreInts ==
  ASSUME NEW S, IsFiniteSet(S), NEW T \in SUBSET S
  PROVE  IsFiniteSet(T) /\ Cardinality(T) \in Int
  BY FS_Subset, FS_CardinalityType

LEMMA OrdersAddUp ==
  ASSUME NEW os, NEW ts, NEW as, NEW U, IsFiniteSet(U), IsFiniteSet(DOMAIN os),
         \A o \in DOMAIN os : os[o] \in U
  PROVE  Placed(os, ts, as, U) = Cardinality(DOMAIN os)
<1> DEFINE S == DOMAIN os
           f == [o \in S |-> os[o]]
<1>1. \A u \in U : OrderCount(os, u) \in Int
  BY CountsAreInts DEF OrderCount
<1>2. PICK h : /\ IsSum(h, [u \in U |-> OrderCount(os, u)], U)
               /\ Placed(os, ts, as, U) = h[U]
  BY <1>1, PlacedSum
<1>3. f \in [S -> U]
  OBVIOUS
<1>4. IsSum(h, [u \in U |-> Cardinality(Fiber(f, S, u))], U)
  <2>1. \A u \in U : Fiber(f, S, u) = {o \in DOMAIN os : os[o] = u}
    BY DEF Fiber
  <2>2. [u \in U |-> Cardinality(Fiber(f, S, u))] = [u \in U |-> OrderCount(os, u)]
    BY <2>1 DEF OrderCount
  <2> QED
    BY <1>2, <2>2
<1>5. h[U] = Cardinality(S)
  <2> HIDE DEF f, S
  <2>1. IsFiniteSet(S)
    BY DEF S
  <2> QED
    BY <1>3, <1>4, <2>1, RowsCountOnce
<1> QED
  BY <1>2, <1>5

LEMMA ActivitiesAddUp ==
  ASSUME NEW os, NEW ts, NEW as, NEW U, IsFiniteSet(U), IsFiniteSet(DOMAIN as),
         \A a \in DOMAIN as : as[a].user \in U
  PROVE  Done(os, ts, as, U) = Cardinality(DOMAIN as)
<1> DEFINE S == DOMAIN as
           f == [a \in S |-> as[a].user]
<1>1. \A u \in U : Cardinality(ActivitiesOf(as, u)) \in Int
  BY CountsAreInts DEF ActivitiesOf
<1>2. PICK h : /\ IsSum(h, [u \in U |-> Cardinality(ActivitiesOf(as, u))], U)
               /\ Done(os, ts, as, U) = h[U]
  BY <1>1, DoneSum
<1>3. f \in [S -> U]
  OBVIOUS
<1>4. IsSum(h, [u \in U |-> Cardinality(Fiber(f, S, u))], U)
  <2>1. \A u \in U : Fiber(f, S, u) = {a \in DOMAIN as : as[a].user = u}
    BY DEF Fiber
  <2>2. [u \in U |-> Cardinality(Fiber(f, S, u))]
           = [u \in U |-> Cardinality(ActivitiesOf(as, u))]
    BY <2>1 DEF ActivitiesOf
  <2> QED
    BY <1>2, <2>2
<1>5. h[U] = Cardinality(S)
  <2> HIDE DEF f, S
  <2>1. IsFiniteSet(S)
    BY DEF S
  <2> QED
    BY <1>3, <1>4, <2>1, RowsCountOnce
<1> QED
  BY <1>2, <1>5

LEMMA AmountsAddUp ==
  ASSUME NEW os, NEW ts, NEW as, NEW U, IsFiniteSet(U), IsFiniteSet(DOMAIN ts),
         \A o \in DOMAIN os : os[o] \in U,
         \A t \in DOMAIN ts : ts[t].order \in DOMAIN os /\ ts[t].amount \in Int
  PROVE  Spent(os, ts, as, U) = AmountsOf(ts, DOMAIN ts)
<1> DEFINE S == DOMAIN ts
           amounts == [t \in S |-> ts[t].amount]
           f == [t \in S |-> os[ts[t].order]]
           c == [u \in U |-> TotalAmount(os, ts, u)]
<1>1. PICK a : IsSum(a, amounts, S) /\ AmountsOf(ts, S) = a[S]
  BY AmountSum
<1>2. ASSUME NEW u \in U
      PROVE  TotalAmount(os, ts, u) = a[Fiber(f, S, u)] /\ TotalAmount(os, ts, u) \in Int
  <2> DEFINE T == TransactionsOf(os, ts, u)
  <2>1. T \in SUBSET S /\ T = Fiber(f, S, u)
    BY DEF TransactionsOf, Fiber
  <2>2. IsFiniteSet(T) /\ \A t \in T : ts[t].amount \in Int
    BY <2>1, FS_Subset
  <2> HIDE DEF T
  <2>3. PICK h : IsSum(h, [t \in T |-> ts[t].amount], T) /\ AmountsOf(ts, T) = h[T]
    BY <2>2, AmountSum
  <2>4. IsSum(h, amounts, T)
    <3>1. \A t \in T : [x \in T |-> ts[x].amount][t] = amounts[t]
      BY <2>1
    <3> HIDE DEF amounts
    <3> QED
      BY <2>3, <3>1 DEF IsSum
  <2>5. h[T] = a[T]
    <3> HIDE DEF amounts, S
    <3>1. T \in SUBSET (T \cap S)
      BY <2>1
    <3> QED
      BY <1>1, <2>2, <2>4, <3>1, SumsAreOne
  <2>6. TotalAmount(os, ts, u) = h[T]
    BY <2>3 DEF TotalAmount, AmountsOf, T
  <2>7. a[T] \in Int
    BY <1>1, <2>1 DEF IsSum
  <2> QED
    BY <2>1, <2>5, <2>6, <2>7
<1>3. PICK h : IsSum(h, c, U) /\ Spent(os, ts, as, U) = h[U]
  BY <1>2, SpentSum
<1>4. f \in [S -> U] /\ (\A t \in S : amounts[t] \in Int)
      /\ \A u \in U : c[u] = a[Fiber(f, S, u)]
  BY <1>2
<1>5. h[U] = a[S]
  <2>1. IsFiniteSet(S)
    OBVIOUS
  <2> HIDE DEF f, S, amounts, c
  <2> QED
    BY <1>1, <1>3, <1>4, <2>1, FibersAddUp
<1> QED
  BY <1>1, <1>3, <1>5

\* An activity has a time, so the last of some is not that of none.
LEMMA MaxIsOneOf ==
  ASSUME NEW S, IsFiniteSet(S), S \subseteq Int, S # {}
  PROVE  Max(S) \in S
<1> DEFINE T == {s \in SUBSET S : s # {} => \E x \in s : \A y \in s : x >= y}
<1>1. {} \in T
  OBVIOUS
<1>2. ASSUME NEW s \in SUBSET S, NEW x \in s, s \ {x} \in T
      PROVE  s \in T
  <2>1. CASE s \ {x} = {}
    <3>1. s = {x} /\ x \in Int
      BY <2>1
    <3> QED
      BY <3>1
  <2>2. CASE s \ {x} # {}
    <3>1. PICK z \in s \ {x} : \A y \in s \ {x} : z >= y
      BY <1>2, <2>2
    <3>2. z \in s /\ z \in Int /\ x \in Int /\ \A y \in s : y \in Int
      BY <3>1
    <3>3. \A y \in s : z >= x => z >= y
      BY <3>1
    <3>4. \A y \in s : ~(z >= x) => x >= y
      BY <3>1, <3>2
    <3> QED
      BY <3>2, <3>3, <3>4
  <2> QED
    BY <2>1, <2>2
<1>3. SUBSET S \subseteq T
  <2> HIDE DEF T
  <2> QED
    BY <1>1, <1>2, SetInduction
<1>4. \E x \in S : \A y \in S : x >= y
  BY <1>3
<1> QED
  BY <1>4 DEF Max

LEMMA LastOfSome ==
  ASSUME NEW as, IsFiniteSet(DOMAIN as), \A a \in DOMAIN as : as[a].time \in Nat \ {0}, NEW u
  PROVE  Cardinality(ActivitiesOf(as, u)) = 0 <=> LastActivity(as, u) = 0
<1> DEFINE A == ActivitiesOf(as, u)
           times == {as[a].time : a \in A}
<1>1. A \subseteq DOMAIN as
  BY DEF ActivitiesOf
<1>2. IsFiniteSet(A)
  BY <1>1, FS_Subset
<1>3. Cardinality(A) = 0 <=> A = {}
  BY <1>2, FS_EmptySet
<1>4. A # {} => Max(times) # 0
  <2> SUFFICES ASSUME A # {} PROVE Max(times) # 0
    OBVIOUS
  <2>1. IsFiniteSet(times)
    <3> DEFINE f == [a \in A |-> as[a].time]
    <3>1. f \in Surjection(A, times)
      BY DEF Surjection
    <3> QED
      BY <1>2, <3>1, FS_Surjection
  <2>2. times # {} /\ times \subseteq Nat \ {0}
    BY <1>1
  <2> HIDE DEF times
  <2>3. times \subseteq Int
    BY <2>2
  <2>4. Max(times) \in times
    BY <2>1, <2>2, <2>3, MaxIsOneOf
  <2> QED
    BY <2>2, <2>4
<1> QED
  BY <1>3, <1>4 DEF LastActivity

\* The rows of the other tables refer to rows there are: users are only edited
\* before the first of them.
RowsRefer ==
  /\ IsFiniteSet(DOMAIN orders) /\ IsFiniteSet(DOMAIN txs) /\ IsFiniteSet(DOMAIN acts)
  /\ \A o \in DOMAIN orders : orders[o] \in DOMAIN users
  /\ \A t \in DOMAIN txs : txs[t].order \in DOMAIN orders /\ txs[t].amount \in Int
  /\ \A a \in DOMAIN acts : acts[a].user \in DOMAIN users /\ acts[a].time \in Nat \ {0}

LEMMA RowsReferInit == Init => RowsRefer
  BY FS_EmptySet DEF Init, RowsRefer

IsInsert(new, table, key, row) ==
  /\ IsFiniteSet(DOMAIN new) /\ DOMAIN new = DOMAIN table \cup {key}
  /\ \A k \in DOMAIN new : new[k] = row \/ (k \in DOMAIN table /\ new[k] = table[k])

LEMMA InsertedIs ==
  ASSUME NEW table, NEW key, NEW row, IsFiniteSet(DOMAIN table)
  PROVE  IsInsert(Inserted(table, key, row), table, key, row)
<1> DEFINE new == Inserted(table, key, row)
<1>1. DOMAIN new = DOMAIN table \cup {key}
  BY DEF Inserted
<1>2. \A k \in DOMAIN new : new[k] = row \/ (k \in DOMAIN table /\ new[k] = table[k])
  BY DEF Inserted
<1> QED
  BY <1>1, <1>2, FS_AddElement DEF IsInsert

LEMMA RowsReferStep == RowsRefer /\ [Next]_vars => RowsRefer'
<1> SUFFICES ASSUME RowsRefer, [Next]_vars PROVE RowsRefer'
  OBVIOUS
<1>8. contents' = contents => users' = users
  BY DEF users, now
<1>1. ASSUME NEW kind \in Kinds, NEW limit \in Asked,
             Start(kind, limit) \/ \E next \in Anywhere : Ask(kind, limit, next)
      PROVE  RowsRefer'
  BY <1>1, <1>8 DEF Start, Ask, RowsRefer, others
<1>2. CASE List \/ Search
  BY <1>2, <1>8 DEF List, Search, RowsRefer, others
<1>3. ASSUME NEW u \in Ids, Register(u) \/ Edit(u) PROVE RowsRefer'
  <2>1. orders = <<>> /\ acts = <<>> /\ orders' = orders /\ txs' = txs /\ acts' = acts
    BY <1>3 DEF Register, Edit, Write, Searching, others
  <2>2. DOMAIN orders = {} /\ DOMAIN acts = {}
    BY <2>1
  <2> QED
    BY <2>1, <2>2 DEF RowsRefer
<1>4. ASSUME NEW o \in OrderIds, PlaceOrder(o) PROVE RowsRefer'
  <2>1. PICK u \in DOMAIN users : orders' = Inserted(orders, o, u)
    BY <1>4 DEF PlaceOrder
  <2>2. users' = users /\ txs' = txs /\ acts' = acts
    BY <1>4, <1>8 DEF PlaceOrder, Buying
  <2>3. IsFiniteSet(DOMAIN orders)
    BY DEF RowsRefer
  <2>4. IsInsert(orders', orders, o, u)
    BY <2>1, <2>3, InsertedIs
  <2> QED
    BY <2>2, <2>4 DEF RowsRefer, IsInsert
<1>5. ASSUME NEW t \in TransactionIds, Pay(t) PROVE RowsRefer'
  <2>1. PICK o \in DOMAIN orders, n \in 1 .. MaxAmount :
           txs' = Inserted(txs, t, [order |-> o, amount |-> n])
    BY <1>5 DEF Pay
  <2>2. users' = users /\ orders' = orders /\ acts' = acts
    BY <1>5, <1>8 DEF Pay, Buying
  <2>3. IsFiniteSet(DOMAIN txs)
    BY DEF RowsRefer
  <2> DEFINE row == [order |-> o, amount |-> n]
  <2>4. row.order \in DOMAIN orders /\ row.amount \in Int
    OBVIOUS
  <2> HIDE DEF row
  <2>5. IsInsert(txs', txs, t, row)
    BY <2>1, <2>3, InsertedIs DEF row
  <2> QED
    BY <2>2, <2>4, <2>5 DEF RowsRefer, IsInsert
<1>6. ASSUME NEW a \in ActivityIds, Act(a) PROVE RowsRefer'
  <2>1. PICK u \in DOMAIN users, n \in 1 .. MaxTime :
           acts' = Inserted(acts, a, [user |-> u, time |-> n])
    BY <1>6 DEF Act
  <2>2. users' = users /\ orders' = orders /\ txs' = txs
    BY <1>6, <1>8 DEF Act, Buying
  <2>3. IsFiniteSet(DOMAIN acts)
    BY DEF RowsRefer
  <2> DEFINE row == [user |-> u, time |-> n]
  <2>4. row.user \in DOMAIN users /\ row.time \in Nat \ {0}
    OBVIOUS
  <2> HIDE DEF row
  <2>5. IsInsert(acts', acts, a, row)
    BY <2>1, <2>3, InsertedIs DEF row
  <2> QED
    BY <2>2, <2>4, <2>5 DEF RowsRefer, IsInsert
<1>7. CASE UNCHANGED vars
  BY <1>7, <1>8 DEF vars, RowsRefer
<1> QED
  BY <1>1, <1>2, <1>3, <1>4, <1>5, <1>6, <1>7 DEF Next

\* Every order, transaction and activity of any number of users counts in exactly
\* one profile, and amounts of any size add up to what was paid.
THEOREM ProfilesAlwaysAddUp == Spec => []ProfilesAddUp
<1>1. ASSUME TypeInv, RowsRefer PROVE ProfilesAddUp
  <2>1. IsFiniteSet(DOMAIN users)
    <3>1. DOMAIN users \subseteq Ids
      BY <1>1, ContentsAre DEF Tables
    <3> QED
      BY <3>1, IdsFinite, FS_Subset
  <2>2. Placed(orders, txs, acts, DOMAIN users) = Cardinality(DOMAIN orders)
    BY <1>1, <2>1, OrdersAddUp DEF RowsRefer
  <2>3. Spent(orders, txs, acts, DOMAIN users) = AmountsOf(txs, DOMAIN txs)
    BY <1>1, <2>1, AmountsAddUp DEF RowsRefer
  <2>4. Done(orders, txs, acts, DOMAIN users) = Cardinality(DOMAIN acts)
    BY <1>1, <2>1, ActivitiesAddUp DEF RowsRefer
  <2>5. ASSUME NEW u \in DOMAIN users
        PROVE  Profile(orders, txs, acts, u).activities = 0 <=> Profile(orders, txs, acts, u).last = 0
    <3>1. Cardinality(ActivitiesOf(acts, u)) = 0 <=> LastActivity(acts, u) = 0
      BY <1>1, LastOfSome DEF RowsRefer
    <3> QED
      BY <3>1 DEF Profile
  <2> QED
    BY <2>2, <2>3, <2>4, <2>5 DEF ProfilesAddUp, Placed, Spent, Done, AmountsOf
<1> QED
  BY <1>1, TypeInit, TypeStep, RowsReferInit, RowsReferStep, PTL DEF Spec
=============================================================================

