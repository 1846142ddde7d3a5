------------------------------ MODULE Dashboard ------------------------------
(***************************************************************************)
(* The page frontend/index.html: the tabs that call the API.               *)
(*                                                                         *)
(* Its script has one thread.  A click runs a handler up to its await; the *)
(* rest of the handler runs when the call's answer arrives, in any order   *)
(* among the calls in flight and with whatever the page's variables hold   *)
(* by then.  Nothing disables a button while a call is in flight.  A call  *)
(* carries what its handler captured; an answer is what the server makes   *)
(* of it: here the rows of a page, or of a user_id, and a total, which may *)
(* change from one call to the next.                                       *)
(***************************************************************************)
EXTENDS Integers, SequencesExt

CONSTANTS
    Queries,    \* what the search fields (text and type) can say
    IDQueries,  \* those of them whose type is user_id
    UserIDs,    \* what the profile field can say
    Blank,      \* a field that says nothing (or, in the profile, no number)
    PageSize,   \* SEARCH_LIMIT
    MaxTotal,   \* bound on the matches of a search
    MaxCalls    \* bound on the calls in flight

ASSUME DashboardAssumption ==
    /\ IDQueries \subseteq Queries /\ Blank \notin Queries \cup UserIDs
    /\ PageSize \in Nat \ {0} /\ MaxTotal \in Nat /\ MaxCalls \in Nat

VARIABLES
    query,          \* the search fields
    userID,         \* the profile field
    searchOffset,   \* the script's variable of that name
    inflight,       \* the calls in flight, in the order they were sent
    loading,        \* tab -> its loading indicator is displayed
    rows,           \* the search table: which of the matches its rows are, and whether
                    \* they are a page of them
    pager,          \* the page label and buttons under it
    shown,          \* the search table and its pager are displayed
    reports,        \* the sets of cards in the quality tab
    table,          \* the duplicates table: "hidden", "ip" or "exact"
    chart,          \* the chart of IP groups is there
    profiles,       \* the users whose cards are in the profile tab
    rushed          \* history: the tabs last used while a call of theirs was in flight

fields == <<query, userID>>
search == <<searchOffset, rows, pager, shown>>
others == <<reports, table, chart, profiles>>
vars == <<query, userID, searchOffset, inflight, loading, rows, pager, shown,
          reports, table, chart, profiles, rushed>>

Tabs == {"search", "quality", "duplicates", "profile"}

Offsets == {PageSize * i : i \in 0 .. MaxTotal}

Calls == [tab : {"search"}, query : Queries, offset : Offsets]
         \cup [tab : {"quality"}]
         \cup [tab : {"duplicates"}, method : {"ip", "exact"}]
         \cup [tab : {"profile"}, id : UserIDs]

Pending(t) == \E i \in DOMAIN inflight : inflight[i].tab = t

TypeOK ==
    /\ query \in Queries \cup {Blank} /\ userID \in UserIDs \cup {Blank}
    /\ searchOffset \in Offsets
    /\ Len(inflight) <= MaxCalls /\ \A i \in DOMAIN inflight : inflight[i] \in Calls
    /\ loading \in [Tabs -> BOOLEAN]
    /\ rows.first - 1 \in Offsets /\ rows.count \in 0 .. PageSize /\ rows.paged \in BOOLEAN
    /\ pager.first \in Nat /\ pager.last \in Nat
    /\ {pager.prev, pager.next, shown, chart} \subseteq BOOLEAN
    /\ reports \in 0 .. MaxCalls
    /\ table \in {"hidden", "ip", "exact"}
    /\ profiles \in Seq(UserIDs)
    /\ rushed \subseteq Tabs

Init ==
    /\ query = Blank /\ userID = Blank
    /\ searchOffset = 0
    /\ inflight = <<>>
    /\ loading = [t \in Tabs |-> FALSE]
    /\ rows = [first |-> 1, count |-> 0, paged |-> TRUE]
    /\ pager = [first |-> 0, last |-> 0, prev |-> FALSE, next |-> FALSE]
    /\ shown = FALSE
    /\ reports = 0
    /\ table = "hidden"
    /\ chart = FALSE
    /\ profiles = <<>>
    /\ rushed = {}

-----------------------------------------------------------------------------
(* The user. *)

\* History: a button of tab t is used.  Who then waits for what is in flight is
\* patient again from the next use on.
Use(t) == rushed' = IF Pending(t) THEN rushed \cup {t} ELSE rushed \ {t}

\* apiFetch up to its await.
Send(call) ==
    /\ Len(inflight) < MaxCalls
    /\ inflight' = Append(inflight, call)
    /\ loading' = [loading EXCEPT ![call.tab] = TRUE]

EditQuery(q) ==
    /\ q # query
    /\ query' = q
    /\ UNCHANGED <<userID, inflight, loading, rushed, search, others>>

EditUserID(id) ==
    /\ id # userID
    /\ userID' = id
    /\ UNCHANGED <<query, inflight, loading, rushed, search, others>>

\* runSearch with searchOffset at offset: the table and the pager go, and a
\* call is made unless the field is blank.
RunSearch(offset) ==
    /\ searchOffset' = offset
    /\ shown' = FALSE
    /\ IF query = Blank
       THEN UNCHANGED <<inflight, loading>>
       ELSE Send([tab |-> "search", query |-> query, offset |-> offset])
    /\ Use("search")
    /\ UNCHANGED <<fields, rows, pager, others>>

\* A mutation of SearchClick: a blank field is noticed before the table is hidden.
SearchClickChecksFirst ==
    \/ query # Blank /\ RunSearch(0)
    \/ /\ query = Blank
       /\ searchOffset' = 0
       /\ Use("search")
       /\ UNCHANGED <<fields, inflight, loading, rows, pager, shown, others>>

\* search-btn, or Enter in the field.
SearchClick == RunSearch(0)

\* A mutation of PrevClick: the offset of a page too many.
PrevClickBelowZero ==
    /\ shown
    /\ RunSearch(searchOffset - PageSize)

PrevClick ==
    /\ shown /\ pager.prev
    /\ RunSearch(IF searchOffset >= PageSize THEN searchOffset - PageSize ELSE 0)

\* A mutation of NextClick: the call is made before the offset moves.
NextClickTooEarly ==
    /\ shown /\ pager.next
    /\ searchOffset' = searchOffset + PageSize
    /\ shown' = FALSE
    /\ query # Blank
    /\ Send([tab |-> "search", query |-> query, offset |-> searchOffset])
    /\ Use("search")
    /\ UNCHANGED <<fields, rows, pager, others>>

NextClick ==
    /\ shown /\ pager.next
    /\ RunSearch(searchOffset + PageSize)

\* A mutation of QualityClick: the cards are not cleared.
QualityClickAppends ==
    /\ Send([tab |-> "quality"])
    /\ Use("quality")
    /\ UNCHANGED <<fields, search, others>>

\* loadQuality clears its cards...
QualityClick ==
    /\ reports' = 0
    /\ Send([tab |-> "quality"])
    /\ Use("quality")
    /\ UNCHANGED <<fields, search, table, chart, profiles>>

IPClick ==
    /\ table' = "hidden"
    /\ Send([tab |-> "duplicates", method |-> "ip"])
    /\ Use("duplicates")
    /\ UNCHANGED <<fields, search, reports, chart, profiles>>

\* loadDuplicatesExact removes the chart of the IP groups when it is called.
ExactClick ==
    /\ table' = "hidden"
    /\ chart' = FALSE
    /\ Send([tab |-> "duplicates", method |-> "exact"])
    /\ Use("duplicates")
    /\ UNCHANGED <<fields, search, reports, profiles>>

\* loadProfile clears its cards, and calls unless the field is not a number.
ProfileClick ==
    /\ profiles' = <<>>
    /\ IF userID = Blank
       THEN UNCHANGED <<inflight, loading>>
       ELSE Send([tab |-> "profile", id |-> userID])
    /\ Use("profile")
    /\ UNCHANGED <<fields, search, reports, table, chart>>

-----------------------------------------------------------------------------
(* Answers. *)

\* The i-th call in flight is over; finally { loadingEl.style.display = 'none' }
Settle(i) ==
    /\ inflight' = RemoveAt(inflight, i)
    /\ loading' = [loading EXCEPT ![inflight[i].tab] = FALSE]
    /\ UNCHANGED <<fields, rushed, searchOffset>>

\* What a search may answer.  SearchByUserID has no LIMIT and no OFFSET: whatever
\* page is asked for, it finds the one user or none.  The other searches find the
\* page that starts at the offset, with a total that may be of another moment.
Found(call) ==
    IF call.query \in IDQueries
    THEN [first : {1}, count : {0}, paged : {FALSE}, total : {0}]
         \cup [first : {1}, count : {1}, paged : {FALSE}, total : {1}]
    ELSE [first : {call.offset + 1}, count : 0 .. PageSize, paged : {TRUE}, total : 0 .. MaxTotal]

\* The rows are those of the call; the label and the buttons are computed from
\* searchOffset, which the user may have moved meanwhile.
SearchAnswer(i) ==
    /\ inflight[i].tab = "search"
    /\ \E found \in Found(inflight[i]) :
          /\ rows' = [first |-> found.first, count |-> found.count, paged |-> found.paged]
          /\ IF found.count = 0
             THEN UNCHANGED <<shown, pager>>
             ELSE /\ shown' = TRUE
                  /\ pager' = [first |-> searchOffset + 1, last |-> searchOffset + found.count,
                               prev |-> searchOffset # 0,
                               next |-> searchOffset + PageSize < found.total]
    /\ UNCHANGED others
    /\ Settle(i)

\* ...and appends five when both /api/quality and /api/metrics have answered.
QualityAnswer(i) ==
    /\ inflight[i].tab = "quality"
    /\ reports' = reports + 1
    /\ UNCHANGED <<rows, pager, shown, table, chart, profiles>>
    /\ Settle(i)

\* The chart is there when there are IP groups; the answer with the pairs
\* leaves it alone.
DuplicatesAnswer(i) ==
    /\ inflight[i].tab = "duplicates"
    /\ table' = inflight[i].method
    /\ IF inflight[i].method = "ip" THEN chart' \in BOOLEAN ELSE UNCHANGED chart
    /\ UNCHANGED <<rows, pager, shown, reports, profiles>>
    /\ Settle(i)

ProfileAnswer(i) ==
    /\ inflight[i].tab = "profile"
    /\ profiles' = Append(profiles, inflight[i].id)
    /\ UNCHANGED <<rows, pager, shown, reports, table, chart>>
    /\ Settle(i)

\* A mutation of Error: the indicator is hidden at the end of the try block.
ErrorKeepsLoading(i) ==
    /\ inflight' = RemoveAt(inflight, i)
    /\ UNCHANGED <<fields, loading, rushed, searchOffset, rows, pager, shown, others>>

\* showError; nothing else on the page changes.
Error(i) ==
    /\ UNCHANGED <<rows, pager, shown, others>>
    /\ Settle(i)

User ==
    \/ \E q \in Queries \cup {Blank} : EditQuery(q)
    \/ \E id \in UserIDs \cup {Blank} : EditUserID(id)
    \/ SearchClick \/ PrevClick \/ NextClick
    \/ QualityClick \/ IPClick \/ ExactClick \/ ProfileClick

Answer ==
    \E i \in DOMAIN inflight :
        \/ SearchAnswer(i) \/ QualityAnswer(i) \/ DuplicatesAnswer(i) \/ ProfileAnswer(i)
        \/ Error(i)

Next == User \/ Answer

Spec == Init /\ [][Next]_vars

-----------------------------------------------------------------------------
\* No tab looks busy for good: its indicator is displayed only while a call of
\* its own is in flight.  (The converse fails: the first of two answers hides
\* it.)
LoadingEnds == \A t \in Tabs : loading[t] => Pending(t)

\* The displayed pager always fits searchOffset, from which Prev and Next go
\* on, however clicks and answers interleave: whatever moves the offset hides
\* the pager first.  So Prev never goes below 0 and Next only to a page that
\* the last answer said to exist.
PagerFitsOffset ==
    shown => /\ pager.first = searchOffset + 1
             /\ pager.prev <=> searchOffset # 0
             /\ searchOffset <= MaxTotal

\* Who waits for each answer sees the rows that the label announces, also after
\* having been in a hurry before.  One case is left out because it fails: who turns
\* to the next page of a search after changing its type to user_id sees the one
\* match, which is on no page, under the label of the page.
PatientUserSeesPage ==
    "search" \notin rushed /\ shown /\ (rows.paged \/ searchOffset = 0)
        => /\ rows.count # 0
           /\ pager.first = rows.first /\ pager.last = rows.first + rows.count - 1

\* Who waits for each answer sees one answer in each tab: one report and one
\* profile at most, whose cards are cleared by the click and appended by the
\* answer, and no chart of IP groups beside the table of exact pairs, which is
\* removed by the click and not by the answer.  What overlapping calls have left
\* behind is gone with the next click that waits.
PatientUserSeesOneAnswer ==
    /\ "quality" \notin rushed => reports <= 1
    /\ "profile" \notin rushed => Len(profiles) <= 1
    /\ "duplicates" \notin rushed /\ table = "exact" => ~chart

\* "Pagination works (limit, offset respected)": the page that is displayed is the
\* one its label announces, however fast the user is.
PaginationWorks == shown /\ rows.paged => pager.first = rows.first
=============================================================================
