---------------------------- MODULE QualityReport ----------------------------
(***************************************************************************)
(* What QualityMetrics (backend/repository/analytics_repository.go)        *)
(* computes, and what Metrics and Compute (backend/service/api_service.go) *)
(* report of it.  AnalyticsCaches says when it runs and what may fail;     *)
(* here are the numbers.                                                   *)
(*                                                                         *)
(* Its statements read the tables one after another, so each may see       *)
(* another content: the counts are those of one scan, the numbers of       *)
(* distinct values come from what ANALYZE left in pg_stats some time ago,  *)
(* the hobbies from a sample taken later, and the examples of a report     *)
(* from the table when somebody asks.                                      *)
(***************************************************************************)
EXTENDS Integers, FiniteSetsExt

CONSTANTS
    Contacts,   \* the columns that are counted, checked and estimated: email, phone
    Phones,     \* those with a shortest length: phone
    MaxRows,    \* bound on the rows of ws_user
    Examples    \* examples in an issue, 3

ASSUME QualityAssumption ==
    IsFiniteSet(Contacts) /\ Phones \subseteq Contacts /\ MaxRows \in Nat /\ Examples \in Nat \ {0}

VARIABLES
    pc,         \* the statement that comes next
    todo,       \* the columns still to be estimated
    m,          \* the QualityMetrics being filled
    basis,      \* history: the contacts scanned, and whether the statistics used were of them
    report      \* what the last Compute made of m

vars == <<pc, todo, m, basis, report>>

-----------------------------------------------------------------------------
(* Columns of ws_user: how many rows have a value of each sort. *)

\* As the conditions of the statements tell values apart: missing, '', shorter
\* than eight characters, not like the pattern (a@b.c, digits and plus) at any
\* length, and like it and long enough.
ContactSorts == {"null", "empty", "short", "strange", "good"}

\* Against CURRENT_DATE: more than 120 years ago or not, in the year 1, later,
\* and in the year 9999 or later.
DateSorts == {"null", "plausible", "old", "year1", "future", "year9999"}

ContactCounts(rows) ==
    {c \in [ContactSorts -> 0 .. rows] : c.null + c.empty + c.short + c.strange + c.good = rows}

DateCounts(rows) ==
    {d \in [DateSorts -> 0 .. rows] :
        d.null + d.plausible + d.old + d.year1 + d.future + d.year9999 = rows}

\* count(*) FILTER (WHERE the value is of one of these sorts).
Count(column, sorts) ==
    LET of(s) == IF s \in sorts THEN column[s] ELSE 0 IN
    of("null") + of("empty") + of("short") + of("strange") + of("good")

\* What length(...) < 8 and !~ are true of; of NULL no comparison is.
TooShort == {"empty", "short"}
Unlike == {"empty", "strange"}

\* IS NOT NULL AND <> ''.
Filled == ContactSorts \ {"null", "empty"}

Present(column) == Count(column, Filled)

\* email_invalid and phone_malformed of the scan.
InvalidInScan(f) ==
    {s \in Filled : s \in Unlike \/ (f \in Phones /\ s \in TooShort)}

\* Contact columns with the number of their different values.
Columns(rows) ==
    {c \in [of : ContactCounts(rows), distinct : 0 .. rows] :
        c.distinct <= Present(c.of) /\ (c.distinct = 0 <=> Present(c.of) = 0)}

\* External: what pg_stats may say of a column.  n_distinct is 0 where ANALYZE
\* has nothing to say, a number of values, or minus the ratio of that number to
\* the rows of the table it saw.
NoStatistics == [form |-> "none", rows |-> 0, distinct |-> 0]

Statistics ==
    {NoStatistics} \cup
    {s \in [form : {"count", "ratio"}, rows : 1 .. MaxRows, distinct : 0 .. MaxRows] :
        s.distinct <= s.rows}

-----------------------------------------------------------------------------
(* QualityMetrics. *)

\* int64(x + 0.5) for x = a / b.
Rounded(a, b) == (2 * a + b) \div (2 * b)

\* A mutation of estimateDistinct: more values than the column has.
estimateDistinctUncapped(s, present) ==
    IF s.form = "none" \/ s.distinct = 0 THEN present
    ELSE IF s.form = "ratio" THEN Rounded(s.distinct * present, s.rows)
    ELSE s.distinct

\* A mutation of estimateDistinct: a ratio is taken for a percentage of values.
estimateDistinctOfValues(s, present) ==
    IF s.form = "none" \/ s.distinct = 0 THEN present
    ELSE IF s.form = "ratio" THEN (s.distinct * present) \div (s.rows + 1)
    ELSE IF s.distinct > present THEN present
    ELSE s.distinct

\* A failed query counts as no statistics.
estimateDistinct(s, present) ==
    IF s.form = "none" \/ s.distinct = 0 THEN present
    ELSE IF s.form = "ratio" THEN Rounded(s.distinct * present, s.rows)
    ELSE IF s.distinct > present THEN present
    ELSE s.distinct

\* LIMIT.
Least(limit, rows) == IF rows < limit THEN rows ELSE limit

max0(v) == IF v < 0 THEN 0 ELSE v

NoMetrics == [
    total |-> 0,
    present |-> [f \in Contacts |-> 0], invalid |-> [f \in Contacts |-> 0],
    unique |-> [f \in Contacts |-> 0], duplicate |-> [f \in Contacts |-> 0],
    datePresent |-> 0, dateFuture |-> 0, dateImpossible |-> 0, dateInvalid |-> 0,
    hobbiesNull |-> 0, hobbiesSpecial |-> 0]

NoBasis == [
    of |-> [f \in Contacts |-> [s \in ContactSorts |-> 0]],
    distinct |-> [f \in Contacts |-> 0], fresh |-> [f \in Contacts |-> FALSE]]

NoReport == [
    issues |-> {}, examples |-> [f \in Contacts |-> 0], known |-> {}]

Init ==
    /\ pc = "scan"
    /\ todo = {}
    /\ m = NoMetrics
    /\ basis = NoBasis
    /\ report = NoReport

\* A mutation of InvalidDates: only those that are neither future nor impossible.
InvalidDatesLeft(dates) == dates.old

\* Future, impossible or more than 120 years ago, each row once.
InvalidDates(dates) == dates.old + dates.year1 + dates.future + dates.year9999

\* The counts of one scan of ws_user.
Scan ==
    /\ pc = "scan"
    /\ \E rows \in 0 .. MaxRows :
       \E column \in [Contacts -> Columns(rows)], dates \in DateCounts(rows) :
          /\ m' = [NoMetrics EXCEPT
                      !.total = rows,
                      !.present = [f \in Contacts |-> Present(column[f].of)],
                      !.invalid = [f \in Contacts |-> Count(column[f].of, InvalidInScan(f))],
                      !.datePresent = rows - dates.null,
                      !.dateFuture = dates.future + dates.year9999,
                      !.dateImpossible = dates.year1 + dates.year9999,
                      !.dateInvalid = InvalidDates(dates)]
          /\ basis' = [of |-> [f \in Contacts |-> column[f].of],
                       distinct |-> [f \in Contacts |-> column[f].distinct],
                       fresh |-> [f \in Contacts |-> FALSE]]
    /\ todo' = Contacts
    /\ pc' = IF todo' = {} THEN "sample" ELSE "estimate"
    /\ UNCHANGED report

\* One call of estimateDistinct.
Estimate(f) ==
    /\ pc = "estimate" /\ f \in todo
    /\ \E s \in Statistics :
          LET unique == estimateDistinct(s, m.present[f]) IN
          /\ m' = [m EXCEPT !.unique[f] = unique,
                            !.duplicate[f] = max0(m.present[f] - unique)]
          /\ basis' = [basis EXCEPT !.fresh[f] =
                          s.form # "none" /\ s.rows = m.total /\ s.distinct = basis.distinct[f]]
    /\ todo' = todo \ {f}
    /\ pc' = IF todo' = {} THEN "sample" ELSE "estimate"
    /\ UNCHANGED report

\* A mutation of Scaled: the sample is taken for a hundredth, whatever its size.
ScaledByRate(part, rows, total) == 100 * part

\* int64(float64(part)*scale + 0.5); a sample may have no rows.
Scaled(part, rows, total) == IF rows > 0 THEN Rounded(part * total, rows) ELSE 0

\* TABLESAMPLE SYSTEM (1): any part of a table that may have changed since.
\* Hobbies that are NULL have no characters.
Sample ==
    /\ pc = "sample"
    /\ \E rows \in 0 .. MaxRows : \E null \in 0 .. rows : \E special \in 0 .. rows - null :
          m' = [m EXCEPT !.hobbiesNull = Scaled(null, rows, m.total),
                         !.hobbiesSpecial = Scaled(special, rows, m.total)]
    /\ pc' = "done"
    /\ UNCHANGED <<todo, basis, report>>

\* A mutation of InvalidInSample: without <> '', where '' is like no pattern.
InvalidInSampleWithEmpty(f) ==
    {s \in ContactSorts \ {"null"} : s \in Unlike \/ (f \in Phones /\ s \in TooShort)}

\* SampleInvalidEmails and SampleMalformedPhones have conditions of their own.
InvalidInSample(f) ==
    {s \in ContactSorts \ {"null", "empty"} : s \in Unlike \/ (f \in Phones /\ s \in TooShort)}

\* A report of the published metrics: the contacts in data_issues are those with
\* a count, and the examples are read now, of a column that is as it was scanned
\* or of any other.  The error of a sample is dropped and leaves no examples.
Compute ==
    /\ pc = "done"
    /\ \E answered \in SUBSET Contacts : \E same \in SUBSET answered :
       \E other \in [Contacts -> 0 .. Examples] :
          report' = [
              issues |-> {f \in Contacts : m.invalid[f] > 0},
              examples |-> [f \in Contacts |->
                  IF f \in same THEN Least(Examples, Count(basis.of[f], InvalidInSample(f)))
                  ELSE IF f \in answered THEN other[f]
                  ELSE 0],
              known |-> same]
    /\ UNCHANGED <<pc, todo, m, basis>>

\* The metrics are published, or a statement has failed, and the next refresh
\* starts; a new QualityMetrics is filled.
Again ==
    /\ pc \in {"estimate", "sample", "done"}
    /\ pc' = "scan"
    /\ todo' = {}
    /\ m' = NoMetrics
    /\ basis' = NoBasis
    /\ report' = NoReport

Next == Scan \/ Sample \/ Compute \/ Again \/ \E f \in Contacts : Estimate(f)

Spec == Init /\ [][Next]_vars

-----------------------------------------------------------------------------
(* The reports of the metrics. *)

\* round1(pct(part, total)), in tenths of a percent.
Percent(part, total) == IF total = 0 THEN 0 ELSE Rounded(1000 * part, total)

\* missing_count, and with it missing_percent, of a contact.
Missing(f) == m.total - m.present[f]

MissingFields == MapThenSumSet(Missing, Contacts) + (m.total - m.datePresent) + m.hobbiesNull

\* The contacts, birth_date, hobbies and status, which is never counted as missing.
Tracked == m.total * (Cardinality(Contacts) + 3)

\* round1(100.0 - pct(missingFields, total)), in tenths of a percent.
QualityScore == IF Tracked = 0 THEN 1000 ELSE Rounded(1000 * (Tracked - MissingFields), Tracked)

-----------------------------------------------------------------------------
TypeOK ==
    /\ pc \in {"scan", "estimate", "sample", "done"}
    /\ todo \subseteq Contacts
    /\ \A f \in Contacts : {m.present[f], m.invalid[f], m.unique[f], m.duplicate[f]} \subseteq 0 .. MaxRows
    /\ report.issues \subseteq Contacts /\ report.known \subseteq Contacts
    /\ report.examples \in [Contacts -> 0 .. Examples]
    /\ {m.total, m.datePresent, m.dateFuture, m.dateImpossible, m.dateInvalid, m.hobbiesNull,
        m.hobbiesSpecial} \subseteq 0 .. MaxRows

\* What pg_stats says of another day's table never makes a report that does not
\* add up: unique values and duplicates are together the values there are.
EstimatesAddUp ==
    pc \in {"sample", "done"} =>
        \A f \in Contacts : m.unique[f] + m.duplicate[f] = m.present[f]

\* Nor does a sample of any size, taken later: there are never more users
\* without hobbies than users, percentages are at most 100 and the score is
\* between the share of status, which is never missing, and 100.  Two scaled
\* parts of one sample exceed the whole by one at most, where both are rounded up.
ScoreInRange ==
    pc = "done" =>
        /\ m.hobbiesNull <= m.total
        /\ m.hobbiesNull + m.hobbiesSpecial <= m.total + 1
        /\ Percent(m.hobbiesNull, m.total) <= 1000
        /\ QualityScore <= 1000
        /\ QualityScore >= 1000 \div (Cardinality(Contacts) + 3)

\* In a column without missing values, fresh statistics give the number of
\* duplicates exactly.
ExactWithoutMissing ==
    pc = "done" =>
        \A f \in Contacts :
            basis.fresh[f] /\ m.present[f] = m.total
                => m.duplicate[f] = m.present[f] - basis.distinct[f]

\* "invalid = the broader bucket": future and impossible dates are invalid ones,
\* counted once even if they are both, and never more than there are dates.
DatesCountOnce ==
    pc = "done" =>
        /\ Max({m.dateFuture, m.dateImpossible}) <= m.dateInvalid
        /\ m.dateInvalid <= m.datePresent

\* The scan of a refresh and the sample of a request each decide what is
\* malformed.  Where the sample was answered and the column is as it was scanned,
\* a report lists an issue just when it has examples of it, as many as are asked
\* for or as were counted.  (A sample that fails lists the issue without any.)
ExamplesFitIssues ==
    \A f \in report.known :
        /\ f \in report.issues <=> report.examples[f] > 0
        /\ report.examples[f] = Least(Examples, m.invalid[f])

=============================================================================
