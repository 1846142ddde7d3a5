-------------------------- MODULE QualityReportProofs --------------------------
(***************************************************************************)
(* Proofs about QualityReport, for any contacts and any number of rows.    *)
(***************************************************************************)
EXTENDS QualityReport, FiniteSetTheorems, WellFoundedInduction, TLAPS

-----------------------------------------------------------------------------
(* Rounding. *)

LEMMA QuotientBounds ==
  ASSUME NEW x \in Nat, NEW y \in Nat \ {0}
  PROVE  x \div y \in Nat /\ y * (x \div y) <= x /\ x < y * (x \div y) + y
  OBVIOUS

\* Order is kept by products...
LEMMA ProductOrder ==
  ASSUME NEW a \in Int, NEW b \in Int, NEW c \in Nat, a <= b
  PROVE  a * c <= b * c
  OBVIOUS

\* A part of a whole, scaled to another whole and rounded, is a part of it.
LEMMA RoundedBound ==
  ASSUME NEW part \in Nat, NEW rows \in Nat \ {0}, part <= rows, NEW total \in Nat
  PROVE  Rounded(part * total, rows) \in 0 .. total
<1> DEFINE x == 2 * (part * total) + rows
           q == x \div (2 * rows)
<1>1. part * total \in Nat /\ rows * total \in Nat /\ part * total <= rows * total
  BY ProductOrder
<1>2. x \in Nat /\ 2 * rows \in Nat \ {0}
  BY <1>1
<1>3. q \in Nat /\ (2 * rows) * q <= x
  BY <1>2, QuotientBounds
<1>4. x < 2 * (rows * total) + 2 * rows
  BY <1>1
<1> HIDE DEF x, q
<1>5. q <= total
  <2> SUFFICES ASSUME q >= total + 1 PROVE FALSE
    BY <1>3
  <2>1. (total + 1) * (2 * rows) <= q * (2 * rows)
    BY <1>2, <1>3, ProductOrder
  <2>2. (total + 1) * (2 * rows) = 2 * (rows * total) + 2 * rows
    OBVIOUS
  <2>3. q * (2 * rows) = (2 * rows) * q
    BY <1>3
  <2> QED
    BY <1>1, <1>2, <1>3, <1>4, <2>1, <2>2, <2>3
<1> QED
  BY <1>3, <1>5 DEF Rounded, x, q

\* Nothing is lost of a part that is scaled to its own whole.
LEMMA RoundedSame ==
  ASSUME NEW part \in Nat, NEW rows \in Nat \ {0}
  PROVE  Rounded(part * rows, rows) = part
<1> DEFINE x == 2 * (part * rows) + rows
           q == x \div (2 * rows)
<1>1. part * rows \in Nat /\ (2 * rows) * part = 2 * (part * rows)
  OBVIOUS
<1>2. x \in Nat /\ 2 * rows \in Nat \ {0}
  BY <1>1
<1>3. q \in Nat /\ (2 * rows) * q <= x /\ x < (2 * rows) * q + 2 * rows
  BY <1>2, QuotientBounds
<1>4. (2 * rows) * part <= x /\ x < (2 * rows) * part + 2 * rows
  BY <1>1
<1> HIDE DEF x, q
<1>5. ~(q >= part + 1)
  <2> SUFFICES ASSUME q >= part + 1 PROVE FALSE
    OBVIOUS
  <2>1. (part + 1) * (2 * rows) <= q * (2 * rows)
    BY <1>2, <1>3, ProductOrder
  <2>2. (part + 1) * (2 * rows) = (2 * rows) * part + 2 * rows /\ q * (2 * rows) = (2 * rows) * q
    BY <1>3
  <2> QED
    BY <1>1, <1>2, <1>3, <1>4, <2>1, <2>2
<1>6. ~(part >= q + 1)
  <2> SUFFICES ASSUME part >= q + 1 PROVE FALSE
    OBVIOUS
  <2>1. (q + 1) * (2 * rows) <= part * (2 * rows)
    BY <1>2, <1>3, ProductOrder
  <2>2. (q + 1) * (2 * rows) = (2 * rows) * q + 2 * rows /\ part * (2 * rows) = (2 * rows) * part
    BY <1>3
  <2> QED
    BY <1>1, <1>2, <1>3, <1>4, <2>1, <2>2
<1> QED
  BY <1>3, <1>5, <1>6 DEF Rounded, x, q

\* Whatever pg_stats says, no more values are estimated than there are.
LEMMA EstimateBound ==
  ASSUME NEW s \in Statistics, NEW present \in Nat
  PROVE  estimateDistinct(s, present) \in 0 .. present
<1>1. CASE s = NoStatistics
  BY <1>1 DEF estimateDistinct, NoStatistics
<1>2. CASE s # NoStatistics
  <2>1. s.rows \in Nat \ {0} /\ s.distinct \in Nat /\ s.distinct <= s.rows
    BY <1>2, QualityAssumption DEF Statistics
  <2>2. Rounded(s.distinct * present, s.rows) \in 0 .. present
    BY <2>1, RoundedBound
  <2> QED
    BY <2>1, <2>2 DEF estimateDistinct
<1> QED
  BY <1>1, <1>2

\* Of a table that is as it was, and without missing values, the number of
\* different values is known exactly.
LEMMA EstimateExact ==
  ASSUME NEW s \in Statistics, s.form # "none", NEW present \in Nat, s.rows = present,
         s.distinct <= present, s.distinct = 0 => present = 0
  PROVE  estimateDistinct(s, present) = s.distinct
<1>1. s \in [form : {"count", "ratio"}, rows : 1 .. MaxRows, distinct : 0 .. MaxRows]
  BY DEF Statistics, NoStatistics
<1>2. s.rows \in Nat \ {0} /\ s.distinct \in Nat /\ s.form \in {"count", "ratio"}
  BY <1>1, QualityAssumption
<1>3. Rounded(s.distinct * present, s.rows) = s.distinct
  BY <1>2, RoundedSame
<1>4. s.distinct # 0
  BY <1>2
<1> QED
  BY <1>2, <1>3, <1>4 DEF estimateDistinct

-----------------------------------------------------------------------------
(* The metrics while they are filled. *)

Sizes == 0 .. MaxRows

MetricsType ==
  [total : Sizes,
   present : [Contacts -> Sizes], invalid : [Contacts -> Sizes],
   unique : [Contacts -> Sizes], duplicate : [Contacts -> Sizes],
   datePresent : Sizes, dateFuture : Sizes, dateImpossible : Sizes, dateInvalid : Sizes,
   hobbiesNull : Sizes, hobbiesSpecial : Sizes]

BasisType ==
  [of : [Contacts -> [ContactSorts -> Sizes]], distinct : [Contacts -> Sizes],
   fresh : [Contacts -> BOOLEAN]]

TypeInv ==
  /\ pc \in {"scan", "estimate", "sample", "done"}
  /\ todo \subseteq Contacts
  /\ m \in MetricsType /\ basis \in BasisType

\* The counts of the scan are those of one table.
ScanInv ==
  /\ m.hobbiesNull <= m.total
  /\ m.dateFuture <= m.dateInvalid /\ m.dateImpossible <= m.dateInvalid
  /\ m.dateInvalid <= m.datePresent
  /\ \A f \in Contacts :
        /\ m.present[f] <= m.total
        /\ m.invalid[f] = Count(basis.of[f], InvalidInScan(f))
        /\ basis.distinct[f] <= m.present[f]
        /\ basis.distinct[f] = 0 => m.present[f] = 0

\* What is said of a column once it was estimated.
Estimated(f) ==
  /\ m.unique[f] + m.duplicate[f] = m.present[f]
  /\ basis.fresh[f] /\ m.present[f] = m.total
        => m.duplicate[f] = m.present[f] - basis.distinct[f]

EstimateInv ==
  /\ pc \in {"sample", "done"} => todo = {}
  /\ pc # "scan" => \A f \in Contacts \ todo : Estimated(f)

\* A report is of the metrics published, with what a sample of the columns that
\* were scanned finds, where it found them.
ReportsType ==
  [issues : SUBSET Contacts, examples : [Contacts -> 0 .. Examples], known : SUBSET Contacts]

Reported ==
  /\ report \in ReportsType
  /\ pc = "scan" => report = NoReport
  /\ \A f \in report.known :
        /\ f \in report.issues <=> m.invalid[f] > 0
        /\ report.examples[f] = Least(Examples, Count(basis.of[f], InvalidInSample(f)))

ReportInv == TypeInv /\ ScanInv /\ EstimateInv /\ Reported

LEMMA ZeroSize == 0 \in Sizes
  BY QualityAssumption DEF Sizes

LEMMA SizesAre == Sizes \subseteq Nat /\ \A n \in Nat : n <= MaxRows => n \in Sizes
  BY QualityAssumption DEF Sizes

LEMMA NothingYet == NoMetrics \in MetricsType /\ NoBasis \in BasisType
  BY ZeroSize DEF NoMetrics, NoBasis, MetricsType, BasisType

LEMMA CountOfNothing ==
  ASSUME NEW sorts PROVE Count([s \in ContactSorts |-> 0], sorts) = 0
  BY DEF Count, ContactSorts

LEMMA ScanInvOfNothing ==
  ASSUME m' = NoMetrics, basis' = NoBasis
  PROVE  ScanInv'
<1>1. m'.total = 0 /\ m'.hobbiesNull = 0 /\ m'.dateFuture = 0 /\ m'.dateImpossible = 0
      /\ m'.dateInvalid = 0 /\ m'.datePresent = 0
  BY DEF NoMetrics
<1>2. ASSUME NEW f \in Contacts
      PROVE  m'.present[f] = 0 /\ m'.invalid[f] = 0 /\ basis'.distinct[f] = 0
             /\ Count(basis'.of[f], InvalidInScan(f)) = 0
  BY CountOfNothing DEF NoMetrics, NoBasis
<1> QED
  BY <1>1, <1>2 DEF ScanInv

\* No report is one of any metrics.
LEMMA ReportedNothing ==
  /\ report = NoReport => Reported
  /\ report' = NoReport => Reported'
<1>1. NoReport \in ReportsType /\ NoReport.known = {}
  BY QualityAssumption DEF NoReport, ReportsType
<1> QED
  BY <1>1 DEF Reported

LEMMA ReportInit == Init => ReportInv
<1> SUFFICES ASSUME Init PROVE ReportInv
  OBVIOUS
<1>1. TypeInv
  BY NothingYet DEF Init, TypeInv
<1>2. ScanInv
  <2>1. m = NoMetrics /\ basis = NoBasis
    BY DEF Init
  <2>2. m.total = 0 /\ m.hobbiesNull = 0 /\ m.dateFuture = 0 /\ m.dateImpossible = 0
        /\ m.dateInvalid = 0 /\ m.datePresent = 0
    BY <2>1 DEF NoMetrics
  <2>3. ASSUME NEW f \in Contacts
        PROVE  m.present[f] = 0 /\ m.invalid[f] = 0 /\ basis.distinct[f] = 0
               /\ Count(basis.of[f], InvalidInScan(f)) = 0
    BY <2>1, CountOfNothing DEF NoMetrics, NoBasis
  <2> QED
    BY <2>2, <2>3 DEF ScanInv
<1> QED
  BY <1>1, <1>2, ReportedNothing DEF Init, ReportInv, EstimateInv

LEMMA AgainStep == ASSUME ReportInv, Again PROVE ReportInv'
<1>1. TypeInv'
  BY NothingYet DEF Again, TypeInv
<1>2. ScanInv'
  BY ScanInvOfNothing DEF Again
<1> QED
  BY <1>1, <1>2, ReportedNothing DEF Again, ReportInv, EstimateInv

\* Some of the rows are no more than all of them.
LEMMA CountBound ==
  ASSUME NEW rows \in Nat, NEW column \in ContactCounts(rows), NEW sorts
  PROVE  Count(column, sorts) \in 0 .. rows
<1>1. column \in [ContactSorts -> 0 .. rows]
      /\ column.null + column.empty + column.short + column.strange + column.good = rows
  BY DEF ContactCounts
<1>2. /\ column.null \in 0 .. rows /\ column.empty \in 0 .. rows
      /\ column.short \in 0 .. rows /\ column.strange \in 0 .. rows /\ column.good \in 0 .. rows
  BY <1>1 DEF ContactSorts
<1> DEFINE of(s) == IF s \in sorts THEN column[s] ELSE 0
<1>3. /\ of("null") \in Nat /\ of("null") <= column.null
      /\ of("empty") \in Nat /\ of("empty") <= column.empty
      /\ of("short") \in Nat /\ of("short") <= column.short
      /\ of("strange") \in Nat /\ of("strange") <= column.strange
      /\ of("good") \in Nat /\ of("good") <= column.good
  BY <1>2
<1>4. Count(column, sorts) = of("null") + of("empty") + of("short") + of("strange") + of("good")
  BY DEF Count
<1> HIDE DEF of
<1> QED
  BY <1>1, <1>2, <1>3, <1>4

\* The scan and the samples, which were written apart, ask for the same values.
LEMMA ConditionsAgree ==
  ASSUME NEW f PROVE InvalidInScan(f) = InvalidInSample(f)
  BY DEF InvalidInScan, InvalidInSample, Filled

LEMMA ColumnsAre ==
  ASSUME NEW rows \in 0 .. MaxRows, NEW c \in Columns(rows)
  PROVE  /\ c.of \in [ContactSorts -> Sizes]
         /\ \A sorts : Count(c.of, sorts) \in Sizes
         /\ Present(c.of) \in Sizes /\ Present(c.of) <= rows
         /\ c.distinct \in Sizes /\ c.distinct <= Present(c.of)
         /\ c.distinct = 0 => Present(c.of) = 0
<1>1. c.of \in ContactCounts(rows) /\ c.of \in [ContactSorts -> 0 .. rows] /\ c.distinct \in 0 .. rows
  BY DEF Columns, ContactCounts
<1>2. 0 .. rows \subseteq Sizes /\ rows \in Nat
  BY QualityAssumption DEF Sizes
<1>3. \A sorts : Count(c.of, sorts) \in 0 .. rows
  BY <1>1, <1>2, CountBound
<1>4. Present(c.of) \in 0 .. rows
  BY <1>3 DEF Present
<1>5. c.distinct <= Present(c.of) /\ (c.distinct = 0 => Present(c.of) = 0)
  BY DEF Columns
<1> QED
  BY <1>1, <1>2, <1>3, <1>4, <1>5

LEMMA DatesAre ==
  ASSUME NEW rows \in 0 .. MaxRows, NEW d \in DateCounts(rows)
  PROVE  /\ {rows - d.null, d.future + d.year9999, d.year1 + d.year9999, InvalidDates(d)}
               \subseteq Sizes
         /\ d.future + d.year9999 <= InvalidDates(d)
         /\ d.year1 + d.year9999 <= InvalidDates(d)
         /\ InvalidDates(d) <= rows - d.null
<1>1. /\ d \in [DateSorts -> 0 .. rows]
      /\ d.null + d.plausible + d.old + d.year1 + d.future + d.year9999 = rows
  BY DEF DateCounts
<1>2. /\ d.null \in 0 .. rows /\ d.plausible \in 0 .. rows /\ d.old \in 0 .. rows
      /\ d.year1 \in 0 .. rows /\ d.future \in 0 .. rows /\ d.year9999 \in 0 .. rows
  BY <1>1 DEF DateSorts
<1>3. rows \in Nat /\ rows <= MaxRows
  BY QualityAssumption
<1>4. InvalidDates(d) = d.old + d.year1 + d.future + d.year9999
  BY DEF InvalidDates
<1>5. /\ d.future + d.year9999 <= InvalidDates(d)
      /\ d.year1 + d.year9999 <= InvalidDates(d)
      /\ InvalidDates(d) <= rows - d.null
      /\ InvalidDates(d) \in Nat /\ rows - d.null \in 0 .. rows
      /\ d.future + d.year9999 \in Nat /\ d.year1 + d.year9999 \in Nat
  BY <1>1, <1>2, <1>3, <1>4
<1>6. MaxRows \in Nat
  BY QualityAssumption
<1>7. {rows - d.null, d.future + d.year9999, d.year1 + d.year9999, InvalidDates(d)} \subseteq Sizes
  BY <1>3, <1>5, <1>6 DEF Sizes
<1> QED
  BY <1>5, <1>7

LEMMA ScanStep == ASSUME ReportInv, Scan PROVE ReportInv'
<1> DEFINE scanned(rows, column, dates) ==
         /\ m' = [NoMetrics EXCEPT
                     !.total = rows,
                     !.present = [f \in Contacts |-> Present(column[f].of)],
                     !.invalid = [f \in Contacts |-> Count(column[f].of, InvalidInScan(f))],
                     !.datePresent = rows - dates.null,
                     !.dateFuture = dates.future + dates.year9999,
                     !.dateImpossible = dates.year1 + dates.year9999,
                     !.dateInvalid = InvalidDates(dates)]
         /\ basis' = [of |-> [f \in Contacts |-> column[f].of],
                      distinct |-> [f \in Contacts |-> column[f].distinct],
                      fresh |-> [f \in Contacts |-> FALSE]]
<1> PICK rows \in 0 .. MaxRows :
       \E column \in [Contacts -> Columns(rows)], dates \in DateCounts(rows) :
          scanned(rows, column, dates)
  BY Zenon DEF Scan
<1>1. PICK column \in [Contacts -> Columns(rows)], dates \in DateCounts(rows) :
         scanned(rows, column, dates)
  OBVIOUS
<1>2. rows \in Sizes /\ \A f \in Contacts : column[f] \in Columns(rows)
  BY <1>1 DEF Sizes
<1> DEFINE present == [f \in Contacts |-> Present(column[f].of)]
           invalid == [f \in Contacts |-> Count(column[f].of, InvalidInScan(f))]
           zero == [f \in Contacts |-> 0]
<1>3. present \in [Contacts -> Sizes] /\ invalid \in [Contacts -> Sizes]
      /\ zero \in [Contacts -> Sizes]
  BY <1>2, ColumnsAre, ZeroSize
<1>4. /\ {rows - dates.null, dates.future + dates.year9999, dates.year1 + dates.year9999,
          InvalidDates(dates)} \subseteq Sizes
      /\ dates.future + dates.year9999 <= InvalidDates(dates)
      /\ dates.year1 + dates.year9999 <= InvalidDates(dates)
      /\ InvalidDates(dates) <= rows - dates.null
  BY <1>1, DatesAre
<1>5. m' = [total |-> rows, present |-> present, invalid |-> invalid,
            unique |-> zero, duplicate |-> zero,
            datePresent |-> rows - dates.null, dateFuture |-> dates.future + dates.year9999,
            dateImpossible |-> dates.year1 + dates.year9999,
            dateInvalid |-> InvalidDates(dates), hobbiesNull |-> 0, hobbiesSpecial |-> 0]
  BY <1>1 DEF NoMetrics
<1> HIDE DEF present, invalid, zero
<1>6. m' \in MetricsType
  BY <1>2, <1>3, <1>4, <1>5, ZeroSize DEF MetricsType
<1>7. basis' \in BasisType
  BY <1>1, <1>2, ColumnsAre DEF BasisType
<1>8. ScanInv'
  <2>1. m'.hobbiesNull <= m'.total
    <3>1. m'.hobbiesNull = 0 /\ m'.total = rows
      BY <1>5
    <3> QED
      BY <3>1
  <2>2. m'.dateFuture <= m'.dateInvalid /\ m'.dateImpossible <= m'.dateInvalid
        /\ m'.dateInvalid <= m'.datePresent
    BY <1>4, <1>5
  <2>3. ASSUME NEW f \in Contacts
        PROVE  /\ m'.present[f] <= m'.total
               /\ m'.invalid[f] = Count(basis'.of[f], InvalidInScan(f))
               /\ basis'.distinct[f] <= m'.present[f]
               /\ basis'.distinct[f] = 0 => m'.present[f] = 0
    <3>1. /\ m'.present[f] = Present(column[f].of)
          /\ m'.invalid[f] = Count(column[f].of, InvalidInScan(f))
          /\ m'.total = rows
      BY <1>5 DEF present, invalid
    <3>2. basis'.of[f] = column[f].of /\ basis'.distinct[f] = column[f].distinct
      BY <1>1
    <3> QED
      BY <1>2, <3>1, <3>2, ColumnsAre
  <2> QED
    BY <2>1, <2>2, <2>3 DEF ScanInv
<1>9. pc' \in {"sample", "estimate"} /\ todo' = Contacts /\ (pc' = "sample" => todo' = {})
  BY DEF Scan
<1>10. Reported'
  BY ReportedNothing DEF Scan, ReportInv, Reported
<1> QED
  BY <1>6, <1>7, <1>8, <1>9, <1>10 DEF ReportInv, TypeInv, EstimateInv

LEMMA EstimateStep == ASSUME ReportInv, NEW f \in Contacts, Estimate(f) PROVE ReportInv'
<1> DEFINE unique(s) == estimateDistinct(s, m.present[f])
           fresh(s) == s.form # "none" /\ s.rows = m.total /\ s.distinct = basis.distinct[f]
<1>1. PICK s \in Statistics :
         /\ m' = [m EXCEPT !.unique[f] = unique(s),
                           !.duplicate[f] = max0(m.present[f] - unique(s))]
         /\ basis' = [basis EXCEPT !.fresh[f] = fresh(s)]
  BY Zenon DEF Estimate
<1>2. /\ m \in MetricsType /\ basis \in BasisType
      /\ m.total \in Nat /\ m.present[f] \in Nat /\ m.present[f] \in Sizes
      /\ basis.distinct[f] \in Nat
      /\ basis.distinct[f] <= m.present[f] /\ (basis.distinct[f] = 0 => m.present[f] = 0)
  BY SizesAre DEF ReportInv, TypeInv, ScanInv, MetricsType, BasisType
<1>3. unique(s) \in 0 .. m.present[f]
  BY <1>2, EstimateBound
<1>4. fresh(s) /\ m.present[f] = m.total => unique(s) = basis.distinct[f]
  BY <1>2, EstimateExact
<1>5. fresh(s) \in BOOLEAN
  OBVIOUS
<1> DEFINE u == unique(s)
           d == max0(m.present[f] - u)
           b == fresh(s)
<1>6. u \in Sizes /\ d \in Sizes /\ u + d = m.present[f]
  <2> HIDE DEF unique
  <2>1. u \in Nat /\ u <= m.present[f]
    BY <1>2, <1>3
  <2> HIDE DEF u
  <2>2. d = m.present[f] - u
    BY <1>2, <2>1 DEF max0
  <2> QED
    BY <1>2, <2>1, <2>2, QualityAssumption DEF Sizes
<1>7. m' = [m EXCEPT !.unique[f] = u, !.duplicate[f] = d]
  BY <1>1
<1>8. basis' = [basis EXCEPT !.fresh[f] = b]
  BY <1>1
<1>9. b \in BOOLEAN /\ (b /\ m.present[f] = m.total => u = basis.distinct[f])
  BY <1>4, <1>5
<1> HIDE DEF u, d, b, unique, fresh
<1>10. m' \in MetricsType
  BY <1>2, <1>6, <1>7 DEF MetricsType
<1>11. basis' \in BasisType
  BY <1>2, <1>8, <1>9 DEF BasisType
<1>12. /\ m'.total = m.total /\ m'.present = m.present /\ m'.invalid = m.invalid
       /\ m'.hobbiesNull = m.hobbiesNull /\ m'.datePresent = m.datePresent
       /\ m'.dateFuture = m.dateFuture /\ m'.dateImpossible = m.dateImpossible
       /\ m'.dateInvalid = m.dateInvalid
       /\ m'.unique = [m.unique EXCEPT ![f] = u] /\ m'.duplicate = [m.duplicate EXCEPT ![f] = d]
  BY <1>2, <1>7 DEF MetricsType
<1>13. /\ basis'.of = basis.of /\ basis'.distinct = basis.distinct
       /\ basis'.fresh = [basis.fresh EXCEPT ![f] = b]
  BY <1>2, <1>8 DEF BasisType
<1>14. ScanInv'
  BY <1>12, <1>13 DEF ReportInv, ScanInv
<1>15. /\ pc = "estimate" /\ todo' = todo \ {f} /\ pc' \in {"sample", "estimate"}
       /\ pc' = "sample" => todo' = {}
  BY DEF Estimate
<1>16. ASSUME NEW g \in Contacts, g \notin todo'
       PROVE  Estimated(g)'
  <2>1. m.unique \in [Contacts -> Sizes] /\ m.duplicate \in [Contacts -> Sizes]
        /\ basis.fresh \in [Contacts -> BOOLEAN]
    BY <1>2 DEF MetricsType, BasisType
  <2>2. CASE g = f
    <3>1. m'.unique[g] = u /\ m'.duplicate[g] = d /\ (basis'.fresh[g] <=> b)
      BY <1>12, <1>13, <2>1, <2>2
    <3>2. u \in Nat /\ d \in Nat
      BY <1>6, SizesAre
    <3> QED
      BY <1>2, <1>6, <1>9, <1>12, <1>13, <2>2, <3>1, <3>2 DEF Estimated
  <2>3. CASE g # f
    <3>1. /\ m'.unique[g] = m.unique[g] /\ m'.duplicate[g] = m.duplicate[g]
          /\ basis'.fresh[g] = basis.fresh[g]
      BY <1>12, <1>13, <2>1, <2>3
    <3>2. Estimated(g)
      BY <1>15, <1>16, <2>3 DEF ReportInv, EstimateInv
    <3> QED
      BY <1>12, <1>13, <3>1, <3>2 DEF Estimated
  <2> QED
    BY <2>2, <2>3
<1>17. Reported'
  BY <1>12, <1>13, <1>15 DEF Estimate, ReportInv, Reported
<1> QED
  BY <1>10, <1>11, <1>14, <1>15, <1>16, <1>17 DEF ReportInv, TypeInv, EstimateInv

LEMMA ScaledBound ==
  ASSUME NEW rows \in Nat, NEW part \in 0 .. rows, NEW total \in Nat
  PROVE  Scaled(part, rows, total) \in 0 .. total
<1>1. CASE rows > 0
  <2>1. rows \in Nat \ {0} /\ part \in Nat /\ part <= rows
    BY <1>1
  <2>2. Rounded(part * total, rows) \in 0 .. total
    BY <2>1, RoundedBound
  <2> QED
    BY <1>1, <2>2 DEF Scaled
<1>2. CASE rows = 0
  BY <1>2 DEF Scaled
<1> QED
  BY <1>1, <1>2

LEMMA SampleStep == ASSUME ReportInv, Sample PROVE ReportInv'
<1>1. PICK rows \in 0 .. MaxRows :
         \E null \in 0 .. rows : \E special \in 0 .. rows - null :
            m' = [m EXCEPT !.hobbiesNull = Scaled(null, rows, m.total),
                           !.hobbiesSpecial = Scaled(special, rows, m.total)]
  BY DEF Sample
<1>2. PICK null \in 0 .. rows, special \in 0 .. rows :
         m' = [m EXCEPT !.hobbiesNull = Scaled(null, rows, m.total),
                        !.hobbiesSpecial = Scaled(special, rows, m.total)]
  <2>1. PICK null \in 0 .. rows : \E special \in 0 .. rows - null :
           m' = [m EXCEPT !.hobbiesNull = Scaled(null, rows, m.total),
                          !.hobbiesSpecial = Scaled(special, rows, m.total)]
    BY <1>1
  <2>2. PICK special \in 0 .. rows - null :
           m' = [m EXCEPT !.hobbiesNull = Scaled(null, rows, m.total),
                          !.hobbiesSpecial = Scaled(special, rows, m.total)]
    BY <2>1
  <2>3. rows \in Int /\ special \in 0 .. rows
    BY QualityAssumption
  <2> QED
    BY <2>2, <2>3
<1> DEFINE n == Scaled(null, rows, m.total)
           s == Scaled(special, rows, m.total)
<1>3. m \in MetricsType /\ m.total \in Nat /\ m.total <= MaxRows
  BY SizesAre DEF ReportInv, TypeInv, MetricsType, Sizes
<1>4. rows \in Nat
  BY QualityAssumption
<1>5. n \in 0 .. m.total /\ s \in 0 .. m.total
  BY <1>3, <1>4, ScaledBound
<1>6. m' = [m EXCEPT !.hobbiesNull = n, !.hobbiesSpecial = s]
  BY <1>2
<1> HIDE DEF n, s
<1>7. n \in Sizes /\ s \in Sizes /\ n <= m.total
  BY <1>3, <1>5, QualityAssumption DEF Sizes
<1>8. m' \in MetricsType
  BY <1>3, <1>6, <1>7 DEF MetricsType
<1>9. /\ m'.total = m.total /\ m'.present = m.present /\ m'.invalid = m.invalid
      /\ m'.hobbiesNull = n /\ m'.datePresent = m.datePresent
      /\ m'.dateFuture = m.dateFuture /\ m'.dateImpossible = m.dateImpossible
      /\ m'.dateInvalid = m.dateInvalid
      /\ m'.unique = m.unique /\ m'.duplicate = m.duplicate
  BY <1>3, <1>6 DEF MetricsType
<1>10. /\ pc = "sample" /\ pc' = "done" /\ todo' = todo
       /\ basis' = basis /\ report' = report
  BY DEF Sample
<1>11. ScanInv'
  BY <1>7, <1>9, <1>10 DEF ReportInv, ScanInv
<1>12. EstimateInv'
  BY <1>9, <1>10 DEF ReportInv, EstimateInv, Estimated
<1>13. TypeInv'
  BY <1>8, <1>10 DEF ReportInv, TypeInv
<1>14. Reported'
  BY <1>9, <1>10 DEF ReportInv, Reported
<1> QED
  BY <1>11, <1>12, <1>13, <1>14 DEF ReportInv

\* Counts have a smaller one, which is no count of more than the limit.
LEMMA LeastBound ==
  ASSUME NEW limit \in Nat, NEW rows \in Nat
  PROVE  Least(limit, rows) \in 0 .. limit
  BY DEF Least

LEMMA ComputeStep == ASSUME ReportInv, Compute PROVE ReportInv'
<1> DEFINE made(f, same, answered, other) ==
         IF f \in same THEN Least(Examples, Count(basis.of[f], InvalidInSample(f)))
         ELSE IF f \in answered THEN other[f]
         ELSE 0
<1>1. PICK answered \in SUBSET Contacts : \E same \in SUBSET answered :
         \E other \in [Contacts -> 0 .. Examples] :
            report' = [issues |-> {f \in Contacts : m.invalid[f] > 0},
                       examples |-> [f \in Contacts |-> made(f, same, answered, other)],
                       known |-> same]
  BY DEF Compute
<1>2. PICK same \in SUBSET answered : \E other \in [Contacts -> 0 .. Examples] :
         report' = [issues |-> {f \in Contacts : m.invalid[f] > 0},
                    examples |-> [f \in Contacts |-> made(f, same, answered, other)],
                    known |-> same]
  BY <1>1
<1>3. PICK other \in [Contacts -> 0 .. Examples] :
         report' = [issues |-> {f \in Contacts : m.invalid[f] > 0},
                    examples |-> [f \in Contacts |-> made(f, same, answered, other)],
                    known |-> same]
  BY <1>2
<1>4. pc = "done" /\ pc' = pc /\ todo' = todo /\ m' = m /\ basis' = basis
  BY DEF Compute
<1>5. \A f \in Contacts : made(f, same, answered, other) \in 0 .. Examples
  <2> SUFFICES ASSUME NEW f \in Contacts PROVE made(f, same, answered, other) \in 0 .. Examples
    OBVIOUS
  <2>1. CASE f \in same
    <3>1. m.invalid[f] \in Nat /\ Count(basis.of[f], InvalidInSample(f)) = m.invalid[f]
      BY SizesAre, ConditionsAgree DEF ReportInv, TypeInv, ScanInv, MetricsType
    <3> QED
      BY <2>1, <3>1, LeastBound, QualityAssumption
  <2>2. CASE f \notin same
    BY <2>2, QualityAssumption
  <2> QED
    BY <2>1, <2>2
<1>6. report' \in ReportsType
  <2> HIDE DEF made
  <2> QED
    BY <1>1, <1>2, <1>3, <1>5 DEF ReportsType
<1>7. ASSUME NEW f \in report'.known
      PROVE  /\ f \in report'.issues <=> m'.invalid[f] > 0
             /\ report'.examples[f] = Least(Examples, Count(basis'.of[f], InvalidInSample(f)))
  <2>1. f \in same /\ f \in Contacts
    BY <1>1, <1>2, <1>3
  <2> QED
    BY <1>3, <1>4, <2>1
<1> QED
  BY <1>4, <1>6, <1>7 DEF ReportInv, TypeInv, ScanInv, EstimateInv, Estimated, Reported

LEMMA ReportStep == ReportInv /\ [Next]_vars => ReportInv'
<1> SUFFICES ASSUME ReportInv, [Next]_vars PROVE ReportInv'
  OBVIOUS
<1>1. CASE UNCHANGED vars
  BY <1>1 DEF vars, ReportInv, TypeInv, ScanInv, EstimateInv, Estimated, Reported
<1> QED
  BY <1>1, ScanStep, EstimateStep, SampleStep, ComputeStep, AgainStep DEF Next

LEMMA ReportAlways == Spec => []ReportInv
  BY ReportInit, ReportStep, PTL DEF Spec

-----------------------------------------------------------------------------
(* What is reported. *)

\* No number in the metrics exceeds the size of the table, not even those that
\* are scaled from a sample of another table.
THEOREM TypeCorrect == Spec => []TypeOK
<1>1. ReportInv => TypeOK
  BY DEF ReportInv, TypeInv, Reported, ReportsType, TypeOK, MetricsType, Sizes
<1> QED
  BY <1>1, ReportAlways, PTL

\* Unique values and duplicates add up, whatever statistics there are.
THEOREM EstimatesAlwaysAddUp == Spec => []EstimatesAddUp
<1>1. ReportInv => EstimatesAddUp
  BY DEF ReportInv, EstimateInv, Estimated, EstimatesAddUp
<1> QED
  BY <1>1, ReportAlways, PTL

\* The number of duplicates in a complete column is exact right after ANALYZE.
THEOREM ExactOnFreshStatistics == Spec => []ExactWithoutMissing
<1>1. ReportInv => ExactWithoutMissing
  BY DEF ReportInv, EstimateInv, Estimated, ExactWithoutMissing
<1> QED
  BY <1>1, ReportAlways, PTL

\* Future and impossible dates are invalid ones, which are never more than the
\* dates there are.
THEOREM DatesAlwaysCountOnce == Spec => []DatesCountOnce
<1>1. ASSUME ReportInv PROVE DatesCountOnce
  <2>1. /\ m.dateFuture \in Nat /\ m.dateImpossible \in Nat
        /\ m.dateFuture <= m.dateInvalid /\ m.dateImpossible <= m.dateInvalid
        /\ m.dateInvalid <= m.datePresent
    BY <1>1, SizesAre DEF ReportInv, TypeInv, ScanInv, MetricsType
  <2>2. \A a, b \in Nat : Max({a, b}) = IF a >= b THEN a ELSE b
    BY DEF Max
  <2>3. Max({m.dateFuture, m.dateImpossible}) <= m.dateInvalid
    BY <2>1, <2>2
  <2> QED
    BY <2>1, <2>3 DEF DatesCountOnce
<1> QED
  BY <1>1, ReportAlways, PTL

\* Whatever a column holds, the samples find what the scan counted: a report of
\* a table that is as it was, with the samples answered, has examples of just the
\* issues it lists.
THEOREM ExamplesAlwaysFitIssues == Spec => []ExamplesFitIssues
<1>1. ASSUME ReportInv, NEW f \in report.known
      PROVE  /\ f \in report.issues <=> report.examples[f] > 0
             /\ report.examples[f] = Least(Examples, m.invalid[f])
  <2>1. f \in Contacts
    BY <1>1 DEF ReportInv, Reported, ReportsType
  <2>2. m.invalid[f] \in Nat /\ Count(basis.of[f], InvalidInSample(f)) = m.invalid[f]
    BY <1>1, <2>1, SizesAre, ConditionsAgree DEF ReportInv, TypeInv, ScanInv, MetricsType
  <2>3. /\ f \in report.issues <=> m.invalid[f] > 0
        /\ report.examples[f] = Least(Examples, m.invalid[f])
    BY <1>1, <2>2 DEF ReportInv, Reported
  <2> QED
    BY <2>2, <2>3, QualityAssumption DEF Least
<1>2. ReportInv => ExamplesFitIssues
  BY <1>1 DEF ExamplesFitIssues
<1> QED
  BY <1>2, ReportAlways, PTL

-----------------------------------------------------------------------------
(* Sums over finite sets. *)

\* Among sets of elements of S there is a smallest: what induction over finite
\* sets comes to for the provers, which take no induction hypothesis as operator.
LEMMA Smallest ==
  ASSUME NEW S, IsFiniteSet(S), NEW T, T \subseteq SUBSET S, T # {}
  PROVE  \E x \in T : \A y \in T : y \subseteq x => y = x
<1>1. T \subseteq FiniteSubsetsOf(S)
  BY FS_FiniteSubsetsOfFinite
<1>2. PICK x \in T : \A y \in T : <<y, x>> \notin StrictSubsetOrdering(S)
  BY <1>1, FS_StrictSubsetOrderingWellFounded, WFMin
<1>3. ASSUME NEW y \in T, y \subseteq x, y # x PROVE FALSE
  BY <1>2, <1>3 DEF StrictSubsetOrdering
<1> QED
  BY <1>3

\* The element that MapThenSumSet takes next.
Pick(s) == CHOOSE x \in s : TRUE

\* g adds up f over each subset of S, in the order of CHOOSE.
Adds(g, f, S) ==
  g = [s \in SUBSET S |-> IF s = {} THEN 0 ELSE f[Pick(s)] + g[s \ {Pick(s)}]]

LEMMA Picked == \A s : s # {} => Pick(s) \in s
  BY DEF Pick

LEMMA AddsAt ==
  ASSUME NEW S, NEW f, NEW g, Adds(g, f, S), NEW s \in SUBSET S
  PROVE  /\ s = {} => g[s] = 0
         /\ s # {} => g[s] = f[Pick(s)] + g[s \ {Pick(s)}]
  BY DEF Adds

\* Two of them agree wherever both are defined...
LEMMA SumsAgree ==
  ASSUME NEW S, NEW R, IsFiniteSet(S), NEW f, NEW g, NEW h, Adds(g, f, S), Adds(h, f, R),
         NEW t \in SUBSET (S \cap R)
  PROVE  g[t] = h[t]
<1> DEFINE T == {s \in SUBSET (S \cap R) : g[s] # h[s]}
<1> SUFFICES ASSUME T # {} PROVE FALSE
  OBVIOUS
<1>1. T \subseteq SUBSET S
  OBVIOUS
<1> HIDE DEF T
<1>2. PICK x \in T : \A y \in T : y \subseteq x => y = x
  BY <1>1, Smallest
<1>3. x \in SUBSET (S \cap R) /\ x \in SUBSET S /\ x \in SUBSET R /\ g[x] # h[x]
  BY DEF T
<1>4. x # {}
  <2> SUFFICES ASSUME x = {} PROVE FALSE
    OBVIOUS
  <2>1. g[{}] = 0 /\ h[{}] = 0
    BY AddsAt
  <2> QED
    BY <1>3, <2>1
<1> DEFINE rest == x \ {Pick(x)}
<1>5. rest \subseteq x /\ rest # x /\ rest \in SUBSET (S \cap R)
  BY <1>3, <1>4, Picked
<1>6. g[x] = f[Pick(x)] + g[rest]
  BY <1>3, <1>4 DEF Adds
<1>9. h[x] = f[Pick(x)] + h[rest]
  BY <1>3, <1>4 DEF Adds
<1> HIDE DEF rest
<1>7. rest \notin T
  BY <1>2, <1>5
<1>8. g[rest] = h[rest]
  BY <1>5, <1>7 DEF T
<1> QED
  BY <1>3, <1>6, <1>8, <1>9

\* ... so that each finite set has one, made of those of its subsets: the
\* recursive function that MapThenSumSet chooses is what its definition says.
LEMMA SumsExist ==
  ASSUME NEW S, IsFiniteSet(S), NEW f
  PROVE  \E g : Adds(g, f, S)
<1> DEFINE T == {s \in SUBSET S : ~\E g : Adds(g, f, s)}
<1> SUFFICES ASSUME T # {} PROVE FALSE
  OBVIOUS
<1>1. T \subseteq SUBSET S
  OBVIOUS
<1> HIDE DEF T
<1>2. PICK x \in T : \A y \in T : y \subseteq x => y = x
  BY <1>1, Smallest
<1> DEFINE H(s) == CHOOSE g : Adds(g, f, s)
           v(s) == s \ {Pick(s)}
<1>3. \A s : s \subseteq x /\ s # x => Adds(H(s), f, s)
  <2> SUFFICES ASSUME NEW s, s \subseteq x, s # x PROVE Adds(H(s), f, s)
    OBVIOUS
  <2>1. s \notin T
    BY <1>2
  <2>2. \E g : Adds(g, f, s)
    BY <1>1, <2>1 DEF T
  <2> QED
    BY <2>2
<1>4. \A s : s # {} => v(s) \subseteq s /\ v(s) # s
  BY Picked
<1>5. \A s : s \subseteq x => IsFiniteSet(s)
  BY <1>1, FS_Subset
<1> HIDE DEF H
<1> DEFINE g == [s \in SUBSET x |-> IF s = {} THEN 0 ELSE f[Pick(s)] + H(v(s))[v(s)]]
<1>6. ASSUME NEW s \in SUBSET x, s # {}
      PROVE  g[v(s)] = H(v(s))[v(s)]
  <2> DEFINE w == v(s)
  <2>1. w \subseteq x /\ w # x
    BY <1>4, <1>6
  <2>2. Adds(H(w), f, w) /\ w \in SUBSET w /\ IsFiniteSet(w)
    BY <1>3, <1>5, <2>1
  <2> HIDE DEF w
  <2>3. CASE w = {}
    <3>1. H(w)[w] = 0
      BY <2>2, <2>3, AddsAt
    <3>2. g[w] = 0
      BY <2>1, <2>3
    <3> QED
      BY <3>1, <3>2 DEF w
  <2>4. CASE w # {}
    <3>1. v(w) \subseteq w /\ v(w) # w
      BY <1>4, <2>4
    <3>2. v(w) \subseteq x /\ v(w) # x
      BY <2>1, <3>1
    <3>3. Adds(H(v(w)), f, v(w))
      BY <1>3, <3>2
    <3>4. H(w)[v(w)] = H(v(w))[v(w)]
      <4>1. v(w) \in SUBSET (w \cap v(w))
        BY <3>1
      <4> HIDE DEF v
      <4> QED
        BY <2>2, <3>3, <4>1, SumsAgree
    <3>5. H(w)[w] = f[Pick(w)] + H(w)[v(w)]
      BY <2>2, <2>4, AddsAt
    <3>6. g[w] = f[Pick(w)] + H(v(w))[v(w)]
      BY <2>1, <2>4
    <3>7. g[w] = H(w)[w]
      BY <3>4, <3>5, <3>6
    <3> QED
      BY <3>7 DEF w
  <2> QED
    BY <2>3, <2>4
<1>7. g = [s \in SUBSET x |-> IF s = {} THEN 0 ELSE f[Pick(s)] + g[v(s)]]
  <2>1. \A s \in SUBSET x : g[s] = IF s = {} THEN 0 ELSE f[Pick(s)] + g[v(s)]
    BY <1>6
  <2> QED
    BY <2>1
<1>8. Adds(g, f, x)
  <2> HIDE DEF g
  <2> QED
    BY <1>7 DEF Adds
<1> QED
  BY <1>2, <1>8 DEF T

\* A sum of n numbers up to b is at most n * b.
LEMMA SumBound ==
  ASSUME NEW S, IsFiniteSet(S), NEW b \in Nat, NEW f, \A x \in S : f[x] \in 0 .. b,
         NEW g, Adds(g, f, S)
  PROVE  g[S] \in 0 .. Cardinality(S) * b
<1> DEFINE T == {s \in SUBSET S : g[s] \notin 0 .. Cardinality(s) * b}
<1> SUFFICES ASSUME T # {} PROVE FALSE
  OBVIOUS
<1>1. PICK w \in T : \A y \in T : y \subseteq w => y = w
  <2>1. T \subseteq SUBSET S
    OBVIOUS
  <2> HIDE DEF T
  <2> QED
    BY <2>1, Smallest
<1>2. w \in SUBSET S /\ g[w] \notin 0 .. Cardinality(w) * b
  BY <1>1
<1>3. w # {}
  <2> SUFFICES ASSUME w = {} PROVE FALSE
    OBVIOUS
  <2>1. g[w] = 0 /\ Cardinality(w) = 0
    BY <1>2, AddsAt, FS_EmptySet
  <2> QED
    BY <1>2, <2>1
<1> DEFINE rest == w \ {Pick(w)}
<1>4. Pick(w) \in w /\ rest \in SUBSET S /\ rest \subseteq w /\ rest # w
  BY <1>2, <1>3, Picked
<1>5. f[Pick(w)] \in 0 .. b /\ g[w] = f[Pick(w)] + g[rest]
  BY <1>2, <1>3, <1>4 DEF Adds
<1>6. Cardinality(rest) = Cardinality(w) - 1 /\ Cardinality(rest) \in Nat /\ Cardinality(w) \in Nat
  BY <1>2, <1>4, FS_Subset, FS_RemoveElement, FS_CardinalityType
<1> HIDE DEF rest
<1>7. g[rest] \in 0 .. Cardinality(rest) * b
  BY <1>1, <1>4
<1> DEFINE n == Cardinality(rest)
<1>8. n \in Nat /\ Cardinality(w) = n + 1
  BY <1>6
<1> HIDE DEF n
<1>9. (n + 1) * b = n * b + b /\ n * b \in Nat
  BY <1>8
<1>10. g[w] \in 0 .. (n + 1) * b
  BY <1>5, <1>7, <1>9 DEF n
<1> QED
  BY <1>2, <1>8, <1>10

-----------------------------------------------------------------------------
(* The score. *)

\* What the score rests on besides: dates are those of the rows, and the parts
\* of a sample are together no more than it.
SampleInv ==
  /\ m.datePresent <= m.total
  /\ pc = "done" => m.hobbiesNull + m.hobbiesSpecial <= m.total + 1

\* Two parts of a sample, each rounded, exceed the whole by one at most.
LEMMA RoundedParts ==
  ASSUME NEW a \in Nat, NEW b \in Nat, NEW rows \in Nat \ {0}, a + b <= rows, NEW total \in Nat
  PROVE  Rounded(a * total, rows) + Rounded(b * total, rows) <= total + 1
<1> DEFINE x == 2 * (a * total) + rows
           y == 2 * (b * total) + rows
           p == x \div (2 * rows)
           q == y \div (2 * rows)
<1>1. a * total \in Nat /\ b * total \in Nat /\ rows * total \in Nat
      /\ a * total + b * total <= rows * total
  <2>1. (a + b) * total <= rows * total
    BY ProductOrder
  <2>2. (a + b) * total = a * total + b * total
    OBVIOUS
  <2> QED
    BY <2>1, <2>2
<1>2. x \in Nat /\ y \in Nat /\ 2 * rows \in Nat \ {0}
  BY <1>1
<1>3. p \in Nat /\ (2 * rows) * p <= x /\ q \in Nat /\ (2 * rows) * q <= y
  BY <1>2, QuotientBounds
<1>4. x + y <= 2 * (rows * total) + 2 * rows
  BY <1>1
<1> HIDE DEF x, y, p, q
<1>5. ~(p + q >= total + 2)
  <2> SUFFICES ASSUME p + q >= total + 2 PROVE FALSE
    OBVIOUS
  <2>1. (total + 2) * (2 * rows) <= (p + q) * (2 * rows)
    BY <1>2, <1>3, ProductOrder
  <2>2. (total + 2) * (2 * rows) = 2 * (rows * total) + 4 * rows
    OBVIOUS
  <2>3. (p + q) * (2 * rows) = (2 * rows) * p + (2 * rows) * q
    BY <1>3
  <2>4. (2 * rows) * p \in Int /\ (2 * rows) * q \in Int
    BY <1>3
  <2> QED
    BY <1>1, <1>2, <1>3, <1>4, <2>1, <2>2, <2>3, <2>4
<1> QED
  BY <1>3, <1>5 DEF Rounded, x, y, p, q

\* A part in tenths of a percent of its whole.
LEMMA RoundedPercent ==
  ASSUME NEW part \in Nat, NEW rows \in Nat \ {0}, part <= rows,
         NEW product, product = 1000 * part
  PROVE  Rounded(product, rows) \in 0 .. 1000
<1> DEFINE all == 1000
<1>1. all \in Nat /\ product = part * all
  OBVIOUS
<1> HIDE DEF all
<1>2. Rounded(part * all, rows) \in 0 .. all
  BY <1>1, RoundedBound
<1> QED
  BY <1>1, <1>2 DEF all

\* A share of at least 1 / k, rounded, is at least 1 / k without its fraction.
LEMMA RoundedAtLeast ==
  ASSUME NEW total \in Nat \ {0}, NEW k \in Nat \ {0}, NEW x \in Nat, total <= x
  PROVE  Rounded(1000 * x, total * k) >= 1000 \div k
<1> DEFINE y == 2 * (1000 * x) + total * k
           d == 2 * (total * k)
           p == y \div d
           q == 1000 \div k
<1>1. q \in Nat /\ k * q <= 1000
  BY QuotientBounds
<1> HIDE DEF q
<1>2. total * k \in Nat \ {0} /\ y \in Nat /\ d \in Nat \ {0}
  OBVIOUS
<1> HIDE DEF y, d
<1>3. p \in Nat /\ y < d * p + d
  BY <1>2, QuotientBounds
<1>4. d * q <= 2 * (1000 * x)
  <2>1. (k * q) * total <= 1000 * total
    BY <1>1, ProductOrder
  <2>2. total * 1000 <= x * 1000
    BY ProductOrder
  <2>3. d * q = 2 * ((k * q) * total) /\ (k * q) * total \in Int
    BY <1>1 DEF d
  <2> QED
    BY <2>1, <2>2, <2>3
<1>5. ~(q >= p + 1)
  <2> SUFFICES ASSUME q >= p + 1 PROVE FALSE
    OBVIOUS
  <2> HIDE DEF p
  <2>1. (p + 1) * d <= q * d
    BY <1>1, <1>2, <1>3, ProductOrder
  <2>2. (p + 1) * d = d * p + d /\ q * d = d * q /\ d * p \in Int /\ d * q \in Int
    BY <1>1, <1>2, <1>3
  <2>3. d * q <= y
    <3>1. 2 * (1000 * x) <= y
      BY <1>2 DEF y
    <3> QED
      BY <1>2, <1>4, <2>2, <3>1
  <2> QED
    BY <1>2, <1>3, <2>1, <2>2, <2>3
<1> QED
  BY <1>1, <1>3, <1>5 DEF Rounded, q, y, d

MissingContacts == MapThenSumSet(Missing, Contacts)

\* Counting the missing contacts, at most all of them are found missing.
LEMMA MissingSum ==
  ASSUME ReportInv
  PROVE  MissingContacts \in 0 .. Cardinality(Contacts) * m.total
<1> DEFINE f == [c \in Contacts |-> Missing(c)]
           body(g, s) == IF s = {} THEN 0
                         ELSE LET x == CHOOSE x \in s : TRUE IN Missing(x) + g[s \ {x}]
           h == CHOOSE g : g = [s \in SUBSET Contacts |-> body(g, s)]
<1>1. m.total \in Nat
  BY SizesAre DEF ReportInv, TypeInv, MetricsType
<1>2. \A c \in Contacts : f[c] \in 0 .. m.total
  <2> SUFFICES ASSUME NEW c \in Contacts PROVE f[c] \in 0 .. m.total
    OBVIOUS
  <2>1. m.present[c] \in Nat /\ m.present[c] <= m.total
    BY SizesAre DEF ReportInv, TypeInv, ScanInv, MetricsType
  <2>2. f[c] = m.total - m.present[c]
    BY DEF Missing
  <2> QED
    BY <1>1, <2>1, <2>2
<1>3. PICK g : Adds(g, f, Contacts)
  <2> HIDE DEF f
  <2> QED
    BY SumsExist, QualityAssumption
<1>4. g = [s \in SUBSET Contacts |-> body(g, s)]
  BY <1>3 DEF Adds, Pick
<1>5. h = [s \in SUBSET Contacts |-> body(h, s)]
  <2> HIDE DEF body
  <2> QED
    BY <1>4
<1>6. Adds(h, f, Contacts)
  <2> HIDE DEF h
  <2> QED
    BY <1>5 DEF Adds, Pick
<1>7. MissingContacts = h[Contacts]
  BY DEF MissingContacts, MapThenSumSet, MapThenFoldSet
<1> HIDE DEF f, h
<1> QED
  BY <1>1, <1>2, <1>6, <1>7, SumBound, QualityAssumption

LEMMA SampleInvStep == ReportInv /\ SampleInv /\ [Next]_vars => SampleInv'
<1> SUFFICES ASSUME ReportInv, SampleInv, [Next]_vars PROVE SampleInv'
  OBVIOUS
<1>1. CASE Scan
  <2>1. pc' # "done"
    BY <1>1 DEF Scan
  <2>2. m'.datePresent <= m'.total
    <3> PICK rows \in 0 .. MaxRows :
           \E dates \in DateCounts(rows) : m'.datePresent = rows - dates.null /\ m'.total = rows
      BY <1>1 DEF Scan, NoMetrics
    <3>1. PICK dates \in DateCounts(rows) : m'.datePresent = rows - dates.null /\ m'.total = rows
      OBVIOUS
    <3>2. dates.null \in 0 .. rows /\ rows \in Nat
      BY <3>1, QualityAssumption DEF DateCounts, DateSorts
    <3> QED
      BY <3>1, <3>2
  <2> QED
    BY <2>1, <2>2 DEF SampleInv
<1>2. ASSUME NEW f \in Contacts, Estimate(f) PROVE SampleInv'
  <2>1. pc' # "done"
    BY <1>2 DEF Estimate
  <2>2. m'.datePresent = m.datePresent /\ m'.total = m.total
    BY <1>2 DEF Estimate, ReportInv, TypeInv, MetricsType
  <2> QED
    BY <2>1, <2>2 DEF SampleInv
<1>3. CASE Sample
  <2>1. PICK rows \in 0 .. MaxRows : \E null \in 0 .. rows : \E special \in 0 .. rows - null :
           m' = [m EXCEPT !.hobbiesNull = Scaled(null, rows, m.total),
                          !.hobbiesSpecial = Scaled(special, rows, m.total)]
    BY <1>3 DEF Sample
  <2>2. PICK null \in 0 .. rows : \E special \in 0 .. rows - null :
           m' = [m EXCEPT !.hobbiesNull = Scaled(null, rows, m.total),
                          !.hobbiesSpecial = Scaled(special, rows, m.total)]
    BY <2>1
  <2>3. PICK special \in 0 .. rows - null :
           m' = [m EXCEPT !.hobbiesNull = Scaled(null, rows, m.total),
                          !.hobbiesSpecial = Scaled(special, rows, m.total)]
    BY <2>2
  <2>4. /\ m'.hobbiesNull = Scaled(null, rows, m.total)
        /\ m'.hobbiesSpecial = Scaled(special, rows, m.total)
        /\ m'.datePresent = m.datePresent /\ m'.total = m.total
    BY <2>3 DEF ReportInv, TypeInv, MetricsType
  <2>5. rows \in Nat /\ null \in Nat /\ special \in Nat /\ null + special <= rows
    BY QualityAssumption
  <2>7. m.total \in Nat
    BY SizesAre DEF ReportInv, TypeInv, MetricsType
  <2>6. Scaled(null, rows, m.total) + Scaled(special, rows, m.total) <= m.total + 1
    <3>1. CASE rows = 0
      BY <2>7, <3>1 DEF Scaled
    <3>2. CASE rows # 0
      <4>1. rows \in Nat \ {0} /\ rows > 0
        BY <2>5, <3>2
      <4>2. Rounded(null * m.total, rows) + Rounded(special * m.total, rows) <= m.total + 1
        BY <2>5, <2>7, <4>1, RoundedParts
      <4> QED
        BY <4>1, <4>2 DEF Scaled
    <3> QED
      BY <3>1, <3>2
  <2> QED
    BY <2>4, <2>6 DEF SampleInv
<1>4. CASE Again
  BY <1>4 DEF Again, NoMetrics, SampleInv
<1>5. CASE UNCHANGED vars
  BY <1>5 DEF vars, SampleInv
<1>6. CASE Compute
  BY <1>6 DEF Compute, SampleInv
<1> QED
  BY <1>1, <1>2, <1>3, <1>4, <1>5, <1>6 DEF Next

LEMMA ScoreBounds ==
  ASSUME ReportInv, SampleInv
  PROVE  QualityScore <= 1000 /\ QualityScore >= 1000 \div (Cardinality(Contacts) + 3)
<1> DEFINE n == Cardinality(Contacts)
           t == m.total
<1>1. n \in Nat
  BY QualityAssumption, FS_CardinalityType
<1>2. /\ t \in Nat /\ m.datePresent \in Nat /\ m.hobbiesNull \in Nat
      /\ m.hobbiesNull <= t /\ m.datePresent <= t
  BY SizesAre DEF ReportInv, TypeInv, ScanInv, MetricsType, SampleInv
<1>3. MissingContacts \in 0 .. n * t
  BY MissingSum
<1>4. MissingFields = MissingContacts + (t - m.datePresent) + m.hobbiesNull
  BY DEF MissingFields, MissingContacts
<1>5. Tracked = t * (n + 3)
  BY DEF Tracked
<1> HIDE DEF n, t
<1>6. n * t \in Nat /\ t * (n + 3) = n * t + 3 * t /\ t * (n + 3) \in Nat
  BY <1>1, <1>2
<1> DEFINE left == Tracked - MissingFields
<1>7. left \in Nat /\ left <= Tracked /\ t <= left
  <2>1. MissingContacts \in Int /\ 0 <= MissingContacts /\ MissingContacts <= n * t
    BY <1>3, <1>6
  <2> QED
    BY <1>2, <1>4, <1>5, <1>6, <2>1
<1>8. CASE Tracked = 0
  <2>1. QualityScore = 1000
    BY <1>8 DEF QualityScore
  <2>2. \A k \in Nat \ {0} : 1000 \div k <= 1000
    OBVIOUS
  <2>3. n + 3 \in Nat \ {0}
    BY <1>1
  <2> QED
    BY <2>1, <2>2, <2>3 DEF n
<1>9. CASE Tracked # 0
  <2>1. QualityScore = Rounded(1000 * left, Tracked)
    BY <1>9 DEF QualityScore
  <2> HIDE DEF left
  <2>2. Tracked \in Nat \ {0}
    BY <1>5, <1>6, <1>9
  <2>3. Rounded(1000 * left, Tracked) \in 0 .. 1000
    BY <1>7, <2>2, RoundedPercent
  <2>4. t \in Nat \ {0} /\ n + 3 \in Nat \ {0}
    BY <1>1, <1>2, <1>5, <1>9
  <2>5. Rounded(1000 * left, t * (n + 3)) >= 1000 \div (n + 3)
    BY <1>7, <2>4, RoundedAtLeast
  <2> QED
    BY <1>5, <2>1, <2>2, <2>3, <2>5 DEF n
<1> QED
  BY <1>8, <1>9

\* Whatever the tables and the sample hold, percentages stay below 100 and the
\* score between the share of a column that is never missing and 100.
THEOREM ScoreStaysInRange == Spec => []ScoreInRange
<1>1. Init => SampleInv
  BY DEF Init, NoMetrics, SampleInv
<1>2. ASSUME ReportInv, SampleInv PROVE ScoreInRange
  <2>1. m.total \in Nat /\ m.hobbiesNull \in Nat /\ m.hobbiesNull <= m.total
    BY <1>2, SizesAre DEF ReportInv, TypeInv, ScanInv, MetricsType
  <2>2. Percent(m.hobbiesNull, m.total) <= 1000
    <3>1. CASE m.total = 0
      BY <3>1 DEF Percent
    <3>2. CASE m.total # 0
      <4> DEFINE part == m.hobbiesNull
                 whole == m.total
      <4>1. part \in Nat /\ whole \in Nat \ {0} /\ part <= whole
        BY <2>1, <3>2
      <4>2. Percent(part, whole) = Rounded(1000 * part, whole)
        BY <3>2 DEF Percent
      <4> HIDE DEF part, whole
      <4>3. Rounded(1000 * part, whole) \in 0 .. 1000
        BY <4>1, RoundedPercent
      <4> QED
        BY <4>2, <4>3 DEF part, whole
    <3> QED
      BY <3>1, <3>2
  <2> QED
    BY <1>2, <2>1, <2>2, ScoreBounds DEF ScoreInRange, SampleInv
<1> QED
  BY <1>1, <1>2, ReportInit, ReportStep, SampleInvStep, PTL DEF Spec
=============================================================================
