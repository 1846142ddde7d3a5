--------------------------- MODULE ReportPageProofs ---------------------------
(***************************************************************************)
(* Proofs about ReportPage, for any number of changes, refreshes and       *)
(* reports in flight.                                                      *)
(***************************************************************************)
EXTENDS ReportPage, TLAPS

-----------------------------------------------------------------------------
(* The invariant. *)

\* Refreshes read later and later content, as the next one starts when the last
\* one has ended; the cache has the last of them, or nothing.
HistoryInv ==
  /\ \A m, n \in 1 .. Len(published) : m <= n => published[m] <= published[n]
  /\ \A n \in 1 .. Len(published) : published[n] <= version
  /\ reading # 0 => reading <= version /\ \A n \in 1 .. Len(published) : published[n] <= reading
  /\ cached \in {0, Len(published)}

\* What is true of a report as far as the server has come with it.
KnownAt(pub, ver, r) ==
  /\ r.since <= Len(pub)
  /\ r.quality \in {"emails", "phones", "done"} => r.counts \in 1 .. Len(pub) /\ r.since <= r.counts
  /\ r.quality \in {"phones", "done"} /\ r.emails # 0 => r.emails \in pub[r.counts] .. ver
  /\ r.quality = "done" /\ r.phones # 0 => r.phones \in pub[r.counts] .. ver /\ r.emails <= r.phones
  /\ r.metrics = "done" => r.score \in 1 .. Len(pub) /\ r.since <= r.score

Complete(r) == r.quality = "done" /\ r.metrics = "done"

PageInv ==
  /\ \A k \in DOMAIN cards : KnownAt(published, version, cards[k]) /\ Complete(cards[k])
  /\ overview # NoReport => KnownAt(published, version, overview) /\ Complete(overview)

\* Who waits asks for a report when the last one is on the page.
PatientInv ==
  ~rushed =>
    /\ Len(reports) <= 1
    /\ overview # NoReport =>
         \A i \in DOMAIN reports :
            reports[i] = NoReport
              \/ (overview.counts <= reports[i].since /\ overview.score <= reports[i].since)

Inv ==
  /\ TypeOK
  /\ HistoryInv
  /\ \A i \in DOMAIN reports : KnownAt(published, version, reports[i])
  /\ PageInv
  /\ PatientInv

-----------------------------------------------------------------------------
(* Steps. *)

\* What is left of a sequence without its i-th element.
LEMMA Without ==
  ASSUME NEW S, NEW s \in Seq(S), NEW i \in DOMAIN s
  PROVE  /\ RemoveAt(s, i) \in Seq(S)
         /\ Len(RemoveAt(s, i)) = Len(s) - 1
         /\ \A k \in DOMAIN RemoveAt(s, i) : \E j \in DOMAIN s : RemoveAt(s, i)[k] = s[j]
<1> DEFINE a == SubSeq(s, 1, i - 1)
           b == SubSeq(s, i + 1, Len(s))
<1>1. i \in 1 .. Len(s) /\ Len(s) \in Nat
  OBVIOUS
<1>2. a \in Seq(S) /\ Len(a) = i - 1 /\ \A k \in 1 .. i - 1 : a[k] = s[k]
  BY <1>1
<1>3. b \in Seq(S) /\ Len(b) = Len(s) - i /\ \A k \in 1 .. Len(s) - i : b[k] = s[i + k]
  BY <1>1
<1> HIDE DEF a, b
<1>4. a \o b \in Seq(S) /\ Len(a \o b) = Len(s) - 1
  BY <1>1, <1>2, <1>3
<1>5. ASSUME NEW k \in DOMAIN (a \o b)
      PROVE  \E j \in DOMAIN s : (a \o b)[k] = s[j]
  <2>1. k \in 1 .. Len(s) - 1
    BY <1>4
  <2>2. CASE k < i
    BY <1>1, <1>2, <1>3, <2>1, <2>2
  <2>3. CASE k >= i
    <3>1. (a \o b)[k] = b[k - Len(a)]
      BY <1>1, <1>2, <1>3, <2>1, <2>3
    <3>2. Len(a) = i - 1 /\ k - Len(a) \in 1 .. Len(s) - i /\ i + (k - Len(a)) = k + 1
      BY <1>1, <1>2, <2>1, <2>3
    <3>3. b[k - Len(a)] = s[k + 1]
      BY <1>3, <3>2
    <3>4. k + 1 \in DOMAIN s
      BY <1>1, <2>1
    <3> QED
      BY <3>1, <3>3, <3>4
  <2> QED
    BY <1>1, <2>1, <2>2, <2>3
<1>6. RemoveAt(s, i) = a \o b
  BY DEF RemoveAt, a, b
<1> QED
  BY <1>4, <1>5, <1>6

LEMMA Versions ==
  ASSUME TypeOK
  PROVE  /\ version \in 1 .. MaxVersion /\ MaxVersion \in Nat /\ Len(published) \in Nat
         /\ \A n \in 1 .. Len(published) : published[n] \in Nat
  BY ReportPageAssumption DEF TypeOK

LEMMA NoReportKnown == NoReport \in Reports /\ (TypeOK => KnownAt(published, version, NoReport))
  BY ReportPageAssumption DEF NoReport, Reports, Refreshes, KnownAt, TypeOK

\* What is known of a report stays true as the tables change and refreshes are
\* published.
LEMMA StillKnown ==
  ASSUME NEW r \in Reports, TypeOK, KnownAt(published, version, r),
         version <= version', version' \in Int,
         published' \in Seq(1 .. MaxVersion), Len(published) <= Len(published'),
         \A n \in 1 .. Len(published) : published'[n] = published[n]
  PROVE  KnownAt(published', version', r)
<1>1. /\ r.since \in Nat /\ r.counts \in Nat /\ r.score \in Nat
      /\ r.emails \in Nat /\ r.phones \in Nat
  BY ReportPageAssumption DEF Reports, Refreshes
<1>2. version \in Int /\ published \in Seq(1 .. MaxVersion) /\ Len(published) \in Nat
  BY DEF TypeOK
<1>3. \A n \in 1 .. Len(published) : published[n] \in Nat
  BY <1>2, ReportPageAssumption
<1> QED
  BY <1>1, <1>2, <1>3 DEF KnownAt

\* The refresher's steps and changes of the tables.
LEMMA ServerStep ==
  ASSUME Inv, TypeOK', HistoryInv',
         version <= version', Len(published) <= Len(published'),
         \A n \in 1 .. Len(published) : published'[n] = published[n],
         UNCHANGED <<reports, page>>
  PROVE  Inv'
<1>1. \A r \in Reports : KnownAt(published, version, r) => KnownAt(published', version', r)
  <2> SUFFICES ASSUME NEW r \in Reports, KnownAt(published, version, r) PROVE KnownAt(published', version', r)
    OBVIOUS
  <2>1. version' \in Int /\ published' \in Seq(1 .. MaxVersion)
    BY DEF TypeOK
  <2> QED
    BY <2>1, StillKnown DEF Inv
<1>2. /\ \A i \in DOMAIN reports : reports[i] \in Reports
      /\ \A k \in DOMAIN cards : cards[k] \in Reports
      /\ overview \in Reports
  BY DEF Inv, TypeOK
<1>3. \A i \in DOMAIN reports' : KnownAt(published', version', reports'[i])
  BY <1>1, <1>2 DEF Inv
<1>4. PageInv'
  BY <1>1, <1>2 DEF Inv, PageInv, page, Complete
<1>5. PatientInv'
  BY DEF Inv, PatientInv, page
<1> QED
  BY <1>3, <1>4, <1>5 DEF Inv

\* A handler comes one step further with a report.
LEMMA ProgressStep ==
  ASSUME Inv, NEW i \in DOMAIN reports, NEW r \in Reports, KnownAt(published, version, r),
         r = NoReport \/ (r.since = reports[i].since /\ reports[i] # NoReport),
         Progress(i, r), UNCHANGED <<server, page>>
  PROVE  Inv'
<1>1. /\ reports' \in Seq(Reports) /\ Len(reports') = Len(reports) /\ DOMAIN reports' = DOMAIN reports
      /\ \A k \in DOMAIN reports : reports'[k] = IF k = i THEN r ELSE reports[k]
  BY DEF Inv, TypeOK, Progress
<1>2. TypeOK'
  BY <1>1 DEF Inv, TypeOK, server, page
<1>3. HistoryInv' /\ PageInv' 
  BY DEF Inv, HistoryInv, PageInv, KnownAt, Complete, server, page
<1>4. \A k \in DOMAIN reports' : KnownAt(published', version', reports'[k])
  BY <1>1, <1>3 DEF Inv, server
<1>5. PatientInv'
  BY <1>1 DEF Inv, PatientInv, page
<1> QED
  BY <1>2, <1>3, <1>4, <1>5 DEF Inv

LEMMA InitInv == Init => Inv
<1> SUFFICES ASSUME Init PROVE Inv
  OBVIOUS
<1>1. NoReport \in Reports
  BY NoReportKnown
<1>2. TypeOK
  <2>1. /\ <<>> \in Seq(1 .. MaxVersion) /\ <<>> \in Seq(Reports) /\ Len(<<>>) = 0
        /\ 1 \in 1 .. MaxVersion /\ 0 \in 0 .. MaxVersion /\ 0 \in 0 .. 0
        /\ 0 <= MaxRefreshes /\ 0 <= MaxReports
    BY ReportPageAssumption
  <2> QED
    BY <1>1, <2>1 DEF Init, TypeOK
<1>3. HistoryInv /\ PageInv /\ PatientInv /\ \A i \in DOMAIN reports : KnownAt(published, version, reports[i])
  BY DEF Init, HistoryInv, PageInv, PatientInv
<1> QED
  BY <1>2, <1>3 DEF Inv

LEMMA ChangeInv == Inv /\ Change => Inv'
<1> SUFFICES ASSUME Inv, Change PROVE Inv'
  OBVIOUS
<1>1. TypeOK'
  BY ReportPageAssumption DEF Inv, TypeOK, Change, page
<1>2. HistoryInv'
  <2>1. /\ version' = version + 1 /\ version \in Nat /\ reading \in Nat
        /\ published' = published /\ reading' = reading /\ cached' = cached
        /\ \A n \in 1 .. Len(published) : published[n] \in Nat
    BY Versions DEF Inv, TypeOK, Change
  <2> QED
    BY <2>1 DEF Inv, HistoryInv
<1>3. version <= version' /\ published' = published
  BY DEF Inv, TypeOK, Change
<1> QED
  BY <1>1, <1>2, <1>3, ServerStep DEF Change, Inv, TypeOK

LEMMA ScanInv == Inv /\ (Scan \/ RefreshFails) => Inv'
<1> SUFFICES ASSUME Inv, Scan \/ RefreshFails PROVE Inv'
  OBVIOUS
<1>1. TypeOK'
  BY ReportPageAssumption DEF Inv, TypeOK, Scan, RefreshFails, page
<1>2. HistoryInv'
  BY DEF Inv, TypeOK, HistoryInv, Scan, RefreshFails
<1>3. version <= version' /\ published' = published /\ UNCHANGED <<reports, page>>
  BY DEF Inv, TypeOK, Scan, RefreshFails
<1> QED
  BY <1>1, <1>2, <1>3, ServerStep DEF Inv, TypeOK

LEMMA RefreshOkInv == Inv /\ RefreshOk => Inv'
<1> SUFFICES ASSUME Inv, RefreshOk PROVE Inv'
  OBVIOUS
<1>1. /\ published \in Seq(1 .. MaxVersion) /\ Len(published) \in Nat
      /\ reading \in 1 .. MaxVersion /\ version \in Int
      /\ \A n \in 1 .. Len(published) : published[n] \in Int
  BY ReportPageAssumption DEF Inv, TypeOK, RefreshOk
<1>2. /\ published' \in Seq(1 .. MaxVersion) /\ Len(published') = Len(published) + 1
      /\ \A n \in 1 .. Len(published) : published'[n] = published[n]
      /\ published'[Len(published) + 1] = reading
  BY <1>1 DEF RefreshOk
<1>3. reading' = 0 /\ version' = version /\ cached' = Len(published')
  BY DEF RefreshOk
<1>4. TypeOK'
  BY <1>1, <1>2, <1>3, ReportPageAssumption DEF Inv, TypeOK, RefreshOk, page
<1>5. HistoryInv'
  <2>1. \A m, n \in 1 .. Len(published') : m <= n => published'[m] <= published'[n]
    BY <1>1, <1>2 DEF Inv, HistoryInv, RefreshOk
  <2>2. \A n \in 1 .. Len(published') : published'[n] <= version'
    BY <1>1, <1>2, <1>3 DEF Inv, HistoryInv, RefreshOk
  <2> QED
    BY <1>3, <2>1, <2>2 DEF HistoryInv
<1>6. UNCHANGED <<reports, page>> /\ version <= version' /\ Len(published) <= Len(published')
  BY <1>1, <1>2 DEF RefreshOk
<1> QED
  BY <1>2, <1>4, <1>5, <1>6, ServerStep

LEMMA CrashInv == Inv /\ Crash => Inv'
<1> SUFFICES ASSUME Inv, Crash PROVE Inv'
  OBVIOUS
<1>1. NoReport \in Reports /\ KnownAt(published, version, NoReport)
  BY NoReportKnown DEF Inv
<1>2. /\ reports' \in Seq(Reports) /\ Len(reports') = Len(reports) /\ DOMAIN reports' = DOMAIN reports
      /\ \A k \in DOMAIN reports : reports'[k] \in {reports[k], NoReport}
  <2>1. reports \in Seq(Reports) /\ Len(reports) \in Nat /\ DOMAIN reports = 1 .. Len(reports)
    BY DEF Inv, TypeOK
  <2>2. reports' = [k \in 1 .. Len(reports) |-> CutOff(reports[k])]
    BY <2>1 DEF Crash
  <2>3. \A k \in 1 .. Len(reports) : CutOff(reports[k]) \in {reports[k], NoReport}
    BY DEF CutOff
  <2>4. \A k \in 1 .. Len(reports) : CutOff(reports[k]) \in Reports
    BY <1>1, <2>1, <2>3
  <2>5. reports' \in Seq(Reports) /\ Len(reports') = Len(reports) /\ DOMAIN reports' = 1 .. Len(reports)
    BY <2>1, <2>2, <2>4
  <2> QED
    BY <2>1, <2>2, <2>3, <2>5
<1>3. TypeOK'
  BY <1>2, ReportPageAssumption DEF Inv, TypeOK, Crash, page
<1>4. HistoryInv' /\ PageInv' 
  BY DEF Inv, TypeOK, HistoryInv, PageInv, KnownAt, Complete, Crash, page
<1>5. \A k \in DOMAIN reports' : KnownAt(published', version', reports'[k])
  BY <1>1, <1>2, <1>4 DEF Inv, Crash
<1>6. PatientInv'
  BY <1>2 DEF Inv, PatientInv, Crash, page
<1> QED
  BY <1>3, <1>4, <1>5, <1>6 DEF Inv

LEMMA LoadQualityInv == ASSUME Inv, NEW i \in DOMAIN reports, LoadQuality(i) PROVE Inv'
<1> DEFINE q == reports[i]
           r == [q EXCEPT !.quality = "emails", !.counts = cached]
<1>1. q \in Reports /\ KnownAt(published, version, q) /\ NoReport \in Reports /\ KnownAt(published, version, NoReport) /\ q # NoReport
  BY NoReportKnown DEF Inv, TypeOK, LoadQuality, NoReport
<1>2. CASE cached = 0
  BY <1>1, <1>2, ProgressStep DEF LoadQuality
<1>3. CASE cached # 0
  <2>1. cached = Len(published) /\ Len(published) \in Nat /\ cached \in Refreshes
    BY <1>3, ReportPageAssumption DEF Inv, TypeOK, HistoryInv, Refreshes
  <2>2. r \in Reports /\ r.since = q.since
    BY <1>1, <2>1 DEF Reports
  <2>3. q.since \in Nat /\ q.since <= Len(published)
    BY <1>1, ReportPageAssumption DEF Reports, Refreshes, KnownAt
  <2>4. KnownAt(published, version, r)
    BY <1>1, <1>3, <2>1, <2>3 DEF KnownAt, Reports
  <2>5. Progress(i, r) /\ UNCHANGED <<server, page>>
    BY <1>3 DEF LoadQuality
  <2> QED
    BY <1>1, <2>2, <2>4, <2>5, ProgressStep
<1> QED
  BY <1>2, <1>3

LEMMA SampleEmailsInv == ASSUME Inv, NEW i \in DOMAIN reports, SampleEmails(i) PROVE Inv'
<1> DEFINE q == reports[i]
<1>1. q \in Reports /\ KnownAt(published, version, q) /\ q.quality = "emails" /\ q # NoReport
  BY DEF Inv, TypeOK, SampleEmails, NoReport
<1>2. PICK v \in {0, version} : Progress(i, [q EXCEPT !.quality = "phones", !.emails = v])
  BY DEF SampleEmails
<1> DEFINE r == [q EXCEPT !.quality = "phones", !.emails = v]
<1>3. version \in 1 .. MaxVersion /\ v \in 0 .. MaxVersion
  BY <1>2, ReportPageAssumption DEF Inv, TypeOK
<1>4. r \in Reports /\ r.since = q.since
  BY <1>1, <1>3 DEF Reports
<1>5. q.counts \in 1 .. Len(published) /\ published[q.counts] \in Nat /\ published[q.counts] <= version
  BY <1>1, Versions DEF Inv, HistoryInv, KnownAt
<1>6. KnownAt(published, version, r)
  BY <1>1, <1>2, <1>3, <1>5 DEF KnownAt, Reports
<1>7. UNCHANGED <<server, page>>
  BY DEF SampleEmails
<1> QED
  BY <1>1, <1>2, <1>4, <1>6, <1>7, ProgressStep

LEMMA SamplePhonesInv == ASSUME Inv, NEW i \in DOMAIN reports, SamplePhones(i) PROVE Inv'
<1> DEFINE q == reports[i]
<1>1. q \in Reports /\ KnownAt(published, version, q) /\ q.quality = "phones" /\ q # NoReport
  BY DEF Inv, TypeOK, SamplePhones, NoReport
<1>2. PICK v \in {0, version} : Progress(i, [q EXCEPT !.quality = "done", !.phones = v])
  BY DEF SamplePhones
<1> DEFINE r == [q EXCEPT !.quality = "done", !.phones = v]
<1>3. version \in 1 .. MaxVersion /\ v \in 0 .. MaxVersion
  BY <1>2, ReportPageAssumption DEF Inv, TypeOK
<1>4. r \in Reports /\ r.since = q.since
  BY <1>1, <1>3 DEF Reports
<1>5. q.counts \in 1 .. Len(published) /\ published[q.counts] \in Nat /\ published[q.counts] <= version
  BY <1>1, Versions DEF Inv, HistoryInv, KnownAt
<1>6. q.emails \in Nat /\ q.emails <= version
  BY <1>1, <1>3, <1>5 DEF KnownAt, Reports
<1>7. KnownAt(published, version, r)
  BY <1>1, <1>2, <1>3, <1>5, <1>6 DEF KnownAt, Reports
<1>8. UNCHANGED <<server, page>>
  BY DEF SamplePhones
<1> QED
  BY <1>1, <1>2, <1>4, <1>7, <1>8, ProgressStep

LEMMA LoadMetricsInv == ASSUME Inv, NEW i \in DOMAIN reports, LoadMetrics(i) PROVE Inv'
<1> DEFINE q == reports[i]
           r == [q EXCEPT !.metrics = "done", !.score = cached]
<1>1. q \in Reports /\ KnownAt(published, version, q) /\ NoReport \in Reports /\ KnownAt(published, version, NoReport) /\ q # NoReport
  BY NoReportKnown DEF Inv, TypeOK, LoadMetrics, NoReport
<1>2. CASE cached = 0
  BY <1>1, <1>2, ProgressStep DEF LoadMetrics
<1>3. CASE cached # 0
  <2>1. cached = Len(published) /\ Len(published) \in Nat /\ cached \in Refreshes
    BY <1>3, ReportPageAssumption DEF Inv, TypeOK, HistoryInv, Refreshes
  <2>2. r \in Reports /\ r.since = q.since
    BY <1>1, <2>1 DEF Reports
  <2>3. q.since \in Nat /\ q.since <= Len(published)
    BY <1>1, ReportPageAssumption DEF Reports, Refreshes, KnownAt
  <2>4. KnownAt(published, version, r)
    BY <1>1, <1>3, <2>1, <2>3 DEF KnownAt, Reports
  <2>5. Progress(i, r) /\ UNCHANGED <<server, page>>
    BY <1>3 DEF LoadMetrics
  <2> QED
    BY <1>1, <2>2, <2>4, <2>5, ProgressStep
<1> QED
  BY <1>2, <1>3

LEMMA ClickInv == Inv /\ Click => Inv'
<1> SUFFICES ASSUME Inv, Click PROVE Inv'
  OBVIOUS
<1>1. /\ NewReport \in Reports /\ NewReport.since = Len(published)
      /\ KnownAt(published, version, NewReport)
  <2>1. Len(published) \in 0 .. MaxRefreshes /\ 0 \in 0 .. MaxRefreshes /\ 0 \in 0 .. MaxVersion
    BY Versions, ReportPageAssumption DEF Inv, TypeOK
  <2> QED
    BY <2>1 DEF NewReport, Reports, Refreshes, KnownAt
<1>2. /\ reports' \in Seq(Reports) /\ Len(reports') = Len(reports) + 1
      /\ \A k \in DOMAIN reports' : reports'[k] = IF k = Len(reports) + 1 THEN NewReport ELSE reports[k]
      /\ \A k \in DOMAIN reports' : k = Len(reports) + 1 \/ k \in DOMAIN reports
  BY <1>1 DEF Inv, TypeOK, Click
<1>3. cards' = <<>> /\ overview' = overview /\ UNCHANGED server
  BY DEF Click
<1>4. rushed' = (rushed \/ reports # <<>>) /\ Len(reports) < MaxReports
  BY DEF Click
<1>5. TypeOK'
  <2>1. rushed' \in BOOLEAN /\ cards' \in Seq(Reports) /\ Len(reports') <= MaxReports
    BY <1>2, <1>3, <1>4, ReportPageAssumption DEF Inv, TypeOK
  <2> QED
    BY <1>2, <1>3, <2>1 DEF Inv, TypeOK, server
<1>6. HistoryInv'
  BY <1>3 DEF Inv, HistoryInv, server
<1>7. \A k \in DOMAIN reports' : KnownAt(published', version', reports'[k])
  BY <1>1, <1>2, <1>3 DEF Inv, server
<1>8. PageInv'
  BY <1>3 DEF Inv, PageInv, server
<1>9. PatientInv'
  <2> SUFFICES ASSUME ~rushed'
               PROVE  /\ Len(reports') <= 1
                      /\ overview # NoReport =>
                           /\ overview.counts <= Len(published) /\ overview.score <= Len(published)
                           /\ \A k \in DOMAIN reports' : reports'[k] = NewReport
    BY <1>1, <1>3 DEF PatientInv, server
  <2>1. reports = <<>> /\ Len(reports) = 0
    BY <1>4
  <2>2. overview # NoReport => overview.counts <= Len(published) /\ overview.score <= Len(published)
    BY Versions DEF Inv, TypeOK, PageInv, KnownAt, Complete
  <2> QED
    BY <1>2, <2>1, <2>2
<1> QED
  BY <1>5, <1>6, <1>7, <1>8, <1>9 DEF Inv

\* A report that leaves those in flight, shown or not.
LEMMA LeavesInv ==
  ASSUME Inv, NEW i \in DOMAIN reports, reports' = RemoveAt(reports, i), UNCHANGED <<server, rushed>>
  PROVE  /\ reports' \in Seq(Reports) /\ Len(reports') <= MaxReports
         /\ \A k \in DOMAIN reports' : KnownAt(published', version', reports'[k])
         /\ ~rushed => reports' = <<>>
<1>1. /\ reports' \in Seq(Reports) /\ Len(reports') = Len(reports) - 1
      /\ \A k \in DOMAIN reports' : \E j \in DOMAIN reports : reports'[k] = reports[j]
  BY Without DEF Inv, TypeOK
<1>2. Len(reports) \in Nat /\ Len(reports) <= MaxReports /\ MaxReports \in Nat
  BY ReportPageAssumption DEF Inv, TypeOK
<1>3. \A k \in DOMAIN reports' : KnownAt(published', version', reports'[k])
  BY <1>1 DEF Inv, server
<1>4. ~rushed => reports' = <<>>
  BY <1>1, <1>2 DEF Inv, PatientInv
<1> QED
  BY <1>1, <1>2, <1>3, <1>4

LEMMA ShowInv == ASSUME Inv, NEW i \in DOMAIN reports, Show(i) PROVE Inv'
<1> DEFINE q == reports[i]
<1>1. q \in Reports /\ KnownAt(published, version, q) /\ Complete(q)
  BY DEF Inv, TypeOK, Show, Complete
<1>2. reports' = RemoveAt(reports, i) /\ UNCHANGED <<server, rushed>>
  BY DEF Show
<1>3. /\ reports' \in Seq(Reports) /\ Len(reports') <= MaxReports
      /\ \A k \in DOMAIN reports' : KnownAt(published', version', reports'[k])
      /\ ~rushed => reports' = <<>>
  BY <1>2, LeavesInv
<1>4. overview' = q /\ cards' = Append(cards, q) /\ cards \in Seq(Reports)
  BY DEF Show, Inv, TypeOK
<1>5. /\ cards' \in Seq(Reports)
      /\ \A k \in DOMAIN cards' : cards'[k] = q \/ \E j \in DOMAIN cards : cards'[k] = cards[j]
  <2>1. /\ Append(cards, q) \in Seq(Reports)
        /\ \A k \in 1 .. Len(cards) + 1 : Append(cards, q)[k] = IF k = Len(cards) + 1 THEN q ELSE cards[k]
        /\ DOMAIN Append(cards, q) = 1 .. Len(cards) + 1
        /\ DOMAIN cards = 1 .. Len(cards) /\ Len(cards) \in Nat
    BY <1>1, <1>4
  <2> HIDE DEF q
  <2>2. \A k \in 1 .. Len(cards) + 1 : k = Len(cards) + 1 \/ k \in 1 .. Len(cards)
    BY <2>1
  <2> QED
    BY <1>4, <2>1, <2>2
<1>6. TypeOK'
  BY <1>1, <1>2, <1>3, <1>4, <1>5 DEF Inv, TypeOK, server
<1>7. HistoryInv'
  BY <1>2 DEF Inv, HistoryInv, server
<1>8. PageInv'
  BY <1>1, <1>2, <1>4, <1>5 DEF Inv, PageInv, server
<1>9. PatientInv'
  BY <1>2, <1>3 DEF PatientInv
<1> QED
  BY <1>3, <1>6, <1>7, <1>8, <1>9 DEF Inv

LEMMA ShowErrorInv == ASSUME Inv, NEW i \in DOMAIN reports, ShowError(i) PROVE Inv'
<1>1. reports' = RemoveAt(reports, i) /\ UNCHANGED <<server, page, rushed>>
  BY DEF ShowError, page
<1>2. /\ reports' \in Seq(Reports) /\ Len(reports') <= MaxReports
      /\ \A k \in DOMAIN reports' : KnownAt(published', version', reports'[k])
      /\ ~rushed => reports' = <<>>
  BY <1>1, LeavesInv
<1>3. TypeOK'
  BY <1>1, <1>2 DEF Inv, TypeOK, server, page
<1>4. HistoryInv' /\ PageInv'
  BY <1>1 DEF Inv, HistoryInv, PageInv, server, page
<1>5. PatientInv'
  BY <1>1, <1>2 DEF PatientInv
<1> QED
  BY <1>2, <1>3, <1>4, <1>5 DEF Inv

LEMMA NextInv == Inv /\ [Next]_vars => Inv'
<1> SUFFICES ASSUME Inv, [Next]_vars PROVE Inv'
  OBVIOUS
<1>1. CASE Change
  BY <1>1, ChangeInv
<1>2. CASE Scan \/ RefreshFails
  BY <1>2, ScanInv
<1>3. CASE RefreshOk
  BY <1>3, RefreshOkInv
<1>4. CASE Crash
  BY <1>4, CrashInv
<1>5. CASE Click
  BY <1>5, ClickInv
<1>6. ASSUME NEW i \in DOMAIN reports, Handle(i)
      PROVE  Inv'
  BY <1>6, LoadQualityInv, SampleEmailsInv, SamplePhonesInv, LoadMetricsInv, ShowInv, ShowErrorInv
     DEF Handle
<1>7. CASE UNCHANGED vars
  BY <1>7 DEF vars, Inv, TypeOK, HistoryInv, PageInv, PatientInv
<1> QED
  BY <1>1, <1>2, <1>3, <1>4, <1>5, <1>6, <1>7 DEF Next

LEMMA Invariant == Spec => []Inv
  BY InitInv, NextInv, PTL DEF Spec

-----------------------------------------------------------------------------
(* The properties. *)

\* The variables of the tab and its server keep their types for any bounds.
THEOREM TypeCorrect == Spec => []TypeOK
<1>1. Inv => TypeOK
  BY DEF Inv
<1> QED
  BY <1>1, Invariant, PTL

LEMMA PageIsKnown ==
  ASSUME Inv, NEW r \in OnPage
  PROVE  r \in Reports /\ KnownAt(published, version, r) /\ Complete(r)
  BY DEF Inv, TypeOK, PageInv, OnPage

\* Cards and score of a report on the page are from the last refresh at its
\* click or from later ones.
THEOREM NumbersStayCurrent == Spec => []NumbersAreCurrent
<1>1. ASSUME Inv PROVE NumbersAreCurrent
  <2> SUFFICES ASSUME NEW r \in OnPage
               PROVE  r.counts \in r.since .. Len(published) /\ r.score \in r.since .. Len(published)
    BY DEF NumbersAreCurrent
  <2>1. r \in Reports /\ KnownAt(published, version, r) /\ Complete(r)
    BY <1>1, PageIsKnown
  <2>2. r.since \in Nat /\ Len(published) \in Nat
    BY <1>1, <2>1, Versions, ReportPageAssumption DEF Inv, Reports, Refreshes
  <2> QED
    BY <2>1, <2>2 DEF KnownAt, Complete
<1> QED
  BY <1>1, Invariant, PTL

\* The examples of a report on the page are never older than its counts.
THEOREM ExamplesComeLater == Spec => []ExamplesAreLater
<1>1. ASSUME Inv PROVE ExamplesAreLater
  <2> SUFFICES ASSUME NEW r \in OnPage
               PROVE  /\ r.counts # 0
                      /\ r.emails # 0 => r.emails \in published[r.counts] .. version
                      /\ r.phones # 0 => r.phones \in published[r.counts] .. version /\ r.emails <= r.phones
    BY DEF ExamplesAreLater
  <2>1. r \in Reports /\ KnownAt(published, version, r) /\ Complete(r)
    BY <1>1, PageIsKnown
  <2> QED
    BY <1>1, <2>1, Versions DEF Inv, KnownAt, Complete
<1> QED
  BY <1>1, Invariant, PTL

\* Who waits for each report never gets one that goes back.  By PatientInv the
\* report to be shown was asked for when the last one had been, and by HistoryInv
\* what is published later is of later content.
THEOREM PatientUserGoesForward == Spec => PatientReportsGoForward
<1>1. ASSUME Inv, [Next]_vars, ~rushed, overview # NoReport, overview' # overview
      PROVE  NotBefore(overview'.counts, overview.counts) /\ NotBefore(overview'.score, overview.score)
  <2>1. PICK i \in DOMAIN reports : Show(i)
    BY <1>1 DEF Next, Handle, vars, page, server, Change, Scan, RefreshOk, RefreshFails, Crash, Click,
                LoadQuality, SampleEmails, SamplePhones, LoadMetrics, ShowError
  <2> DEFINE q == reports[i]
             o == overview
  <2>2. overview' = q /\ Complete(q) /\ q # NoReport
    BY <2>1 DEF Show, Complete, NoReport
  <2>3. q \in Reports /\ KnownAt(published, version, q)
    BY <1>1 DEF Inv, TypeOK
  <2>4. o \in Reports /\ KnownAt(published, version, o) /\ Complete(o)
    BY <1>1 DEF Inv, TypeOK, PageInv
  <2>5. o.counts <= q.since /\ o.score <= q.since
    BY <1>1, <2>2 DEF Inv, PatientInv
  <2>6. /\ Len(published) \in Nat /\ q.since \in Nat /\ q.counts \in 1 .. Len(published)
        /\ q.score \in 1 .. Len(published) /\ q.since <= q.counts /\ q.since <= q.score
        /\ o.counts \in 1 .. Len(published) /\ o.score \in 1 .. Len(published)
    BY <1>1, <2>2, <2>3, <2>4, Versions, ReportPageAssumption
       DEF Inv, KnownAt, Complete, Reports, Refreshes
  <2>7. o.counts \in 1 .. q.counts /\ o.score \in 1 .. q.score
    BY <2>5, <2>6
  <2>8. published[o.counts] <= published[q.counts] /\ published[o.score] <= published[q.score]
    BY <1>1, <2>6, <2>7 DEF Inv, HistoryInv
  <2>9. \A n \in 1 .. Len(published) : published[n] \in Nat
    BY <1>1, Versions DEF Inv
  <2> QED
    BY <2>2, <2>6, <2>7, <2>8, <2>9 DEF NotBefore
<1>2. Inv /\ [Next]_vars
        => [~rushed /\ overview # NoReport /\ overview' # overview
              => NotBefore(overview'.counts, overview.counts)
                 /\ NotBefore(overview'.score, overview.score)]_vars
  BY <1>1
<1> QED
  BY <1>2, Invariant, PTL DEF Spec, PatientReportsGoForward
=============================================================================
