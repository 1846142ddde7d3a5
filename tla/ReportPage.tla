------------------------------ MODULE ReportPage ------------------------------
(***************************************************************************)
(* The quality tab from the tables to the page: what a refresh of          *)
(* qualityService has read, what Compute and Metrics                       *)
(* (backend/service/api_service.go) make of the cached metrics, and what   *)
(* loadQuality (frontend/index.html) puts together from the answers of     *)
(* /api/quality and /api/metrics, two calls that the server handles on     *)
(* their own.                                                              *)
(*                                                                         *)
(* Numbers are named by the refresh they come from, and refreshes and      *)
(* examples by the version of the tables they were read from.              *)
(* AnalyticsCaches has the statements of a refresh, QualityReport the      *)
(* numbers, and Dashboard the other tabs, where the two calls are one.     *)
(***************************************************************************)
EXTENDS Integers, SequencesExt

CONSTANTS
    MaxVersion,     \* bound on the changes of the tables
    MaxRefreshes,   \* bound on the refreshes that succeed
    MaxReports      \* bound on the reports in flight

ASSUME ReportPageAssumption ==
    MaxVersion \in Nat \ {0} /\ MaxRefreshes \in Nat /\ MaxReports \in Nat

VARIABLES
    version,    \* content of the tables
    reading,    \* the version that the refresh under way has scanned, or 0
    published,  \* history: the versions scanned by the refreshes that succeeded
    cached,     \* qualityService.cached: the refresh it is from, 0 for nil
    reports,    \* the reports in flight
    cards,      \* the sets of cards on the page
    overview,   \* the panel with the score and the bars, and its report
    rushed      \* history: a report was asked for while one was in flight

page == <<cards, overview, rushed>>
server == <<version, reading, published, cached>>
vars == <<version, reading, published, cached, reports, cards, overview, rushed>>

\* Refreshes are numbered through the restarts of the process.
Refreshes == 0 .. MaxRefreshes

\* A report is two calls: where the server is with each, the refresh it loaded
\* for it, and the versions of the examples, 0 for those whose statement failed;
\* since is history, the refreshes there had been at the click.
Reports == [
    quality : {"sent", "emails", "phones", "done", "failed"},
    metrics : {"sent", "done", "failed"},
    counts : Refreshes, score : Refreshes, since : Refreshes,
    emails : 0 .. MaxVersion, phones : 0 .. MaxVersion]

NewReport == [
    quality |-> "sent", metrics |-> "sent", counts |-> 0, score |-> 0, since |-> Len(published),
    emails |-> 0, phones |-> 0]

\* No report, or one that will end with an error: what becomes of the other call
\* makes no difference.
NoReport == [
    quality |-> "failed", metrics |-> "failed", counts |-> 0, score |-> 0, since |-> 0,
    emails |-> 0, phones |-> 0]

TypeOK ==
    /\ version \in 1 .. MaxVersion /\ reading \in 0 .. MaxVersion
    /\ published \in Seq(1 .. MaxVersion) /\ Len(published) <= MaxRefreshes
    /\ cached \in 0 .. Len(published)
    /\ reports \in Seq(Reports) /\ Len(reports) <= MaxReports
    /\ cards \in Seq(Reports)
    /\ overview \in Reports
    /\ rushed \in BOOLEAN

Init ==
    /\ version = 1
    /\ reading = 0
    /\ published = <<>>
    /\ cached = 0
    /\ reports = <<>>
    /\ cards = <<>> /\ overview = NoReport
    /\ rushed = FALSE

-----------------------------------------------------------------------------
(* The server's refreshes. *)

\* External: the tables change.
Change ==
    /\ version < MaxVersion
    /\ version' = version + 1
    /\ UNCHANGED <<reading, published, cached, reports, page>>

\* The one goroutine starts QualityMetrics, never before the last one has ended.
Scan ==
    /\ reading = 0
    /\ reading' = version
    /\ UNCHANGED <<version, published, cached, reports, page>>

RefreshOk ==
    /\ reading # 0 /\ Len(published) < MaxRefreshes
    /\ published' = Append(published, reading)
    /\ cached' = Len(published')
    /\ reading' = 0
    /\ UNCHANGED <<version, reports, page>>

RefreshFails ==
    /\ reading # 0
    /\ reading' = 0
    /\ UNCHANGED <<version, published, cached, reports, page>>

\* What the end of the process leaves of a report: a call that Compute has begun
\* with fails.  One that is still on its way finds the next process, unless it is
\* lost, which ShowError stands for.
CutOff(r) == IF r.quality \in {"emails", "phones"} THEN NoReport ELSE r

\* The process ends (see AnalyticsCaches) and Docker starts it again.
Crash ==
    /\ reading' = 0
    /\ cached' = 0
    /\ reports' = [i \in DOMAIN reports |-> CutOff(reports[i])]
    /\ UNCHANGED <<version, published, page>>

-----------------------------------------------------------------------------
(* The server's handlers. *)

Progress(i, r) == reports' = [reports EXCEPT ![i] = r]

\* A mutation of LoadQuality: the metrics are loaded when the examples are there.
LoadQualityLast(i) ==
    /\ reports[i].quality \in {"sent", "phones"}
    /\ IF reports[i].quality = "sent"
       THEN Progress(i, [reports[i] EXCEPT !.quality = "emails"])
       ELSE Progress(i, [reports[i] EXCEPT !.quality = "done", !.counts = cached])
    /\ UNCHANGED <<server, page>>

\* A mutation of LoadQuality: what is not yet computed is reported as zeros.
LoadQualityZeros(i) ==
    /\ reports[i].quality = "sent"
    /\ Progress(i, [reports[i] EXCEPT !.quality = "emails", !.counts = cached])
    /\ UNCHANGED <<server, page>>

\* Compute loads the cached metrics; "quality metrics not yet computed" is a 500...
LoadQuality(i) ==
    /\ reports[i].quality = "sent"
    /\ Progress(i, IF cached = 0
                   THEN NoReport
                   ELSE [reports[i] EXCEPT !.quality = "emails", !.counts = cached])
    /\ UNCHANGED <<server, page>>

\* ...then it samples examples from the tables as they are, and does without
\* those whose statement fails.
SampleEmails(i) ==
    /\ reports[i].quality = "emails"
    /\ \E v \in {0, version} :
          Progress(i, [reports[i] EXCEPT !.quality = "phones", !.emails = v])
    /\ UNCHANGED <<server, page>>

SamplePhones(i) ==
    /\ reports[i].quality = "phones"
    /\ \E v \in {0, version} :
          Progress(i, [reports[i] EXCEPT !.quality = "done", !.phones = v])
    /\ UNCHANGED <<server, page>>

\* A mutation of LoadMetrics: a browser or a proxy has the last answer still.
LoadMetricsFromOverview(i) ==
    /\ reports[i].metrics = "sent"
    /\ Progress(i, [reports[i] EXCEPT !.metrics = "done",
                                      !.score = IF overview = NoReport THEN cached ELSE overview.score])
    /\ UNCHANGED <<server, page>>

\* Metrics loads them once more.
LoadMetrics(i) ==
    /\ reports[i].metrics = "sent"
    /\ Progress(i, IF cached = 0
                   THEN NoReport
                   ELSE [reports[i] EXCEPT !.metrics = "done", !.score = cached])
    /\ UNCHANGED <<server, page>>

-----------------------------------------------------------------------------
(* The page. *)

\* loadQuality up to its await: the cards go, the overview stays.
Click ==
    /\ Len(reports) < MaxReports
    /\ reports' = Append(reports, NewReport)
    /\ cards' = <<>>
    /\ rushed' = (rushed \/ reports # <<>>)
    /\ UNCHANGED <<overview, server>>

\* Promise.all has both answers, in any order among the reports: the overview
\* is replaced and the cards are appended.
Show(i) ==
    /\ reports[i].quality = "done" /\ reports[i].metrics = "done"
    /\ overview' = reports[i]
    /\ cards' = Append(cards, reports[i])
    /\ reports' = RemoveAt(reports, i)
    /\ UNCHANGED <<rushed, server>>

\* Promise.all fails with the first call that fails, or that the network loses;
\* the answer to the other one goes nowhere.
ShowError(i) ==
    /\ reports' = RemoveAt(reports, i)
    /\ UNCHANGED <<page, server>>

Handle(i) ==
    \/ LoadQuality(i) \/ SampleEmails(i) \/ SamplePhones(i) \/ LoadMetrics(i)
    \/ Show(i) \/ ShowError(i)

Next ==
    \/ Change \/ Scan \/ RefreshOk \/ RefreshFails \/ Crash
    \/ Click \/ \E i \in DOMAIN reports : Handle(i)

Spec == Init /\ [][Next]_vars

-----------------------------------------------------------------------------
OnPage == {cards[k] : k \in DOMAIN cards} \cup ({overview} \ {NoReport})

\* Cards and score come from two calls and may come from two refreshes, but
\* both from the last one there was at the click or from later ones, through
\* failures, restarts and late answers; so if no refresh ended in between they
\* are of one refresh.
NumbersAreCurrent ==
    \A r \in OnPage :
        /\ r.counts \in r.since .. Len(published)
        /\ r.score \in r.since .. Len(published)

\* The examples of a report are never older than its counts, nor the phones
\* older than the emails: a count without examples means that the rows have
\* been repaired since, and never that they had yet to come.
ExamplesAreLater ==
    \A r \in OnPage :
        /\ r.counts # 0
        /\ r.emails # 0 => r.emails \in published[r.counts] .. version
        /\ r.phones # 0 => r.phones \in published[r.counts] .. version /\ r.emails <= r.phones

\* Later refreshes are of later or equal content.
NotBefore(m, n) == n \in 1 .. m /\ published[m] >= published[n]

\* Who waits for each report never gets one that goes back, neither in its
\* cards nor in its score, even if the server has restarted in between and its
\* cache was lost.
PatientReportsGoForward ==
    [][~rushed /\ overview # NoReport /\ overview' # overview
          => NotBefore(overview'.counts, overview.counts)
             /\ NotBefore(overview'.score, overview.score)]_vars
=============================================================================
