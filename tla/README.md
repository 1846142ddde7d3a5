# A verification project for 17an

The repository is a Go server (Fiber, GORM, PostgreSQL) that searches, profiles and
reports on 15 million users, and one HTML page that shows what it answers. This
directory holds TLA+ models of its stateful parts and of the algorithms in its queries,
the TLC configurations that check them on small instances, and TLAPS proofs of the main
safety properties for every value of the constants. Paths below are relative to `src/`.

Contents: [inventory](#inventory) · [modules](#modules) · [runs](#runs) ·
[bounds](#bounds) · [fairness](#fairness-and-assumptions) · [proofs](#proofs) ·
[findings](#what-the-code-does-not-do) · [simplifications](#simplifications) ·
[not modelled](#not-modelled) · [plan](#plan) · [running](#running)

## Inventory

| Component | Code | State | Operations |
|---|---|---|---|
| search service | `backend/service/api_service.go:75-145`, handler `api_handlers.go:54-104` | `cache sync.Map`: key → results, total, error, expiry (15 s) | `Search`: load, expiry check and delete, dispatch to one or two statements, store |
| search statements and paging | `backend/repository/search_repository.go`, `api_handlers.go:56-103` | none | filter, order, cut and count users for a limit and an offset |
| background caches | `api_service.go:17-72, 147-300, 302-345`, `backend/repository/analytics_repository.go` | four atomics: `cachedTotal`, `cached`, `cachedPairs`, `cachedIPs`; one goroutine per service | `refresh` at start and at each tick; `Check`, `Compute`, `Metrics`, `ExactPairs`, `FindByIP` read |
| connection pool | `backend/database/database.go`, sizes in `backend/config/config.go` | connections in use (`database/sql`) | a statement or a transaction takes one and gives it back |
| quality metrics and reports | `analytics_repository.go:107-235`, `api_service.go:183-300` | none of its own: one `QualityMetrics` per refresh | counts of one scan, `estimateDistinct`, scaled sample, percentages, score, issues with live examples |
| duplicate queries | `analytics_repository.go:237-312`, `api_service.go:302-390` | the two cached listings | pairs and IP groups for the caches, pairs of one user uncached |
| user profile | `analytics_repository.go:314-350`, `api_handlers.go:219-230` | none | one query over four tables per request |
| user listing | `backend/service/user_service.go`, `backend/repository/user_repository.go`, `backend/handlers/handlers.go` | none | a page of users, one user |
| dashboard page | `frontend/index.html` | the DOM, `searchOffset`, promises in flight | tabs: search with paging, quality, duplicates, profile; health badge with its interval |
| start-up | `backend/main.go`, `database.Connect`, `database.Prewarm` | none | connect, prewarm, constructors, listen |
| routes, tracing, models, migrations, Swagger, load test, deployment | `routes/`, `tracing/`, `models/`, `migrations/`, `docs/`, `k6/`, Docker files | none | tables, set-up, data, drivers |

How they interact. Handlers run one per request, each in a goroutine. Search
handlers share the `sync.Map`, and nothing orders the steps of two of them. The three
refreshing goroutines publish through atomics and are otherwise on their own; the
handlers read the atomics. Everything that talks to PostgreSQL takes connections
from the one pool of `DB_MAX_OPEN_CONNS`, and `QualityMetrics` takes a second one while it
holds a transaction's. A panic in a handler is recovered; a panic in a refresher ends
the process, and Docker starts it again with empty caches. The page's handlers
suspend at `await` and resume in the order of the answers; the quality tab puts two
calls together, and the badge's interval does not wait for answers.

What is hard, and what makes each part correct:

* **Search**: two requests for one key interleave between load, delete, the statements and
  store. An answer must belong to its question, be no older than the TTL
  allows, a failure must stay with the request that met it, and every request must end.
* **Paging**: pages are statements of their own over a table that changes, limits and
  offsets come from outside, and their product may overflow. A walk through the
  pages must serve every match once, and nobody may be pushed out by newcomers.
* **Background caches**: early returns, deferred rollbacks, outages in the middle of a
  transaction, goroutines that hold and wait. No connection may leak, the pool
  must not lock up, a cache must never go back, and it must catch up in the end.
* **Quality report**: numbers of different ages are combined (a scan, `pg_stats`, a
  sample, live examples). The report must add up whatever they are, and what reaches
  the page must not be older than what was there when the user clicked.
* **Duplicates**: pairs stand for groups, listings are cut twice, and three statements
  answer questions about the same users. Pairs must connect exactly the users whom
  contacts connect, cuts must lose nothing, and the answers must agree.
* **Profile and lookups**: subqueries must not multiply each other's rows, and the two
  endpoints for one user must agree on who exists.
* **Page**: answers in any order, globals read after an `await`. The pager must fit the
  offset it moves, someone who waits for answers must see the right ones, and the
  badge must recover from whatever happened.

`PROJECT.json` lists every hazard at its line, with the properties that watch it.

## Modules

```
SearchRequests <-- SearchPromise (abstract)
      ^                   ^
      |                   | INSTANCE ... WITH asked <- req, Bound <- TTL + StmtTimeout
      +----- SearchCache -+<-- MCSearch (instances)
                  ^----------- SearchCacheProofs

ConnPool <-- INSTANCE -- AnalyticsCaches -- INSTANCE --> PublishedValues (abstract)
                               ^----------- AnalyticsCachesProofs

DuplicateQueries <-- Duplicates <-- MCDuplicates (instance)
                         ^--------- DuplicatesProofs
Paging, ProfileQuery <-- UserQueries <-- UserQueriesProofs
QualityReport <-- QualityReportProofs
ReportPage    <-- ReportPageProofs
HealthBadge   <-- HealthBadgeProofs
Dashboard     <-- DashboardProofs
```

**SearchRequests** — what requests are to the service. A text is the sequence of its pieces
between bars, because the key format `%s|%s|%d|%d` tells nothing else apart.
`Question` is `dispatch`: the repository call that a request means.

**SearchPromise** — the abstract specification: a worker takes a request and answers it
at once with the database's answer to that question, at most `Bound` old, the
total never newer than the rows; or refuses it, if it needs the database. There
is no cache, no key and no statement in it.

**SearchCache** — `Search` step by step. `now` is the clock, `cache` the `sync.Map`, and for each
worker `pc`, `req`, the loaded entry `held`, the start of its running statement and
the snapshot of its total. The content of the database is not modelled: it may
change at any instant, so a result is named by the instant its statement started.
One action per step: `Load`, `Hit`, `Expire` (deletes what the key maps to by then, not what was
loaded), `Miss`, `AnswerImmediately`, `StartCount`, `FinishCount`, `StartRows`, `FinishRows` (with `Store`),
`Fail`.

**ConnPool** — `database/sql` as the repositories use it: a connection belongs to one use, waiting has
no limit and no order, an outage loses the sessions in use. A size of zero or less is
no limit.

**PublishedValues** — the abstract specification of the atomics: the tables have a version,
each atomic holds one that it had or nothing, a publication never takes it back,
and the end of the process empties them all. There is no statement, transaction, pool
or failure in it.

**AnalyticsCaches** — each goroutine is an actor whose `pc` names the database
operation it is at. A refresher goes through its statements in the order of the
source, with each way a statement may fail; `got` is the version of the tables the
refresh has read and `cache` the version each atomic holds. `BeginQualityPanics` is what
`bigWorkMemDB` leads to when `Begin` fails: `Row()` is nil, `Scan` panics, no `recover` is in
the way, and `Die` empties the process. `DatabaseDown`, `DatabaseBack`, `Change` and `Restart` are the
surroundings. Requests matter to the caches only by the connections they take.

**DuplicateQueries** — the three statements as functions of the tables: `ExactDuplicatePairs` (each
user of a group with the next, both kinds of contact, cut by a `LIMIT` without order),
`DuplicatesForUser` and `DuplicateGroupsByIP`. What an `ORDER BY` leaves open is a set of listings.

**Duplicates** — `duplicateService`: the tables, their changes, the two cached listings, and as
operators the answers of the three endpoints to every limit.

**Paging** — what becomes of page, limit and offset between the query string and
PostgreSQL: `Atoi` saturates, the product wraps at the width of an int, GORM leaves out an
`OFFSET` that is not positive, the search replaces a limit out of range and
repeats the one it used.

**ProfileQuery** — `UserProfile` as a function of four tables.

**UserQueries** — a reader who walks page by page through the listing, an email
search or a name search while users register, change and go; requests for any page out
of turn; and the two lookups of one user with their statuses for every id. `contents`
holds every content that `ws_user` has had. A page of a search goes through
`searchService`, whose cache may hold it since another reader asked for it, so `Search` answers
with the window of any content there has been, and an email search with a total of that content
or an older one: what `SearchPromise` promises, and `SearchCache` implements. `List` is the
listing, which is not cached.

**QualityReport** — the numbers: a scan counts the rows of each sort, statistics of another
day's table come in both forms of `n_distinct`, a sample is of a table that may have changed
since, and percentages and score are in tenths of a percent, rounded as the code
rounds. `Compute` is a report on the published numbers: the `data_issues` come from the counts, and
their examples from two statements with conditions of their own (`InvalidInScan`,
`InvalidInSample`), which may find the column as it was scanned or changed, or fail, where
the code drops the error and lists no examples.

**ReportPage** — the quality tab from the tables to the page: refreshes that succeed or fail, a
process that ends and starts again, the two calls of a report with the steps the
server takes for each, and `loadQuality`, with several reports in flight. Numbers are named by the
refresh they come from.

**HealthBadge** — the badge from the table to the page: the counting goroutine, a check's ping and
its reading of the total, `HealthCheck`'s 200 or 503, and `checkHealth` with overlapping calls, outages,
restarts and lost calls.

**Dashboard** — the tabs. `inflight` holds the calls with what each handler captured before its
`await`; any of them may be answered next, well or badly. `Found` is what a search may answer:
`SearchByUserID` has neither `LIMIT` nor `OFFSET` and finds its one match for any page. `rushed` is a
history variable: the tabs the user last clicked while a call of that tab was in flight.

Modules of one system at several depths: `AnalyticsCaches` says how a refresh runs and
fails; `QualityReport` and `Duplicates` say what it computes; `ReportPage` and `HealthBadge` say what
becomes of it on the way to the page; each leaves to the others what its comment says.

Mutated forms of an action (`FailThatIsCached` and the like, each before the definition
it mutates) are not part of a specification. They state a plausible mistake, and
each property fails when one of them replaces the real definition.

## Runs

| Configuration | Shows |
|---|---|
| `SearchCache.cfg` | Two workers; an email search, a name search and a user id without a number. Answers belong to their questions (`OwnAnswer`), are at most TTL + one statement old (`BoundedStaleness`), errors are never shared or cached (`OnlyOwnFailure`), the cache implements `SearchPromise` (`KeepsPromise`), and every request is answered (`EveryRequestAnswered`). |
| `AnalyticsCaches.cfg` | Three refreshers, a request, an outage, a crash, two connections: `NoLeak`, `NoGridlock`, and a request ends although refreshers hold and wait for connections (`EveryRequestEnds`). |
| `AnalyticsCatchUp.cfg` | The refreshers implement `PublishedValues` (`PublishesInOrder`), and after the last change and outage each cache holds the content of the tables for good (`CachesCatchUp`). |
| `QualityReport.cfg` | Unique values and duplicates add up (`EstimatesAddUp`), the score is in range (`ScoreInRange`), without missing values fresh statistics give exact duplicates (`ExactWithoutMissing`), dates are counted once (`DatesCountOnce`), and where a sample was answered on an unchanged column, an issue is listed just when it has examples (`ExamplesFitIssues`). |
| `Duplicates.cfg` | All tables of three users: the cached pairs connect exactly whom shared contacts connect (`PairsFindClusters`), none is listed without reason or twice (`PairsAreReal`), they agree with the lookup of one user (`AnswersAgree`) and with the report's way of counting (`PairsCountDuplicates`), and two cuts are as good as one (`TwoCutsAreOne`). |
| `UserQueries.cfg` | A walk through a search whose pages are of one content, cached or not, serves every match once and in order (`WalkServesAll`); one whose pages are read in order misses nobody while users only register (`NewUsersHideNobody`); a page of any age is the window of what it was read from, with the right total if that was counted in the same content (`TotalFitsPage`); the listing has as many rows as the table (`ListingHasAllRows`); every window is legal (`WindowsAreLegal`); rows count in one profile (`ProfilesAddUp`); the lookups agree (`LookupsAgree`). |
| `Dashboard.cfg` | With two calls in flight, whatever is clicked: indicators end (`LoadingEnds`), the pager fits the offset (`PagerFitsOffset`); and a user who waits, from the start or again after a hurry, sees the right page (`PatientUserSeesPage`), one report, one profile, and no chart beside the exact pairs (`PatientUserSeesOneAnswer`). |
| `ReportPage.cfg` | Two reports in flight: no number on the page is older than the last refresh at the click (`NumbersAreCurrent`), examples are never older than counts (`ExamplesAreLater`), and who waits never sees a report go back, through restarts too (`PatientReportsGoForward`). |
| `HealthBadge.cfg` | While checks do not overlap, a total is taken back only to the zero of a new process (`TotalsGoForward`), and in the end the badge shows the right total for good (`BadgeRecovers`). |
| `SearchKeyCollision.cfg`, `AnalyticsOutage.cfg`, `DashboardPagination.cfg` | Each finds one violation: see [below](#what-the-code-does-not-do). |

Every action of every specification is taken in some run, and each property has a
mutation in `PROJECT.json` that makes TLC find it violated.

## Bounds

* `SearchCache`: two workers are enough for every race between the steps of `Search`, as
  each race is between one that loads and one that stores or deletes. With `TTL = 1`,
  `StmtTimeout = 1` and `MaxTime = 3` an entry is stored, overwritten by a slow statement, expires
  and is replaced, and an answer may be older (3) than `TTL + StmtTimeout` (2) allows. The
  three requests are one of two statements, one of one and one of none. The proofs
  have no bound but the clock's, which they take as any number.
* `AnalyticsCaches`: `MaxOpen = 2` is the smallest pool that does not lock up, and the one where
  waiting is hardest; one request goroutine beside three refreshers leaves more
  goroutines than connections. One outage may fall between any two steps. `AnalyticsCatchUp`
  has two versions of the tables, enough to tell old from new, and no requests;
  `EveryRequestEnds` does without changes of the tables, to keep the temporal checks short.
* `QualityReport`: tables and samples of up to three rows, every combination of sorts of
  values, and of statistics of another such table: enough for rounding up and down, for
  halves, for empty tables and samples, and for more malformed values than
  examples (two). One contact, as the columns do not influence each other: the phone, whose condition is
  the email's and one more. Empty, short and unlike values are sorts of their own, which is where
  the conditions of the scan and of the samples could differ.
* `Duplicates`: three users make a chain, a group of three and two overlapping groups; two
  names in two cases, two phones; caches of three pairs and two groups with limits below and
  above them, so each cut happens. `MaxContacts` and `MaxSeen` bound the rows of a table, and `Bounded` fills
  the contacts or the addresses, never both, as no statement reads both. One change of the
  tables separates a listing from what it was read from. Names, phones and addresses are
  symmetric: nothing compares them but for equality. User ids are not, as pairs are ordered.
* `UserQueries`: `IntLimit = 16` stands for 2^63 and overflows like it; `Anywhere` has pages and offsets
  below, at and beyond it. Limits up to 2 against three users give several pages and short
  ones, two ranks give ties, two changes may both fall into one walk or before it, so that a walk may have pages
  of three contents in any order. `Ask` is of a table that does not change, as its windows do not depend on
  the content; `Telling` leaves out ranks that the statement asked for does not tell apart. Walks and profiles read
  different tables and are explored apart (`Searching`, `Buying`). 1.4 million states, about three minutes.
* `Dashboard`: a page of two, up to three matches (an empty, a short and a full page, and a second
  page), two calls in flight: each race is between two answers or an answer and a click. Rows and totals
  may differ from one answer to the next. One query has pages and one is a `user_id` (`IDQueries`), and the field may be
  changed between any two clicks. `Offsets` leaves room for Next beyond the total.
* `ReportPage`: two versions, two successful refreshes, two reports; crashes and failed refreshes are
  not bounded.
* `HealthBadge`: two checks in flight, two contents of the table, and two troubles (outages, ends of the
  process and lost calls together), so that one may fall into the recovery from another.

`CHECK_DEADLOCK FALSE` stands where the bounded part of a model really stops: when
the changes of the tables are used up and nobody asks any more (`Duplicates`, `UserQueries`).

## Fairness and assumptions

* `SearchCache`: weak fairness of each worker's steps: a goroutine that can run does,
  and a statement ends because the DSN sets `statement_timeout=20000`. Requests need not arrive and
  time need not pass. `StmtTimeout` covers the statement up to the `Store` after it; the
  scheduler's delay between the two is counted as part of the statement.
* `AnalyticsCaches`: `Restart` (Docker's restart policy), `DatabaseBack` (an outage ends), and `Wake`
  (the ticker) are weakly fair. Each goroutine's database steps are strongly fair:
  `database/sql` promises no order among waiters, but none is passed over for ever, and a
  statement ends at its timeout. `QueriesSucceed`, in `RefreshSpec` only, is an assumption about the
  environment and not about the code: a background query that is tried again and again
  succeeds some time. Without it no cache need ever be filled, and the 20 s limit that
  the count and the IP groups run under makes it a real assumption.
* `HealthBadge`: the interval and the ticker fire, calls are served and shown, an outage ends and
  Docker restarts, all weakly fair. Strong fairness of `CountOk` is the same assumption about the
  environment as `QueriesSucceed`.
* `Duplicates`, `UserQueries`, `QualityReport`, `ReportPage` and `Dashboard` state safety only and assume nothing.

## Proofs

Eight modules hold theorems; each `THEOREM` is for every value of the constants under the
assumptions named in its modules, and those are as weak as the code justifies.

`SearchCacheProofs` (for any workers, requests, TTL, timeouts and bound of the clock):

* `TypeCorrect`: `Spec => []TypeOK`.
* `StalenessBounded`: `Spec => []BoundedStaleness`. The property is not inductive: a reply may come
  from the cache, and an entry from a statement that started long before. `AgeInv` adds that
  every entry, loaded ones included, expires at most TTL + StmtTimeout after its rows were
  read, that a running statement started at most StmtTimeout ago, and that a total is no
  newer than its rows. A hit then happens before
  the expiry, a `Store` within a StmtTimeout of the snapshot.
* `AnswersOwnQuestion`: `(BarFreeTypes /\ Spec) => []OwnAnswer`. `OwnInv` says that every entry answers the question of
  every request with its key. It needs that the key tells questions apart,
  which `KeyTellsApart` derives from `BarFreeTypes`: with a type of one piece, the first piece is the
  type and the last two are the page, so what lies between is the query. The assumption is needed:
  without it `SearchKeyCollision.cfg` has a counterexample. The four types
  of the API have no bar.
* `CacheKeepsPromise`: under the same assumption `Spec => KeepsPromise`, by a step simulation: `Return` is an
  `Answer` or a `Refuse` of `SearchPromise`, `Load` an `Ask`, and every other step but `Tick` a stutter. It rests on
  `AgeInv`, for the ages and for the total being no newer than the rows, and on `OwnInv`.
* `FailuresStayWhereTheyAre`: `Spec => OnlyOwnFailure`. A step that tells a failure is the worker's own `Fail`,
  which leaves the cache alone: every other step returns what an entry or a statement holds.

`AnalyticsCachesProofs` (for any pool, clients, changes and outages):

* `TypeCorrect` and `NothingLeaks`: `NoLeak` is inductive together with `TypeOK`; there is one step per action,
  error paths included.
* `NeverGridlocked`: `MaxOpen # 1` implies `Spec => []NoGridlock`. By `NoLeak`, only the quality refresher can hold a connection
  and wait for another, and it then holds one; so with two connections in use one belongs
  to somebody who does not wait, and without a limit nobody waits. With `MaxOpen = 1`, which
  `DB_MAX_OPEN_CONNS` allows, the refresher waits for itself and the property fails.
* `NeverBack`: `Spec => CachesNeverGoBack`. The strengthening `ReadsAreNewer` says that what a refresh has read is at least
  what its cache holds and at most the version of the tables: each cache has one
  writer, whose reads are in order.
* `CachesArePublished`: `Spec => PublishesInOrder`, the refinement of `PublishedValues`: a step that publishes is a `Publish`
  by `ReadsAreNewer`, the death and the restart of the process are `Stop` and `Start`, and
  every statement, transaction and failure is a stutter.

`DashboardProofs` (for any page size, texts and number of calls in flight):

* `TypeCorrect` needs `TypeInv`: the page can only get as many sets of cards as there are calls of the quality
  tab, and offsets stay within `Offsets` because Next is enabled by an answer that had more.
* `NothingLoadsForGood` (`LoadingEnds`) is inductive on top of `TypeInv`: whatever settles a call hides the indicator of its tab.
* `PagerAlwaysFits` (`PagerFitsOffset`), by `PagerInv` with the offsets of `TypeInv`.
* `PatientUserIsServed` and `PatientUserIsAnsweredOnce`: `AloneInv` says that nobody who waits in a tab has two of
  its calls in flight. On top of it `PageInv` says that the call of such a search is for the offset the page is
  at, with nothing displayed until it is answered, and that what is displayed without a call in flight fits its label; `AnswerInv` that no card stands beside a call that
  clears them; and `ChartInv` that the table is hidden while duplicates are asked for, and the chart removed while
  exact pairs are. No other tab touches any of it.

`DuplicatesProofs` (for any tables, cache sizes and limits):

* `CacheInv`: a cached listing is one that the statement returns for the tables it was read from,
  whatever was written since. `ListingIs` says what `LIMIT` leaves of a set of rows: each row once, as
  many as there are or as it allows (a pigeonhole argument over cardinalities).
* `TypeCorrect`, `EveryPairIsReal`, `EndpointsAgree` and `CutsLoseNothing` follow from it; the last for pairs by counting, for
  groups by the order that both cuts respect.
* `PairsAlwaysFindClusters`: a set of users that no pair leads out of is one that no shared contact leads out of
  (`SameClosed`), so both connect the same users. `GroupsHoldTogether`: if a group had users inside such a set and outside
  it, two of them at the smallest distance would have nobody of the group between them, and be a pair.
* `PairsAlwaysCountDuplicates`: the second user tells a pair from the others of its kind, and every user of a contact but the
  smallest is the second of a pair; the smallest are as many as the contacts. Three bijections give the sizes.

`QualityReportProofs` (for any contacts, rows and examples):

* `RoundedBound`: a part of a whole, scaled to another whole and rounded, is a part of it; `RoundedSame`: nothing is
  lost of a part scaled to its own whole. `ReportInv` keeps the counts of one scan together with the
  estimates made so far (`ScanInv`, `EstimateInv`) and the report (`Reported`).
* `TypeCorrect`, `EstimatesAlwaysAddUp`, `ExactOnFreshStatistics`.
* `DatesAlwaysCountOnce`: the scan's counts of dates are sums over disjoint sorts (`DatesAre`).
* `ExamplesAlwaysFitIssues`: the conditions of the scan and the sample hold for the same sorts of values (`ConditionsAgree`), so
  a column that is as it was scanned gives as many examples as were counted, up to the limit. `Reported` keeps
  that of the last report while the metrics it was made of are published.
* `ScoreStaysInRange`: `SampleInv` says that dates are those of the rows and that the two parts of a sample exceed it by one at
  most (`RoundedParts`). The score divides a sum over the contacts, which `SumBound` bounds by their number.

`UserQueriesProofs` (for ints of any width, any users and tables):

* `EveryWindowIsLegal`: `WrappedIs` gives a wrapped product as an int that is the product itself unless it is too large;
  `Windows` derives the window of every page, offset and limit from it.
* `LookupsAlwaysAgree` needs that ids begin at 1, as the profile tells "no row" by `UserID == 0`.
* Walks through a search: each match has a place, the number of matches before it, and a page serves the places of its
  window of the content it was read from, cached or not (`PageHolds`). `PagesInv` has what the walk has come to: `NewUsersNeverHideAnyone`
  by `NoneMissed`: if no page was older than the one before, who was there at the first page has been served or is, in the
  content of the last page, at a place not passed yet, as new users push others to later places only
  (`NewcomersKeepPlaces`, `StillAhead`). `WalksServeAll` by `InOrder`: what pages of one content have served is the beginning of its sorted
  matches. `TotalsFitPages` by `Totals`. `Begun` ties the walk's contents to those there have been.
* `ListingsHaveAllRows`: `FewUsers => (Spec => []ListingHasAllRows)`. `Listed` says how many rows have been served; which ones, the
  listing does not promise. `FewUsers` asks for a page less of users than ints. It is needed: with pages of one and as many
  users as there are positive ints, the number of the page after the last is no int, is read as the largest one, and the
  last row is served again. No table comes near 2^63.
* `ProfilesAlwaysAddUp`: `RowsRefer` says that rows refer to rows there are, which registering and editing cannot undo once there
  are orders. The rest are sums: `FibersAddUp` adds rows up by the user they belong to.
* `TypeCorrect` is proved here and is not in a run; so are those of the next two modules and of `AnalyticsCaches`.

`ReportPageProofs` (for any versions, refreshes and reports in flight):

* `HistoryInv`: refreshes are published in the order of what they read, and the cache holds the last of
  them or nothing. `KnownAt` says what is true of a report as far as the server has come with it, and
  stays true as refreshes are published.
* `NumbersStayCurrent`, `ExamplesComeLater`; `PatientUserGoesForward` adds `PatientInv`: who waits asks for a report when the
  last one is on the page.

`HealthBadgeProofs` (for any checks, versions and troubles):

* `CountInv`: the total is no newer than the table, nor than the count under way. `AnswerInv`: what the server would answer
  now, or will after the count under way, may follow any answer that travels or was shown.
* `BadgeGoesForward` (`TotalsGoForward`) adds that without overlapping checks there is one answer on its way.

Only model-checked, and why:

* Liveness (`EveryRequestAnswered`, `EveryRequestEnds`, `CachesCatchUp`, `BadgeRecovers`): `ENABLED` and fairness are out of the prover's
  reach.

Every invariant and every safety property of a passing run is a theorem. Two
detours were needed for it:

* What a fold computes for every set takes an induction, and the library's theorems of induction take an operator, which no
  prover here can instantiate. The proofs use that a well-founded relation has minimal elements, a theorem about
  sets: of the naturals a least one (`LeastNatural`), of the sets of elements of a finite set a smallest one (`Smallest`). A sum is
  characterised as a function on the subsets (`IsSum`), which exists and is the only one (`SumsExist`, `SumsAgree`).
  `QualityReportProofs` and `UserQueriesProofs` each state the lemmas on sums they need.
* The closure of a relation in the community modules is defined by a function of two arguments, which no prover here reads.
  `Duplicates` therefore says `Connected`: no set of users that nothing leads out of has one without the other. `MCDuplicates`
  assumes that this is the closure, and TLC checks it for every relation on its users (`ConnectedIsClosure`).

## What the code does not do

Disagreements between the code and what the repository says of it, each with the
line in `PROJECT.json`:

* A search `type` with a bar shares its key with another search, and within the TTL is answered with that one's
  result (`SearchKeyCollision.cfg`).
* An outage at the wrong moment ends the process through the panic in the quality refresher,
  and the last-good values with it (`AnalyticsOutage.cfg`).
* The page's label and buttons come from the global offset at the time of the answer: after two
  fast clicks the rows of one page stand under the label of another (`DashboardPagination.cfg`).

Read off the code while modelling it, without a run of their own:

* A burst of identical requests is not spared the statements: until the first answer
  is stored, each request runs its own (`api_service.go:116`).
* The ratio form of `n_distinct` is applied to the values present instead of the rows, so a column
  with missing values gets duplicates it does not have (`analytics_repository.go:200`; `ExactWithoutMissing` holds
  only without missing values).
* The IP groups and the health count run with the 20 s limit of requests, not the
  280 s that `DATABASE_NOTES.md` gives background refreshers (`analytics_repository.go:244`).
* `/api/duplicates/find` accepts a limit up to 500 and answers from a cache of 200 groups (`api_handlers.go:175`).
* The report's duplicate emails are counted as written, the duplicate pairs in lower case
  (`analytics_repository.go:165`).
* The page's "user terlibat" adds up groups, so a user seen at two addresses counts twice (`api_service.go:351`).
* The listing has no `ORDER BY`, and a page whose offset overflows is the first page
  (`user_repository.go:24`); its response repeats the page and limit asked for instead of those used
  (`handlers.go:43`).
* Dates in the future alone are no data issue (`api_service.go:216`).
* Ids from 2^63 to 2^64-1 are answered with 500 instead of 400 (`api_handlers.go:220`).
* A health check before the first count says `ready` with a total of 0 (`api_service.go:67`).
* Each page of a search is cached by itself, so the pages of a walk may be of different ages, up to a TTL and a
  statement apart (`api_service.go:110`). If the page at offset 1 was cached before a better match registered, a walk with limit 1
  reads the new user at offset 0, the old second match at offset 1 from the cache and the same one at offset 2 from the database:
  the first match is missed, although nothing changes during the walk. `NewUsersHideNobody` holds as long as no page is older than
  the one before, `WalkServesAll` if all are of one content.
* `SearchByUserID` ignores limit and offset, and the page rereads the type at each click: after turning a search with
  several pages to `user_id`, Next shows its one match as "11-11 / 1" (`search_repository.go:53`). `PatientUserSeesPage` leaves this
  case out.
* The errors of the sample statements are dropped, so a report may list an issue with `"examples": null`
  (`api_service.go:200`). `ExamplesFitIssues` is about samples that were answered.

## Simplifications

* The content of a search result is its question and the snapshots of its total and
  its rows in `SearchCache`; the content of a cache is a version of the tables in
  `AnalyticsCaches`, `ReportPage` and `HealthBadge`. What results and listings hold is in `UserQueries` and `Duplicates`.
* `Sscanf` reads a number at the start of the first piece of a query; which pieces have one is a
  constant (`ParsedID`). An absent and an empty query never reach the service (the handler answers 400).
* `Begin` fails only when the database is down, at once. Statements may fail at any time.
* A connection lost in an outage fails its statement; idle connections are discarded by the
  pool when handed out, as `database/sql` retries on a bad connection.
* A refresh may start at any time after the last one ended: ticks have no clock. Cached values
  never expire in the code either.
* Prewarm takes connections like a request with plain statements and logs its errors; it has no
  action of its own.
* In `QualityReport` a value is of a sort (missing, malformed, in the future, ...): which strings are
  malformed, and which dates old, is not computed. The distribution of the status is copied from
  a `GROUP BY` and left out.
* In `Duplicates` an email is compared through `lower`, a constant function; names and times of an IP group,
  and the similarity, which is always 1, are left out. A refresh does not fail there: how it may is in
  `AnalyticsCaches`.
* In `UserQueries` the similarity of a name is a rank, an email or phone matches or does not, and rows of the
  other tables refer to rows there are, as their foreign keys demand.
* A page of a search in `UserQueries` may be of any content there has been, as `SearchPromise` allows: within its age the table
  may change any number of times, so no content is left out for being too old. Failed requests end no walk and are left out.
* The examples of a column that has changed since the scan are any number up to the limit.
* In `Dashboard`, `/api/quality` and `/api/metrics` are one call (they are two in `ReportPage`). A search other than by `user_id` finds any
  number of rows up to a page beside any total. A blank profile field stands for anything that is not a number.
* In `ReportPage` the end of the process fails the calls it has accepted; those on their way are lost or reach the next one.

## Not modelled

* SQL beyond what the queries above compute: plans, indexes, `work_mem`. PostgreSQL and `database/sql` are
  external.
* Connection lifetimes and idle limits: they close connections that nobody holds.
* Routes, tracing, the columns of models that are only copied, migrations, Swagger documents, load test,
  deployment: no state of their own and no decision but a table's.
* Tabs and charts of the page: which section is visible and how a chart is drawn changes nothing
  that a handler reads.
* `sync.Map` growth: entries leave only when their own key is asked for again after the TTL; the code
  states no bound to check.

## Plan

Done: every component with state, and the queries. What is left, and why it is hard:

1. One specification of the page's quality tab: `ReportPage` refining the call of `Dashboard` would need the two
   answers of a report as one step, which they are only where they come from one refresh.
2. The cache in front of `UserQueries` by name: `SearchPromise` is cited there for what a page may be, and a composition would need
   one clock for the walk and the entries.

## Running

```
tlc -workers 2 -config SearchCache.cfg MCSearch.tla
tlc -workers 2 -config Duplicates.cfg MCDuplicates.tla
tlc -workers 2 -config AnalyticsCaches.cfg AnalyticsCaches.tla
tlapm SearchCacheProofs.tla
```

The other configurations belong to the module of the same name, but for
`SearchKeyCollision.cfg` (`MCSearch`), `AnalyticsCatchUp.cfg` and `AnalyticsOutage.cfg` (`AnalyticsCaches`), and `DashboardPagination.cfg`
(`Dashboard`). `SearchCache.cfg` takes some minutes, the others less.

`PROJECT.json` names the module of each configuration, the lines each definition
models and, for each property, a mutation of the code that breaks it.
