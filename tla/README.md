# A TLA+ model of the stock assistant backend

The repository is a FastAPI backend with an RQ worker: jobs collect prices and
news, an analysis job turns the news of a user's watchlist into summaries,
reports, signals and alerts, an LLM gateway guards every call that leaves for a
cloud model, and CRUD services keep portfolios, watchlists, theses, checklists
and decision logs. This directory models the parts whose correctness depends on
*who comes in between*: worker jobs and API requests that share a Postgres
database in which every repository method commits on its own, and a Redis that
is a queue, a call counter and a cache.

Source paths below are relative to `app/` of the repository.

## 1. Inventory

| Component | State it keeps | Operations | Talks to | What is hard about it |
|---|---|---|---|---|
| Price collection job (`worker/jobs/prices.py`, `domains/prices/ingestion_service.py`, `raw_prices/`) | `stock_price_bars` (unique key), `raw_prices` (unique hash), `job_runs` | collect a universe or given targets | price provider, job runs | look-up and commit are two steps; a lost race leaves the session unusable |
| Price series endpoint (`domains/prices/service.py`) | the same bars | `get_series` fetches *and stores* | price provider | a second writer of the same keys |
| News collection job (`worker/jobs/news.py`, `raw_news/`, `news/normalization_service.py`) | `raw_news_events` (unique url), `news_items` (no unique url) | query, save, normalize, mark | news adapter | three commits per entry; two spellings of a url |
| Watchlist analysis job (`worker/jobs/analysis.py`, `domains/analysis/service.py`, `signals/rules/`) | items, conflicts, reports, signals, alerts | one asset after the other | news adapter, LLM gateway, rule engine | a rollback that has nothing to undo; check-then-create of items and signals |
| LLM gateway (`adapters/llm/gateway.py`, `router.py`, `privacy.py`, `escalation.py`) | none of its own | `complete_json` | LLM clients, budget, cache | four decisions in a row on where a payload may go |
| Daily call budget (`adapters/llm/budget.py`) | a Redis counter per day | `consume` | Redis | shared by all processes, fails half way |
| LLM response cache (`adapters/llm/cache.py`) | Redis values | `build_key`, `lookup`, `store` | Redis | midnight, eviction, concurrent stores |
| LLM analysis job (`worker/jobs/llm_analysis.py`, `domains/llm_analysis/`) | `llm_analysis_runs`, `job_runs` | `run_analysis` | context builder, gateway | PENDING before a long call, two rows closed in two commits |
| Job runs (`domains/jobs/`) | `job_runs` | start, succeed, fail | every job | closed on the session that may just have failed |
| Scheduler and queue (`scheduler/`, `api/v1/endpoints/worker.py`) | Redis queue | cron, manual trigger | every job | the same function enqueued twice |
| Portfolios (`domains/portfolios/`) | portfolios, positions, signals | CRUD, summary, concentration check | prices, signals | check and create are two transactions; zero totals |
| Watchlists, observations, trends (`domains/watchlists/`, `domains/dashboard/`) | watchlists, items | CRUD, projections | signals, gateway | ownership, unique items |
| Theses (`domains/theses/`) | theses, conflicts | CRUD, conflict analysis | gateway | edited while an analysis uses it |
| Signals and alerts (`domains/signals/`, `domains/alerts/`, `domains/alert_candidates/`) | signals, alerts, candidates | list, read, dismiss, confirm | analysis | transitions in any order |
| Decision checklist and logs (`domains/decision_checklist/`, `domains/decision_logs/`) | one note per (user, asset); logs | save, stamp reviews | | read, decide, write columns |
| Users, assets (`domains/users/`, `domains/assets/`) | unique emails, unique symbols | register, create | | check-then-act at a unique key |
| Context builder, privacy projections, price features, briefings | none | read-only | | bounds, missing data, zero denominators |
| Adapters, core, schema | none | parsing, configuration, envelopes | external services | |

`PROJECT.json` lists every component with its status, and every hazard at its
line.

What makes each correct, in a sentence:

* *Price job*: bars that were written were archived first; a target that counts
  as stored is complete; one target's failure is its own; the run is closed.
* *News job*: an event is taken up by exactly one job and either becomes an
  item, is rejected, or is accounted for; one item per url.
* *Analysis job*: nothing is reported without its analyses, nothing counted as
  processed without its report, one signal per cause, and its user alerted.
* *Gateway*: nothing private leaves, nothing is called twice or unpaid, the
  cache only holds first cloud answers under their own key.
* *Budget*: a day pays for no more than the limit.
* *LLM analysis job*: the input is on record before anything is asked, and the
  two rows never contradict each other.
* *Portfolios*: what a check saw over the threshold is signalled, once unless
  checks overlap; the figures of a summary agree with each other and with what
  its readers make of them.
* *Records of a user*: an edit changes the columns it was sent and no others,
  a time stamped once is kept, lists and their totals agree, a trend ends with
  what the summary says.

## 2. Modules

| Module | Models | Checked by | Proved in |
|---|---|---|---|
| `JobRunLifecycle` | the promise of a row of `job_runs` | as a property of the price job | `PriceIngestionProofs`, `LLMAnalysisJobProofs`, `NewsCollectionProofs`, `WatchlistAnalysisProofs` (each for its job) |
| `CloudBudget` | the promise of the daily limit | as a property of the gateway | `LLMGatewayProofs`, `LLMAnalysisJobProofs` (for the analyses that share it) |
| `PriceIngestion` | price jobs and series requests | `MCPriceIngestion` | `PriceIngestionProofs` |
| `LLMGateway` | concurrent completions, budget, cache, clock | `MCLLMGateway` | `LLMGatewayProofs` |
| `LLMAnalysisJob` | analysis jobs composed with an instance of `LLMGateway` | `MCLLMAnalysisJob` | `LLMAnalysisJobProofs` |
| `NewsCollection` | news jobs | `MCNewsCollection` | `NewsCollectionProofs` |
| `WatchlistAnalysis` | analysis jobs | `MCWatchlistAnalysis` | `WatchlistAnalysisProofs` |
| `Fractions` | `Decimal` without its rounding | through `PortfolioValuation` | `PortfoliosProofs` |
| `PortfolioValuation` | values, weights, exposures, the change of a day, and what the readers of a summary derive | through `Portfolios` | `PortfoliosProofs`, `SumProofs` |
| `Portfolios` | requests on portfolios and positions, the concentration check, signals of others, a clock | `MCPortfolios` | `PortfoliosProofs` |
| `Session` | what a request of the API is: a session that reads rows, decides and flushes changed columns | through the six below | `UserRecordsProofs` |
| `DecisionChecklist` | the note on an asset and when it was decided | `MCUserRecords` | `UserRecordsProofs` |
| `DecisionLogs` | decision logs and their stamps | `MCUserRecords` | `UserRecordsProofs` |
| `Theses` | investment theses | `MCUserRecords` | `UserRecordsProofs` |
| `Inbox` | alerts, alert candidates, the dashboard's counts and trends | `MCUserRecords` | `UserRecordsProofs` |
| `Registration` | users, log-ins and assets | `MCUserRecords` | `UserRecordsProofs` |
| `Watchlists` | watchlists, items, signals, the summary, its trends, the status of an item | `MCUserRecords` | `UserRecordsProofs` |
| `UserRecords` | the six, one at a time | `MCUserRecords` | `UserRecordsProofs` |

Conventions. An actor is an execution of a job or a request; `pc` (or `place`)
says where it is, and an action is the code from one commit, network call or
Redis command to the next, since nothing another process can see happens in
between. `Spec` has no fairness; `FairSpec`, where a run checks liveness, adds weak
fairness of the actor's own steps. `Terminated` is the stutter of a system in which everybody is done,
so TLC's deadlock check stays on everywhere. An operator `Fault_X` is a
plausible mistake in the definition under it; no action uses it, and replacing
the definition by it is what a run's property has to notice.

### PriceIngestion

`prices` is `stock_price_bars` as a function of the unique key (target, time):
that it is a function *is* the unique constraint. A bar is reduced to the version of the values it
holds and who wrote it last. `raw` is `raw_prices`, a set because of its unique
hash. `plan` is what the open unit of work of `upsert_bars` will add and change,
and `session` is `rolled_back` after a flush that failed without `rollback()`.

`Fetch`, `FetchFails` and `FetchMeetsMissingValue` are the outcomes of
`get_daily_bars` (a missing value makes `_to_decimal` raise); `LookUpRaw`,
`SaveRaw` are `RawPriceService.save_raw`; `NothingToStore` the validator that
left no bar; `ReadRows` the look-ups of `upsert_bars`, `Commit` and
`CommitRaises` its commit with and without a lost race, `LookUpRawRaises` the
next statement on a session nobody rolled back; `Succeed`,
`SucceedAndFailRaise`, `ProviderNotImplemented` the ends of the job.
`AskSeries`/`RefuseSeries` are `get_series`, which shares `ReadRows`, `Commit`
and `CommitRaises`.

The reads of one upsert are one step. In the code they are one statement per
bar; a row that was absent when read is checked again at the commit, and a row
that was present cannot disappear, since nothing deletes bars, so the finer
interleaving only adds orders of commits that two upserts already show.

### LLMGateway

One module for `complete_json` with the router, the escalation policy, the
gate, the budget and the cache, since what can go wrong lies between them.
`config` is the gateway chosen at the start, `counter` the Redis counter per
day, `cache` the Redis values by day and prompt, `today` the UTC date. `grant`
is the day that paid for the call about to be made; `sent` and `spent` are
history variables. `Prompts` stands for payload, system prompt, model and
schema, which the key hashes together. `Begin` ends before the first shared
access; `LookUpHit/Miss`, `Consume/ConsumeFails`, `CallAnswers/CallRaises`,
`Store`, `Verify`, `VerifyAnswers/VerifyRaises` are one Redis command or one
call each. `Midnight` and `Expire` may happen between any two.

Abstractions: the expiry of the counter is left out, since its key names the
day; midnight between the computation of the counter's key and its INCR is
folded into the INCR; a call that raises counts as sent.

### LLMAnalysisJob

`G == INSTANCE LLMGateway WITH Calls <- Jobs`: a job *is* the caller of the
gateway, so it can be suspended, overtaken and killed at each of the gateway's
steps. Around it: `StartJob`, `PreparationFails` (unknown provider, unknown task
type, context that cannot be built), `CreateRun` (the PENDING row), `MarkRun`
(`mark_succeeded`/`mark_failed`) and `CloseJob`. The context bundle carries
`as_of`, the time it was built at, and its projection keeps it; so two analyses
never ask the same prompt, which is why a prompt is the job itself. It also
means that an analysis never profits from the response cache.

### NewsCollection

`raw` is `raw_news_events` as a function of its unique url; `items` is
`news_items`, a set with no key, at the *canonical* url. `SaveRaw`/`SkipKnown`
are `create_or_skip`, `EntryRefused` the schema that refuses an entry outside
every `try`, `LeaveFetched` the target that names no asset, `LookUpItem`,
`CreateItem`, `MarkNormalized`, `MarkFailed` are `normalize_event`. The order of
entries in a feed is left open.

### WatchlistAnalysis

A run takes each asset through archive, look-up and creation of items, summary,
thesis conflict, report, rule engine and alerts. `removed` holds the assets whose item
the owner took off the watchlist while the run had them still to do (`RemoveItem`, a
step of the environment). The items are read again once a commit or a rollback has
expired them (`Expired`): from then on the loop can only go on to an item that is
`Readable`, and an item that is not ends the run (`ItemGone`). Items are taken in any
order, so which one the loop meets first is open. `AssetFails` may happen at each
point in an asset's processing, and undoes nothing, because every repository on the way
committed. `ThesisCandidates` and `ImpactCandidates` are the two default rules;
`ActiveSignal`/`CreateSignal` the engine's check and creation. `exists_active`
and `create` of the engine are one step in the model: the item of a signal was
created by the run that asks, so no other run asks for the same pair, which is
what `items` carrying its creator says. The answer of the LLM is what the rules
look at: an impact and a verdict.

The collection job writes the same tables, but `fetch` and `fetch_query` of the
adapters answer with different urls, so the two are separate modules.

### Portfolios

`portfolios`, `positions` and `signals` are the tables, `pc`, `row` and `data`
what a request is about to write. A row carries who inserted it (`by`), which
stands for its id: a position that was removed and added again is another row,
and an update that read the first must not find the second. `AddPosition` looks
the asset up and `InsertPosition`/`InsertMeetsDuplicate` is the commit that
meets the unique key (portfolio, asset); `UpdatePosition` writes the columns it
was sent, `UpdateFails` is the update of a row that has gone or of a column sent
as an explicit null; `RefreshPosition`/`RefreshFails` is the row read again after
its commit, for the answer, when another request may have removed it already.
`removed` remembers what was, so that `ErrorsAreExplained` can say why a request broke off. `Check` reads the summary once, then takes the positions
over the threshold one after the other: `LookUpSignal`/`SkipSignalled` the
look-up of an active signal, `CreateSignal` the commit. `CreateOther` stands for
everybody else who creates a RISK_ALERT: with a news item (the analysis) or
without one (the API). `seen`, `since` and `alongside` are history variables: what a check saw, when it
began, and which other checks ran at the same time.

`PortfolioValuation` is arithmetic on what a summary reads: positions and
quotes. Quantities may be negative (no schema bounds them), so a total may be
zero or less. A missing quote counts as a price of zero, as in the code. A quote is
not negative and falls by no more than everything (`QuotesType`): the only provider
of quotes `adapters/factory.py` gives is the mock, whose prices are positive. Amounts
are integers, in whatever unit is small enough; scaling all of them changes no weight.
Fractions are not reduced: a sum here has few terms.
`Decimal` rounds to 28 digits; rounding is monotone, so comparisons that hold
of the exact fractions as "at most" hold of the rounded ones, and no property
needs a sum to be exact. `LargestWeight`, `IsConcentrated` and
`ConcentrationRisk` are the two other places that decide whether a portfolio is
concentrated: the projection of the briefing and the context of an LLM.

### Session and the records of a user

`Session` is the part of SQLAlchemy a request depends on. `table` holds rows,
`request[r]` what the request has read and was sent. The identity map keeps a
row as it was first read, and a flush writes the columns whose value differs
from the one read: `Flush(row, loaded, new)` leaves every other column as
somebody else may have changed it. This is what makes an update neither lost
entirely nor safe entirely, and every module below turns on it. `PagesShown` and
`CountRows` are the two statements of a list, a page and a total. `Crash` is the
end of a process or a statement the database refuses: nothing was committed.

* `DecisionChecklist`: `ReadNote` computes the first-decided time from the note
  it sees; `RereadNote` is the second look-up of the upsert, which only reads
  the row if the first look found none; `InsertNote`, `InsertMeetsNote` and
  `UpdateNote` are its ends.
* `DecisionLogs`: `LoadLog` decides the stamps, `UpdateLog` commits and answers.
  A log whose `risks` are null cannot be put into a response (see section 3).
* `Theses`, `Inbox`: load, change columns, commit. An alert is unique per user and
  cause; a candidate is not unique and may be read and confirmed in any order.
* `Registration`: look-up and insertion at a unique key. The loser of a race is a
  duplicate for an asset and an unhandled error for a user.
* `Watchlists`: the rows and four projections of them: `Summary`, `Trends`,
  `StatusOf`, `Highlighted`. They only read, so they are operators which the
  properties compare in every state. A row is created at the time its
  transaction began, so an item may appear in the past of the clock.

`UserRecords` composes them: no two of these components write a table in common,
so interleaving them would only multiply states; `part` picks one, and all
requests of a behaviour are of that component. What crosses components (an
analysis creating alerts and signals, a check creating signals) is in
`WatchlistAnalysis` and `Portfolios`, and appears here as `CreateAlert`,
`CreateCandidate` and `CreateSignal`.

## 3. Runs

| Run | Question | Bounds |
|---|---|---|
| `PriceConcurrent` | Do two jobs and a request, racing for the same keys and dying anywhere, keep the archive and the table in step, is a lost race the only cause of an open run or of a target failing for another's sake, and does an upsert leave all other bars alone? | 2 jobs, 1 request, 2 targets, 2 times, 2 versions, 4 frames |
| `PriceLiveness` | Does every started job end, also on a session that refuses every statement? | the same actors, 1 target |
| `PriceOpenRun` (violation) | Is the run of every ended job closed? | 2 jobs |
| `Gateway` | Privacy, one call, payment, cache contents, budget, termination | 2 calls, all 32 configurations, 7 requests covering each route, sensitivity and risk, limit 1, 2 days |
| `AnalysisJob` | Do the analysis row, the job row and the gateway agree, also over crashes, and is the input on record first? | 2 jobs, 3 gateways, limit 1, 2 days |
| `NewsConcurrent` | Is every event accounted for, does it only advance, does every job end? | 2 jobs, 2 targets (one names no asset), 3 urls of which two are one article, 3 feeds |
| `NewsDuplicates` (violation) | One item per url? | the same, both targets known |
| `AnalysisConcurrent` | Do two runs on the same items archive, report and alert in order, with one signal per cause, and does an asset that fails leave the next one and the run alone while the owner edits the watchlist? | 2 jobs, 2 workers, 2 assets that one article names |
| `AnalysisItemGone` (violation) | Does a run come to each asset and record each failure? | the same, 1 worker |
| `AnalysisUnsummarized` (violation) | Is every item of a processed asset summarized? | as above |
| `Portfolios` | Is what a check saw signalled, and only once? Which errors reach a client? Do the figures of a summary agree? | 3 requests, 2 portfolios, 2 assets of which one has no sector, 1 owner, quantities -1 and 2, 2 markets of quotes, cash 1 and a threshold of 2/5, clock to 1 |
| `UserRecords` | What does a stale session write, what does a lost race leave, do lists, summaries and trends agree? | 3 requests, clock to 2 with days of 2 units, 1 note with 2 required keys, 2 logs, 2 theses, 2 rows of the inbox, 1 address, 1 symbol, 2 lists, 2 assets, pages 1 and 2 of one row, highlights limited to 1 |

Why these bounds are enough to be interesting: each race here is between two
actors on one key, and a third adds no new pair; a second target or asset is
what a failure may spill over to, and in the analysis two assets of one article are what
makes a run find the other's item, or its own of a moment ago (a second article would be one more
turn of the loop over the items, which the proofs take for any feed); two times and two versions give an upsert a
new row, a changed row and an unchanged one; a limit of one makes the second
caller the one that is refused, and two days let each step of a call be
overtaken by midnight once; two spellings of one url are what the canonical form
is about. In `UserRecords` a race has two sides, and a third request is
what changes the row before one of them reads it or while a list is between its
page and its total; a clock of two units in a day, and one unit of the next, puts
a signal's end before, at and after a midnight; a limit of one makes an item be left out. In
`Portfolios` the third request is the one that adds, changes or removes a
position, or raises a signal, between the steps of two checks; a short position
and a market without a quote make totals zero and negative. Where the actors are interchangeable and no temporal property needs
them apart, the cfg names a symmetry.

Every property of a passing run is paired in `PROJECT.json` with a mutation of
the code's definition that breaks it.

### What the violations show

1. **`PriceOpenRun`**. `PriceBarRepository.upsert_bars` commits without rolling
   back an `IntegrityError`. `_collect_target` swallows the error, the session
   then refuses every statement, `succeed()` raises, and so does the `fail()` of
   the handler: the job ends and its row stays `running`, against
   `docs/knowledge/product-workflow.md`, lines 154-155. `OpenRunsLostARace` and
   `PoisonedTargetsLostARace`, checked and proved, say this is the *only* way, and
   `OpenRunsNeedOverlap` that it takes two upserts of one target at a time.
2. **`AnalysisItemGone`**. The loop over the watchlist reads `item.asset_id` outside
   its `try` (`domains/analysis/service.py`, line 72). The items were loaded before the
   first asset, and each commit or rollback expires them, since `db/session.py` leaves
   `expire_on_commit` on. If the owner removed one in the meantime, reading it again
   raises `ObjectDeletedError`, and the job closes its run as `failed`: assets that were
   still due are left out, and the failures collected so far are not recorded, against
   `docs/designs/019-watchlist-analysis-flow.md`, line 37. `FailuresAreIsolated`, checked
   and proved, says that this is the only way, and `UndisturbedRunsLeaveNothing` that
   nothing is left out as long as no item is removed under a run.
3. **`NewsDuplicates`**. `exists_by_url` and `create` are two transactions and
   `news_items.url` is not unique, against `docs/designs/069-news-normalizer.md`,
   line 132. `DuplicatesNeedTwoJobs` says a single job never does it,
   `DuplicatesNeedARace` that two must be between these statements at once.
4. **`AnalysisUnsummarized`**. An item whose summary failed is known to all later
   runs, which skip it and count the asset as processed, against
   `docs/knowledge/product-workflow.md`, line 60. `MissingSummariesHaveACause`, proved,
   says which items these are.

### What the passing runs show that a reader might not expect

* `DecidedFollowsTheNote` has an exception, and needs it: a save that decided on a
  note another request has replaced since may leave a complete note undecided,
  an incomplete one decided, or give a decided note another time. So with
  `StampsAreKept`: two reviews that both read the log unstamped both stamp it,
  and the later one stays; but an update that read it unstamped and stamps nothing
  leaves the other's stamp alone. The properties say that nothing else breaks these
  promises. Its clause on the time is about the note as it stands in the table, which
  the proof asked for: two partial flushes that overtake each other can leave a note
  complete and undecided, and the next clean save then decides it *now*. It takes
  four requests, one more than the run has, and the earlier wording, about the note as
  complete, was false of it.
* `OtherColumnsSurvive`: since a flush writes only changed columns, an edit does not
  bring a deactivated thesis back, nor a review undo a change of the summary; two
  changes of the same column leave the later one.
* `DuplicatesNeedOverlap`: there is no unique key for signals, and two checks at
  the same time do create the same signal twice. Checks one after the other
  never do.
* `TotalsCoverPages` holds for lists whose rows do not go away; a list filtered by
  status, or one of items that are removed, may count fewer rows than it showed.

### Fairness

`WF` of an actor's own steps: a worker that is alive executes its job's next
statement, and a call of the provider returns or times out (every client is
built with a timeout). Nothing makes a job be *started*, nothing makes a worker
die or a midnight come, and a `crashed` job stays crashed: RQ's work horse does
not run a job again without a retry policy, and none is configured. Liveness
says a started job ends unless its process dies.

## 4. Proofs

All constants are arbitrary: any number of jobs, workers, requests, targets,
bars, callers, days, any limit; the assumptions are those the modules name (the
marker constants are fresh, actors are disjoint, the set of callers is finite).

**PriceIngestion** (`PriceIngestionProofs`). The inductive invariant `IInv` is
the conjunction of the type invariant and
* `RunMatchesPlace`: the status of a run is determined by where its job is, up
  to crashes and lost races;
* `BrokenSessionLostRace`, `PoisonNeedsBrokenSession`: a session is only broken
  by a target that lost a race, and a target is only refused on a broken session;
* `HandledIsTodo`: a target between fetch and commit is still to do, so nobody
  has counted it;
* `ArchivedBeforeUpsert`: a job that reached the upsert finds its payload in `raw`;
* `PlanIsSound`: an open plan covers exactly the storable rows that were absent
  or different, and a row it leaves alone is there.

None of the checked properties is inductive without them: `JobBarsAreArchived`
needs the payload to be archived at the *commit*, two steps after it was saved,
and `StoredTargetsAreComplete` needs the rows a plan does not mention. Proved:
`TypeCorrect`, `BarsAreArchived`, `StoredIsComplete`,
`OpenRunsHaveACause`, `PoisonHasACause`, `NoRaceNoOpenRun` (as long as no flush
loses its race, every ended job has closed its run: what is missing from the
documented promise is precisely the race) and `RunsRefineLifecycle`.

And of the races themselves: `NoBarIsLost` proves the action property `BarsAreOnlyUpserted`: a
bar never disappears and changes only by the commit of an upsert of its target, to what its own answer holds.
`OpenRunsNeedOverlap` goes back to the cause of a lost race. A key is taken behind an
open plan only by another upsert of the same target, so while these do not overlap
(`UpsertsAlone`) `PlansAreFresh` is inductive, nobody loses (`NobodyLost`), and every
ended job has closed its run. `OneWriterClosesItsRuns` says where the code is in that
case today: one worker, and no request that stores.

**LLMGateway** (`LLMGatewayProofs`). The type invariant (with what a working
call was admitted with, and what `store` holds), `OnTheWay` (what a call has
paid and sent is determined by where it is) and `ChargesAreCovered`: on each
day, the calls charged plus the grants still held are at most the counter, and
at most the limit. The second half is the heart of `GatewayRefinesBudget`: the
counter may run past the limit, and a grant may outlive its day, but the number
of grants handed out for a day may not, which takes the cardinality lemmas of
the library. `BooksInv` joins them with `BooksAreKept`: a call that is next to
use the cloud holds a grant, an answer served by the cache was there under the
very key, and an override of the local route is recorded from the admission on.
The cache's contents have to be part of it, because a hit is only as good as
what some other call stored, perhaps before midnight. Proved: `TypeCorrect`,
`NothingPrivateLeaves`, `AtMostOneCloudCall`, `GatewayRefinesBudget`,
`CloudCallsArePaid`, `HitsCostNothing`, `CacheIsSound`, `EscalationsAreReported`.

Three more are about what calls do to each other through Redis. `CompletionsAreTheirs`:
a completion is answered on its own prompt, as asked on the date it began, whoever
stored the answer and whichever midnight came in between. `HitsWerePaidFor`: a hit is
never free of charge altogether, some other call of that prompt and date was charged
for it; its invariant `AnswersArePaid` carries the payer from the call through the store to
the hit. `SharedStateOnlyGrows`, an action property: a counter goes up today and by
one, a day is charged only against a grant of that day, and an entry of the cache either expires or
becomes the answer of a call that stores under that key. That it goes up *today* is true of the
model, in which the key of the counter is computed with the INCR (section 2); a caller
that midnight overtakes between the two raises the counter of the day before.

**LLMAnalysisJob** (`LLMAnalysisJobProofs`). `RowsMatchPlace`: the two rows a
job has written are determined by where it is, except that a crash leaves the
analysis as it was. `NothingAsked`: the gateway has sent and charged nothing for
a job that has no analysis row; its lemma `GatewayChargesOne` goes through every
action of the instanced gateway, for one job's step must charge no other job.
Proved: `JobsAgree`, `NoUnexplainedPending`, `InputComesFirst`,
`JobRefinesLifecycle`.

What the gateway promises its callers is proved to reach the job. `JobRefinesGateway`
says that a behaviour of the job is one of the gateway (a step of the job outside
it leaves the gateway's variables alone, and `CreateRun` is the gateway's `Begin`),
under the job's assumptions on its constants, which are those of the gateway for
its instance. So the gateway's theorems are cited, not repeated: `GatewayGuardsAnalyses`,
`AnalysesRespectBudget`, and the gateway's half of `TypeCorrect`.

**NewsCollection** (`NewsCollectionProofs`). `FetchedIsAccountedFor` and
`DuplicatesNeedTwoJobs` are not inductive: an event has three owners on its way. `IInv` adds
* `WorkIsKnown`: a job past its query has a target, one that holds an event an entry;
* `HeldIsFetched`: the event a job holds is there, of its target and still fetched,
  so marking it cannot set it back;
* `HeldByOne`: nobody else holds it. This is where the unique key on the url
  enters: only the job whose insert went through goes on to normalize;
* `CreatesItsFirst`: a job about to create an item has created none at that
  canonical url, which its own look-up established and no other job can undo;
* `RunsMatchPlace`: the status of a run is determined by where its job is.

Proved: `TypeCorrect`, `NoEventIsLost`, `OneJobMakesNoDuplicates`, `NoEventGoesBack` (the
action property), `RunsFollowLifecycle`, and `EndedRunsAreClosed`, which for this job,
unlike the price job, is a theorem without exceptions.

`DuplicatesNeedARace` says what the two jobs of a duplicate did: as long as no two jobs
are between the look-up and the insert of one canonical url (`CreatesAlone`), no url
gets two items, however many jobs run beside each other otherwise. That is what a
unique key, or a lock over these two statements, would have to establish.
`OneWorkerMakesNoDuplicates` derives it for a single worker, where no two jobs are at
work at a time.

**WatchlistAnalysis** (`WatchlistAnalysisProofs`). `StagesAreComplete` speaks of what is
finished; `IInv` says what is on the way to it:
* `WalkIsKnown`, `ItemsAreOwn`: a run only analyses items it created itself, for
  the asset it is at; whence `OneAnalystPerItem`, and why `OneSignalPerCause` holds although
  the rule engine checks and creates in two statements;
* `FeedIsArchived`: what a run has still to look up is in the archive;
* `ItemsAreOnTheWay`: an item of an asset that is not concluded waits, is being
  analysed, or has its report, and its run is at that asset or dead;
* `SignalsAreQueued`: until the run leaves an item, a signal of it is among those
  to announce or has its alert;
* `OrderInv`: reports and conflicts are of items with a summary, signals of items
  with a report, alerts of signals, and items of watched assets;
* `RunsMatchPlace`: a run that succeeded has come to every asset and recorded each
  failure; one that failed tried nothing, or met an expired item that was removed.

Proved: `TypeCorrect`, `NoStageIsSkipped`, `StagesComeInOrder`, `NoSignalTwice`,
`OneAnalystPerItem`, `FailuresStayIsolated`, `UndisturbedRunsLeaveNothing`,
`RunsFollowLifecycle`, and `MissingSummariesHaveACause`: once a run has left an asset, what `AnalysisUnsummarized`
shows has two causes only: the asset failed in the run that created the item, or that run died.

**Portfolios** (`PortfoliosProofs`). `IInv` has three parts. `TypeInv`, with the table
of positions finite, which the sums need. `PositionsInv`: a request about to write
or to read again has a row in its hands (`RowsInHand`), and that row is in the table or
was removed (`RowsAreThere`); it gives `ErrorsAreExplained`. `ChecksInv`: what a check saw
over the threshold is still to do or signalled (`SeenIsHandled`), a signal of a check
does not expire and its check has begun (`ChecksMadeThem`), of two checks under way
the later met the earlier (`ChecksMeet`), and if a check is about to signal an asset
that another check has signalled meanwhile, the two met (`RepeatsOverlap`). The last is the
race itself, and `DuplicatesNeedOverlap` is what it leaves behind.

`SummariesAgree` is about arithmetic, for any finite set of positions: a
finite set of weights has a largest one, so the three readers decide alike whatever the
signs; without short positions the sector of a name weighs at least as much
(monotone sums), the names over the threshold do not weigh more than everything, and the
change of the day is a mean of the assets' changes, weighted with what they were worth,
which is carried through the sum position by position (`Within`). Multiplications are kept
apart by a handful of lemmas (`Cancel` and its kin), as the solver does not find them.

What happens to a position has its own invariant, `InsertedOnce` (a request inserts one
row, with an id of its own). With it `RemovalIsFinal`: neither the update that had read a
removed row, nor the request that inserts its asset anew, brings it back; and
`NoPositionIsLost`, an action property: a row changes only in the columns an update of
that row was sent, so that of two updates of different columns both survive, goes only
by its removal, and comes only where its portfolio holds no such asset.
`LoneChecksSignalOnce` is the other side of `DuplicatesNeedOverlap`: as long as checks run one at
a time (`ChecksAlone`), no asset is signalled twice (`NobodyMet`).

Proved: `TypeCorrect`, `NothingSeenIsDropped`, `RepeatsNeedOverlap`, `ErrorsHaveACause`,
`SummariesAgree`, `RemovalIsFinal`, `NoPositionIsLost`, `LoneChecksSignalOnce`. Assumed of the
constants: `ClockType`, `AmountsAreIntegers`, `TermsType`
(the bounds of `PortfolioCreate`), `QuotesType` (see section 2), `BooksType` (which says too that the
rows the table starts with were inserted before all requests), `AbsentIsNothing`.

**UserRecords** (`UserRecordsProofs`). `IInv` is `SessionInv` (the clock, and who has a
request) and, for the component whose turn it is, one invariant of its own:
* `ChecklistInv`: `SavesAreDecided`, what a save is about to write was decided on the
  note it read, and what it loaded is that note or one inserted since;
* `LogsInv`, `ThesesInv`, `InboxInv`: `UpdatesAreSent`, `CommitsAreSent`, `MarksAreSent`. A request
  about to commit has loaded a row that is still there, and what it will write
  differs from it in nothing but the columns it was sent (and, for a log, a stamp the
  loaded row did not have). Since a flush writes differences only, this is all that
  `OtherColumnsSurvive` and `StampsAreKept` need;
* `LogPagesAreCovered`, `BoxPagesAreCovered`, `AssetPagesAreCovered`, `WatchPagesAreCovered`: a list
  between its two statements has shown no more than the count would say now, and
  goes on so because rows of such a list never leave it;
* `InboxInv`, `WatchlistsInv`: `NothingIsFromTomorrow`, `StockIsSound`, `InsertsAreOfToday`. Nothing was
  created after now, and an asset is on a list once; so the last day of a
  trend counts what the summary counts, and every row falls into one of the days.

`StepsKeep` shows of each component that its steps keep its invariant and satisfy its
action properties at once. Proved: `TypeCorrect`, `NotesStayDecided`,
`NothingIsStampedOver`, `NoUpdateIsUndone`, `NoPageBeyondItsTotal`, `SummaryIsLastDay`, and
`NoRecordIsLost`: no request, whatever it races with, loses a record or hands it to another
user, brings a deactivated thesis back, touches the row of the first registration of an
address, or changes more of a row of the inbox than its status. Assumed: the
markers are no values (`NullIsNothing`, `KeepIsNothing`, `AbsentIsNothing`), ids are finitely many and of
different kinds (`IdsAreFinite`, `IdsAreApart`), and the rows and patches given are
typed and not from the future (`BooksAreTyped`, `PatchesAreTyped`).

**Sums** (`SumProofs`). The library folds over a set by a recursive function on its
subsets, and its induction theorems take the property as an operator, which the
provers cannot instantiate. Here a property is a *set* of subsets: if it is not all of
them, there is a minimal subset outside (`MinimalSubset`, from the well-founded order
on finite subsets), and `SubsetInduction` follows. From it: a fold exists and is typed
(`FoldsExist`, `FoldIsTyped`), a property that the steps keep holds of the
result (`FoldInduction`), and a sum over a finite set may take any element out
(`SumsTakeAny`), is monotone, and counts what falls into one class or another (`SumOfClasses`).

**Model-checked only.** Every invariant and every action property a passing run checks
is stated by a theorem. Left to TLC is what the prover cannot do:
* `StartedJobsEnd` of both job modules and `CompletionsEnd`: liveness under fairness, which needs
  ENABLED;
* the properties of the four violation runs, which are false of `Spec`. What is true of
  them is proved: `OpenRunsHaveACause`, `NoRaceNoOpenRun`, `OpenRunsNeedOverlap` and
  `OneWriterClosesItsRuns`; `OneJobMakesNoDuplicates`, `DuplicatesNeedARace` and
  `OneWorkerMakesNoDuplicates`; `FailuresStayIsolated` and `UndisturbedRunsLeaveNothing`;
  `MissingSummariesHaveACause`.

Five theorems have a hypothesis on behaviours (`NoRaceNoOpenRun`, `OpenRunsNeedOverlap`,
`DuplicatesNeedARace`, `UndisturbedRunsLeaveNothing`, `LoneChecksSignalOnce`), two one on the constants
(`OneWriterClosesItsRuns`, `OneWorkerMakesNoDuplicates`): they say under which schedules a promise
that fails in general holds.

`EscalationIsVisible` is proved (`EscalationsAreReported`) without a run of its own.

## 5. Plan

Done, in this order: `JobRunLifecycle`, `PriceIngestion`, `CloudBudget`,
`LLMGateway`, `NewsCollection`, `WatchlistAnalysis`, `LLMAnalysisJob` and the proofs
of the price job, the gateway and the LLM analysis; `Session`, the six components of
`UserRecords`, `Fractions`, `PortfolioValuation`, `Portfolios`; then the proofs of
`NewsCollection`, `WatchlistAnalysis`, `Portfolios` and `UserRecords`, and that the LLM
analysis implements the gateway.

After that, what two actors do to each other: the theorems on races (`OpenRunsNeedOverlap`,
`DuplicatesNeedARace`, `LoneChecksSignalOnce` and the two for one worker), and the action properties
on shared tables (`NoBarIsLost`, `SharedStateOnlyGrows`, `NoPositionIsLost`, `NoRecordIsLost`), with
`CompletionsAreTheirs`, `HitsWerePaidFor` and `RemovalIsFinal`.

What is left:

1. The queue between the scheduler and the workers, as an abstract specification that
   each `StartJob` implements; the collection of a context bundle.
2. `SessionInv` and the page invariants are shown five times with small differences; a
   lemma of `Session` about a growing list would serve them all.

## 6. Not modelled

* Parsing and formatting in the adapters (`yfinance`, RSS, disclosure, mock):
  what they return is an input of the modules.
* Tokens and password hashing, middleware, the response envelope, logging,
  configuration: no state another actor shares. A token that names a user is an
  input of `Registration`.
* Projections that copy fields of one schema into another (privacy snapshots,
  research summary, briefings): as callers of the gateway they are among the
  `Calls` of `LLMGateway`; what the portfolio briefing recomputes is in
  `PortfolioValuation`.
* The context builder, but for the concentration it derives: it collects rows of
  other components into one record. It reads the portfolio once per symbol, once
  for its status and once for its summary, and takes a failure for an empty
  portfolio, so these may contradict each other; nothing promises otherwise.
* Price features: arithmetic on a window of bars without state.
* Quotes, wording and sort orders in lists: which rows of a list a page shows is
  left open.
* Briefings of the scheduler: the cron table and the queue names are
  configuration; that the same job may run twice at a time is what the job
  modules start from.
* Database failures other than the constraint violations the code meets: a lost
  connection ends a job in the way `Crash` does, except that the handler may
  still run.

Some behaviours were met while reading and are stated here without a run of
their own:

* A PATCH of a decision log with `cognitive_risks: null` stores a JSON null, which
  the NOT NULL column accepts and no response schema does: from then on every
  answer that shows the log is an error (`DecisionLogs` models it: `Readable`).
  A null for the decision type breaks off at the commit instead.
* The `IntegrityError` of two registrations of one address, and of two first saves
  of one checklist note, is not handled and answered 500.
* `ContextBuilder.build_recent_decision_context` takes the user's five latest logs of
  any ticker and keeps those of the symbol, so five decisions on other assets
  hide all of them; `docs/designs/072-context-builder.md`, line 76, asks for the
  latest logs of the symbol.
* `to_concentration_snapshot` (`adapters/llm/privacy.py`, line 202), which nothing
  calls today, decides on a concentration of its own: by average buy prices instead of
  quotes and without short positions, so it may contradict the three readers above.
* In RSS mode the analysis job passes no feed urls and therefore finds no news.
* With `MARKET_PROVIDER=yfinance` the provider of quotes raises
  `NotImplementedError` (`adapters/factory.py`), and with it every summary of a
  portfolio with positions.
* A value that is not empty but does not validate is cached by the gateway until
  midnight, which the code intends.
