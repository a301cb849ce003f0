# pf-rates in TLA+

pf-rates is a FastAPI service that keeps Chilean exchange rates (USD, EUR, UF,
UTM), economic indices (IPC) and income tax brackets in PostgreSQL, fills gaps
from public providers, and exports everything as a CSV to a Google Drive
folder. It runs on Cloud Run, on any number of instances that come and go, and
has no queue or lock service: all coordination goes through rows of the
database and files of the folder. These modules model that coordination and
the resolution of values. Paths below are relative to `src/src/rates/`.

## Inventory

| Component | State | Operations | What makes it correct |
|---|---|---|---|
| Export job runner (`application/use_cases/run_export_job.py`, `export_combined_financial_data_csv.py`, `interfaces/api/routes/_export_job_trigger.py`) | position in the loop, items counted, database session | trigger, poll, report progress, resolve, upload, record the outcome | every run reaches its row; a timely stop never publishes; success means complete and published |
| Export job table (`infrastructure/db/repositories/export_job_repository.py`) | one row per job: status, stop flag, progress, result | create, `mark_*`, `update_progress`, `request_cancel`, `is_cancel_requested`, lists | terminal rows never change; a stop is recorded once, on an active row |
| Stop endpoints (`interfaces/api/routes/export_jobs.py`) | the ids a request still has to stop | stop one, stop all | what is reported as stopping carries the flag |
| Drive folder (`infrastructure/gdrive/drive_file_export.py`) | files, by id, with name and trash flag | search, update, create | one current, complete CSV per name |
| Rate table and daily sync (`application/use_cases/sync_recent_market_data.py`, `infrastructure/db/repositories/market_data_repository.py`) | value and `created_at` per code and date, open transactions | collect missing dates, fetch, upsert | preliminary values are fetched again, final ones stay |
| Single lookup (`get_exchange_rate_value.py`) | none but the table | the five steps: stored, provider, stored prior, provider prior, not found | genuine rows, no invented future, bounded carry-forward |
| Batch lookup and export resolution (`_bulk_rate_resolution_shared.py`, `export_exchange_rates_csv.py`) | a map of the request's span | map, prior in the map, then the five steps | the same answers as the single lookup |
| Provider chain (`infrastructure/rate_providers/`) | the years read, or failed, in a request | first match, fill up in order | fetching together agrees with fetching alone |
| Monthly series and tax brackets (`sync_recent_market_data.py`, `refresh_income_tax_brackets.py`, `reference_data_repository.py`) | stored months per series, rows of brackets per month | collect, fetch, upsert, yearly page, lookup of a taxable base | no published month of a window stays missing; brackets leave no gap under the last bound that was read |
| Manual refresh (`refresh_rates.py`) | none but the table | provider requests and manual entries in one command | all or nothing, correctly stamped |
| Startup sync (`interfaces/api/main.py`) | a task of the lifespan | one sync, cancelled at shutdown | a sync that dies leaves work for the next, no damage |
| Connection pool and session swapper (`infrastructure/db/session.py`, `interfaces/api/dependencies.py`) | five connections, the session of each job | check out, check in, replace | nobody waits for ever; nothing is cut off or leaked |
| Domain values, HTTP shell | none | validation, formatting | |

Components meet in four places. Requests, background jobs and syncs of all
instances share the tables, one statement or one transaction at a time.
Exports share the folder, one Drive request at a time. And lookups, batches,
exports and syncs share the provider chain, whose answers depend on the hour.
Last, all tasks of one instance share its five database connections.

What is hard: stops and outcomes written by different processes; crashes that
nobody notices; polls that must fall often enough; search-then-create on Drive;
values that are preliminary until a midnight which can fall between any two
statements; a session that is replaced under a running job; several lookup orders that must agree; and syncs that skip what
they believe to be stored for good. The list with line numbers is under
`hazards` in `PROJECT.json`.

## Modules

| Module | Models | Used by |
|---|---|---|
| `JobLifecycle` | the abstract promise of one export job: status, stop, publication | `ExportJobs` (refinement) |
| `JobTable` | `RAT_EXPORT_JOB` and its statements, as operators on a row | `ExportJobs` |
| `DriveFolder` | the folder for one file name; also a specification of its own | `ExportJobs` |
| `ExportJobs` | background jobs, stop requests, faults; composes the two above | `MCExportJobs` |
| `RateStore` | daily rates with `created_at` and transactions, midnight between any two statements | `MCRateStore` |
| `RateLookup` | which value a date gets: single, batch, chain, outages | `MCRateLookup` |
| `MonthlySync` | monthly series of a sync, bracket rows of syncs and refreshes, the bracket lookup | `MCMonthlySync` |
| `ConnectionPool` | the connections of one instance: triggers, jobs with their swapper, other requests | |
| `DriveFolderProofs`, `ExportJobsProofs`, `ConnectionPoolProofs`, `RateStoreProofs`, `RateLookupProofs`, `MonthlySyncProofs`, `MonthlyCoverageProofs` | theorems | |
| `NumberLemmas` | least and greatest elements of sets of numbers, division with remainder | the proofs |

The definitions carry the names of the code where there is one; `PROJECT.json`
maps each to its lines.

**ExportJobs.** `pc[j]` is the next statement of the job: `refresh`, `begin`,
`cancelEarly`, `start`, `build`, the loop (`firstReport`, `series`, `item`,
`poll`, `report`, `resolve`), `finalPoll`, `finalReport`, `find`, `store`,
`succeed`, and the handlers `failing` and `cancelling`. One action is one
statement on shared state with the local code up to the next one; `Effect` is
what the statement does to the row. `item` is `_checkpoint`: items are counted
over all series and polled on every `Interval`-th (50 in the code), while each
series begins with a poll of its own. The session refresh of a checkpoint
changes nothing in the tables and is modelled in `ConnectionPool`. `WorkFails` is any exception that
leaves the database session usable (configuration, provider, value, Drive, with
the upload stored or not). `DatabaseError` strikes any statement, with its
effect committed or not and the transaction aborted or not; inside the `try`
the handler takes over, outside it the exception leaves the task. `FailRaises`
is `mark_failed` in an aborted transaction. `Crash` ends the process of a task.
A stop request is `StopAll` or `StopOne`, then for each id `Flag` (the
conditional UPDATE and its commit) and `ReadBack` (the SELECT after it).
`flagAt`, `told` and `disturbed` are history for the properties.

**RateStore.** Time is counted in Chilean days and a value is the day on which
it was fetched, or `ByHand`. `tx[w]` is the day on which the open transaction of
a worker began, which is what PostgreSQL's `now()` gives `created_at`; it is
opened by the first statement of a session and closed by a commit. So a row is
the pair `fetched`, `stamp`; the code sees the stamp only (`Unconfirmed`), the
properties see both. `early` marks a row of the first transaction of a session,
and `missed[s]` what was written since sync `s` looked: both are history. A
sync takes the server's date, which is Chile's or the day after it. A request
resolves several values one after the other with one provider chain, whose
series (`cache`) it keeps over midnight; a refresh fetches before its first
statement, and a manual entry of the same command wins over what it fetched.
`_collect_missing_exchange_rates` runs two queries per code; they are one action
because a row that changes between them is at worst fetched once more.

**RateLookup.** Requests are atomic, a behaviour is about one code (codes never
touch each other), and a value is named by the date it was published for. The
chain has the three providers in its order; `Holds` gives the dates each one
ever publishes, `PageOf` what it is asked for to have a date, and `up` the pages
that can be had now. mindicador.cl and the SII are asked for a year once per
request and remember a failure as an empty year, so the dates of a year share
its fate in a request; the Banco Central is asked for a date, and each may fail
by itself. `Single` is the five steps, `Batch` the map, the prior date of the map
and then `Single`, in a loop over the dates of the request; the export of a
window is a batch in ascending order. A sync asks the Banco Central for the span
of its dates in one query, which is the case that all of them fail.

**MonthlySync.** The monthly part of a sync series by series, then year by year
for the brackets, next to `POST /income-tax-brackets/refresh`. Months are
published in order. `Tables[m]` are the versions of month `m`'s table on the
page, any sequences of rows: a row gives an upper amount or none (`Open`), in
any order, and can be read or not. `Built` is
`_build_monthly_income_tax_brackets`: nothing without a positive first amount;
rows that cannot be read are passed over, the last one as well (`Readable`); a
row begins where the last readable row before it ended that gave an amount
(`Lower`). So a row without an amount in the middle has no upper bound, and the
row after it has the same lower bound. That is the key of the table, and
PostgreSQL refuses a statement with two rows of one key: a page with such a
table is upserted as a whole or not at all (`Clashes`, `Upsertable`), in which
case a sync leaves with an error (`WriteYear`) and a refresh fails
(`RefreshWrite`). A year of which no month gives brackets is an empty page
(`Page`). `bracket[m]` are the rows of a month, keyed by their lower bound as in
the table, so that an upsert of a corrected page replaces some and leaves others.
`Matching` is the query behind `GET /income-tax-brackets`. `due` and `clean` are
history: what was published for the window when the sync began, and whether
every answer was complete.

**ConnectionPool.** A session checks a connection out with its first statement
(`Acquire`) and gives it back with a commit or when it is closed, so a session
that has only read keeps its connection while providers are asked. `pc[e]` goes
through the trigger (`insert`, `reload`, `respond`) and the statements of the
background task; `swap` is `refresh_if_due`, which binds the three repositories
to a new session and closes the old one. Whether the request session is closed
before the task starts (FastAPI up to 0.117) or after it has ended (from 0.118)
is `lateExit`; `pyproject.toml` admits both. Other requests run statements and
waits in any order on one session.

## Runs

| Run | Question | Result |
|---|---|---|
| `exports_one` | what one job promises to its client and the folder, under stops and faults; it implements `JobLifecycle`; it ends | holds |
| `exports_pair` | two jobs, a direct export and trashed files on one folder | holds |
| `exports_orphan` | does every error of a run reach its row? | violated |
| `folder_duplicate` | one file per name, from the first export on? | violated |
| `rates` | which rows may be taken for final, what a sync may overwrite, how far an answer is carried; past rows end up confirmed | holds |
| `rates_midnight` | is every row that is not fetched again final? | violated |
| `lookup` | what rows, answers and batches may be, and that answers never go back | holds |
| `lookup_batch` | does a batch give the answers of the single requests? | violated |
| `lookup_monthly` | is an answered date stored where it is looked up? | violated |
| `monthly` | do syncs close the gaps of the monthly series, and do brackets leave no gap, whatever a page lacks? | holds |
| `monthly_brackets` | do syncs close the gaps of brackets? | violated |
| `pool` | who can wait for whom, what the swapper cuts off or leaks, whether jobs end | holds |

### What the violated runs show

* `exports_orphan`: `mark_running` and `mark_succeeded` are outside the `try`,
  and `mark_failed` uses the session of the statement that failed. One database
  error can leave a finished task's row at `running`, against the docstring of
  `RunExportJob`. `OrphanOnlyAfterFault` holds beside it: nothing but database
  errors and crashes does this. Moving `mark_succeeded` into the `try` would not
  do: `OutcomesAreFinal` would fail, since a `mark_succeeded` whose answer is lost
  would be followed by `mark_failed`.
* `folder_duplicate`: two first exports that both search before either creates
  leave two files. Once the file exists, and nobody trashes it, the promise
  holds (`SeededFolderStaysSingle`, proved). It also holds for exports that keep
  apart, none searching between the search and the upload of another
  (`ApartStaysSingle`, proved).
* `rates_midnight`: from the second code of a sync on, the fetch lies outside
  any transaction. Fetched before midnight and stamped after it, a preliminary
  value passes for final. A later lookup of the same request that answers after
  midnight from a provider's cached series is another way to this, and a
  refresh, which fetches before its first statement, is a third.
  `FirstTransactionIsHonest` says that these are all: a row of the first
  transaction of a sync or a lookup session is never stamped too late.
* `lookup_batch`: the batch looks for a prior stored date in the span of the
  request before it asks the providers for the date itself.
  `BatchMatchesUnlessUnstored` says where the two do agree: dates that are
  stored, and dates that no provider has. `BatchAnswersSameDates` says that it is
  only the value that may differ: where one finds nothing, so does the other.
* `lookup_monthly`: the SII answers a UTM request for any day of the month; the
  value is stored under that day, but looked up under the first.
* `monthly_brackets`: a year with one stored bracket is never looked at again
  by a sync, though the page of the year grows every month. `NewYearsArrive` is
  what remains true.

Two more divergences were read rather than run. `docs/api.md:848-853` says that
indices are synced for a fixed window of twelve months, whereas
`_build_monthly_dates` derives the months from `lookback_days`. And
`interfaces/api/dependencies.py:345-348` and `395-397` say that the request's
session is gone when the background task starts: FastAPI from 0.118 on leaves
dependencies after the background task, `create` reads the row back after its
commit, and so the request's connection stays checked out for as long as the
job runs. `OnlyTriggersStall` in `pool` shows the consequence, and the only one:
as many triggers on one instance as it has connections wait for each other until
the pool times out. What FastAPI does is outside the repository, so this is a
choice in the model and not a finding.

What a page of brackets lacks is no divergence, since nothing in the repository
promises what happens then, but worth knowing:

* A row in the middle whose factor or a cell cannot be read is covered by the
  row after it. If the last row cannot be read, the month is stored without it,
  as `test_rate_providers.py:795-813` expects, the bases above its bound get 404,
  and no sync looks at the month again.
* A readable row without an amount in the middle makes the upsert of the whole
  page fail. Each sync stores the series and dies at that year, and each refresh
  fails, until the page is corrected.
* Of a corrected month the old rows of other bounds stay, and
  `get_income_tax_bracket` may meet two rows for one base, where
  `scalar_one_or_none` raises.

`BracketsLeaveNoGap` is what holds all the same: every base under one of the upper
bounds built from some version of the table has a row; and at most one, as long
as the page did not correct the month and its amounts ascend. It says nothing of
a bound that the page itself states wrongly, nor of the bases above the last row
that could be read.

### Bounds

* `exports_one`: two series of five dates with an interval of three, so that the
  polls of the checkpoint fall before, on and after the boundary of the series,
  and the last item is not a polled one. Two stop requests race each other; two
  faults allow an error in the handler of an error. `exports_pair`: two jobs of
  one item keep every interleaving of searches and uploads with a third writer;
  jobs are interchangeable, so the run uses symmetry (it has invariants only).
  Clients name ids they were told in both; with `GuessIds` a stop can name a row
  that is inserted between its UPDATE and its read-back, and
  `ToldStoppingIsFlagged` fails. The other theorems hold either way.
* `rates`: one code, two days and a date after them, a lookback of three: a date
  is future, current, past and outside the window in one behaviour. One sync,
  one request of two lookups and one refresh interleave at every statement, and
  a sync may die. Only day 1 is published (`Open`), so carrying forward happens,
  and manual entries are for that day too (`Supplied`), where they meet syncs and
  fetched values. The code takes them for any date, and so do the theorems; with
  a second date the run does not end in reasonable time.
  `rates_midnight` has two codes and one sync. `MaxLookups`, `MaxDeaths` and
  `LastDay` are bounds of the model, not of the code.
* `lookup`: months of four days with five days to pass, a turn of the year after
  the fourth, values looked for two days back, a weekend, and a day that only
  the last provider has. Any page may fail between any two requests: a date of
  the Banco Central, a year of the others. A date that one request asks the
  Banco Central for twice, for itself and as a prior date of a later one, has
  the same fate both times.
* `monthly`: years of two months and three months, so that one window spans a
  change of year and the second year is incomplete. Lookbacks of 20 and 65 days
  give windows of one month (by the lower limit) and of two. Liveness needs one
  series only, since the series go through the same steps;
  `monthly_brackets` has both. The table of the first month loses a row in the
  middle; that of the second lacks an amount in the middle, so that the page of
  its year is refused, and is corrected to one that gives no brackets at all;
  that of the third loses its last row and is corrected to other bounds. Taxable
  bases are the three intervals that the bounds distinguish.
* `pool`: two exports and another request on two connections, the smallest pool
  in which all of them can be kept by triggers; one item per job, so one session
  is replaced; one timeout. With as many exports as connections,
  `EnoughConnections` is true only where sessions are closed early, so `JobsEnd`
  is checked for those behaviours; that late sessions do not stall a pool with
  more connections than exports is the theorem `EnoughNeverStalls`. The theorems
  hold for all sizes.

### Fairness

* `ExportJobs!FairSpec`: weak fairness of a job's own steps. The event loop runs
  ready tasks and awaited calls return or raise, because the providers and Drive
  have timeouts. Nothing makes clients trigger or stop jobs. Liveness excludes
  jobs that met a crash or a database error (`disturbed`), since nothing resumes
  those.
* `RateStore!FairSpec`: days pass, syncs are repeated (`docs/api.md` describes a
  daily or weekly cron) and go on once started, and from some time on the
  providers answer completely. Without the last, nothing need ever settle.
* `MonthlySync!FairSpec`: the same for months. Publication is not fair:
  `MonthsArrive` speaks only of what was published.
* `ConnectionPool!FairSpec`: tasks go on and requests end, because providers and
  Drive have timeouts; and strong fairness of `Acquire`, because SQLAlchemy's
  queue serves those who wait in turn. `JobsEnd` assumes `EnoughConnections`:
  sessions closed in time, or fewer exports than connections.

Deadlock is not checked: jobs end, days run out, and a system without requests
does stop.

## Proofs

The theorems hold for every value of the constants: any number of jobs, writers,
files, stop requests, series, days, codes, connections and faults. They assume
nothing but the named assumptions of the modules (`ExportAssumption`,
`FolderAssumption`, `StoreAssumption`, `LookupAssumption`, `SyncAssumption`,
`PoolAssumption`), which say that sizes are positive, that kinds of workers
differ, that the seed is among the file ids, and that a month is longer than the
lookback and its value published for its first day. Of the tables of brackets
they assume nothing but that each month has one: rows may be lost and amounts be
missing or out of order anywhere.

| Module | Theorem | Says |
|---|---|---|
| `ExportJobsProofs` | `TypeCorrect` | `Spec => []TypeOK` |
| | `TimelyStop` | a stop that the task can still see prevents the upload |
| | `CompleteSuccess` | a succeeded row is complete and published |
| | `CompleteFile` | the folder never holds a cancelled or incomplete export |
| | `NoOrphans` | only crashes and database errors leave orphans |
| | `ToldIsFlagged` | what a stop answer lists is flagged, if ids are not guessed |
| | `SeededFolderUnderJobs` | a folder with its file keeps that one (alone: `DriveFolderProofs`) |
| | `ApartUnderJobs` | exports that do not overlap leave one file, also in an empty folder (alone: `ApartStaysSingle` in `DriveFolderProofs`) |
| | `FinalOutcomes` | a row that has ended is never written again |
| | `Implementation` | `ExportJobs` implements `JobLifecycle` |
| | `StopsWithinInterval` | at most one interval of items after a stop |
| | `ProgressFresh` | progress is at most one interval behind, and never ahead |
| `ConnectionPoolProofs` | `TypeCorrect` | never more connections than the pool has |
| | `OneConnection` | the repositories of a job share one connection |
| | `NothingCutOff` | no transaction open at a swap or during the upload |
| | `NothingLeaked` | an ended task holds nothing |
| | `StallsAreTriggers` | only triggers whose sessions outlive them can stall the pool |
| | `EnoughNeverStalls` | with `EnoughConnections` nothing stalls at all |
| `RateStoreProofs` | `TypeCorrect` | no probe and no window leaves the dates |
| | `FirstHonest` | a first transaction never stamps too late |
| | `FutureIsExact` | nothing is carried to a future date or beyond the window |
| | `LostToRacesOnly` | a sync overwrites confirmed rows only in a race |
| `RateLookupProofs` | `TypeCorrect` | no lookup, probe or batch leaves the dates |
| | `GenuineRows` | every row is the published value of its own date or month |
| | `NoInventedFuture` | no future date gets the value of another date |
| | `ChainAgreement` | fetching together agrees with fetching alone |
| | `BatchAgrees` | a batch agrees with the single request where the date is stored or not to be had |
| | `BatchAnswersSame` | a batch answers the same dates of a daily code as the single request |
| | `OneDateMatches` | a batch of one date is the single request, for every code |
| | `StaysAnswered`, `NoRegress` | a date of a daily code once answered stays answered, and never by less |
| | `DailyPersisted` | for daily codes, what `lookup_monthly` refutes for the UTM |
| `MonthlySyncProofs` | `TypeCorrect` | rows of brackets stay within the taxable bases |
| `MonthlyCoverageProofs` | `NoGapInBrackets` | brackets leave no gap under the last bound read, whatever the page lacks |
| | `GapsClosed`, `YearsArrive` | what a complete sync leaves stored |

Hardly any of these properties is inductive as it stands.

**Exports.** `SuccessIsComplete` needs to know that a task at `succeed` has
uploaded with its last progress written, which needs that `finalReport` comes
with all items counted, and so on backwards. `IInv` is `TypeOK`, one `JobInv`
per job, and `ContentInv`. `JobInv` has five parts: `Phase` (which status each
statement can meet), `Counting` (items against `pc`, window and total),
`Publishing` (the upload against `pc` and progress), `Stopping` (a flag seen in
time against everything after the final poll) and `Outcome` (a status against
how the task got to its end). The proof of a step rests on locality:
`OneJobMoves` and `SameKeeps` reduce a step to the one job that moves, `EffectAt`
and `ExecuteLocal` give its row after a statement, and `TaskInv`, `FaultInv` and
`StopInv` treat the three kinds of steps. `ContentInv` ties the content of a
file to the job that uploaded it. `TellInv` is the extra part for
`ToldIsFlagged`. `FinalOutcomes` needs `Phase` only: the task of an ended row has
nothing left but to close its session. The folder needs only that, while its seeded file is there,
every search hits it (`SearchesHit`), and for exports that keep apart, that a
search which found nothing is still right when its upload comes (`Alone`). A job
that fails or crashes between its search and its upload counts as under way for
good, so that `ApartUnderJobs` and `ApartStaysSingle` say nothing of exports
after such a fault.

`Pace` adds what the two properties of the pace need: between polls the row
holds the multiple of the interval at which the last poll fell, less than an
interval ago, and a stop that is on the row came after that poll. That the next
poll falls one interval later although items are counted across series is
`NextMultiple`, from division with remainder.

**Pool.** `IInv` says of each job that all repositories are on the current
session (`InStep`), that only this one may have a connection and at none of the
quiet places (`JobsOwn`), and when the session of its trigger may (`TriggersOwn`).
The stall theorems count: a full pool whose holders all wait for another
connection consists of `<<e, 0>>` only, one per export.

**Rate store.** `Typed` is `TypeOK` with what keeps queues and probes inside
their ranges. `Honesty` says of a worker that what it has fetched or read in its
first transaction is no older than this transaction, and of a row that its stamp
is then no later than its value. `Carrying` follows the date of a lookup from
the probe to the answer: it goes back from the date that was asked, and only
after the test against today. `ConfirmedLostToRacesOnly` is inductive with
`Typed`: every upsert of another worker is noted in `missed`.

**Lookups.** Rows are kept by every route for the same reason: what is stored
under a date is `Normal` of it, and a provider answered for it (`SingleOutcome`,
the five steps in one lemma; `PersistKeeps`). That answers never go back needs
`Remembered`: the best answer so far is itself a row, one that may still answer
for the watched date (`Reaches`: it is the date itself or, unless that is in the
future, a date of its window). So a later answer is at least as good, because
the five steps take the row of the date or the nearest prior one
(`SingleIsLatest`), and a batch does the same through its map, in which the row
was already when the request began (`CachedPriorOfDay`, `AnswerOK`). A batch is
a recursive function over the request; that there is one for requests of every
length is `LoopExists`, by way of a shortest request that would have none, and
what its table and answers keep from date to date is `BatchKeeps`, for any
property of them that one `Resolve` keeps. `BulkMapOfDay` makes the
batch agree with the single request: the span of the request reaches the date
itself and, for a daily code, each prior date in the span stands for itself,
while dates before the span come from `Single` in both.
`BatchAnswersSame` goes through `Answerable`, what has a value at all with given
rows: every row that a batch adds was fetchable (`Learned`), so it makes no other
date answerable than those that were when the request began.

**Monthly data.** `BracketRows`: a stored month has all rows that `Built` gives
for some version of its table, and while there was one version no others, of
which no two clash. It needs `InHand`, that what a worker is about to write gave
brackets when it was read. The rest is about `Built` alone. `LowerProperties`: a
row begins at 0 or where an earlier readable row with an amount ended. A base
under some upper bound is under that of a least row, and the row before it that
gives an amount does not reach the base, so the least row begins at or below
it (`BuiltLeavesNoGap`). If the amounts ascend and no keys clash, no two rows
take the same base (`BuiltIsOrdered`, `BuiltIsDisjoint`). Least and greatest
rows exist because `<` on the naturals is well-founded. `Covering` says how far
a sync whose answers were complete has got: series it has done are stored as far
as they were due, the current one is stored, wanted or in hand, and of every
year it has done some month is stored if one was due whose table gave brackets
in all its versions (`Expected`, `AlwaysLegible`).

Every safety invariant and action property of a passing run is stated by a
theorem. Checked by TLC only: liveness (`EveryJobEnds`, `TimelyStopCancels`,
`RatesSettle`, `MonthsArrive`, `JobsEnd`), which is out of the prover's reach,
and the properties of the `violation` runs, which do not hold.

## Not modelled

* `list_jobs`, the status reads, the listings of brackets and indices: they
  change nothing, and no other component reads them.
* HTTP, authentication, settings, logging, parsing and rounding.
* Older exports that overwrite newer ones: the code promises no order among
  exports that overlap, and the models give data no age.
* A job stopped by a pool timeout is a database error in `ExportJobs`, and a
  timeout in `ConnectionPool`; the two are not composed.
* `pool_recycle` and `pool_pre_ping`; row locks inside PostgreSQL, whose victims
  are requests that fail and syncs that die.
* Indices in a manual refresh, which take the same steps as rates without the
  dates; the chain of index providers, which is the chain of rates with months.
* Requests of `RateLookup` are atomic. Their interleaving is in `RateStore`,
  with one value per date.

## Plan

1. Composition of `ConnectionPool` and `ExportJobs`: an outcome that cannot be
   recorded because no connection can be had.
2. Manual refreshes of several codes and indices in one command.
