# soma-observe in TLA+

TLA+ modules, TLC configurations and TLAPS proofs for soma-observe, the
OpenTelemetry backend in `src/`: an OTLP/HTTP ingest for metrics, logs and
traces over monthly partitioned Postgres tables, an alert evaluator, a read-only
query API, and a web console. The modules model the server in `src/src/` and the
pages of the console in `src/dashboard/src/`; the SQL the server sends is modelled
by what Postgres does with it under the schema of `src/migrations/`.

    tlc -workers 2 -config metric_chaos.cfg MCMetricIngest     one run
    tlapm MetricIngest_proofs.tla                              one proof module

`PROJECT.json` lists the components, the runs, for every definition the source
lines it stands for, the hazards of the code with the properties that watch
them, the mutants (one plausible bug per property, which the run has to notice)
and the theorems.

## 1. The system

| Component | State | Operations | Talks to |
|---|---|---|---|
| Metric ingest, `ingest/otlp_http.rs` `ingest_metrics`, `store/write.rs` | a handler's locals: `metric_points`, `hist_points`, `rejected` | one request: resolve each series, convert, two batch INSERTs, 200 (with partial_success) or 503 | series cache, Postgres, exporter |
| Series cache, `store/series.rs` | LRU map SeriesKey -> (series_id, last cumulative reading), behind a mutex | `resolve`, `swap_cumulative` | handlers, table `metric_series` |
| Log and trace ingest, `ingest_logs`, `ingest_traces` | a handler's locals | one request: check and convert each record, one batch INSERT | Postgres, exporter |
| Partition manager, `store/partition.rs` | its position in a cycle | every six hours: create the partitions of this and the next month, drop the expired ones | Postgres catalog |
| Alert evaluator, `alerts/eval.rs`, `notify.rs` | table `alert_state`, a snapshot of the rules | every interval, per rule: query, compare, upsert the state, call a webhook | Postgres, webhook receivers |
| Alert rules API, `alerts/mod.rs` | table `alert_rules` | create, update, delete, list | evaluator (through the tables) |
| Query API, `query/*.rs`, `stats` of `admin.rs` | none; what a handler has read so far | nine GETs of one to five SQL statements each: charts, log search, trace search, service map, Kubernetes tree, counts | Postgres |
| Dashboards API, `dashboards.rs` | table `dashboards` | create, update, delete, get, list | Postgres |
| Startup, `main.rs`, `config.rs`, `install.rs` | none that lasts | connect, spawn the two background tasks, serve | all of them |
| Auth, health, `auth.rs`, `admin.rs` | none | a token check before every handler but `/health` | the API |
| Console, `dashboard/src/` | per open page: its signals (what is shown, spinners, banners, dialogs, forms) and its requests under way | effects that load, buttons that query, save and delete, answers that fill the page | the APIs, over HTTP |

The parts share nothing in memory but the series cache. They meet in the
database: handlers write rows into partitions that the manager creates and
drops; the API edits rules while the evaluator works from a snapshot of them.
`main` spawns the manager and the evaluator and starts to serve without waiting
for either.

### What is hard about it

* **Interleaving.** Every `.await` of a handler lets other handlers run. The
  series cache is consulted, released during a database call and consulted
  again (`series.rs:31-80`). The evaluator reads a row, awaits and overwrites it.
* **Failure between two steps.** The cumulative reading is kept in the cache
  before the points are written; the alert state is stored before the webhook is
  called; two INSERTs of one request are two transactions.
* **Retries.** A 503 or a lost answer makes an OTLP exporter post the batch again.
* **Restarts.** The cache and everything in flight are gone, the tables are not.
* **Time.** Partitions have to exist before the first timestamp of a month and
  must not go before the last one has had its retention; `for_secs` is measured
  over evaluations that may fail, stall or run from an old snapshot.
* **Reading in pieces.** A query handler runs its statements one after the other
  without a transaction, and replaces some of those that fail by no rows. What it
  joins in memory was read at different times.
* **A page and its answers.** Nothing cancels a request of the console, nothing
  times out, and answers come in any order: to a page that has moved on, with a
  dialog open for another row, or after another user's change.
* **Boundaries.** A full cache, colliding hashes, `for_secs` of 0 or less, an
  absent value, an installation in the first hour of a month; windows, buckets,
  pages and filters that cut a trace or a bucket in two; spans without a parent,
  with a missing one, or with a ring of them.

### What makes each part correct

* Metric ingest: what was acknowledged is stored, what is not stored was
  reported; the deltas of a counter add up; failures never make it count twice.
* Series cache: the cached id is the one of the series' row, whatever was
  inserted, re-selected or evicted in the meantime.
* Logs and traces: what was acknowledged stays for its retention.
* Partition manager: partitions are there ahead of time, and data does not stay
  for ever.
* Alerts: a rule's state follows the diagram in the header of `eval.rs`, it fires
  only when it is due, it announces only and all of what happened, and it comes
  to rest at what its condition says.
* Queries: an answer lies between the rows that were there all the time and
  those that were there at any time while it was computed.
* Console: when all is answered a page shows what the tables hold; what is filled
  in goes to the row it was shown for; the last save wins, a delete stays one, no
  edit leaves a rule with a config of the wrong kind; no spinner is left behind.

## 2. Modules

    SeriesLru         the LRU map and the operations on it (pure operators)
      MetricIngest    EXTENDS it: exporters, handlers, tables, faults, restarts
        MCMetricIngest                     instances for TLC
        MetricIngest_proofs                types, filing, reporting, acknowledgements
          MetricTotals_proofs              what the deltas of a counter add up to
        Sums_proofs                        finite sets, extremes and sums, by induction
    AlertLifecycle    the diagram and the notification rule (abstract)
    Alerts            the evaluator and the rules API, INSTANCE AlertLifecycle
        MCAlerts                           instances for TLC
        Alerts_proofs                      types; one evaluator: news, firing, refinement
    Partitions        the partition manager over the tables' partitions
      TelemetryIngest EXTENDS it: the handlers of logs and spans
        MCTelemetry                        instances for TLC of both
        Telemetry_proofs                   the lead time, types, what is kept, what goes
    QueryRows         filters, windows, pages, percentiles (pure operators)
      MetricQuery     buckets, aggregates, histograms (pure operators)
      SpanQuery       summaries, service map, Kubernetes tree (pure operators)
        QueryApi      EXTENDS both: the handlers, statement by statement
          MCQueries                        rows and calls for TLC
          QueryApi_proofs                  what every answer says of the tables
    Browser           a page's requests: sent, handled, answered, failed
      DashboardsPage  EXTENDS it: the dashboards page, its handlers, their table
      AlertsPage      EXTENDS it: the alerts page, its handlers, their table
      QueryPages      EXTENDS it and Waterfall: the seven pages that only ask
        Waterfall     indentation and bars of a trace (pure operators)
        Console       composes the three: one page is open
          MCConsole                        traces and bounds for TLC
          Console_proofs                   types, dashboards, saves, rules, forms, spinners, waterfall
            Settle_proofs                  what a page shows once all was answered in order

An operator with a comment "(Altered for a check of P ...)" is not part of the
model: it is the form a definition next to it takes when the strength of
property P is tested (`mutants` in `PROJECT.json`).

### MetricIngest and SeriesLru

`req[r]` is the exporter's request `r` together with the locals of the handler
that serves it; `pc` names the await it stands at:

| pc | code |
|---|---|
| `idle` | nothing in flight |
| `point` | head of the loop over the data points, or the end of it |
| `insert`, `select` | `resolve`: before the INSERT, before the re-SELECT |
| `value` | the series id is known, the value not yet looked at |
| `histograms` | between the two batch INSERTs |
| `ok` | before the 200 |
| `unavailable` | answered 503, or no answer: the exporter has to retry |

Each action is what runs between two awaits: `Reject` (delta temporality,
exponential histograms, timestamps outside the window), `LookupHit` and
`LookupMiss` (first critical section of `resolve`), `InsertSeries` and
`InsertCollides`, `SelectSeries` (re-SELECT and second critical section),
`RejectValueless`, `PushCounter` (`swap_cumulative` and the delta), `PushRaw`,
`PushHistogram`, `WriteScalars`, `WriteHistograms`, `Respond`. The exporter
(`Sample`, `Post`, `Retry`, `GiveUp`) and what goes wrong (`DbFails`,
`LoseReply`, `Restart`) are external.

Modelling decisions:

* A key has a content and a hash. The unique index of `metric_series` compares
  contents (jsonb equates 1 and 1.0, the serialized key does not), the primary
  key compares hashes. Both maps are arbitrary functions, so keys may share a
  row and different rows may want the same id.
* A concurrent INSERT that violates the primary key is an error like any other
  failed call and is covered by `DbFails`, besides `InsertCollides`.
* A write that was committed and whose answer was lost is a write followed by
  `LoseReply`; a handler that is dropped because the client went away, too.
  `series = 0` is the mark of "no row", no hash takes that value.
* Two data points with one primary key in one batch, or in the table and the
  batch: `Inserted` keeps the first, as `ON CONFLICT DO NOTHING` does.
* The metric tables are partitioned as well: a missing partition is a case of
  `DbFails` here, and `AckedIsStored` is about the time before the retention is
  over. Partitions and retention are modelled in Partitions and TelemetryIngest.

### Alerts and AlertLifecycle

`rules` and `state` are the two tables, `ev[e]` the evaluator of process `e`
with its snapshot `todo`, which it works through in the order of the ids, and
its locals. `evaluate`, `read`, `upsert`, `notify` and `mark` are the awaits of
`evaluate_rule`. `holds[c]` says whether the data satisfies a config: the SQL of
`eval_metric` and `eval_log` is a Boolean of the environment that may change at
any time (`Flip`). `owed` and `streak` are history variables: what has not been
announced yet, and the age of the first of an unbroken run of true evaluations.

* Time is kept as ages, capped at `MaxAge`; the code compares timestamps only
  with `for_secs`, and `AgeAssumption` leaves room above the largest one, so the
  cap loses nothing. `lag` is how long ago the evaluation took its `now`.
* A row may be deleted while its rule is evaluated: the foreign key refuses the
  upsert (`RuleIsGone`), `ON DELETE CASCADE` removes the state (`DeleteRule`).
* `send_webhook` logs what becomes of the POST and returns nothing, so success
  and failure are the same step. Its HTTP client has a timeout (external), so
  the step ends.
* A failed load of the rules changes nothing and is a stutter.
* `CountFails`: `COUNT(value)` is a bigint, the code decodes a float8.

AlertLifecycle has neither a clock nor an evaluator: the phase of each rule, the
arrows of the diagram, and the news owed. `Alerts` maps its rows onto it
(`phase <- [i \in Ids |-> Phase(i)]`, a rule without a row is ok).

### Partitions and TelemetryIngest

`parts[t]` are the months table `t` has a partition for, `mgr` the manager: one
action per SQL statement of `run_once`, with the time it read before
(`at`), the names it listed before (`names`), and the time of its next cycle.
`first` is a history variable: the month in which the first cycle of this
process began that created everything.

* All months have `MonthLength` days. Calendar months differ in length; the
  lead time is argued with the shortest.
* `LeadAssumption` states what "enough lead time" has to mean: the failing
  cycles and the one that makes up for them fit into a month less the tolerance
  for timestamps in the future. With cycles of six hours and a tolerance of five
  minutes that is more than a hundred failing cycles in a row.
* A cycle may stall for `MaxStall` altogether; while the process is down time is
  not limited at all.
* The loop of `ingest_logs` and `ingest_traces` never awaits, so `Check` is one
  step; then comes one INSERT of the whole batch (`Write`, or `NoPartition`).
* A span has a primary key, a log record gets a new id at each INSERT: `copy`
  tells the duplicates of a retried log batch apart.

### QueryRows, MetricQuery, SpanQuery and QueryApi

`db` holds the rows; `call` is the one call that is handled, with what its
statements have read (`read`) and the answer. Each action that runs a statement
evaluates an operator on the tables of that moment: `ReadSeries`, `ReadScalars`,
`ReadHistograms`, `ReadDistributions` for `query_metrics`, `ReadServices` and
`ReadEdges` for `service_map`, `ReadWorkloads` and `CountNodes` for
`k8s_topology`, five times `ReadStats`, one action for each of the others.
`Ingest` and `DropPartition` are the write side in outline, `StatementFails` the
branches that answer 500 or go on with no rows. `held` and `shown` are history
variables: the rows that were in the tables all the time since the call began,
and those that were in them at some time.

* Handlers write nothing, so one call at a time is as good as many.
* Where SQL leaves the choice (rows of one time at the edge of a page, which of
  several spans without a parent is the root, workloads with equally many spans),
  the model makes it at random.
* A percentile is that of `percentile_disc`; sums of doubles are sums of integers.
* `agg=count` in `query_metrics` does not decode: a failed statement, and no points.

### Browser, DashboardsPage, AlertsPage, QueryPages, Waterfall and Console

`calls` are the requests of the page that is open, numbered as they were sent:
`at` is how far the handler has come (`sent`, `write`, `read`: the statement that
is next; `done`: the answer is on its way). A page is its signals (`dash`, `desk`,
`look` and `boxes`). What a closure does up to its first await is one action
(`Save`, `on_submit`, `load_spans`, ...), each statement of a handler is one, and
what the closure does with the answer is one (`GotSaved`, `GotRules`, ...).

* An action of the user is possible only if the page as it is drawn offers it: a
  dialog covers the page, a list that loads cannot be clicked.
* `Save` of the dashboards page relies on its disabled button: the toolbar is
  drawn again whenever `saving` changes. The dialogs of the alerts page are drawn
  by a component library that is not in the repository; nothing is assumed of
  their buttons.
* `Fail` is a failing statement, an unreachable server or a broken connection, at
  any point of a request. `SomebodyElse` is another user, or the evaluator.
* `overtaken`, `faults` and `others` are history variables. The properties about a
  page that has come to rest have them as premises: when two answers cross, the
  code shows what came last, and nothing in the repository promises more.
* `kept` is a history variable too: what the last confirmed save of each
  dashboard sent.
* The pages that only ask have a box for each request (`boxes`): what it shows, its
  spinner, its banner. An answer is the question it answers, so that a page can be
  seen to show the right one; what the handlers answer is in QueryApi.
* `Waterfall` is checked as it is drawn, with every tree of `Trees`. A trace is a set
  of rows of the table, whose key is the start time and the two ids: a span id may
  come twice. The rows are ordered by their start times and collected into a map, so
  of the spans of one id the last one with a parent decides (`ParentOf`), and
  `DepthsNest` speaks of that one.

## 3. Runs

| Run | Instance | Checks |
|---|---|---|
| `metric_exact` | one key of every kind, two of them one series to jsonb, readings 1, 2 and none, four samples in batches of two, no failures | TypeOK, DeltasTelescope |
| `metric_retry` | a counter and a histogram, batches of two, two failures or lost replies | NeverOvercounts, Delivered |
| `metric_chaos` | two requests, three keys that share a row and a hash, a cache of one entry, timestamps that leave the window, one failure, one restart | CacheIsCanonical, PointsAreFiled, AckedIsStored, NothingUnreported |
| `metric_at_least_once` | one counter, one failed write | AtLeastOnceIsSafe is violated |
| `metric_resolve_race` | one counter, two requests | NeverForgets is violated |
| `alert_life` | one evaluator, one rule, an edit, two failures or restarts | TypeOK, NewsIsTrue, FiresWhenDue, LifecycleKept, Told |
| `alert_settles` | two evaluators on one database, one failure | Settles |
| `alert_count` | one rule with agg "count" | EveryRuleSettles is violated |
| `telemetry_kept` | logs and spans of different retention, a batch of one, stalling cycles, one failure or crash, from the first day of one month to the last of the third | TypeOK, AckedUntilExpired, ExpiredDataGoes, PartitionsAhead |
| `partition_outage` | an installation on the first day of a month | NoIngestOutage is violated |
| `queries` | seven scenarios of three to eight rows, and the calls that ask for them, one failing statement | TypeOK, SumsAreBracketed, DistributionIsNewest, PageIsNewest, SummariesAreTrue, ServiceMapIsTrue, RollupsAddUp, StatsAreBracketed |
| `console` | each page, two dashboards, one rule, two metrics and traces, 81 trees of spans; two to four requests, failures and changes by others | TypeOK, DashboardsSettle, LastSaveWins, NoResurrection, RulesSettle, ConfigsFitTheirKind, EditsReachTheirRule, QueriesSettle, WaterfallNests, BarsFit, SpinnersEnd |

The passing runs visit between some ten thousand and 4.1 million (`metric_exact`)
distinct states, each in one to three minutes. Between them they take every
action.

### Why the bounds are enough

* **Requests, evaluators.** Two actors are what every race of this code takes:
  one that stands between its read and its write, and one that overtakes it.
  `metric_retry` and `metric_exact` have one request because their properties are
  about totals, and OTLP exporters send one batch of an instrument at a time.
* **Keys.** Two that share a row, two that share a hash, and one of each kind of
  instrument cover each way `resolve` and the conversion can go.
* **Cache.** One entry for three keys makes every insertion an eviction.
  In `metric_exact` and `metric_retry` there is room for all keys: an evicted
  counter starts over by design.
* **Readings.** 1 and 2 rise, fall (a reset) and repeat; `NoReading` is a data
  point without a value.
* **`MaxPerSeries = 1` in `metric_retry`.** With two readings of one counter in a
  batch, the retry of a batch whose write failed compares the first with the
  second, takes that for a reset and stores it whole: the total may then exceed
  what was counted. The property is stated for batches with one data point per
  series, which is what exporters of cumulative instruments send.
* **Time.** Ages run past the largest `for_secs` and the longest evaluation.
  `telemetry_kept` takes three months: one to be installed in, one in which what
  came in the first expires (spans after 1 day, logs after 3), one to cross once
  more. It is installed on the first day of a month, so that timestamps of the
  month before are still in the window; as the process may also start late or
  again, its first cycle is on any later day as well, the last one of a month,
  where the lead is shortest, included. Records of both tables outlive the bound
  of `ExpiredDataGoes` within the clock; `ExpiredGoes` proves it for any clock.
* **One rule.** The evaluator handles one rule after the other and rules share
  no row; the theorems hold for any set of rules.
* **Rows of `queries`.** They meet at the edges: of the window, of a bucket, of a
  month that is dropped, of a page of two; a series of each kind, attributes that
  are text, numbers and null, spans that end before they start, lack a service or
  reach out of the window.
* **Steps of `console`.** Four on a page that writes: a save, a delete, a second
  save and a change by somebody else in one behaviour. On the pages that only ask
  each request is handled alike, so two or three show every overlap. One rule is
  enough for two forms (a new one and its own); that the fields of a second rule
  can stand in a form is left to `FormsReachTheirRule`. Two dashboards are there for
  one to be open while another one's answer arrives. A ring, an orphan and a chain
  need three spans; bars of two spans meet in every order of their four times.
* **Faults.** One or two, at any point: enough to fail a step and the retry of
  it. The theorems hold for any number.

`CHECK_DEADLOCK FALSE` is set where the bounds on time, faults and posts end
every behaviour. Nothing ends in Alerts, where deadlock is checked.

Symmetry (of the two requests) is used in `metric_chaos` only, which checks
invariants only.

### Fairness

* `MetricIngest!FairSpec`: weak fairness of each request's handler (tokio polls
  a task that is ready, and pool and statement timeouts end each call) and of
  `Retry` (an exporter that has not given up posts again). None of sampling,
  giving up, faults or restarts.
* `Alerts!FairSpec`: weak fairness of each evaluator's next step (the loop sleeps
  for a bounded time, a database call and a webhook call time out) and of time.
  None of the API, the data, faults or restarts.
* The partition properties are safety properties: a cycle that must be over in
  time is a guard of `Tick` (the sleep ends in time, a cycle stalls for at most
  `MaxStall`). `ExpiredDataGoes` is a bound, not a liveness property.
* `Console!Spec` and `QueryApi!Spec` have none. That a spinner goes is said without
  it: `SpinnersEnd` holds if the request that ends it is always under way, and
  whether that is ever answered is up to the network, which the code does not
  bound.

### What the failing runs show

* `metric_at_least_once`: `write.rs:8-9` calls the writes "safe for at-least-once
  ingest". The delta is taken, and the reading kept, before the write. If that
  fails, the retry is compared with itself, a delta of 0 is stored, and the
  increment is lost although the exporter got a 200.
* `metric_resolve_race`: two requests miss the cache for one series; the second
  `put(None)` wipes the reading the first one has left, and the next delta is the
  whole cumulative value.
* `alert_count`: the API accepts agg "count", the evaluator cannot decode what
  Postgres returns for it, and the rule never fires.
* `partition_outage`: installed in the first hour of a month, the process accepts
  timestamps of the month before, for which no partition will ever be created.

`findings` in `PROJECT.json` has the lines.

### What is not asked

* With two evaluators (two processes on one database) both may announce one
  transition and one may overwrite the other's row with an older decision. There
  is no lock against it and no text that rules it out: of the alert properties
  only `Settles` is claimed for more than one.
* A crash between the upsert and the webhook loses the notification. `Told`
  is therefore claimed only while nothing fails.
* `LifecycleKept` is about arrows of the diagram. Between two evaluations a rule
  may be edited or lose its row, so that nearly every pair of states has an arrow,
  and what the refinement excludes is mainly firing -> pending, news that nobody
  owes, and a state nobody decided. When a rule may fire is `FiresWhenDue`.
* `Told` is about webhooks that are reachable, rules that evaluate, and no failure.
* A colliding hash is answered 503 for ever, until the exporter gives up: `Delivered`
  is checked with hashes that do not collide (`PlainHash`).
* Edits that switch a rule to the other kind in the form. The kind is not in the PUT:
  a metric rule refuses the config, a log rule takes it, and from then on counts
  whatever the fields of a metric leave of its conditions. What stood in those
  fields may be another rule's (`EditsReachTheirRule` says when not).
* Filters that cannot be parsed are dropped by `parse_filter` without a word.
  `PageIsNewest` is about the filter as it was understood.
* A span that starts after the last end of its trace (its own end is before its
  start): its bar lies outside the row, with a negative width. `BarsFit` is about
  the other traces, `DepthsNest` about all.
* A retried log batch may be stored twice: nothing promises otherwise.
* Answers that overtake each other: the spans of one trace may appear under the
  name of another, the answer to a save replace later edits. No text rules it out.
* Two banners of the console may be stale when all is well again, and
  `QueriesSettle` says which.

## 4. Proofs

Nothing is bounded in the proofs but by the named bounds of the constants, which
are arbitrary: sets of keys, requests, rules, tables and payloads of any size,
any number of faults, restarts and edits.

| Theorem | States |
|---|---|
| `MetricIngest_proofs!TypeCorrect` | `Spec => []TypeOK` |
| `MetricIngest_proofs!CanonicalCache`, `FiledPoints` | `[]CacheIsCanonical`, `[]PointsAreFiled` |
| `MetricIngest_proofs!AllReported`, `Acknowledged` | `[]NothingUnreported`, `[]AckedIsStored` |
| `MetricTotals_proofs!NoOvercount` | `[](restarts = 0 => NeverOvercounts)`, one batch at a time |
| `MetricTotals_proofs!ExactTotals` | `[]DeltasTelescope`, one batch at a time |
| `Sums_proofs!SumFacts` | what a sum over a finite set is |
| `Alerts_proofs!TypeCorrect` | `Spec => []TypeOK` |
| `Alerts_proofs!TrueNews`, `FiresOnlyWhenDue` | `[]NewsIsTrue` and `FiresWhenDue`, for one evaluator |
| `Alerts_proofs!LifecycleImplemented` | `Spec => Life!Spec`, for one evaluator |
| `Telemetry_proofs!ManagerLeads` | `StoreSpec => []PartitionsAhead` |
| `Telemetry_proofs!TypeCorrect` | `Spec => []TypeOK` |
| `Telemetry_proofs!PartitionsLead`, `KeptUntilExpired`, `ExpiredGoes` | `[]PartitionsAhead`, `[]AckedUntilExpired`, `[]ExpiredDataGoes` |
| `QueryApi_proofs!AnswersAreTyped` | `Spec => []TypeOK` |
| `QueryApi_proofs!StatsBracketed`, `NewestPage`, `TrueSummaries` | `[]StatsAreBracketed`, `[]PageIsNewest`, `[]SummariesAreTrue` |
| `QueryApi_proofs!NewestDistribution`, `BracketedSums` | `[]DistributionIsNewest`, `[]SumsAreBracketed` |
| `QueryApi_proofs!TrueServiceMap`, `TrueRollups` | `[]ServiceMapIsTrue`, `[]RollupsAddUp` |
| `Console_proofs!ConsoleIsTyped` | `Spec => []TypeOK` |
| `Console_proofs!DeletedStaysDeleted` | `Spec => NoResurrection` |
| `Console_proofs!StoredConfigsFit`, `FormsReachTheirRule` | `[]ConfigsFitTheirKind`, `[]EditsReachTheirRule` |
| `Console_proofs!SpinnersHaveRequests`, `SavesWin` | `[]SpinnersEnd`, `[]LastSaveWins` |
| `Console_proofs!IndentsShowTheTree`, `BarsAreDrawnInside` | `[]WaterfallNests`, `[]BarsFit` |
| `Settle_proofs!RulesAreShown`, `DashboardsAreShown`, `AnswersAreShown` | `[]RulesSettle`, `[]DashboardsSettle`, `[]QueriesSettle` |

### Along which argument

* **Metric ingest.** `TypeInv` is `TypeOK` with what it needs to be inductive: a
  handler that left the head of the loop is at a data point of its batch.
  `FilingInv` adds that ids are unique, that a handler at its re-SELECT will find
  a row, and that everything with an id in it (cached, resolved, buffered,
  stored) has the id of its series' row: rows of `metric_series` are never changed or
  deleted, so once an id is right it stays right, and only the INSERT has to be
  argued. `CourseInv` counts: rejected and buffered data points make up the
  loop's index, and from the first INSERT on everything of the batch is
  buffered, from the second on stored. With that `Acknowledged` is one step:
  `Respond` acknowledges what `CourseInv` says is stored, and rows are only
  added.
* **Totals.** `Sums_proofs` gives the recursion behind `MapThenSumSet` its meaning:
  every non-empty set of naturals has a least element (`WFMin` of
  WellFoundedInduction), hence a first-order rule of induction, hence existence and
  uniqueness of the function that sums a finite set, and the laws of that sum
  (`SumFacts`). `StepKinds` then sorts the steps by what they do to the data
  points of the batch: convert one reading, pass one, write the rows, start the
  batch again or end it, or none of that. Both theorems assume one batch at a time
  and a cache that holds every series (`OneAtATime`), as the code gives no promise
  without: two handlers may swap readings in the wrong order, and an evicted
  series starts again from nothing.
  `NoOvercount`: what is stored or buffered, and what the readings left in the
  batch and in the queue will still add (`Owes`), stay within the instrument's
  total; but that alone is not inductive, since a retry converts the same readings
  again. `Within` adds that what is stored and what the *whole* batch would
  add, begun again from the cache as it is now, is within the total as well, and
  that a row of k on its way to the table means its reading is already in the
  cache, so that a retry adds nothing for it. A delta is an `Inc`, and Inc(a, c)
  <= Inc(a, b) + Inc(b, c): leaving out a reading never adds, not even across a
  reset. The hypothesis `MaxPerSeries <= 1` is needed: a batch with
  the readings 2 and 3 after a 1, whose write fails, is stored as 2 and 1 when it is
  retried, since its own 3 is what its 2 is compared with.
  `ExactTotals`: with no failure the sum is exact. `TimeInv` keeps rows, buffered
  rows, the rest of the batch and the queue in the order of their timestamps, so
  that no row meets its primary key in the table; `Balanced` says that what is
  stored or buffered and what the rest will add (`Pending`, a sum over the readings left,
  each against the one before it) is the total. `FirstConverted` moves the
  first reading from one summand to the other, `LastSampled` adds one at the end.
  `OnTime` (clocks agree, the window is not shorter than the run) excludes
  rejection, `NoCollisions` the 503 of a hash collision.
* **Alerts.** `IdsInv` relates the identity sequence to the ids in use.
  `EvaluationInv` and `RowInv` say, of one rule under evaluation and of one row,
  how the evaluator's locals, the row, `streak` and `owed` fit together: a
  decision taken on a row is still about that row when it is stored, the since
  of a pending row is not older than the streak, and news is owed when it is
  about to be told. Together (`SoleInv`) they are inductive only if there is one
  evaluator (`Alone(e)`, an assumption of the three theorems): a second one
  would change the row in between. Refinement is shown step by step: the upsert
  is a `Move` along an arrow of the diagram or a stutter, the webhook a `Tell`,
  the deletion a `Forget`.
* **Partitions.** `StoreInv` is the type invariant with `CycleInv`: how far the
  statements of a cycle are, what they have created by then, and that only what
  has expired is on the list to be dropped. `LeadInv` says of a process that
  once created everything that there is a time `a` at which its last such cycle
  began, and a number `f` of failed ones since, at most as many as there were
  faults, so that everything from the first month to the one after `a` is there
  or expired, and the cycle in progress or the next one begins before `a` plus
  `f + 1` cycle times. `LeadAssumption` then puts every acceptable timestamp
  before the end of the month after `a`. The theorems have a hypothesis of
  their own, that no retention is shorter than the ingest window: otherwise a
  partition could expire while timestamps in it are still accepted.
* **What is kept.** `KeptInv` extends the property to batches whose INSERT is
  done and whose answer is not given. A row leaves only in a partition that was
  on the manager's list, so it is older than the retention allows
  (`RowsGoExpired`); nothing is assumed about the lead time.
* **What goes.** `AgeInv` says of every partition that is there, as long as
  nothing failed, that it was not expired when its table was last listed: what
  was is dropped before the next table's turn. When that listing was at the
  earliest follows from how far the cycle is, and at most one period and two
  stalls have passed since (`AgeBound`). The rest is that a row lies in a
  partition that exists (`RowsInv`).
* **Queries.** `StoreInv` says that every row is one of the scenario's, that
  what was there all along (`held`) is there now, and that what is there now was
  shown. So each statement reads a table between `held` and `shown`
  (`Snapshots`), and remains to have read one while the tables go on: rows only
  leave `held` and only enter `shown` (`SnapshotsGrow`). `StatsInv`, `LogsInv`,
  `TracesInv`, `MetricsInv` and `MapsInv` say it of every result a call has read
  by then, each of a table of its own; `CallInv` and `ReadInv`, which statement
  may come next and how much was read. The rest is about the operators on one
  table. `Extremes` (of `Sums_proofs`) finds the least and the greatest of a
  finite set, for pages, percentiles and durations; `Rounds` is about integer
  division: the filter on a duration and the rounding to milliseconds agree.
  `RowsAreBinned` puts each data point into one bucket, for any origin and step.
  A sum over a bucket uses `Sums_proofs`. The Kubernetes tree is a fold, for
  which `FoldExists` gives the recursion behind `FoldLeft` its meaning; by
  induction over its rows (`TreeOk`) each namespace has the sums of the
  workloads it lists (`SumAppended`, `SumsOneMore`), each workload once, in the
  order of their counts, and every row so far is in it; a row's own numbers are
  those of its spans, and the rows have different keys (`RowOfKey`). Each of the
  three percentiles of a service is shown to be the least duration with enough
  of them below it (`Percentiles`), its counts to be those of its spans.
  `RowsAssumption` names what is assumed of the rows: finitely many, with
  integer times, one histogram row per series and time (the primary key), and
  histogram rows of histogram series only.
* **Console.** Lemmas about Browser come first: what a step of the network does
  to `calls` (`SendAdds`, `ReceiveAdds`, `AnswerEnds`, `RefuseEnds`, `FailEnds`,
  `GoOnKeeps`), and that the page stays what it was (`PageStays`). For
  `NoResurrection` it is enough that ids only grow (`IdsGrow`) and that each
  statement writes a row that is there or the next id. `RulesInv` says of a
  request between two statements of `update_rule` that, if its rule still
  exists, its config has been checked against that rule's kind: kinds never
  change, and a deleted id is not used again. `FormsInv` says that the fields of
  one kind are those of the rule `edit_id` names, and that this kind is the one
  the rule has (`Known`: what was once listed stays true of an id, since no kind
  changes), that the form is empty when `edit_id` is, and that requests were
  made from such a form. It holds only because every action that opens the form
  sets both. For `SpinnersEnd` each page has its own statement of what spins for
  which request (`DashSpin`, `DeskSpin`, `BoxSpin`); `NetInv` adds that no
  request in flight has a higher number than the last one sent, without which a
  new one might replace an old one. `SaveInv` follows the one save that may be
  under way: once its UPDATE was executed the row is what it sent, or gone, and
  only that row may differ from the last confirmed save. That ids are below
  `nextDash` keeps a new dashboard from taking its place.
* **Types of the console.** `NetTyped` says of every request that what it carries, and
  what its answer is, fits the page it belongs to (`CallTyped`), at each of the
  statements of its handler. `DashLeft` and `DeskLeft` count: the next id and the
  requests that wait for one fit below the bound. Both are needed, since
  an answer is only used when it arrives and an id only taken when a request is handled.
* **Waterfall.** That `Walk`, a recursive function, exists is shown by induction on
  the hops it still has (`WalkExists`); the hops are as many as there are parents, and
  by counting it has ended or met a span again by then (`DepthIs`, `BetweenCount`). What is
  above a span is the least set that contains its parent and is closed under parents
  (`Above`); it is what the walk visits (`AboveOnWay`), so the depth is its number,
  plus the span itself on a ring (`DepthCounts`), and what is above a span is its parent
  and what is above that one (`AboveNext`), which gives the step of one (`DepthNext`).
  `BarFits` is arithmetic on the earliest start and the latest end. `TreesAssumption`
  names what is assumed of a trace: finitely many rows, integer times, the primary key.
* **What a page shows in the end.** The three theorems are about runs in which
  nothing was overtaken, failed or was changed by somebody else (`Orderly`).
  `LineInv`: in such a run the requests stand in line, so those sent before the
  one that is being handled were answered. `NetStep` sorts the steps by what they do
  to the requests. Of the rules and of the dashboards: a change of the table
  *owes* the page a reload until one is sent behind it, and the last answer under
  way is what the table holds (`Led`); `OpenLed` says the same of the dashboard
  that is open, where the last of the answers that reopen one brings its row. It
  takes `SaveInv` for the ids below `nextDash`. Of the queries: of the requests that
  will fill a box (`Filling`), the last (`Behind`, since a health request goes on to a
  stats request with a later number) asks what was asked last (`AskTold`); when none is
  left the box shows its answer, or the banner (`BoxTold`). `Screened` adds that
  only what auth let through was answered ok, `SpansAsked` ties the trace of the
  waterfall to the last question for spans.

### Model-checked only

* The liveness properties `Delivered`, `Told` and `Settles`: fairness and ENABLED
  are outside what is used of TLAPS here.

## 5. Left out

Not modelled, and why:

* **Startup**: `Boot` keeps the one thing that matters, that nobody waits for the
  manager's first cycle. Configuration parsing, connecting and the external
  schema installer are I/O.
* **Conversions at ingest**: decoding of protobuf and JSON, attribute flattening,
  exemplars, CORS headers. Values are small naturals, attributes are part of a
  key or a payload.
* **Formatting of answers**: times, JSON, NDJSON.
* **Parts of admin and auth**: the size of the database and the number of partitions
  in `stats`, the comparison of tokens in constant time.
* **Parts of the console**: the cards that draw a dashboard's panels, tables,
  charts, the health dot, relative times, the theme; Start, End, step, aggregation
  and the other filters, which are read when a request is built, as the token is;
  the webhook URL of a rule (the hazards name what is wrong with clearing it).
* **Portal**: static files.

## 6. Plan

Done: the three parts that change state concurrently (metric ingest with its
cache, alerts, partitions with log and trace ingest), the query API, the
dashboards API and the console, their runs and the theorems above.

Next, in this order:

1. A run of metric ingest with a clock that stands still, in which two data points
   of one series share a timestamp, and one in which a counter is evicted and
   comes back: what the totals then promise.
2. A composition of metric ingest with Partitions, which replaces the missing
   partition hidden in `DbFails`.
3. Proofs about those two.
