------------------------------- MODULE QueryApi -------------------------------
(***************************************************************************)
(* The read side of the HTTP API (src/query/, src/admin.rs).  A handler    *)
(* runs one SQL statement after the other, each of them on the tables as   *)
(* they are then: rows are committed and partitions dropped in between,    *)
(* and a statement may fail.  Handlers write nothing, so one call at a     *)
(* time is as good as many.                                                *)
(***************************************************************************)
EXTENDS MetricQuery, SpanQuery

CONSTANTS Scenarios,    \* the rows exporters will send, and the calls made meanwhile
          Now,          \* Utc::now() of the calls
          MonthLength,
          DefaultStep,  \* 60 seconds
          LogPage, TracePage,  \* default and greatest limit: 100 and 1000, 50 and 500
          MaxFaults     \* bound of the checked instance

ASSUME PageAssumption == \A p \in {LogPage, TracePage} : p.most \in Nat /\ p.default \in 1..p.most
ASSUME UnitAssumption == {MonthLength, DefaultStep, TicksPerMs} \subseteq Nat \ {0} /\ MaxFaults \in Nat

Times == Int \cup {Garbage}
Optional(S) == S \cup {Absent}

\* What axum's Query extractor makes of the query strings.
MetricsQueryParams(q) ==
    /\ DOMAIN q = {"op", "name", "start", "end", "step", "filter", "agg"}
    /\ q.start \in Times /\ q.end \in Times /\ q.step \in Optional(Int)
    /\ q.agg \in Optional(STRING)

LogsQueryParams(q) ==
    /\ DOMAIN q = {"op", "start", "end", "filter", "severity", "text", "limit", "trace", "span"}
    /\ q.start \in Times /\ q.end \in Times
    /\ q.severity \in Optional(Int) /\ q.limit \in Optional(Int)

TracesQueryParams(q) ==
    /\ DOMAIN q = {"op", "service", "name", "status", "shortest", "longest", "start", "end", "limit"}
    /\ q.start \in Times /\ q.end \in Times /\ q.limit \in Optional(Int)
    /\ q.shortest \in Optional(Int) /\ q.longest \in Optional(Int)

WindowParams(q) ==
    /\ DOMAIN q = {"op", "start", "end"}
    /\ q.start \in Optional(Times) /\ q.end \in Optional(Times)

Ops == {"metrics", "names", "listing", "logs", "traces", "trace", "services", "kubernetes", "stats"}

ASSUME CallAssumption == \A s \in Scenarios : \A q \in s.calls :
    /\ q.op \in Ops
    /\ q.op = "metrics" => MetricsQueryParams(q)
    /\ q.op = "logs" => LogsQueryParams(q)
    /\ q.op = "traces" => TracesQueryParams(q)
    /\ q.op \in {"services", "kubernetes"} => WindowParams(q)

VARIABLES db,       \* per table: its rows
          pending,  \* per table: rows that were not sent yet
          calls,    \* the calls of the scenario
          call,     \* the call being handled
          held,     \* rows that were in the tables ever since it began
          shown,    \* rows that were in them at some time since it began
          faults

vars == <<db, pending, calls, call, held, shown, faults>>
tables == <<db, pending, calls>>

Tables == {"series", "points", "hists", "logs", "spans"}
Partitioned == Tables \ {"series"}
EmptyDb == [t \in Tables |-> {}]

\* What the keys of the tables say of the rows exporters send, and that there are finitely many.
ASSUME RowsAssumption == \A s \in Scenarios :
    /\ DOMAIN s.rows = Tables /\ \A t \in Tables : IsFiniteSet(s.rows[t])
    /\ \A r \in s.rows.points \cup s.rows.hists \cup s.rows.logs : r.ts \in Int
    /\ \A r, x \in s.rows.hists : r.sid = x.sid /\ r.ts = x.ts => r = x
    /\ \A r \in s.rows.hists, x \in s.rows.series : x.id = r.sid => x.kind = "Histogram"
    /\ \A r \in s.rows.spans : r.start \in Int /\ r.end \in Int

Idle == [pc |-> "idle", q |-> Absent, read |-> <<>>, answer |-> {}, status |-> 200, failed |-> FALSE]

\* The first statement of each handler.
FirstStatement(op) ==
    CASE op = "metrics" -> "series"     [] op = "names" -> "names"
      [] op = "listing" -> "listing"    [] op = "logs" -> "logs"
      [] op = "traces" -> "traces"      [] op = "trace" -> "trace"
      [] op = "services" -> "services"  [] op = "kubernetes" -> "workloads"
      [] op = "stats" -> "stats"

Statements == {"series", "scalars", "histograms", "distributions", "names", "listing", "logs",
               "traces", "trace", "services", "edges", "workloads", "nodes", "stats"}

StatColumns == <<"series", "points", "hists", "logs", "spans">>

\* What the answers are made of.
SeriesResult(s) ==
    /\ DOMAIN s = {"id", "kind", "attributes", "points", "histogram"}
    /\ s.points # {} /\ \A p \in s.points : p.sid = s.id /\ p.start < p.end
    /\ s.kind # "Histogram" => s.histogram = {}

TraceSummary(t) == t.count >= 1 /\ t.ms \in Int /\ t.status \in {"ok", "error"}

ServiceMapResponse(m) ==
    /\ \A s \in m.services : s.count >= 1 /\ s.errors \in 0..s.count /\ s.p50 >= 0
    /\ \A e \in m.edges : e.from # e.to /\ e.count >= 1 /\ e.errors \in 0..e.count

K8sTopologyResponse(m) ==
    /\ m.nodes \in Nat
    /\ \A n \in DOMAIN m.namespaces :
          \A j \in DOMAIN m.namespaces[n].workloads :
             LET w == m.namespaces[n].workloads[j] IN
             w.workload # Absent /\ w.count >= 1 /\ w.errors \in 0..w.count

Answered(op) == call.pc = "answered" /\ call.status = 200 /\ call.q.op = op

TypeOK ==
    /\ DOMAIN db = Tables /\ DOMAIN pending = Tables
    /\ call.pc \in Statements \cup {"idle", "answered"}
    /\ call.status \in {200, 400, 404, 500}
    /\ Len(call.read) <= Len(StatColumns)
    /\ call.pc # "idle" => call.q \in calls
    /\ Answered("metrics") => \A s \in call.answer : SeriesResult(s)
    /\ Answered("logs") => Cardinality(call.answer) <= LogPage.most
    /\ Answered("traces") => \A t \in call.answer : TraceSummary(t)
    /\ Answered("services") => ServiceMapResponse(call.answer)
    /\ Answered("kubernetes") => K8sTopologyResponse(call.answer)
    /\ \A t \in Tables : held[t] \subseteq shown[t]
    /\ faults \in 0..MaxFaults

Init ==
    /\ db = EmptyDb
    /\ \E s \in Scenarios : pending = s.rows /\ calls = s.calls
    /\ call = Idle
    /\ held = EmptyDb
    /\ shown = EmptyDb
    /\ faults = 0

-------------------------------------------------------------------------------
(* The write side, in outline: MetricIngest, TelemetryIngest and Partitions  *)
(* have the details.                                                         *)

TimeOf(t, r) == IF t = "spans" THEN r.start ELSE r.ts

Stored(t, r) == IF t = "spans" THEN SpanRow(r) ELSE r

Watch == /\ held' = [t \in Tables |-> held[t] \cap db'[t]]
         /\ shown' = [t \in Tables |-> shown[t] \cup db'[t]]

Ingest(t, r) ==
    /\ r \in pending[t]
    /\ t \in {"points", "hists"} => \E s \in db.series : s.id = r.sid
    /\ pending' = [pending EXCEPT ![t] = @ \ {r}]
    /\ db' = [db EXCEPT ![t] = @ \cup {Stored(t, r)}]
    /\ Watch
    /\ UNCHANGED <<calls, call, faults>>

DropPartition(t, month) ==
    /\ \E r \in db[t] : TimeOf(t, r) \div MonthLength = month
    /\ db' = [db EXCEPT ![t] = {r \in @ : TimeOf(t, r) \div MonthLength # month}]
    /\ Watch
    /\ UNCHANGED <<pending, calls, call, faults>>

-------------------------------------------------------------------------------
(* The handlers.                                                             *)

Ranged(op) == op \in {"metrics", "logs", "traces", "services", "kubernetes"}

BadRequest(q) ==
    \/ Ranged(q.op) /\ BadRange(q, Now)
    \/ q.op = "metrics" /\ Agg(q) \notin Aggs

Asked == Window(call.q, Now)

Receive(q) ==
    /\ call.pc = "idle"
    /\ call' = IF BadRequest(q)
               THEN [Idle EXCEPT !.pc = "answered", !.q = q, !.status = 400]
               ELSE [Idle EXCEPT !.pc = FirstStatement(q.op), !.q = q]
    /\ held' = db
    /\ shown' = db
    /\ UNCHANGED <<tables, faults>>

Reading(statement) ==
    call.pc = statement /\ UNCHANGED <<tables, held, shown, faults>>

\* Statement by statement: what was read is kept, the next one is run.
Continue(c, result, next) == [c EXCEPT !.read = Append(@, result), !.pc = next]

Answer(c, status, answer) == [c EXCEPT !.pc = "answered", !.status = status, !.answer = answer]

\* query_metrics: no series, no further statement.
SeriesRead(c, found) ==
    IF found = {} THEN Answer(c, 200, {}) ELSE Continue(c, found, "scalars")

ReadSeries ==
    /\ Reading("series")
    /\ call' = SeriesRead(call, MatchingSeries(db.series, call.q))

ReadScalars ==
    /\ Reading("scalars")
    /\ call' = Continue(call, ScalarBuckets(db.points, ScalarIds(call.read[1]), Asked,
                                            Step(call.q, DefaultStep), Agg(call.q)),
                        "histograms")

ReadHistograms ==
    /\ Reading("histograms")
    /\ call' = Continue(call, HistogramBuckets(db.hists, HistogramIds(call.read[1]), Asked,
                                               Step(call.q, DefaultStep)),
                        "distributions")

\* The last statement, and the answer.
MetricsRead(c, newest) ==
    Answer(c, 200, AssembleSeries(c.read[1], c.read[2], c.read[3], newest))

ReadDistributions ==
    /\ Reading("distributions")
    /\ call' = MetricsRead(call, NewestDistributions(db.hists, HistogramIds(call.read[1]), Asked))

ListNames ==
    /\ Reading("names")
    /\ call' = Answer(call, 200, {s.name : s \in db.series})

ListSeries ==
    /\ Reading("listing")
    /\ call' = Answer(call, 200, {s \in db.series : s.name = call.q.name})

\* The WHERE clause of query_logs but for the window; a NULL severity or body passes
\* no filter on it.
Admits(r, q) ==
    /\ q.severity = Absent \/ (r.severity # Absent /\ r.severity >= q.severity)
    /\ q.text = Absent \/ (r.body # Absent /\ q.text \in r.body)
    /\ Carries(r.attributes, ParseFilter(q.filter))
    /\ Passes(q.trace, r.trace) /\ Passes(q.span, r.span)

LogTime(r) == r.ts

\* (Altered for a check of PageIsNewest: the limit is taken before the filter.)
MatchingAmongNewest(logs, q, window) ==
    LET newest == CHOOSE page \in Pages({r \in logs : Within(r.ts, window)}, Limit(q, LogPage),
                                        LogTime) : TRUE
    IN  {r \in newest : Admits(r, q)}

MatchingLogs(logs, q, window) == {r \in logs : Within(r.ts, window) /\ Admits(r, q)}

QueryLogs ==
    /\ Reading("logs")
    /\ \E page \in Pages(MatchingLogs(db.logs, call.q, Asked), Limit(call.q, LogPage),
                         LogTime) :
          call' = Answer(call, 200, page)

QueryTraces ==
    /\ Reading("traces")
    /\ \E page \in TracePages(db.spans, call.q, Asked, Limit(call.q, TracePage)) :
          call' = Answer(call, 200, page)

\* get_trace has no window.
GetTrace ==
    /\ Reading("trace")
    /\ LET spans == SpansOf(db.spans, call.q.trace) IN
          call' = Answer(call, IF spans = {} THEN 404 ELSE 200, spans)

ReadServices ==
    /\ Reading("services")
    /\ call' = Continue(call, ServiceRows(db.spans, Asked), "edges")

ReadEdges ==
    /\ Reading("edges")
    /\ call' = Answer(call, 200, [services |-> call.read[1], edges |-> EdgeRows(db.spans, Asked)])

ReadWorkloads ==
    /\ Reading("workloads")
    /\ \E list \in Ordered(WorkloadRows(db.spans, Asked)) : call' = Continue(call, list, "nodes")

CountNodes ==
    /\ Reading("nodes")
    /\ call' = Answer(call, 200, [namespaces |-> Namespaces(call.read[1]),
                                  nodes |-> NodeCount(db.spans, Asked)])

\* admin::stats counts one table after the other.
Counted(c, n) ==
    IF Len(c.read) + 1 < Len(StatColumns) THEN Continue(c, n, "stats")
    ELSE Answer(c, 200, Append(c.read, n))

\* (Altered for a check of StatsAreBracketed: the logs are counted twice.)
CountPasted(j) == Cardinality(db[StatColumns[Min({j, 4})]])

CountRows(j) == Cardinality(db[StatColumns[j]])

ReadStats ==
    /\ Reading("stats")
    /\ call' = Counted(call, CountRows(Len(call.read) + 1))

Respond ==
    /\ call.pc = "answered"
    /\ call' = Idle
    /\ held' = EmptyDb
    /\ shown' = EmptyDb
    /\ UNCHANGED <<tables, faults>>

\* A statement fails: unwrap_or_default makes an empty result of it in query_metrics,
\* unwrap_or(0) a zero in stats; the other handlers answer 500.
AfterFailure(c) ==
    CASE c.pc = "series" -> SeriesRead(c, {})
      [] c.pc = "scalars" -> Continue(c, {}, "histograms")
      [] c.pc = "histograms" -> Continue(c, {}, "distributions")
      [] c.pc = "distributions" -> MetricsRead(c, {})
      [] c.pc = "stats" -> Counted(c, 0)
      [] OTHER -> Answer(c, 500, {})

StatementFails ==
    /\ faults < MaxFaults
    /\ call.pc \in Statements
    /\ faults' = faults + 1
    /\ call' = AfterFailure([call EXCEPT !.failed = TRUE])
    /\ UNCHANGED <<tables, held, shown>>

QueryMetrics == ReadSeries \/ ReadScalars \/ ReadHistograms \/ ReadDistributions
ServiceMap == ReadServices \/ ReadEdges
K8sTopology == ReadWorkloads \/ CountNodes

Next ==
    \/ \E t \in Tables : \E r \in pending[t] : Ingest(t, r)
    \/ \E t \in Partitioned : \E r \in db[t] : DropPartition(t, TimeOf(t, r) \div MonthLength)
    \/ \E q \in calls : Receive(q)
    \/ QueryMetrics \/ ListNames \/ ListSeries \/ QueryLogs \/ QueryTraces \/ GetTrace
    \/ ServiceMap \/ K8sTopology \/ ReadStats
    \/ StatementFails
    \/ Respond

Spec == Init /\ [][Next]_vars

-------------------------------------------------------------------------------
(* Properties.  The tables change while a handler reads them: an answer is   *)
(* right if it lies between the rows that were there all the time and those  *)
(* that were there at any.                                                   *)

\* A chart of sums (of a counter's deltas, of a histogram's counts) leaves no data
\* point out and counts none twice: each bucket is the sum of the data points in it,
\* whatever the window cuts off the first and the last one and whatever is stored and
\* dropped between the four statements of query_metrics, and without a failure every
\* data point that was there all the time is in a bucket.
SumsAreBracketed ==
    Answered("metrics") /\ Agg(call.q) = "sum" =>
        LET step == Step(call.q, DefaultStep)
            DataOf(s, tab) == {r \in IF s.kind = "Histogram" THEN tab.hists ELSE tab.points :
                                  r.sid = s.id /\ Within(r.ts, Asked)}
            InBin(s, tab, t) == {r \in DataOf(s, tab) : t <= r.ts /\ r.ts < t + step}
            Adds(s, p, rows) == IF s.kind = "Histogram" THEN p.count = MapThenSumSet(CountOf, rows)
                                ELSE p.value = Total(rows)
        IN  /\ \A s \in call.answer : \A p \in s.points :
                  \E rows \in SUBSET InBin(s, shown, p.start) :
                      InBin(s, held, p.start) \subseteq rows /\ Adds(s, p, rows)
            /\ ~call.failed =>
                  \A s \in MatchingSeries(held.series, call.q) : \A r \in DataOf(s, held) :
                     \E a \in call.answer : \E p \in a.points :
                        a.id = s.id /\ a.kind = s.kind /\ p.start <= r.ts /\ r.ts < p.end

\* The distribution beside a histogram's chart is that of a data point in the window,
\* and no older one than any that was there when the query came.
DistributionIsNewest ==
    Answered("metrics") => \A s \in call.answer :
        LET Shaped(rows) == {r \in rows : r.sid = s.id /\ Within(r.ts, Asked) /\ r.shape # Absent} IN
        /\ s.histogram \subseteq Shaped(shown.hists)
        /\ Cardinality(s.histogram) <= 1
        /\ \A r \in Shaped(held.hists), h \in s.histogram : r.ts <= h.ts
        /\ ~call.failed /\ Shaped(held.hists) # {} => s.histogram # {}

\* Log search: what is returned matches every filter, and a matching record is left
\* out only when the page is full of records at least as new.
PageIsNewest ==
    Answered("logs") =>
        LET Matching(rows) == {r \in rows : Within(r.ts, Asked) /\ Admits(r, call.q)} IN
        /\ call.answer \subseteq Matching(shown.logs)
        /\ \A r \in Matching(held.logs) \ call.answer :
              /\ Cardinality(call.answer) = Limit(call.q, LogPage)
              /\ \A s \in call.answer : s.ts >= r.ts

\* Trace search: a listed trace has as many spans as its window holds, shows a failure
\* if and only if one of them failed, is named after a span without a parent if there
\* is one, and its rounded duration satisfies the duration filter of the query.
SummariesAreTrue ==
    Answered("traces") => \A a \in call.answer :
        LET InIt(rows) == SpansOf(InWindow(rows, Asked), a.trace) IN
        /\ Cardinality(InIt(held.spans)) <= a.count /\ a.count <= Cardinality(InIt(shown.spans))
        /\ Failed(InIt(held.spans)) # {} => a.status = "error"
        /\ a.status = "error" => Failed(InIt(shown.spans)) # {}
        /\ (\E r \in InIt(held.spans) : r.parent = Absent) =>
              \E r \in InIt(shown.spans) : r.parent = Absent /\ r.name = a.name
        /\ call.q.shortest # Absent => a.ms >= call.q.shortest
        /\ call.q.longest # Absent => a.ms <= call.q.longest

\* Service map: every cross-service call of the window, and no other pair of spans, is
\* on the edge of its two services.  Every service that served a span is listed, with
\* the spans and failures it had, and with percentiles that are durations of its spans,
\* as many of them no longer as the percentile says.
ServiceMapIsTrue ==
    Answered("services") =>
        LET CallPairs(rows, from, to) ==
               {p \in InWindow(rows, Asked) \X rows :
                   /\ p[1].trace = p[2].trace /\ p[1].parent = p[2].id
                   /\ p[2].service = from /\ p[1].service = to /\ from # to}
            Serving(rows, n) == {r \in InWindow(rows, Asked) : r.kind = "Server" /\ r.service = n}
            Least(p, rows, v) == 100 * Cardinality({r \in rows : r.duration <= v})
                                    >= p * Cardinality(rows)
        IN  /\ \A e \in call.answer.edges :
                  /\ e.count <= Cardinality(CallPairs(shown.spans, e.from, e.to))
                  /\ e.count >= Cardinality(CallPairs(held.spans, e.from, e.to))
            /\ \A p \in held.spans \X held.spans :
                  p \in CallPairs(held.spans, p[2].service, p[1].service)
                  /\ p[1].service # Absent /\ p[2].service # Absent =>
                     \E e \in call.answer.edges : e.from = p[2].service /\ e.to = p[1].service
            /\ \A r \in InWindow(held.spans, Asked) : r.kind = "Server" /\ r.service # Absent =>
                  \E s \in call.answer.services : s.name = r.service
            /\ \A s \in call.answer.services :
                  LET before == Serving(held.spans, s.name)
                      after == Serving(shown.spans, s.name)
                  IN  /\ Cardinality(before) <= s.count /\ s.count <= Cardinality(after)
                      /\ Cardinality(Failed(before)) <= s.errors
                      /\ s.errors <= Cardinality(Failed(after))
                      /\ s.p50 <= s.p90 /\ s.p90 <= s.p99
                      /\ {s.p50, s.p90, s.p99} \subseteq {r.duration : r \in after}
                      /\ held.spans = shown.spans =>
                            Least(50, before, s.p50) /\ Least(90, before, s.p90)
                            /\ Least(99, before, s.p99)

\* The spans of the window that run in a namespace, and those of one workload there.
InSpace(rows, n) ==
    {r \in InWindow(rows, Asked) : Text(r, "namespace") = n /\ Workload(r) # Absent}
OfWorkload(rows, n, w) ==
    {r \in InSpace(rows, n) : Workload(r) = w.workload /\ WorkloadKind(r) = w.kind}

\* A workload has the spans, failures and pods it had.
WorkloadHolds(n, w) ==
    LET before == OfWorkload(held.spans, n, w)
        after == OfWorkload(shown.spans, n, w)
    IN  /\ Cardinality(before) <= w.count /\ w.count <= Cardinality(after)
        /\ Cardinality(Failed(before)) <= w.errors /\ w.errors <= Cardinality(Failed(after))
        /\ PodsOf(before) \subseteq w.pods /\ w.pods \subseteq PodsOf(after)

\* A namespace has the sums of its workloads, each listed once, the busiest first.
NamespaceHolds(n, e) ==
    LET ws == e.workloads IN
    /\ e.count = SumFunction([j \in DOMAIN ws |-> ws[j].count])
    /\ e.errors = SumFunction([j \in DOMAIN ws |-> ws[j].errors])
    /\ e.pods = SumFunction([j \in DOMAIN ws |-> Cardinality(ws[j].pods)])
    /\ \A i, j \in DOMAIN ws : i < j =>
          /\ ws[i].count >= ws[j].count
          /\ ws[i].workload # ws[j].workload \/ ws[i].kind # ws[j].kind
    /\ \A j \in DOMAIN ws : WorkloadHolds(n, ws[j])

SpanListed(tree, r) ==
    /\ Text(r, "namespace") \in DOMAIN tree
    /\ LET ws == tree[Text(r, "namespace")].workloads IN
       \E j \in DOMAIN ws : ws[j].workload = Workload(r) /\ ws[j].kind = WorkloadKind(r)

\* Kubernetes: the numbers of a namespace are the sums of its workloads'; each workload
\* is listed once, the busiest first, with the spans, failures and pods it had; and no
\* span that names a namespace and a workload is left out.
RollupsAddUp ==
    Answered("kubernetes") =>
        /\ \A n \in DOMAIN call.answer.namespaces :
              NamespaceHolds(n, call.answer.namespaces[n])
        /\ \A r \in InWindow(held.spans, Asked) :
              Text(r, "namespace") # Absent /\ Workload(r) # Absent =>
                 SpanListed(call.answer.namespaces, r)

\* The portal's statistics: each count lies between what its table held and what it had
\* held during the call, or is 0 after a failed statement.
StatsAreBracketed ==
    Answered("stats") => \A j \in DOMAIN StatColumns :
        \/ call.answer[j] = 0 /\ call.failed
        \/ /\ Cardinality(held[StatColumns[j]]) <= call.answer[j]
           /\ call.answer[j] <= Cardinality(shown[StatColumns[j]])
==============================================================================
