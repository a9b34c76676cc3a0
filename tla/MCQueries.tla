------------------------------- MODULE MCQueries -------------------------------
(***************************************************************************)
(* Instances of QueryApi for TLC: rows that meet at the edges of windows,  *)
(* buckets, months and pages, and the calls that ask for them.             *)
(***************************************************************************)
EXTENDS QueryApi, TLC

CONSTANTS red, blue,     \* names and attribute values
          shape1, shape2 \* histogram distributions

Text1(v) == <<"string", v>>
Number1 == <<"number", red>>

(* Metrics: a counter, a gauge of another name, a histogram; months of 8.    *)
SomeSeries ==
    {[id |-> 1, name |-> red, kind |-> "Sum", attributes |-> "env" :> Text1(red)],
     [id |-> 2, name |-> red, kind |-> "Gauge", attributes |-> "env" :> Number1],
     [id |-> 3, name |-> red, kind |-> "Histogram", attributes |-> "env" :> Text1(red)]}
SomePoints ==
    {[sid |-> 1, ts |-> 7, val |-> 1, exemplar |-> blue], [sid |-> 1, ts |-> 8, val |-> 2, exemplar |-> Absent],
     [sid |-> 1, ts |-> 10, val |-> 4, exemplar |-> Absent], [sid |-> 2, ts |-> 9, val |-> 3, exemplar |-> Absent]}
SomeHists ==
    {[sid |-> 3, ts |-> 8, sum |-> 5, count |-> 2, shape |-> shape1],
     [sid |-> 3, ts |-> 9, sum |-> Absent, count |-> 1, shape |-> shape2],
     [sid |-> 3, ts |-> 10, sum |-> 1, count |-> 1, shape |-> Absent]}

Metrics(start, end, step, agg, filter) ==
    [op |-> "metrics", name |-> red, start |-> start, end |-> end, step |-> step, agg |-> agg,
     filter |-> filter]

ScalarCalls ==
    {Metrics(6, 11, 3, "sum", <<>>), Metrics(8, 10, 2, "sum", <<<<"env", blue>>, <<"env", red>>>>),
     Metrics(7, 11, 0, Absent, <<Bare>>), Metrics(8, 8, 2, "sum", <<>>),
     Metrics(7, 11, 2, "median", <<>>), [op |-> "names"], [op |-> "listing", name |-> red]}
HistogramCalls ==
    {Metrics(7, 10, Absent, "sum", <<>>), Metrics(7, 11, Absent, "count", <<>>),
     Metrics(7, 9, 4, "min", <<>>), Metrics(7, 9, 4, "max", <<>>)}

ScalarScenario ==
    [rows |-> [EmptyDb EXCEPT !.series = {s \in SomeSeries : s.id \in {1, 2}}, !.points = SomePoints],
     calls |-> ScalarCalls]
HistogramScenario ==
    [rows |-> [EmptyDb EXCEPT !.series = {s \in SomeSeries : s.id \in {1, 3}}, !.hists = SomeHists,
                              !.points = {p \in SomePoints : p.ts = 8}],
     calls |-> HistogramCalls]

(* Logs: two records of one time at the edge of the page.                    *)
Log(id, ts, severity, body, trace) ==
    [id |-> id, ts |-> ts, severity |-> severity, body |-> body, trace |-> trace, span |-> Absent,
     attributes |-> "env" :> (IF id = 4 THEN Number1 ELSE Text1(red))]
SomeLogs == {Log(1, 7, 9, {red}, red), Log(2, 8, 17, {red, blue}, red), Log(3, 8, Absent, Absent, red),
             Log(4, 9, 17, {blue}, blue), Log(5, 9, 9, {red}, red)}

Logs(start, end, limit, severity, text, filter, trace) ==
    [op |-> "logs", start |-> start, end |-> end, limit |-> limit, severity |-> severity,
     text |-> text, filter |-> filter, trace |-> trace, span |-> Absent]
LogCalls ==
    {Logs(7, 10, Absent, Absent, Absent, <<>>, Absent), Logs(7, 10, 0, Absent, Absent, <<>>, red),
     Logs(8, 10, 9, 9, Absent, <<<<"env", red>>>>, Absent), Logs(7, 9, 9, Absent, blue, <<Bare>>, Absent),
     Logs(7, 10, 9, Absent, Absent, <<>>, Absent), Logs(Garbage, 9, 9, Absent, Absent, <<>>, Absent)}
LogScenario == [rows |-> [EmptyDb EXCEPT !.logs = SomeLogs], calls |-> LogCalls]

(* Spans: a trace over two services that reaches out of the window, one whose *)
(* root ends before its child, one with a span that ends before it starts.    *)
Pod(deployment, pod) ==
    "namespace" :> red @@ "deployment" :> deployment @@ "pod" :> pod @@ "node" :> red
Span(trace, id, parent, service, start, end, error, resource) ==
    [trace |-> trace, id |-> id, parent |-> parent, name |-> id, kind |-> IF parent = 1 THEN "Client" ELSE "Server",
     service |-> service, start |-> start, end |-> end, error |-> error, resource |-> resource]
SomeSpans ==
    {Span(red, 1, Absent, red, 7, 12, FALSE, Pod(red, red)),
     Span(red, 2, 1, blue, 8, 11, TRUE, Pod(blue, blue)),
     Span(red, 3, 2, red, 8, 10, FALSE, Pod(JsonNull, red)),
     Span(blue, 1, Absent, red, 9, 0, FALSE, "namespace" :> red @@ "pod" :> JsonNull),
     Span(blue, 2, 1, Absent, 9, 8, FALSE, "namespace" :> red),
     Span(blue, 4, 1, blue, 8, 9, FALSE, "node" :> JsonNull)}

Traces(start, end, limit, service, name, status, shortest, longest) ==
    [op |-> "traces", start |-> start, end |-> end, limit |-> limit, service |-> service, name |-> name,
     status |-> status, shortest |-> shortest, longest |-> longest]
TraceCalls ==
    {Traces(7, 10, Absent, Absent, Absent, Absent, Absent, Absent),
     Traces(8, 10, 1, blue, Absent, Absent, Absent, Absent),
     Traces(8, 10, 9, Absent, 1, "ok", Absent, 1), Traces(7, 9, 9, Absent, Absent, "error", 2, Absent),
     [op |-> "trace", trace |-> red]}
ServiceCalls == {[op |-> "services", start |-> 7, end |-> 9], [op |-> "services", start |-> Absent, end |-> Absent]}
K8sCalls == {[op |-> "kubernetes", start |-> 7, end |-> 10], [op |-> "kubernetes", start |-> 8, end |-> Garbage]}

TraceScenario == [rows |-> [EmptyDb EXCEPT !.spans = SomeSpans], calls |-> TraceCalls]
ServiceScenario ==
    [rows |-> [EmptyDb EXCEPT !.spans = {s \in SomeSpans : s.service # Absent}], calls |-> ServiceCalls]
K8sScenario ==
    [rows |-> [EmptyDb EXCEPT !.spans = {s \in SomeSpans : s.id # 4}], calls |-> K8sCalls]

\* A row of each table.
StatsScenario ==
    [rows |-> [series |-> {s \in SomeSeries : s.id = 1}, points |-> {p \in SomePoints : p.ts = 8},
               hists |-> {}, logs |-> {Log(1, 7, 9, {red}, red), Log(2, 8, 17, {red, blue}, red)},
               spans |-> {Span(red, 1, Absent, red, 7, 12, FALSE, "node" :> red)}],
     calls |-> {[op |-> "stats"]}]

AllScenarios == {ScalarScenario, HistogramScenario, LogScenario, TraceScenario, ServiceScenario,
                 K8sScenario, StatsScenario}
SmallLogPage == [default |-> 2, most |-> 3]
SmallTracePage == [default |-> 2, most |-> 2]
==============================================================================
