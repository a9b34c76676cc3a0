------------------------------- MODULE SpanQuery -------------------------------
(***************************************************************************)
(* What is asked of the spans table: trace summaries and single traces     *)
(* (src/query/traces.rs), the service map (src/query/services.rs) and the  *)
(* Kubernetes topology (src/query/kubernetes.rs), as functions of its rows.*)
(***************************************************************************)
EXTENDS QueryRows, SequencesExt

CONSTANT TicksPerMs  \* spans are timed finer than the milliseconds shown

\* end.saturating_sub(start).max(0), with 0 for an end that was not sent
Duration(start, end) == Max({0, end - start})

\* What ingest_traces makes of a span: without an end it ends as it starts, and an
\* end before the start is kept.
SpanRow(s) ==
    [trace |-> s.trace, id |-> s.id, parent |-> s.parent, name |-> s.name, kind |-> s.kind,
     service |-> s.service, start |-> s.start, end |-> IF s.end = 0 THEN s.start ELSE s.end,
     duration |-> Duration(s.start, s.end), error |-> s.error, resource |-> s.resource]

InWindow(spans, window) == {s \in spans : Within(s.start, window)}
Start(r) == r.start
Took(r) == r.duration
Failed(rows) == {r \in rows : r.error}

-------------------------------------------------------------------------------
(* GET /api/v1/traces/query and /api/v1/traces/:trace_id                     *)

TraceIds(rows) == {r.trace : r \in rows}
SpansOf(rows, t) == {r \in rows : r.trace = t}

\* (Altered for a check of SummariesAreTrue: NULL sorts last, so no parent comes last.)
EarliestFirst(r, s) == r.start <= s.start

\* ORDER BY (parent_span_id IS NULL) DESC, start_time ASC
RootFirst(r, s) ==
    \/ r.parent = Absent /\ s.parent # Absent
    \/ (r.parent = Absent <=> s.parent = Absent) /\ r.start <= s.start

\* DISTINCT ON (trace_id): one of the first, whichever it is.
RootChoices(rows) ==
    {f \in [TraceIds(rows) -> rows] : \A t \in TraceIds(rows) :
        f[t] \in SpansOf(rows, t) /\ \A s \in SpansOf(rows, t) : RootFirst(f[t], s)}

\* In ticks, over the spans that are in the window.
TraceStart(rows) == Min({r.start : r \in rows})
TraceDuration(rows) == Max({r.end : r \in rows}) - TraceStart(rows)

\* ::bigint rounds to the nearest, half away from zero.
ToMs(ticks) ==
    IF ticks >= 0 THEN (2 * ticks + TicksPerMs) \div (2 * TicksPerMs)
    ELSE -((-2 * ticks + TicksPerMs) \div (2 * TicksPerMs))

StatusOf(rows) == IF Failed(rows) # {} THEN "error" ELSE "ok"

Summary(rows, root) ==
    [trace |-> root.trace, name |-> root.name, service |-> root.service, start |-> TraceStart(rows),
     ms |-> ToMs(TraceDuration(rows)), count |-> Cardinality(rows), status |-> StatusOf(rows)]

\* The WHERE clause: durations are compared before they are rounded.
Wanted(rows, root, q) ==
    /\ q.service = Absent \/ \E r \in rows : r.service = q.service
    /\ Passes(q.name, root.name)
    /\ Passes(q.status, StatusOf(rows))
    /\ q.shortest = Absent \/ TraceDuration(rows) >= q.shortest * TicksPerMs
    /\ q.longest = Absent \/ TraceDuration(rows) <= q.longest * TicksPerMs

Summaries(rows, roots, q) ==
    {Summary(SpansOf(rows, t), roots[t]) :
        t \in {u \in TraceIds(rows) : Wanted(SpansOf(rows, u), roots[u], q)}}

\* What the statement may return.
TracePages(spans, q, window, limit) ==
    LET rows == InWindow(spans, window) IN
    UNION {Pages(Summaries(rows, roots, q), limit, Start) : roots \in RootChoices(rows)}

-------------------------------------------------------------------------------
(* GET /api/v1/services                                                      *)

ServiceRows(spans, window) ==
    LET served == {s \in InWindow(spans, window) : s.kind = "Server" /\ s.service # Absent}
        Of(name) == {s \in served : s.service = name}
    IN  {[name |-> n, count |-> Cardinality(Of(n)), errors |-> Cardinality(Failed(Of(n))),
          p50 |-> Percentile(50, Of(n), Took), p90 |-> Percentile(90, Of(n), Took),
          p99 |-> Percentile(99, Of(n), Took)] : n \in {s.service : s \in served}}

\* (Altered for a check of ServiceMapIsTrue: joined on the span id alone.)
SameSpanId(child, parent) ==
    /\ child.parent = parent.id
    /\ parent.service # Absent /\ child.service # Absent
    /\ parent.service # child.service

\* The self-join: the child is in the window, its parent may have been stored any time.
Calls(child, parent) ==
    /\ child.trace = parent.trace
    /\ child.parent = parent.id
    /\ parent.service # Absent /\ child.service # Absent
    /\ parent.service # child.service

EdgeRows(spans, window) ==
    LET pairs == {p \in InWindow(spans, window) \X spans : Calls(p[1], p[2])}
        Ends(p) == <<p[2].service, p[1].service>>
        Of(e) == {p \in pairs : Ends(p) = e}
        CallTook(p) == p[1].duration
    IN  {[from |-> e[1], to |-> e[2], count |-> Cardinality(Of(e)),
          errors |-> Cardinality({p \in Of(e) : p[1].error}),
          p99 |-> Percentile(99, Of(e), CallTook)] : e \in {Ends(p) : p \in pairs}}

-------------------------------------------------------------------------------
(* GET /api/v1/kubernetes                                                    *)

Has(r, key) == key \in DOMAIN r.resource

\* resource ->> key
Text(r, key) == IF Has(r, key) /\ r.resource[key] # JsonNull THEN r.resource[key] ELSE Absent

\* COALESCE over the workload attributes and the service name
Workload(r) ==
    LET from == {j \in 1..3 : Text(r, <<"deployment", "statefulset", "daemonset">>[j]) # Absent} IN
    IF from = {} THEN r.service
    ELSE Text(r, <<"deployment", "statefulset", "daemonset">>[Min(from)])

\* CASE WHEN resource ? ..: the key is there, its value may be null.
WorkloadKind(r) ==
    CASE Has(r, "deployment") -> "Deployment"
      [] Has(r, "statefulset") -> "StatefulSet"
      [] Has(r, "daemonset") -> "DaemonSet"
      [] OTHER -> "Service"

GroupKey(r) == <<Text(r, "namespace"), Workload(r), WorkloadKind(r)>>

PodsOf(rows) == {Text(r, "pod") : r \in rows} \ {Absent}

WorkloadRows(spans, window) ==
    LET rows == {s \in InWindow(spans, window) : Has(s, "namespace")}
        Of(g) == {r \in rows : GroupKey(r) = g}
    IN  {[namespace |-> g[1], workload |-> g[2], kind |-> g[3], pods |-> PodsOf(Of(g)),
          count |-> Cardinality(Of(g)), errors |-> Cardinality(Failed(Of(g))),
          p50 |-> Percentile(50, Of(g), Took), p90 |-> Percentile(90, Of(g), Took),
          p99 |-> Percentile(99, Of(g), Took)] : g \in {GroupKey(r) : r \in rows}}

NodeCount(spans, window) ==
    Cardinality({Text(s, "node") : s \in {r \in InWindow(spans, window) : Has(r, "node")}} \ {Absent})

NoNamespaces == [n \in {} |-> [pods |-> 0, count |-> 0, errors |-> 0, workloads |-> <<>>]]

\* (Altered for a check of RollupsAddUp: the failures are not added up.)
FoldedNoErrors(tree, w) ==
    LET old == IF w.namespace \in DOMAIN tree THEN tree[w.namespace]
               ELSE [pods |-> 0, count |-> 0, errors |-> 0, workloads |-> <<>>]
        new == [pods |-> old.pods + Cardinality(w.pods), count |-> old.count + w.count,
                errors |-> old.errors, workloads |-> Append(old.workloads, w)]
    IN  IF w.namespace = Absent \/ w.workload = Absent THEN tree
        ELSE [n \in DOMAIN tree \cup {w.namespace} |->
                 IF n = w.namespace THEN new ELSE tree[n]]

\* One row folded into the tree, rows without a namespace or a workload are skipped.
Folded(tree, w) ==
    LET old == IF w.namespace \in DOMAIN tree THEN tree[w.namespace]
               ELSE [pods |-> 0, count |-> 0, errors |-> 0, workloads |-> <<>>]
        new == [pods |-> old.pods + Cardinality(w.pods), count |-> old.count + w.count,
                errors |-> old.errors + w.errors, workloads |-> Append(old.workloads, w)]
    IN  IF w.namespace = Absent \/ w.workload = Absent THEN tree
        ELSE [n \in DOMAIN tree \cup {w.namespace} |->
                 IF n = w.namespace THEN new ELSE tree[n]]

\* ORDER BY namespace, span_count DESC: rows of one count are in no order, and that of
\* the namespaces makes no difference to the tree.
Ordered(rows) ==
    {list \in SetToSeqs(rows) : \A i, j \in DOMAIN list :
        i < j /\ list[i].namespace = list[j].namespace => list[i].count >= list[j].count}

Namespaces(list) == FoldLeft(Folded, NoNamespaces, list)
==============================================================================
