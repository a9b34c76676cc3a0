------------------------------ MODULE MetricQuery ------------------------------
(***************************************************************************)
(* The statements of GET /api/v1/metrics/query (src/query/metrics.rs) as   *)
(* functions of the tables, and what the handler makes of their rows.      *)
(***************************************************************************)
EXTENDS QueryRows

Aggs == {"sum", "avg", "min", "max", "count"}

Agg(q) == IF q.agg = Absent THEN "avg" ELSE q.agg

\* step.unwrap_or(60).max(1)
Step(q, default) == IF q.step = Absent THEN default ELSE Max({1, q.step})

\* (Altered for a check of SumsAreBracketed: buckets rounded to the nearest.)
BinNearest(t, step) == step * ((t + step \div 2) \div step)

\* date_bin(step, t, 'epoch')
DateBin(t, step) == step * (t \div step)

MatchingSeries(series, q) ==
    {s \in series : s.name = q.name /\ Carries(s.attributes, ParseFilter(q.filter))}

ScalarIds(series) == {s.id : s \in {x \in series : x.kind # "Histogram"}}
HistogramIds(series) == {s.id : s \in {x \in series : x.kind = "Histogram"}}

Value(r) == r.val
Total(rows) == MapThenSumSet(Value, rows)

\* agg_sql.  An average is kept as a sum and a count.
Aggregate(agg, rows) ==
    CASE agg = "sum" -> Total(rows)
      [] agg = "avg" -> <<Total(rows), Cardinality(rows)>>
      [] agg = "min" -> Min({r.val : r \in rows})
      [] agg = "max" -> Max({r.val : r \in rows})

RowsOf(table, ids, window) == {r \in table : r.sid \in ids /\ Within(r.ts, window)}

Bins(rows, step) == {<<r.sid, DateBin(r.ts, step)>> : r \in rows}
Binned(rows, bin, step) == {r \in rows : r.sid = bin[1] /\ DateBin(r.ts, step) = bin[2]}

\* The scalar statement.  COUNT(..) is a bigint and the row wants a float8: for
\* "count" no row decodes, and the error becomes an empty result.  "exemplars" are
\* those that (array_agg(..))[1] may pick from.
ScalarBuckets(points, ids, window, step, agg) ==
    LET rows == RowsOf(points, ids, window) IN
    IF agg = "count" THEN {}
    ELSE {[sid |-> b[1], start |-> b[2], end |-> b[2] + step,
           value |-> Aggregate(agg, Binned(rows, b, step)), count |-> Absent,
           exemplars |-> {r.exemplar : r \in Binned(rows, b, step)} \ {Absent}]
             : b \in Bins(rows, step)}

SumOf(r) == r.sum
CountOf(r) == r.count

\* SUM(sum) is NULL if every sum is.
SumOrNull(rows) ==
    LET summed == {r \in rows : r.sum # Absent} IN
    IF summed = {} THEN Absent ELSE MapThenSumSet(SumOf, summed)

HistogramBuckets(hists, ids, window, step) ==
    LET rows == RowsOf(hists, ids, window) IN
    {[sid |-> b[1], start |-> b[2], end |-> b[2] + step,
      value |-> SumOrNull(Binned(rows, b, step)),
      count |-> MapThenSumSet(CountOf, Binned(rows, b, step)), exemplars |-> {}]
        : b \in Bins(rows, step)}

\* (Altered for a check of DistributionIsNewest: ORDER BY ts, not ts DESC.)
OldestDistributions(hists, ids, window) ==
    LET rows == {r \in RowsOf(hists, ids, window) : r.shape # Absent} IN
    {r \in rows : \A s \in rows : s.sid = r.sid => s.ts >= r.ts}

\* SELECT DISTINCT ON (series_id) .. ORDER BY series_id, ts DESC
NewestDistributions(hists, ids, window) ==
    LET rows == {r \in RowsOf(hists, ids, window) : r.shape # Absent} IN
    {r \in rows : \A s \in rows : s.sid = r.sid => s.ts <= r.ts}

\* The results put together: a series without points is left out.
AssembleSeries(series, scalars, histos, newest) ==
    LET PointsOf(s) == {b \in IF s.kind = "Histogram" THEN histos ELSE scalars : b.sid = s.id}
        ShapeOf(s) == {r \in newest : s.kind = "Histogram" /\ r.sid = s.id}
    IN  {[id |-> s.id, kind |-> s.kind, attributes |-> s.attributes,
          points |-> PointsOf(s), histogram |-> ShapeOf(s)]
            : s \in {x \in series : PointsOf(x) # {}}}
==============================================================================
