------------------------------ MODULE QueryRows ------------------------------
(***************************************************************************)
(* What the query handlers share: the parameters of src/query/mod.rs, the  *)
(* clauses of their SQL that more than one of them uses.  Times are        *)
(* numbers, names and values are compared for equality only.               *)
(***************************************************************************)
EXTENDS Integers, Sequences, FiniteSetsExt

CONSTANTS Garbage,  \* a parameter that does not parse
          Absent,   \* an optional parameter, or a column that is NULL
          Bare,     \* a part of a filter without "="
          JsonNull, \* an attribute that is there and null
          Hour      \* the window a query has by default

\* parse_time: RFC3339 or Unix seconds, and nothing else.
Parses(raw) == raw # Garbage

EndOf(q, now) == IF q.end = Absent THEN now ELSE q.end
StartOf(q, now) == IF q.start = Absent THEN EndOf(q, now) - Hour ELSE q.start

\* The early returns with 400 that all of the handlers have.
BadRange(q, now) == ~Parses(q.end) \/ ~Parses(q.start) \/ StartOf(q, now) >= EndOf(q, now)

\* A window is closed at its start and open at its end.
Within(t, window) == window.start <= t /\ t < window.end
Window(q, now) == [start |-> StartOf(q, now), end |-> EndOf(q, now)]

\* (Altered for a check of TypeOK: unwrap_or only.)
LimitAsAsked(q, page) == IF q.limit = Absent THEN page.default ELSE q.limit

\* limit.unwrap_or(..).clamp(1, ..)
Limit(q, page) ==
    IF q.limit = Absent THEN page.default ELSE Max({1, Min({q.limit, page.most})})

\* parse_filter: <<key, value>> parts, of one key the last one counts.  A single
\* part without "=", be it the empty one after a trailing comma, and there is no filter.
ParseFilter(parts) ==
    LET keys == {parts[j][1] : j \in DOMAIN parts} IN
    IF parts = <<>> \/ \E j \in DOMAIN parts : parts[j] = Bare THEN Absent
    ELSE [k \in keys |->
             parts[Max({j \in DOMAIN parts : parts[j][1] = k})][2]]

\* attributes @> filter: the values of a filter are strings, and nothing but a
\* string attribute contains them.
Carries(attributes, filter) ==
    filter = Absent \/ \A k \in DOMAIN filter :
        k \in DOMAIN attributes /\ attributes[k] = <<"string", filter[k]>>

\* ($n IS NULL OR column = $n)
Passes(wanted, value) == wanted = Absent \/ value = wanted

\* The columns an ORDER BY time DESC LIMIT n may return: rows of one time are in
\* no order, so any of them may be the last.
Pages(rows, limit, Time(_)) ==
    LET n == Min({limit, Cardinality(rows)}) IN
    {page \in kSubset(n, rows) : \A r \in page, s \in rows \ page : Time(r) >= Time(s)}

\* percentile_disc(p / 100): the first value that p percent of the rows do not exceed.
Percentile(p, rows, Value(_)) ==
    Min({v \in {Value(r) : r \in rows} :
            100 * Cardinality({r \in rows : Value(r) <= v}) >= p * Cardinality(rows)})
==============================================================================
