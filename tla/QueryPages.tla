------------------------------ MODULE QueryPages ------------------------------
(***************************************************************************)
(* The pages that only ask: overview, retention, metrics, logs, traces,    *)
(* services and kubernetes (dashboard/src/pages), behind the token check   *)
(* of src/auth.rs.  What the handlers answer is the subject of QueryApi:   *)
(* here an answer is the question it answers, so that the page can be seen *)
(* to show the right one.  The spans of a trace are known once it is drawn.*)
(*                                                                         *)
(* Start, End, step, aggregation and the other filters are left out: like  *)
(* the token they are read when a request is built.  So is query_done,     *)
(* which is set whenever loading ends.                                     *)
(***************************************************************************)
EXTENDS Browser, Waterfall

CONSTANTS MetricNames, TraceIds,
          Trees,      \* what a trace may consist of
          None        \* no name, no trace

\* The rows of one trace in the table spans: its key is the start time and the two ids.
ASSUME TreesAssumption ==
    \A spans \in Trees :
        /\ IsFiniteSet(spans)
        /\ \A s \in spans : s.start \in Int /\ s.end \in Int /\ s.id # NoParent
        /\ \A s, t \in spans : s.id = t.id /\ s.start = t.start => s = t

VARIABLES look,       \* the token and the fields of the page
          boxes,      \* what each of its requests is to fill
          waterfall   \* the bars that are drawn

queryVars == <<look, boxes, waterfall>>

Asking == {"overview", "retention", "metrics", "logs", "traces", "services", "kubernetes"}
BoxNames == {"health", "stats", "names", "series", "points", "logs", "map", "traces", "spans"}
Tokens == {"right", "wrong"}

Query == [token : Tokens, name : MetricNames \cup {None},
          trace : TraceIds \cup {None}]
Maybe(S) == {Nothing} \cup {<<x>> : x \in S}

QueriesTypeOK ==
    /\ look \in [required : BOOLEAN, token : Tokens, name : MetricNames \cup {None},
                 filter : TraceIds \cup {None}, selected : TraceIds \cup {None}]
    /\ boxes \in [BoxNames -> [shown : Maybe(Query), loading : BOOLEAN, err : BOOLEAN,
                               asked : Maybe(Query), crossed : BOOLEAN]]
    /\ {b.span : b \in waterfall} \in {{}} \cup Trees

\* crossed: it was asked again before the answer was there.
EmptyBox == [shown |-> Nothing, loading |-> FALSE, err |-> FALSE, asked |-> Nothing,
             crossed |-> FALSE]

\* The fields when a request is built; trace is the trace it asks about.
Now(l, trace) == [token |-> l.token, name |-> l.name, trace |-> trace]

-----------------------------------------------------------------------------
\* (Altered for a check of QueriesSettle: no request takes a banner away.)
BeginQuietly(box, b, q) ==
    [box EXCEPT !.loading = TRUE, !.asked = <<q>>, !.crossed = @ \/ box.loading]

\* A request for box b starts: its banner goes, except that names_err is never reset.
Begin(box, b, q) ==
    [box EXCEPT !.loading = TRUE, !.err = @ /\ b = "names", !.asked = <<q>>,
                !.crossed = @ \/ box.loading]

\* (Altered for a check of SpinnersEnd: an error leaves the spinner.)
LandOk(box, c) ==
    [box EXCEPT !.loading = ~c.ok, !.err = @ \/ ~c.ok, !.shown = IF c.ok THEN <<c.body>> ELSE @]

\* Its answer: what was shown stays when it is an error.
Land(box, c) ==
    [box EXCEPT !.loading = FALSE, !.err = @ \/ ~c.ok, !.shown = IF c.ok THEN <<c.body>> ELSE @]

\* What a page asks for when it opens, and again when the token changes: the
\* effects of overview, retention and metrics read the token, the others do not.
Loads(p, l) ==
    LET ask(to) == GetJson(to, Now(l, None)) IN
    CASE p = "overview"  -> <<ask("health")>>
      [] p = "retention" -> <<ask("stats")>>
      [] p = "metrics"   -> <<ask("names")>> \o (IF l.name = None THEN <<>> ELSE <<ask("series")>>)
      [] OTHER           -> <<>>

\* services and kubernetes ask once, when they open.
Opens(p, l) ==
    IF p \in {"services", "kubernetes"} THEN <<GetJson("map", Now(l, None))>> ELSE Loads(p, l)

\* The boxes they fill; the overview's health is asked for on the way to its stats.
BoxFor(to) == IF to = "health" THEN "stats" ELSE to
Started(bs, rs) ==
    [b \in BoxNames |->
        LET asked == {i \in DOMAIN rs : BoxFor(rs[i].to) = b} IN
        IF asked = {} THEN bs[b] ELSE Begin(bs[b], b, rs[CHOOSE i \in asked : TRUE].body)]

QueriesInit(p) ==
    /\ \E t \in Tokens, required \in BOOLEAN :
          look = [required |-> required, token |-> t, name |-> None,
                  filter |-> None, selected |-> None]
    /\ boxes = Started([b \in BoxNames |-> EmptyBox], Opens(p, look))
    /\ waterfall = {}

-----------------------------------------------------------------------------
(* What the user does.                                                       *)

Ask(rs) ==
    /\ CanSend
    /\ Send(rs)
    /\ boxes' = Started(boxes, rs)

TypeToken(t) ==
    /\ t # look.token
    /\ look' = [look EXCEPT !.token = t]
    /\ IF Loads(page, look') = <<>> THEN Local /\ UNCHANGED boxes ELSE Ask(Loads(page, look'))
    /\ UNCHANGED waterfall

\* The names are there to pick from once they were loaded.
SelectName(m) ==
    /\ page = "metrics" /\ m # look.name
    /\ ~boxes["names"].loading /\ boxes["names"].shown # Nothing
    /\ look' = [look EXCEPT !.name = m]
    /\ Ask(<<GetJson("series", Now(look', None))>>)
    /\ UNCHANGED waterfall

RunMetrics ==
    /\ page = "metrics" /\ look.name # None
    /\ Ask(<<GetJson("points", Now(look, None))>>)
    /\ UNCHANGED <<look, waterfall>>

RunLogs ==
    /\ page = "logs"
    /\ Ask(<<GetJson("logs", Now(look, look.filter))>>)
    /\ UNCHANGED <<look, waterfall>>

\* /logs?trace_id=...
FollowToLogs(t) ==
    /\ page = "logs"
    /\ look' = [look EXCEPT !.filter = t]
    /\ Ask(<<GetJson("logs", Now(look', t))>>)
    /\ UNCHANGED waterfall

\* The filter goes, the records stay as they are.
ClearFilter ==
    /\ page = "logs" /\ look.filter # None
    /\ Local
    /\ look' = [look EXCEPT !.filter = None]
    /\ UNCHANGED <<boxes, waterfall>>

RunMap ==
    /\ page \in {"services", "kubernetes"}
    /\ Ask(<<GetJson("map", Now(look, None))>>)
    /\ UNCHANGED <<look, waterfall>>

NoSpans(bs) == [bs EXCEPT !["spans"] = [@ EXCEPT !.shown = Nothing, !.asked = Nothing]]

\* Asks for the traces and closes the waterfall; the spans under way are not stopped.
RunTraces ==
    /\ page = "traces" /\ CanSend
    /\ LET r == GetJson("traces", Now(look, None)) IN
       Send(<<r>>) /\ boxes' = NoSpans(Started(boxes, <<r>>))
    /\ look' = [look EXCEPT !.selected = None]
    /\ waterfall' = {}

\* A click on a row, or /traces?trace_id=...
load_spans(t) ==
    /\ page = "traces" /\ CanSend
    /\ LET r == GetJson("spans", Now(look, t)) IN
       Send(<<r>>) /\ boxes' = Started(NoSpans(boxes), <<r>>)
    /\ look' = [look EXCEPT !.selected = t]
    /\ waterfall' = {}

-----------------------------------------------------------------------------
(* What the server does: auth_middleware, then one of the handlers.          *)

Authorized(to, q) == to = "health" \/ ~look.required \/ q.token = "right"

Serve(n) ==
    /\ \E to \in BoxNames : At(n, to, "sent")
    /\ IF Authorized(calls[n].to, calls[n].body) THEN Answer(n, Nothing) ELSE Refuse(n)
    /\ UNCHANGED queryVars

(* The answers.                                                              *)

\* The overview goes on to the stats whatever became of /health.
GotHealth(n) ==
    /\ At(n, "health", "done")
    /\ Receive(n, <<GetJson("stats", calls[n].body)>>)
    /\ boxes' = [boxes EXCEPT !["health"].shown = IF calls[n].ok THEN <<calls[n].body>> ELSE @]
    /\ UNCHANGED <<look, waterfall>>

Drawn == [spans \in Trees |-> Bars(spans)]

\* The answer lands in its box, whatever was asked for since.
GotBox(n) ==
    /\ \E to \in BoxNames \ {"health"} : At(n, to, "done")
    /\ Receive(n, <<>>)
    /\ boxes' = [boxes EXCEPT ![calls[n].to] = Land(@, calls[n])]
    /\ IF calls[n].to = "spans" /\ calls[n].ok
       THEN \E spans \in Trees : waterfall' = Drawn[spans]
       ELSE UNCHANGED waterfall
    /\ UNCHANGED look

QueriesServe(n) == Serve(n)
QueriesHear(n) == GotHealth(n) \/ GotBox(n)

QueriesUser ==
    \/ \E t \in Tokens : TypeToken(t)
    \/ \E m \in MetricNames : SelectName(m)
    \/ \E t \in TraceIds : FollowToLogs(t) \/ load_spans(t)
    \/ RunMetrics \/ RunLogs \/ ClearFilter \/ RunMap \/ RunTraces

-----------------------------------------------------------------------------
BoxesIdle == \A b \in BoxNames : ~boxes[b].loading

\* When everything was answered in order, every box shows the answer to the last
\* question asked for it, or the banner that it was refused, and the waterfall is
\* that of the trace whose name is above it.  Two banners may be stale: the one
\* over the metric names, which nothing takes away, and that of a refusal which
\* came when the question had been asked again, since no success takes one away.
QueriesSettle ==
    page \in Asking /\ Settled =>
        /\ BoxesIdle
        /\ \A b \in BoxNames : boxes[b].asked # Nothing =>
              IF Authorized(b, boxes[b].asked[1])
              THEN /\ boxes[b].shown = boxes[b].asked
                   /\ boxes[b].err => b = "names" \/ boxes[b].crossed
              ELSE boxes[b].err
        /\ look.selected # None => boxes["spans"].asked[1].trace = look.selected

\* A span is indented one step further than its parent (the last one its id was
\* received with) and by as many steps as there are spans above it, parents that
\* were never received included; spans that are each other's ancestors do not hang
\* compute_depths.
WaterfallNests == DepthsNest(waterfall)

\* Unless a span starts after the last end of its trace, every bar lies within
\* the row, and one that is shorter than its span was cut at the right edge.
BarsFit == BarsInside(waterfall)
==============================================================================
