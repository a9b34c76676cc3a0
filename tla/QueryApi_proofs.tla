---------------------------- MODULE QueryApi_proofs ----------------------------
(***************************************************************************)
(* Proofs about the query API, for any scenarios of finitely many rows,    *)
(* any calls, limits, units and any number of faults: what every answer    *)
(* says of the rows that were there all along, and of those that were      *)
(* there at some time while it was made.                                   *)
(***************************************************************************)
EXTENDS QueryApi, Sums_proofs, SequenceTheorems

-------------------------------------------------------------------------------
(* Division.                                                                 *)

LEMMA DivIs ==
    ASSUME NEW a \in Int, NEW d \in Nat \ {0}
    PROVE  a \div d \in Int /\ d * (a \div d) <= a /\ a < d * (a \div d) + d
OBVIOUS

LEMMA MultiplesGrow ==
    ASSUME NEW a \in Int, NEW b \in Int, a < b, NEW d \in Nat \ {0}
    PROVE  d * a + d <= d * b
OBVIOUS

LEMMA DivAtLeast ==
    ASSUME NEW a \in Int, NEW d \in Nat \ {0}, NEW k \in Int, a >= d * k
    PROVE  a \div d >= k
<1> DEFINE m == a \div d
<1>1. m \in Int /\ d * m <= a /\ a < d * m + d
  BY DivIs
<1> HIDE DEF m
<1>2. ~(m < k)
  <2> SUFFICES ASSUME m < k PROVE FALSE
    OBVIOUS
  <2>1. d * m + d <= d * k
    BY MultiplesGrow, <1>1
  <2>2. d * m \in Int /\ d * k \in Int
    BY <1>1
  <2> QED BY <1>1, <2>1, <2>2
<1> QED BY <1>1, <1>2 DEF m

LEMMA DivBelow ==
    ASSUME NEW a \in Int, NEW d \in Nat \ {0}, NEW k \in Int, a < d * k + d
    PROVE  a \div d <= k
<1> DEFINE m == a \div d
<1>1. m \in Int /\ d * m <= a /\ a < d * m + d
  BY DivIs
<1> HIDE DEF m
<1>2. ~(k < m)
  <2> SUFFICES ASSUME k < m PROVE FALSE
    OBVIOUS
  <2>1. d * k + d <= d * m
    BY MultiplesGrow, <1>1
  <2>2. d * m \in Int /\ d * k \in Int
    BY <1>1
  <2> QED BY <1>1, <2>1, <2>2
<1> QED BY <1>1, <1>2 DEF m

\* Rounding to milliseconds does not cross a whole number of them.
LEMMA Rounds ==
    ASSUME NEW x \in Int, NEW s \in Int
    PROVE  ToMs(x) \in Int /\ (x >= s * TicksPerMs => ToMs(x) >= s) /\ (x <= s * TicksPerMs => ToMs(x) <= s)
<1> DEFINE d == 2 * TicksPerMs
<1>1. TicksPerMs \in Nat \ {0} /\ d \in Nat \ {0}
  BY UnitAssumption
<1>2. s * TicksPerMs \in Int
  BY <1>1
<1>3. d * s = 2 * (s * TicksPerMs) /\ d * (-s) = - (2 * (s * TicksPerMs))
  BY <1>1
<1> DEFINE up == 2 * x + TicksPerMs
           down == -2 * x + TicksPerMs
<1>4. up \in Int /\ down \in Int
  BY <1>1
<1>5. CASE x >= 0
  <2>1. ToMs(x) = up \div d
    BY <1>5 DEF ToMs
  <2>2. up \div d \in Int
    BY <1>1, <1>4, DivIs
  <2>3. ASSUME x >= s * TicksPerMs PROVE up \div d >= s
    <3>1. up >= d * s
      BY <1>1, <1>2, <1>3, <2>3
    <3> HIDE DEF up, d
    <3> QED BY <1>1, <1>4, <3>1, DivAtLeast
  <2>4. ASSUME x <= s * TicksPerMs PROVE up \div d <= s
    <3>1. up < d * s + d
      BY <1>1, <1>2, <1>3, <2>4
    <3> HIDE DEF up, d
    <3> QED BY <1>1, <1>4, <3>1, DivBelow
  <2> HIDE DEF up, d
  <2> QED BY <2>1, <2>2, <2>3, <2>4
<1>6. CASE ~(x >= 0)
  <2>1. ToMs(x) = -(down \div d)
    BY <1>6 DEF ToMs
  <2>2. down \div d \in Int
    BY <1>1, <1>4, DivIs
  <2>3. ASSUME x >= s * TicksPerMs PROVE down \div d <= -s
    <3>1. down < d * (-s) + d
      BY <1>1, <1>2, <1>3, <2>3
    <3> HIDE DEF down, d
    <3> QED BY <1>1, <1>4, <3>1, DivBelow
  <2>4. ASSUME x <= s * TicksPerMs PROVE down \div d >= -s
    <3>1. down >= d * (-s)
      BY <1>1, <1>2, <1>3, <2>4
    <3> HIDE DEF down, d
    <3> QED BY <1>1, <1>4, <3>1, DivAtLeast
  <2> DEFINE m == down \div d
  <2>5. m \in Int /\ (x >= s * TicksPerMs => m <= -s) /\ (x <= s * TicksPerMs => m >= -s)
    BY <2>2, <2>3, <2>4
  <2>6. (x >= s * TicksPerMs => -m >= s) /\ (x <= s * TicksPerMs => -m <= s) /\ -m \in Int
    <3> HIDE DEF m, down, d
    <3> QED BY <2>5
  <2> HIDE DEF m
  <2> QED BY <2>1, <2>6 DEF m
<1> QED BY <1>5, <1>6

-------------------------------------------------------------------------------
(* The tables: all rows are those of the scenario.                           *)

RowsOfTable(s, t) == {Stored(t, r) : r \in s.rows[t]}

StoreInv ==
    /\ DOMAIN db = Tables /\ DOMAIN pending = Tables /\ DOMAIN held = Tables /\ DOMAIN shown = Tables
    /\ \A t \in Tables : held[t] \subseteq shown[t]
    /\ call.pc # "idle" => \A t \in Tables : held[t] \subseteq db[t] /\ db[t] \subseteq shown[t]
    /\ \E s \in Scenarios :
          /\ calls = s.calls
          /\ \A t \in Tables : pending[t] \subseteq s.rows[t]
          /\ \A t \in Tables : db[t] \cup shown[t] \subseteq RowsOfTable(s, t)

\* What a statement may have read of a table.
Snapshots(t) == {rows \in SUBSET shown[t] : held[t] \subseteq rows}

\* A step leaves the call alone while the tables change, begins or ends one, or runs one
\* statement of it.
Aside ==
    /\ call' = call /\ calls' = calls
    /\ \A t \in Tables : held'[t] \subseteq held[t] /\ shown[t] \subseteq shown'[t]

Started == call.pc = "idle" /\ \E q \in calls : Receive(q)

Ran == QueryMetrics \/ ListNames \/ ListSeries \/ QueryLogs \/ QueryTraces \/ GetTrace
          \/ ServiceMap \/ K8sTopology \/ ReadStats \/ StatementFails

LEMMA StepKinds ==
    ASSUME StoreInv, [Next]_vars
    PROVE  Aside \/ Started \/ Ran \/ Respond
<1>1. ASSUME UNCHANGED vars PROVE Aside
  BY <1>1 DEF vars, Aside
<1>2. ASSUME Watch, call' = call, calls' = calls PROVE Aside
  <2> SUFFICES ASSUME NEW t \in Tables PROVE held'[t] \subseteq held[t] /\ shown[t] \subseteq shown'[t]
    BY <1>2 DEF Aside
  <2>1. held'[t] = held[t] \cap db'[t] /\ shown'[t] = shown[t] \cup db'[t]
    BY <1>2 DEF Watch
  <2> QED BY <2>1
<1>3. ASSUME NEW t \in Tables, NEW r \in pending[t], Ingest(t, r) PROVE Aside
  BY <1>2, <1>3 DEF Ingest
<1>4. ASSUME NEW t \in Partitioned, NEW m, DropPartition(t, m) PROVE Aside
  BY <1>2, <1>4 DEF DropPartition
<1>5. ASSUME NEW q \in calls, Receive(q) PROVE Started
  BY <1>5 DEF Started, Receive
<1> QED BY <1>1, <1>3, <1>4, <1>5 DEF Next, Ran

LEMMA RanReads ==
    ASSUME Ran
    PROVE  call.pc \in Statements /\ UNCHANGED <<tables, held, shown>>
BY DEF Ran, QueryMetrics, ReadSeries, ReadScalars, ReadHistograms, ReadDistributions, ListNames,
       ListSeries, QueryLogs, QueryTraces, GetTrace, ServiceMap, ReadServices, ReadEdges,
       K8sTopology, ReadWorkloads, CountNodes, ReadStats, StatementFails, Reading, Statements

LEMMA StoreInit ==
    ASSUME Init PROVE StoreInv
<1>1. PICK s \in Scenarios : pending = s.rows /\ calls = s.calls
  BY DEF Init
<1>2. DOMAIN s.rows = Tables
  BY RowsAssumption
<1>3. DOMAIN EmptyDb = Tables /\ \A t \in Tables : EmptyDb[t] = {}
  BY DEF EmptyDb
<1>4. call.pc = "idle" /\ db = EmptyDb /\ held = EmptyDb /\ shown = EmptyDb
  BY DEF Init, Idle
<1>5. \A t \in Tables : pending[t] \subseteq s.rows[t] /\ db[t] \cup shown[t] \subseteq RowsOfTable(s, t)
  BY <1>1, <1>3, <1>4
<1> QED BY <1>1, <1>2, <1>3, <1>4, <1>5 DEF StoreInv

\* What Watch makes of tables of rows.
LEMMA WatchKeeps ==
    ASSUME StoreInv, Watch, DOMAIN db' = Tables, NEW s,
           \A t \in Tables : db[t] \cup shown[t] \cup db'[t] \subseteq RowsOfTable(s, t)
    PROVE  /\ DOMAIN held' = Tables /\ DOMAIN shown' = Tables
           /\ \A t \in Tables : held'[t] \subseteq shown'[t]
           /\ call.pc # "idle" => \A t \in Tables : held'[t] \subseteq db'[t] /\ db'[t] \subseteq shown'[t]
           /\ \A t \in Tables : db'[t] \cup shown'[t] \subseteq RowsOfTable(s, t)
<1>1. /\ DOMAIN held' = Tables /\ DOMAIN shown' = Tables
      /\ \A t \in Tables : held'[t] = held[t] \cap db'[t] /\ shown'[t] = shown[t] \cup db'[t]
  BY DEF Watch
<1>2. \A t \in Tables : held[t] \subseteq shown[t]
  BY DEF StoreInv
<1> QED BY <1>1, <1>2

LEMMA StoreStep ==
    ASSUME StoreInv, [Next]_vars PROVE StoreInv'
<1>1. PICK s \in Scenarios : /\ calls = s.calls
                             /\ \A t \in Tables : pending[t] \subseteq s.rows[t]
                             /\ \A t \in Tables : db[t] \cup shown[t] \subseteq RowsOfTable(s, t)
  BY DEF StoreInv
<1>2. DOMAIN db = Tables /\ DOMAIN pending = Tables
  BY DEF StoreInv
<1>3. ASSUME UNCHANGED vars PROVE StoreInv'
  BY <1>3 DEF vars, StoreInv
<1>4. ASSUME NEW t \in Tables, NEW r \in pending[t], Ingest(t, r) PROVE StoreInv'
  <2>1. /\ Watch /\ call' = call /\ calls' = calls
        /\ pending' = [pending EXCEPT ![t] = @ \ {r}]
        /\ db' = [db EXCEPT ![t] = @ \cup {Stored(t, r)}]
    BY <1>4 DEF Ingest
  <2>2. DOMAIN pending' = Tables /\ \A u \in Tables : pending'[u] \subseteq s.rows[u]
    BY <1>1, <1>2, <2>1
  <2>3. DOMAIN db' = Tables /\ db'[t] = db[t] \cup {Stored(t, r)}
        /\ \A u \in Tables \ {t} : db'[u] = db[u]
    BY <1>2, <2>1
  <2>4. Stored(t, r) \in RowsOfTable(s, t)
    <3>1. r \in s.rows[t]
      BY <1>1
    <3> QED BY <3>1 DEF RowsOfTable
  <2>5. \A u \in Tables : db[u] \cup shown[u] \cup db'[u] \subseteq RowsOfTable(s, u)
    BY <1>1, <2>3, <2>4
  <2>6. /\ DOMAIN held' = Tables /\ DOMAIN shown' = Tables
        /\ \A u \in Tables : held'[u] \subseteq shown'[u]
        /\ call.pc # "idle" => \A u \in Tables : held'[u] \subseteq db'[u] /\ db'[u] \subseteq shown'[u]
        /\ \A u \in Tables : db'[u] \cup shown'[u] \subseteq RowsOfTable(s, u)
    BY <2>1, <2>3, <2>5, WatchKeeps
  <2> QED BY <1>1, <2>1, <2>2, <2>3, <2>6 DEF StoreInv, RowsOfTable
<1>5. ASSUME NEW t \in Partitioned, NEW m, DropPartition(t, m) PROVE StoreInv'
  <2>1. /\ Watch /\ call' = call /\ calls' = calls /\ pending' = pending
        /\ db' = [db EXCEPT ![t] = {r \in @ : TimeOf(t, r) \div MonthLength # m}]
    BY <1>5 DEF DropPartition
  <2>2. t \in Tables
    BY DEF Partitioned
  <2>3. DOMAIN db' = Tables /\ \A u \in Tables : db'[u] \subseteq db[u]
    BY <1>2, <2>1, <2>2
  <2>5. \A u \in Tables : db[u] \cup shown[u] \cup db'[u] \subseteq RowsOfTable(s, u)
    BY <1>1, <2>3
  <2>6. /\ DOMAIN held' = Tables /\ DOMAIN shown' = Tables
        /\ \A u \in Tables : held'[u] \subseteq shown'[u]
        /\ call.pc # "idle" => \A u \in Tables : held'[u] \subseteq db'[u] /\ db'[u] \subseteq shown'[u]
        /\ \A u \in Tables : db'[u] \cup shown'[u] \subseteq RowsOfTable(s, u)
    BY <2>1, <2>3, <2>5, WatchKeeps
  <2> QED BY <1>1, <1>2, <2>1, <2>3, <2>6 DEF StoreInv, RowsOfTable
<1>6. ASSUME NEW q \in calls, Receive(q) PROVE StoreInv'
  <2>1. UNCHANGED <<db, pending, calls>> /\ held' = db /\ shown' = db
    BY <1>6 DEF Receive, tables
  <2> QED BY <1>1, <1>2, <2>1 DEF StoreInv, RowsOfTable
<1>7. ASSUME Ran PROVE StoreInv'
  <2>1. UNCHANGED <<db, pending, calls, held, shown>> /\ call.pc # "idle"
    BY <1>7, RanReads DEF tables, Statements
  <2> QED BY <2>1 DEF StoreInv, RowsOfTable
<1>8. ASSUME Respond PROVE StoreInv'
  <2>1. UNCHANGED <<db, pending, calls>> /\ held' = EmptyDb /\ shown' = EmptyDb /\ call'.pc = "idle"
    BY <1>8 DEF Respond, tables, Idle
  <2>2. DOMAIN EmptyDb = Tables /\ \A t \in Tables : EmptyDb[t] = {}
    BY DEF EmptyDb
  <2> QED BY <1>1, <1>2, <2>1, <2>2 DEF StoreInv, RowsOfTable
<1> QED BY <1>3, <1>4, <1>5, <1>6, <1>7, <1>8 DEF Next, Ran

\* A scenario's tables are finite.
LEMMA RowsFinite ==
    ASSUME NEW s \in Scenarios, NEW t \in Tables
    PROVE  IsFiniteSet(RowsOfTable(s, t))
<1> DEFINE S == s.rows[t]
           f == [r \in S |-> Stored(t, r)]
<1>1. RowsOfTable(s, t) = {f[r] : r \in S} /\ DOMAIN f = S /\ IsFiniteSet(S)
  BY RowsAssumption DEF RowsOfTable
<1> HIDE DEF f, S
<1> QED BY <1>1, ImageFinite

LEMMA FiniteNow ==
    ASSUME StoreInv PROVE \A t \in Tables : IsFiniteSet(shown[t]) /\ held[t] \subseteq shown[t]
<1>1. PICK s \in Scenarios : \A t \in Tables : shown[t] \subseteq RowsOfTable(s, t)
  BY DEF StoreInv
<1>2. \A t \in Tables : held[t] \subseteq shown[t]
  BY DEF StoreInv
<1> QED BY <1>1, <1>2, RowsFinite, FS_Subset

LEMMA FiniteNext ==
    ASSUME StoreInv' PROVE \A t \in Tables : IsFiniteSet(shown'[t]) /\ held'[t] \subseteq shown'[t]
<1>1. PICK s \in Scenarios : \A t \in Tables : shown'[t] \subseteq RowsOfTable(s, t)
  BY DEF StoreInv, RowsOfTable
<1>2. \A t \in Tables : held'[t] \subseteq shown'[t]
  BY DEF StoreInv
<1> QED BY <1>1, <1>2, RowsFinite, FS_Subset

\* All of the rows are of one scenario; so the tables are finite, and so on.
LEMMA RowFacts ==
    ASSUME StoreInv
    PROVE  /\ \A t \in Tables : IsFiniteSet(shown[t]) /\ held[t] \subseteq shown[t]
           /\ \A r \in shown.points \cup shown.hists \cup shown.logs : r.ts \in Int
           /\ \A r, x \in shown.hists : r.sid = x.sid /\ r.ts = x.ts => r = x
           /\ \A r \in shown.hists, x \in shown.series : x.id = r.sid => x.kind = "Histogram"
           /\ \A r \in shown.spans : \E x : r = SpanRow(x) /\ x.start \in Int /\ x.end \in Int
<1>1. PICK s \in Scenarios : \A t \in Tables : shown[t] \subseteq RowsOfTable(s, t)
  BY DEF StoreInv
<1>4. \A t \in Tables \ {"spans"} : RowsOfTable(s, t) = s.rows[t]
  BY DEF RowsOfTable, Stored
<1>5. {"series", "points", "hists", "logs"} \subseteq Tables \ {"spans"} /\ "spans" \in Tables
  BY DEF Tables
<1>6. shown.points \subseteq s.rows.points /\ shown.hists \subseteq s.rows.hists
      /\ shown.logs \subseteq s.rows.logs /\ shown.series \subseteq s.rows.series
  BY <1>1, <1>4, <1>5
<1>7. /\ \A r \in s.rows.points \cup s.rows.hists \cup s.rows.logs : r.ts \in Int
      /\ \A r, x \in s.rows.hists : r.sid = x.sid /\ r.ts = x.ts => r = x
      /\ \A r \in s.rows.hists, x \in s.rows.series : x.id = r.sid => x.kind = "Histogram"
      /\ \A r \in s.rows.spans : r.start \in Int /\ r.end \in Int
  BY RowsAssumption
<1>8. \A r \in shown.spans : \E x : r = SpanRow(x) /\ x.start \in Int /\ x.end \in Int
  <2>1. \A r \in shown.spans : \E x \in s.rows.spans : r = Stored("spans", x)
    BY <1>1, <1>5 DEF RowsOfTable
  <2> QED BY <1>7, <2>1 DEF Stored
<1> QED BY <1>6, <1>7, <1>8, FiniteNow

-------------------------------------------------------------------------------
(* The call: which statement is next, and of which handler.                  *)

IsCall(c) == DOMAIN c = {"pc", "q", "read", "answer", "status", "failed"}

StatementsOf ==
    [metrics |-> {"series", "scalars", "histograms", "distributions"}, names |-> {"names"},
     listing |-> {"listing"}, logs |-> {"logs"}, traces |-> {"traces"}, trace |-> {"trace"},
     services |-> {"services", "edges"}, kubernetes |-> {"workloads", "nodes"}, stats |-> {"stats"}]

CallInv ==
    /\ IsCall(call)
    /\ call.pc \in Statements \cup {"idle", "answered"}
    /\ call.status \in {200, 400, 404, 500}
    /\ call.failed \in BOOLEAN
    /\ call.pc # "idle" => call.q \in calls /\ call.q.op \in Ops
    /\ call.pc \in Statements => call.pc \in StatementsOf[call.q.op] /\ call.status = 200

LEMMA ContinueFields ==
    ASSUME NEW c, IsCall(c), NEW x, NEW n
    PROVE  LET d == Continue(c, x, n) IN
           /\ IsCall(d) /\ d.pc = n /\ d.read = Append(c.read, x)
           /\ d.q = c.q /\ d.answer = c.answer /\ d.status = c.status /\ d.failed = c.failed
BY DEF Continue, IsCall

LEMMA AnswerFields ==
    ASSUME NEW c, IsCall(c), NEW x, NEW st
    PROVE  LET d == Answer(c, st, x) IN
           /\ IsCall(d) /\ d.pc = "answered" /\ d.status = st /\ d.answer = x
           /\ d.q = c.q /\ d.read = c.read /\ d.failed = c.failed
BY DEF Answer, IsCall

Lost(c) == [c EXCEPT !.failed = TRUE]

LEMMA LostFields ==
    ASSUME NEW c, IsCall(c)
    PROVE  LET d == Lost(c) IN
           /\ IsCall(d) /\ d.failed = TRUE /\ d.pc = c.pc /\ d.q = c.q
           /\ d.read = c.read /\ d.answer = c.answer /\ d.status = c.status
BY DEF Lost, IsCall

\* What becomes of the call c after a statement: the next one, or the answer.
Goes(c, d) ==
    /\ IsCall(d) /\ d.q = c.q /\ d.failed = c.failed
    /\ \/ \E x, n : n \in StatementsOf[c.q.op] /\ d = Continue(c, x, n)
       \/ \E st \in {200, 404, 500} : \E x : d = Answer(c, st, x)

LEMMA Continues ==
    ASSUME NEW c, IsCall(c), NEW x, NEW n, n \in StatementsOf[c.q.op]
    PROVE  Goes(c, Continue(c, x, n))
BY ContinueFields DEF Goes

LEMMA Answers ==
    ASSUME NEW c, IsCall(c), NEW x, NEW st \in {200, 404, 500}
    PROVE  Goes(c, Answer(c, st, x))
BY AnswerFields DEF Goes

LEMMA SeriesGoes ==
    ASSUME NEW c, IsCall(c), NEW x, c.q.op = "metrics"
    PROVE  Goes(c, SeriesRead(c, x))
<1>1. "scalars" \in StatementsOf[c.q.op]
  BY DEF StatementsOf
<1> QED BY <1>1, Continues, Answers DEF SeriesRead

LEMMA CountsGo ==
    ASSUME NEW c, IsCall(c), NEW x, c.q.op = "stats"
    PROVE  Goes(c, Counted(c, x))
<1>1. "stats" \in StatementsOf[c.q.op]
  BY DEF StatementsOf
<1> QED BY <1>1, Continues, Answers DEF Counted

\* A statement is of its handler.
LEMMA OpOfStatement ==
    ASSUME CallInv, call.pc \in Statements
    PROVE  /\ call.pc \in {"series", "scalars", "histograms", "distributions"} => call.q.op = "metrics"
           /\ call.pc = "logs" => call.q.op = "logs"
           /\ call.pc = "traces" => call.q.op = "traces"
           /\ call.pc = "trace" => call.q.op = "trace"
           /\ call.pc = "names" => call.q.op = "names"
           /\ call.pc = "listing" => call.q.op = "listing"
           /\ call.pc \in {"services", "edges"} => call.q.op = "services"
           /\ call.pc \in {"workloads", "nodes"} => call.q.op = "kubernetes"
           /\ call.pc = "stats" => call.q.op = "stats"
<1>1. call.q.op \in Ops /\ call.pc \in StatementsOf[call.q.op]
  BY DEF CallInv, Statements
<1> QED BY <1>1 DEF StatementsOf, Ops

\* Without a failure, or with one.
LEMMA RanGoes ==
    ASSUME CallInv, Ran
    PROVE  \/ Goes(call, call') /\ ~StatementFails
           \/ Goes(Lost(call), call') /\ StatementFails
<1> DEFINE lost == Lost(call)
<1>1. call.pc \in Statements
  BY RanReads
<1>2. IsCall(call) /\ IsCall(lost) /\ lost.q = call.q /\ lost.pc = call.pc
  BY LostFields DEF CallInv
<1>3. ASSUME StatementFails PROVE Goes(lost, call')
  <2>1. call' = AfterFailure(lost)
    BY <1>3 DEF StatementFails, Lost
  <2> HIDE DEF lost
  <2>2. call.pc = "series" \/ call.pc = "scalars" \/ call.pc = "histograms" \/ call.pc = "distributions"
          \/ call.pc = "stats" \/ call.pc \notin {"series", "scalars", "histograms", "distributions", "stats"}
    OBVIOUS
  <2>3. CASE call.pc = "series"
    BY <1>1, <1>2, <2>1, <2>3, OpOfStatement, SeriesGoes DEF AfterFailure
  <2>4. CASE call.pc \in {"scalars", "histograms"}
    <3>1. "histograms" \in StatementsOf[lost.q.op] /\ "distributions" \in StatementsOf[lost.q.op]
      BY <1>1, <1>2, <2>4, OpOfStatement DEF StatementsOf
    <3> QED BY <1>2, <2>1, <2>4, <3>1, Continues DEF AfterFailure
  <2>5. CASE call.pc = "distributions"
    BY <1>2, <2>1, <2>5, Answers DEF AfterFailure, MetricsRead
  <2>6. CASE call.pc = "stats"
    BY <1>1, <1>2, <2>1, <2>6, OpOfStatement, CountsGo DEF AfterFailure
  <2>7. CASE call.pc \notin {"series", "scalars", "histograms", "distributions", "stats"}
    <3>1. call' = Answer(lost, 500, {})
      BY <1>2, <2>1, <2>7 DEF AfterFailure
    <3> QED BY <1>2, <3>1, Answers
  <2> QED BY <2>2, <2>3, <2>4, <2>5, <2>6, <2>7
<1>4. ASSUME ~StatementFails PROVE Goes(call, call')
  <2>1. CASE ReadSeries
    BY <1>1, <1>2, <2>1, OpOfStatement, SeriesGoes DEF ReadSeries, Reading
  <2>2. CASE ReadScalars \/ ReadHistograms
    <3>1. "histograms" \in StatementsOf[call.q.op] /\ "distributions" \in StatementsOf[call.q.op]
      BY <1>1, <2>2, OpOfStatement DEF StatementsOf, ReadScalars, ReadHistograms, Reading
    <3> QED BY <1>2, <2>2, <3>1, Continues DEF ReadScalars, ReadHistograms
  <2>3. CASE ReadDistributions
    BY <1>2, <2>3, Answers DEF ReadDistributions, MetricsRead
  <2>4. CASE ListNames \/ ListSeries \/ QueryLogs \/ QueryTraces \/ ReadEdges \/ CountNodes
    BY <1>2, <2>4, Answers DEF ListNames, ListSeries, QueryLogs, QueryTraces, ReadEdges, CountNodes
  <2>5. CASE GetTrace
    BY <1>2, <2>5, Answers DEF GetTrace
  <2>6. CASE ReadServices \/ ReadWorkloads
    <3>1. /\ ReadServices => "edges" \in StatementsOf[call.q.op]
          /\ ReadWorkloads => "nodes" \in StatementsOf[call.q.op]
      BY <1>1, <2>6, OpOfStatement DEF StatementsOf, ReadServices, ReadWorkloads, Reading
    <3> QED BY <1>2, <2>6, <3>1, Continues DEF ReadServices, ReadWorkloads
  <2>7. CASE ReadStats
    BY <1>1, <1>2, <2>7, OpOfStatement, CountsGo DEF ReadStats, Reading
  <2> QED BY <1>4, <2>1, <2>2, <2>3, <2>4, <2>5, <2>6, <2>7 DEF Ran, QueryMetrics, ServiceMap, K8sTopology
<1> QED BY <1>3, <1>4

\* A new call: its first statement, with nothing read, or 400.
LEMMA StartFields ==
    ASSUME StoreInv, Started
    PROVE  /\ IsCall(call') /\ call'.q \in calls' /\ call'.q.op \in Ops /\ call'.failed = FALSE
           /\ \/ call'.pc = "answered" /\ call'.status = 400
              \/ /\ call'.pc = FirstStatement(call'.q.op) /\ call'.status = 200
                 /\ call'.read = <<>>
           /\ held' = db /\ shown' = db /\ UNCHANGED db
<1>1. PICK q \in calls : Receive(q)
  BY DEF Started
<1>2. calls' = calls /\ held' = db /\ shown' = db /\ db' = db
  BY <1>1 DEF Receive, tables
<1>3. \/ call' = [Idle EXCEPT !.pc = "answered", !.q = q, !.status = 400]
      \/ call' = [Idle EXCEPT !.pc = FirstStatement(q.op), !.q = q]
  BY <1>1 DEF Receive
<1>4. q.op \in Ops
  <2>1. PICK s \in Scenarios : calls = s.calls
    BY DEF StoreInv
  <2> QED BY <2>1, CallAssumption
<1>5. DOMAIN Idle = {"pc", "q", "read", "answer", "status", "failed"}
      /\ Idle.read = <<>> /\ Idle.status = 200 /\ Idle.failed = FALSE
  BY DEF Idle
<1> DEFINE refused == [Idle EXCEPT !.pc = "answered", !.q = q, !.status = 400]
           begun == [Idle EXCEPT !.pc = FirstStatement(q.op), !.q = q]
<1>6. /\ IsCall(refused) /\ refused.q = q /\ refused.failed = FALSE
      /\ refused.pc = "answered" /\ refused.status = 400
  BY <1>5 DEF IsCall
<1>7. /\ IsCall(begun) /\ begun.q = q /\ begun.failed = FALSE
      /\ begun.pc = FirstStatement(q.op) /\ begun.status = 200 /\ begun.read = <<>>
  BY <1>5 DEF IsCall
<1>8. call' = refused \/ call' = begun
  BY <1>3
<1> HIDE DEF refused, begun
<1> QED BY <1>2, <1>4, <1>6, <1>7, <1>8

LEMMA FirstIsOurs ==
    ASSUME NEW op \in Ops
    PROVE  FirstStatement(op) \in StatementsOf[op]
BY DEF Ops, FirstStatement, StatementsOf

LEMMA StatementsAre ==
    ASSUME NEW op \in Ops
    PROVE  StatementsOf[op] \subseteq Statements
BY DEF Ops, Statements, StatementsOf

LEMMA EndFields ==
    ASSUME Respond
    PROVE  call'.pc = "idle" /\ IsCall(call') /\ call'.status = 200 /\ call'.failed = FALSE
BY DEF Respond, Idle, IsCall

\* What both of RanGoes' cases have in common.
LEMMA RanFields ==
    ASSUME CallInv, Ran
    PROVE  /\ IsCall(call') /\ call'.q = call.q /\ call'.failed \in BOOLEAN
           /\ call.failed => call'.failed
           /\ StatementFails => call'.failed
           /\ ~StatementFails => call'.failed = call.failed
           /\ call'.status \in {200, 404, 500}
           /\ call'.pc \in StatementsOf[call.q.op] \cup {"answered"}
           /\ call'.pc # "answered" => call'.status = 200
<1>1. /\ IsCall(call) /\ call.failed \in BOOLEAN /\ call.status = 200
      /\ call.q.op \in Ops
  BY RanReads DEF CallInv, Statements
<1>2. PICK c : /\ Goes(c, call') /\ IsCall(c) /\ c.q = call.q /\ c.status = 200 /\ c.failed \in BOOLEAN
               /\ c.failed = call.failed \/ (c.failed = TRUE /\ StatementFails)
               /\ StatementFails => c.failed = TRUE
  <2>1. CASE StatementFails
    <3>1. IsCall(Lost(call)) /\ Lost(call).q = call.q /\ Lost(call).status = 200 /\ Lost(call).failed = TRUE
      BY <1>1 DEF Lost, IsCall
    <3>2. Goes(Lost(call), call')
      BY <2>1, RanGoes
    <3> QED BY <2>1, <3>1, <3>2
  <2>2. CASE ~StatementFails
    <3>1. Goes(call, call')
      BY <2>2, RanGoes
    <3> QED BY <1>1, <2>2, <3>1
  <2> QED BY <2>1, <2>2
<1>3. Goes(c, call')
  BY <1>2
<1>4. /\ call'.q = call.q /\ IsCall(call') /\ call'.failed = c.failed
  BY <1>1, <1>2, <1>3 DEF Goes
<1>5. \/ /\ call'.pc \in StatementsOf[call.q.op] /\ call'.status = 200
      \/ call'.pc = "answered" /\ call'.status \in {200, 404, 500}
  <2>1. CASE \E x, n : n \in StatementsOf[c.q.op] /\ call' = Continue(c, x, n)
    <3>1. PICK x, n : n \in StatementsOf[c.q.op] /\ call' = Continue(c, x, n)
      BY <2>1
    <3>2. call'.pc = n /\ call'.status = c.status
      BY <1>2, <3>1, ContinueFields
    <3> QED BY <1>2, <3>1, <3>2
  <2>2. CASE \E st \in {200, 404, 500} : \E x : call' = Answer(c, st, x)
    <3>1. PICK st \in {200, 404, 500} : \E x : call' = Answer(c, st, x)
      BY <2>2
    <3>2. call'.pc = "answered" /\ call'.status = st
      BY <1>2, <3>1, AnswerFields
    <3> QED BY <3>2
  <2> QED BY <1>3, <2>1, <2>2 DEF Goes
<1> QED BY <1>2, <1>4, <1>5

LEMMA CallInit ==
    ASSUME Init PROVE CallInv
<1>1. call.pc = "idle" /\ IsCall(call) /\ call.status = 200 /\ call.failed = FALSE
  BY DEF Init, Idle, IsCall
<1> QED BY <1>1 DEF CallInv, Statements

LEMMA CallStep ==
    ASSUME StoreInv, CallInv, [Next]_vars PROVE CallInv'
<1>1. CASE Aside
  <2>1. calls' = calls /\ call' = call
    BY <1>1 DEF Aside
  <2> QED BY <2>1 DEF CallInv
<1>2. CASE Started
  <2>1. /\ IsCall(call') /\ call'.q \in calls' /\ call'.q.op \in Ops /\ call'.failed = FALSE
        /\ \/ call'.pc = "answered" /\ call'.status = 400
           \/ call'.pc = FirstStatement(call'.q.op) /\ call'.status = 200
    BY <1>2, StartFields
  <2>2. PICK op : op = call'.q.op
    OBVIOUS
  <2>4. FirstStatement(op) \in StatementsOf[op] /\ StatementsOf[op] \subseteq Statements
    <3>1. op \in Ops
      BY <2>1, <2>2
    <3> QED BY <3>1, FirstIsOurs, StatementsAre
  <2>3. "answered" \notin Statements
    BY DEF Statements
  <2>5. /\ call'.pc \in Statements => call'.pc \in StatementsOf[call'.q.op] /\ call'.status = 200
        /\ call'.pc \in Statements \cup {"idle", "answered"}
        /\ call'.status \in {200, 400}
    <3>1. CASE call'.pc = "answered" /\ call'.status = 400
      BY <2>3, <3>1
    <3>2. CASE call'.pc = FirstStatement(call'.q.op) /\ call'.status = 200
      <4>1. call'.pc = FirstStatement(op) /\ StatementsOf[call'.q.op] = StatementsOf[op]
        BY <2>2, <3>2
      <4> QED BY <2>4, <3>2, <4>1
    <3> QED BY <2>1, <3>1, <3>2
  <2> QED BY <2>1, <2>5 DEF CallInv
<1>3. CASE Ran
  <2>1. /\ IsCall(call') /\ call'.q = call.q /\ call'.failed \in BOOLEAN
        /\ call'.status \in {200, 404, 500}
        /\ call'.pc \in StatementsOf[call.q.op] \cup {"answered"}
        /\ call'.pc # "answered" => call'.status = 200
    BY <1>3, RanFields
  <2>2. call.q \in calls /\ call.q.op \in Ops /\ calls' = calls
    BY <1>3, RanReads DEF CallInv, Statements, tables
  <2>3. StatementsOf[call.q.op] \subseteq Statements
    BY <2>2, StatementsAre
  <2>4. "answered" \notin Statements
    BY DEF Statements
  <2> QED BY <2>1, <2>2, <2>3, <2>4 DEF CallInv
<1>4. CASE Respond
  <2>1. "idle" \notin Statements
    BY DEF Statements
  <2> QED BY <1>4, <2>1, EndFields DEF CallInv
<1> QED BY <1>1, <1>2, <1>3, <1>4, StepKinds

-------------------------------------------------------------------------------
(* The statistics: every count is of a table as it was at some time.         *)

Live(op) == call.pc # "idle" /\ call.status = 200 /\ call.q.op = op

CountIs(j, n) ==
    /\ n \in Nat
    /\ \/ n = 0 /\ call.failed
       \/ /\ Cardinality(held[StatColumns[j]]) <= n
          /\ n <= Cardinality(shown[StatColumns[j]])

StatsInv ==
    Live("stats") =>
       /\ call.pc = "stats" => /\ call.read \in Seq(Nat) /\ Len(call.read) < 5
                               /\ \A j \in 1..Len(call.read) : CountIs(j, call.read[j])
       /\ call.pc = "answered" => /\ call.answer \in Seq(Nat) /\ Len(call.answer) = 5
                                  /\ \A j \in 1..5 : CountIs(j, call.answer[j])

LEMMA FiveColumns == Len(StatColumns) = 5
BY DEF StatColumns

LEMMA ColumnsAreTables == \A j \in 1..5 : StatColumns[j] \in Tables
BY DEF StatColumns, Tables

\* Tables of the future do not make a count wrong.
LEMMA CountsStay ==
    ASSUME StoreInv, StoreInv', Aside, NEW j \in 1..5, NEW n, CountIs(j, n)
    PROVE  CountIs(j, n)'
<1> DEFINE t == StatColumns[j]
<1>1. t \in Tables
  BY ColumnsAreTables
<1>2. IsFiniteSet(shown'[t]) /\ held[t] \subseteq shown[t]
  BY <1>1, FiniteNow, FiniteNext
<1>3. call' = call /\ held'[t] \subseteq held[t] /\ shown[t] \subseteq shown'[t]
  BY <1>1 DEF Aside
<1>4. IsFiniteSet(shown[t]) /\ IsFiniteSet(held[t]) /\ IsFiniteSet(held'[t])
  BY <1>2, <1>3, FS_Subset
<1>5. /\ Cardinality(held'[t]) <= Cardinality(held[t]) /\ Cardinality(shown[t]) <= Cardinality(shown'[t])
      /\ Cardinality(held'[t]) \in Nat /\ Cardinality(held[t]) \in Nat
      /\ Cardinality(shown'[t]) \in Nat /\ Cardinality(shown[t]) \in Nat
  BY <1>2, <1>3, <1>4, FS_Subset, FS_CardinalityType
<1> HIDE DEF t
<1>6. n \in Nat /\ ((n = 0 /\ call.failed) \/ (Cardinality(held[t]) <= n /\ n <= Cardinality(shown[t])))
  BY DEF CountIs, t
<1>7. n \in Nat /\ ((n = 0 /\ call'.failed) \/ (Cardinality(held'[t]) <= n /\ n <= Cardinality(shown'[t])))
  BY <1>3, <1>5, <1>6
<1> QED BY <1>7 DEF CountIs, t

\* One more count.
LEMMA CountAdds ==
    ASSUME NEW c, c.read \in Seq(Nat), NEW k \in Nat, Len(c.read) = k, NEW n \in Nat
    PROVE  /\ Append(c.read, n) \in Seq(Nat) /\ Len(Append(c.read, n)) = k + 1
           /\ Append(c.read, n)[k + 1] = n
           /\ \A j \in 1..k : Append(c.read, n)[j] = c.read[j]
OBVIOUS

LEMMA CountsRan ==
    ASSUME StoreInv, CallInv, StatsInv, Ran, call.q.op = "stats" PROVE StatsInv'
<1>1. call.pc = "stats" /\ call.status = 200 /\ IsCall(call)
  <2>1. call.pc \in Statements /\ call.pc \in StatementsOf["stats"] /\ call.status = 200
    BY RanReads DEF CallInv
  <2> QED BY <2>1 DEF StatementsOf, CallInv
<1>2. held' = held /\ shown' = shown /\ DOMAIN db = Tables
  BY RanReads DEF StoreInv
<1>3. call.read \in Seq(Nat) /\ Len(call.read) < 5 /\ \A j \in 1..Len(call.read) : CountIs(j, call.read[j])
  BY <1>1 DEF StatsInv, Live
<1>4. PICK k \in 0..4 : k = Len(call.read)
  <2>1. Len(call.read) \in Nat
    BY <1>3, LenProperties
  <2>2. \A k \in Nat : k < 5 => k \in 0..4
    OBVIOUS
  <2> QED BY <1>3, <2>1, <2>2
<1>5. PICK c, n : /\ IsCall(c) /\ c.read = call.read /\ c.q = call.q /\ c.status = 200
                  /\ call' = Counted(c, n) /\ (call.failed => c.failed)
                  /\ n \in Nat
                  /\ \/ n = 0 /\ c.failed
                     \/ /\ Cardinality(held[StatColumns[k + 1]]) <= n
                        /\ n <= Cardinality(shown[StatColumns[k + 1]])
  <2>1. CASE StatementFails
    <3>1. /\ IsCall(Lost(call)) /\ Lost(call).read = call.read /\ Lost(call).q = call.q
          /\ Lost(call).status = 200 /\ Lost(call).failed = TRUE /\ Lost(call).pc = "stats"
      BY <1>1 DEF Lost, IsCall
    <3>2. call' = AfterFailure(Lost(call))
      BY <2>1 DEF StatementFails, Lost
    <3>3. call' = Counted(Lost(call), 0)
      BY <3>1, <3>2 DEF AfterFailure
    <3> QED BY <3>1, <3>3
  <2>2. CASE ~StatementFails
    <3>1. ReadStats
      BY <1>1, <2>2 DEF Ran, QueryMetrics, ReadSeries, ReadScalars, ReadHistograms, ReadDistributions,
            ListNames, ListSeries, QueryLogs, QueryTraces, GetTrace, ServiceMap, ReadServices,
            ReadEdges, K8sTopology, ReadWorkloads, CountNodes, Reading
    <3> DEFINE t == StatColumns[k + 1]
               n == Cardinality(db[t])
    <3>2. call' = Counted(call, n)
      <4>1. k + 1 = Len(call.read) + 1
        BY <1>4
      <4>2. call' = Counted(call, CountRows(k + 1))
        BY <3>1, <4>1 DEF ReadStats
      <4> QED BY <4>2 DEF CountRows
    <3>3. k + 1 \in 1..5
      OBVIOUS
    <3>4. t \in Tables
      BY <3>3, ColumnsAreTables
    <3>5. held[t] \subseteq db[t] /\ db[t] \subseteq shown[t] /\ IsFiniteSet(shown[t])
      BY <1>1, <3>4, FiniteNow DEF StoreInv
    <3>6. n \in Nat /\ Cardinality(held[t]) <= n /\ n <= Cardinality(shown[t])
      BY <3>5, FS_Subset, FS_CardinalityType
    <3> HIDE DEF n, t
    <3> QED BY <1>1, <3>2, <3>6 DEF t
  <2> QED BY <2>1, <2>2
<1>6. /\ Append(c.read, n) \in Seq(Nat) /\ Len(Append(c.read, n)) = k + 1
      /\ Append(c.read, n)[k + 1] = n
      /\ \A j \in 1..k : Append(c.read, n)[j] = c.read[j]
  BY <1>3, <1>4, <1>5, CountAdds
<1> DEFINE counts == Append(c.read, n)
<1>10. /\ k + 1 < 5 => Counted(c, n) = Continue(c, n, "stats")
       /\ ~(k + 1 < 5) => Counted(c, n) = Answer(c, 200, counts)
  <2>1. Len(c.read) + 1 = k + 1 /\ Len(StatColumns) = 5
    BY <1>4, <1>5, FiveColumns
  <2> HIDE DEF counts
  <2> QED BY <2>1 DEF Counted, counts
<1>7. \/ k + 1 < 5 /\ call' = Continue(c, n, "stats")
      \/ k + 1 = 5 /\ call' = Answer(c, 200, counts)
  <2>1. k + 1 < 5 \/ k + 1 = 5
    OBVIOUS
  <2>2. ~(k + 1 = 5 /\ k + 1 < 5)
    OBVIOUS
  <2>3. call' = Counted(c, n)
    BY <1>5
  <2> HIDE DEF counts
  <2> QED BY <1>10, <2>1, <2>2, <2>3, Zenon
<1>13. call'.failed = c.failed /\ call'.q = call.q
  <2>1. IsCall(c) /\ c.q = call.q /\ (call' = Continue(c, n, "stats") \/ call' = Answer(c, 200, counts))
    BY <1>5, <1>7
  <2> HIDE DEF counts
  <2> QED BY <2>1, ContinueFields, AnswerFields
<1>14. held' = held /\ shown' = shown /\ (call.failed => call'.failed) /\ (c.failed => call'.failed)
  BY <1>2, <1>5, <1>13
<1>8. \A j \in 1..(k + 1) : CountIs(j, counts[j])'
  <2> SUFFICES ASSUME NEW j \in 1..(k + 1) PROVE CountIs(j, counts[j])'
    OBVIOUS
  <2>1. CASE j = k + 1
    <3>1. counts[j] = n
      BY <1>6, <2>1
    <3> HIDE DEF counts
    <3> QED BY <1>5, <1>14, <2>1, <3>1 DEF CountIs
  <2>2. CASE j # k + 1
    <3>1. j \in 1..k
      BY <1>4, <2>2
    <3>2. counts[j] = call.read[j] /\ CountIs(j, call.read[j])
      BY <1>3, <1>5, <1>6, <3>1
    <3> HIDE DEF counts
    <3> QED BY <1>14, <3>2 DEF CountIs
  <2> QED BY <2>1, <2>2
<1>9. counts \in Seq(Nat) /\ Len(counts) = k + 1
  BY <1>6
<1> HIDE DEF counts
<1>11. CASE k + 1 < 5 /\ call' = Continue(c, n, "stats")
  <2>1. call'.pc = "stats" /\ call'.read = counts
    BY <1>5, <1>11, ContinueFields DEF counts
  <2>2. Len(counts) < 5
    BY <1>9, <1>11
  <2>3. \A j \in 1..Len(counts) : CountIs(j, counts[j])'
    BY <1>8, <1>9
  <2> QED BY <1>9, <2>1, <2>2, <2>3 DEF StatsInv
<1>12. CASE k + 1 = 5 /\ call' = Answer(c, 200, counts)
  <2>1. call'.pc = "answered" /\ call'.answer = counts
    BY <1>5, <1>12, AnswerFields
  <2>2. Len(counts) = 5
    BY <1>9, <1>12
  <2>3. \A j \in 1..5 : CountIs(j, counts[j])'
    BY <1>8, <1>12
  <2> QED BY <1>9, <2>1, <2>2, <2>3 DEF StatsInv
<1> QED BY <1>7, <1>11, <1>12

LEMMA StatsStep ==
    ASSUME StoreInv, StoreInv', CallInv, StatsInv, [Next]_vars PROVE StatsInv'
<1>1. CASE Aside
  <2>1. call' = call
    BY <1>1 DEF Aside
  <2>2. \A j \in 1..5 : \A n : CountIs(j, n) => CountIs(j, n)'
    BY <1>1, CountsStay
  <2>3. CASE Live("stats") /\ call.pc = "stats"
    <3>1. call.read \in Seq(Nat) /\ Len(call.read) < 5 /\ \A j \in 1..Len(call.read) : CountIs(j, call.read[j])
      BY <2>3 DEF StatsInv
    <3>2. \A j \in 1..Len(call.read) : j \in 1..5
      BY <3>1, LenProperties
    <3>3. \A j \in 1..Len(call.read) : CountIs(j, call.read[j])'
      BY <2>1, <2>2, <3>1, <3>2
    <3> QED BY <2>1, <2>3, <3>1, <3>3 DEF StatsInv, Live
  <2>4. CASE Live("stats") /\ call.pc = "answered"
    <3>1. call.answer \in Seq(Nat) /\ Len(call.answer) = 5 /\ \A j \in 1..5 : CountIs(j, call.answer[j])
      BY <2>4 DEF StatsInv
    <3>2. \A j \in 1..5 : CountIs(j, call.answer[j])'
      BY <2>1, <2>2, <3>1
    <3> QED BY <2>1, <2>4, <3>1, <3>2 DEF StatsInv, Live
  <2> QED BY <2>1, <2>3, <2>4 DEF StatsInv, Live
<1>2. CASE Started
  <2>1. /\ call'.q.op \in Ops
        /\ \/ call'.pc = "answered" /\ call'.status = 400
           \/ call'.pc = FirstStatement(call'.q.op) /\ call'.status = 200 /\ call'.read = <<>>
    BY <1>2, StartFields
  <2>2. ASSUME Live("stats")' PROVE call'.pc = "stats" /\ call'.read = <<>>
    BY <2>1, <2>2 DEF Live, FirstStatement
  <2>3. <<>> \in Seq(Nat) /\ Len(<<>>) < 5 /\ 1..Len(<<>>) = {}
    OBVIOUS
  <2> QED BY <2>2, <2>3 DEF StatsInv
<1>3. CASE Ran
  <2>1. CASE call.q.op = "stats"
    BY <1>3, <2>1, CountsRan
  <2>2. CASE call.q.op # "stats"
    <3>1. call'.q = call.q
      BY <1>3, RanFields
    <3> QED BY <2>2, <3>1 DEF StatsInv, Live
  <2> QED BY <2>1, <2>2
<1>4. CASE Respond
  BY <1>4, EndFields DEF StatsInv, Live
<1> QED BY <1>1, <1>2, <1>3, <1>4, StepKinds

LEMMA StatsAre ==
    ASSUME StatsInv PROVE StatsAreBracketed
<1>1. DOMAIN StatColumns = 1..5
  BY DEF StatColumns
<1>2. SUFFICES ASSUME Answered("stats"), NEW j \in DOMAIN StatColumns
      PROVE  \/ call.answer[j] = 0 /\ call.failed
             \/ /\ Cardinality(held[StatColumns[j]]) <= call.answer[j]
                /\ call.answer[j] <= Cardinality(shown[StatColumns[j]])
  BY DEF StatsAreBracketed
<1>3. CountIs(j, call.answer[j])
  BY <1>1, <1>2 DEF StatsInv, Answered, Live
<1> QED BY <1>3 DEF CountIs

-------------------------------------------------------------------------------
(* What a statement may have read.                                           *)

LEMMA SnapshotsGrow ==
    ASSUME Aside, NEW t \in Tables, NEW S \in Snapshots(t)
    PROVE  S \in Snapshots(t)'
BY DEF Aside, Snapshots

LEMMA SnapshotsStay ==
    ASSUME Ran, NEW t, NEW S \in Snapshots(t)
    PROVE  S \in Snapshots(t)'
BY RanReads DEF Snapshots

LEMMA NowIsOne ==
    ASSUME StoreInv, call.pc # "idle", NEW t \in Tables
    PROVE  db[t] \in Snapshots(t)
BY DEF StoreInv, Snapshots

\* Of a step that reads nothing of the tables.
LEMMA QuestionStays ==
    ASSUME CallInv, Aside \/ Ran
    PROVE  call'.q = call.q /\ Asked' = Asked
<1>1. call'.q = call.q
  BY RanFields DEF Aside
<1> QED BY <1>1 DEF Asked

-------------------------------------------------------------------------------
(* Pages of logs.                                                            *)

LEMMA LesserOf ==
    ASSUME NEW a \in Int, NEW b \in Int
    PROVE  Min({a, b}) = (IF a <= b THEN a ELSE b) /\ Max({a, b}) = (IF a <= b THEN b ELSE a)
<1>1. CASE a <= b
  <2>1. \A x \in {a, b} : (\A y \in {a, b} : x <= y) <=> x = a
    BY <1>1
  <2>2. \A x \in {a, b} : (\A y \in {a, b} : x >= y) <=> x = b
    BY <1>1
  <2> QED BY <1>1, <2>1, <2>2 DEF Min, Max
<1>2. CASE ~(a <= b)
  <2>1. \A x \in {a, b} : (\A y \in {a, b} : x <= y) <=> x = b
    BY <1>2
  <2>2. \A x \in {a, b} : (\A y \in {a, b} : x >= y) <=> x = a
    BY <1>2
  <2> QED BY <1>2, <2>1, <2>2 DEF Min, Max
<1> QED BY <1>1, <1>2

LEMMA Limits ==
    ASSUME NEW p \in {LogPage, TracePage}, NEW q, q.limit \in Optional(Int)
    PROVE  Limit(q, p) \in 1..p.most
<1>1. p.most \in Nat /\ p.default \in 1..p.most
  BY PageAssumption
<1>2. CASE q.limit = Absent
  BY <1>1, <1>2 DEF Limit
<1>3. CASE q.limit # Absent
  <2>1. PICK n \in Int : n = q.limit
    BY <1>3 DEF Optional
  <2>2. Min({n, p.most}) = IF n <= p.most THEN n ELSE p.most
    BY <1>1, LesserOf
  <2>3. PICK m \in Int : m = Min({n, p.most}) /\ m <= p.most
    BY <1>1, <2>2
  <2>4. Max({1, m}) = IF 1 <= m THEN m ELSE 1
    BY LesserOf
  <2>5. Max({1, m}) \in 1..p.most
    BY <1>1, <2>3, <2>4
  <2> QED BY <1>3, <2>1, <2>3, <2>5 DEF Limit
<1> QED BY <1>2, <1>3

\* Only when the page is full is anything left out, and then nothing newer than what is not.
LEMMA LogPages ==
    ASSUME NEW rows, IsFiniteSet(rows), NEW limit \in Nat, NEW page \in Pages(rows, limit, LogTime)
    PROVE  /\ page \subseteq rows /\ Cardinality(page) <= limit
           /\ \A r \in rows \ page : Cardinality(page) = limit /\ \A s \in page : s.ts >= r.ts
<1> DEFINE n == Min({limit, Cardinality(rows)})
<1>1. Cardinality(rows) \in Nat
  BY FS_CardinalityType
<1>2. n = IF limit <= Cardinality(rows) THEN limit ELSE Cardinality(rows)
  BY <1>1, LesserOf
<1>3. page \subseteq rows /\ Cardinality(page) = n /\ \A r \in page, s \in rows \ page : r.ts >= s.ts
  BY DEF Pages, kSubset, LogTime
<1> HIDE DEF n
<1>4. ASSUME NEW r \in rows \ page PROVE Cardinality(page) = limit
  <2>1. Cardinality(page) # Cardinality(rows)
    BY <1>3, FS_Subset
  <2> QED BY <1>1, <1>2, <1>3, <2>1
<1>5. n <= limit
  BY <1>1, <1>2
<1> QED BY <1>3, <1>4, <1>5

LogsInv ==
    Live("logs") /\ call.pc = "answered" =>
        \E L \in Snapshots("logs") :
            call.answer \in Pages(MatchingLogs(L, call.q, Asked), Limit(call.q, LogPage), LogTime)

LEMMA LogsStep ==
    ASSUME StoreInv, CallInv, LogsInv, [Next]_vars PROVE LogsInv'
<1>1. "logs" \in Tables
  BY DEF Tables
<1>2. CASE Aside
  <2> SUFFICES ASSUME Live("logs")', call'.pc = "answered" PROVE LogsInv'
    BY DEF LogsInv
  <2>1. call' = call /\ Asked' = Asked
    BY <1>2, QuestionStays DEF Aside
  <2>2. PICK L \in Snapshots("logs") :
            call.answer \in Pages(MatchingLogs(L, call.q, Asked), Limit(call.q, LogPage), LogTime)
    BY <2>1 DEF LogsInv, Live
  <2>3. L \in Snapshots("logs")'
    BY <1>1, <1>2, SnapshotsGrow
  <2> QED BY <2>1, <2>2, <2>3 DEF LogsInv
<1>3. CASE Started
  <2>1. /\ call'.q.op \in Ops
        /\ \/ call'.pc = "answered" /\ call'.status = 400
           \/ call'.pc = FirstStatement(call'.q.op)
    BY <1>3, StartFields
  <2>2. Live("logs")' => call'.pc # "answered"
    BY <2>1 DEF Live, FirstStatement
  <2> QED BY <2>2 DEF LogsInv
<1>4. CASE Ran
  <2>1. call'.q = call.q /\ Asked' = Asked
    BY <1>4, QuestionStays
  <2> SUFFICES ASSUME Live("logs")', call'.pc = "answered" PROVE LogsInv'
    BY DEF LogsInv
  <2>2. call.pc = "logs" /\ IsCall(call)
    <3>1. call.pc \in StatementsOf["logs"]
      BY <1>4, <2>1, RanReads DEF CallInv, Live
    <3> QED BY <3>1 DEF StatementsOf, CallInv
  <2>3. ~StatementFails
    <3> SUFFICES ASSUME StatementFails PROVE FALSE
      OBVIOUS
    <3>1. IsCall(Lost(call)) /\ Lost(call).pc = "logs"
      BY <2>2 DEF Lost, IsCall
    <3>2. call' = AfterFailure(Lost(call))
      BY DEF StatementFails, Lost
    <3>3. call' = Answer(Lost(call), 500, {})
      BY <3>1, <3>2 DEF AfterFailure
    <3>4. call'.status = 500
      BY <3>1, <3>3, AnswerFields
    <3> QED BY <3>4 DEF Live
  <2>4. QueryLogs
    BY <1>4, <2>2, <2>3 DEF Ran, QueryMetrics, ReadSeries, ReadScalars, ReadHistograms, ReadDistributions,
          ListNames, ListSeries, QueryTraces, GetTrace, ServiceMap, ReadServices,
          ReadEdges, K8sTopology, ReadWorkloads, CountNodes, ReadStats, Reading
  <2>5. PICK page \in Pages(MatchingLogs(db.logs, call.q, Asked), Limit(call.q, LogPage), LogTime) :
            call' = Answer(call, 200, page)
    BY <2>4 DEF QueryLogs
  <2>6. call'.answer = page
    BY <2>2, <2>5, AnswerFields
  <2>7. db["logs"] \in Snapshots("logs")'
    <3>1. db["logs"] \in Snapshots("logs")
      BY <1>1, <2>2, NowIsOne
    <3> QED BY <1>4, <3>1, SnapshotsStay
  <2> QED BY <2>1, <2>5, <2>6, <2>7 DEF LogsInv
<1>5. CASE Respond
  BY <1>5, EndFields DEF LogsInv
<1> QED BY <1>2, <1>3, <1>4, <1>5, StepKinds

LEMMA CallTypes ==
    ASSUME StoreInv, CallInv, call.pc # "idle"
    PROVE  /\ call.q.op = "metrics" => MetricsQueryParams(call.q)
           /\ call.q.op = "logs" => LogsQueryParams(call.q)
           /\ call.q.op = "traces" => TracesQueryParams(call.q)
<1>1. PICK s \in Scenarios : calls = s.calls
  BY DEF StoreInv
<1>2. call.q \in s.calls
  BY <1>1 DEF CallInv
<1> QED BY <1>2, CallAssumption

LEMMA LogsAre ==
    ASSUME StoreInv, CallInv, LogsInv
    PROVE  PageIsNewest /\ (Answered("logs") => Cardinality(call.answer) <= LogPage.most)
<1> DEFINE Matching(rows) == {r \in rows : Within(r.ts, Asked) /\ Admits(r, call.q)}
<1> SUFFICES ASSUME Answered("logs")
             PROVE  /\ call.answer \subseteq Matching(shown.logs)
                    /\ \A r \in Matching(held.logs) \ call.answer :
                          /\ Cardinality(call.answer) = Limit(call.q, LogPage)
                          /\ \A s \in call.answer : s.ts >= r.ts
                    /\ Cardinality(call.answer) <= LogPage.most
  BY DEF PageIsNewest
<1>1. PICK L \in Snapshots("logs") :
          call.answer \in Pages(MatchingLogs(L, call.q, Asked), Limit(call.q, LogPage), LogTime)
  BY DEF LogsInv, Answered, Live
<1>2. Limit(call.q, LogPage) \in 1..LogPage.most /\ LogPage.most \in Nat
  BY CallTypes, Limits, PageAssumption DEF Answered, LogsQueryParams
<1>3. held["logs"] \subseteq L /\ L \subseteq shown["logs"] /\ IsFiniteSet(shown["logs"])
  BY FiniteNow DEF Snapshots, Tables
<1>4. MatchingLogs(L, call.q, Asked) = Matching(L) /\ IsFiniteSet(Matching(L))
  <2>1. IsFiniteSet(L) /\ Matching(L) \subseteq L
    BY <1>3, FS_Subset
  <2> QED BY <2>1, FS_Subset DEF MatchingLogs
<1>5. PICK limit \in Nat : limit = Limit(call.q, LogPage) /\ limit <= LogPage.most
  BY <1>2
<1>6. /\ call.answer \subseteq Matching(L) /\ Cardinality(call.answer) <= limit
      /\ \A r \in Matching(L) \ call.answer :
            Cardinality(call.answer) = limit /\ \A s \in call.answer : s.ts >= r.ts
  <2> HIDE DEF Matching
  <2> QED BY <1>1, <1>4, <1>5, LogPages
<1>7. Matching(held.logs) \subseteq Matching(L) /\ Matching(L) \subseteq Matching(shown.logs)
  BY <1>3
<1>8. Cardinality(call.answer) <= LogPage.most
  <2>1. Cardinality(call.answer) \in Nat
    BY <1>4, <1>6, FS_Subset, FS_CardinalityType
  <2> QED BY <1>2, <1>5, <1>6, <2>1
<1> HIDE DEF Matching
<1> QED BY <1>5, <1>6, <1>7, <1>8

-------------------------------------------------------------------------------
(* Which statement it was.                                                   *)

LEMMA RanWell ==
    ASSUME CallInv, Ran, ~StatementFails
    PROVE  /\ call.pc = "series" => ReadSeries
           /\ call.pc = "scalars" => ReadScalars
           /\ call.pc = "histograms" => ReadHistograms
           /\ call.pc = "distributions" => ReadDistributions
           /\ call.pc = "traces" => QueryTraces
           /\ call.pc = "services" => ReadServices
           /\ call.pc = "edges" => ReadEdges
           /\ call.pc = "workloads" => ReadWorkloads
           /\ call.pc = "nodes" => CountNodes
BY DEF Ran, QueryMetrics, ReadSeries, ReadScalars, ReadHistograms, ReadDistributions,
       ListNames, ListSeries, QueryLogs, QueryTraces, GetTrace, ServiceMap, ReadServices,
       ReadEdges, K8sTopology, ReadWorkloads, CountNodes, ReadStats, Reading

\* A failed statement of those that are not forgiven.
LEMMA RanBadly ==
    ASSUME CallInv, Ran, StatementFails,
           call.pc \notin {"series", "scalars", "histograms", "distributions", "stats"}
    PROVE  call'.status = 500 /\ call'.pc = "answered"
<1>1. IsCall(Lost(call)) /\ Lost(call).pc = call.pc
  BY DEF CallInv, Lost, IsCall
<1>2. call' = AfterFailure(Lost(call))
  BY DEF StatementFails, Lost
<1>3. call' = Answer(Lost(call), 500, {})
  BY <1>1, <1>2 DEF AfterFailure
<1> QED BY <1>1, <1>3, AnswerFields

\* A call that has just come has not been answered, unless with 400.
LEMMA StartsAtFirst ==
    ASSUME StoreInv, Started, NEW op, Live(op)'
    PROVE  call'.pc = FirstStatement(op) /\ call'.read = <<>> /\ op \in Ops
BY StartFields DEF Live

LEMMA PcOfOp ==
    ASSUME CallInv, Ran
    PROVE  call.pc \in StatementsOf[call.q.op] /\ IsCall(call) /\ call.pc # "idle"
BY RanReads DEF CallInv, Statements

-------------------------------------------------------------------------------
(* Summaries of traces.                                                      *)

SpanOk(r) == r.start \in Int /\ r.end \in Int /\ r.duration \in Nat

LEMMA SpansOk ==
    ASSUME StoreInv PROVE \A r \in shown.spans : SpanOk(r)
<1> SUFFICES ASSUME NEW r \in shown.spans PROVE SpanOk(r)
  OBVIOUS
<1>1. PICK x : r = SpanRow(x) /\ x.start \in Int /\ x.end \in Int
  BY RowFacts
<1>2. r.start = x.start /\ r.end \in {x.start, x.end} /\ r.duration = Duration(x.start, x.end)
  BY <1>1 DEF SpanRow
<1>3. PICK d \in Int : d = x.end - x.start
  BY <1>1
<1>4. Max({0, d}) \in Nat
  <2>1. Max({0, d}) = IF 0 <= d THEN d ELSE 0
    BY LesserOf
  <2> QED BY <2>1
<1> QED BY <1>1, <1>2, <1>3, <1>4 DEF SpanOk, Duration

TracesInv ==
    Live("traces") /\ call.pc = "answered" =>
        \E S \in Snapshots("spans") :
            call.answer \in TracePages(S, call.q, Asked, Limit(call.q, TracePage))

LEMMA TracesStep ==
    ASSUME StoreInv, CallInv, TracesInv, [Next]_vars PROVE TracesInv'
<1>1. "spans" \in Tables
  BY DEF Tables
<1>2. CASE Aside
  <2> SUFFICES ASSUME Live("traces")', call'.pc = "answered" PROVE TracesInv'
    BY DEF TracesInv
  <2>1. call' = call /\ Asked' = Asked
    BY <1>2, QuestionStays DEF Aside
  <2>2. PICK S \in Snapshots("spans") :
            call.answer \in TracePages(S, call.q, Asked, Limit(call.q, TracePage))
    BY <2>1 DEF TracesInv, Live
  <2>3. S \in Snapshots("spans")'
    BY <1>1, <1>2, SnapshotsGrow
  <2> QED BY <2>1, <2>2, <2>3 DEF TracesInv
<1>3. CASE Started
  <2>1. Live("traces")' => call'.pc # "answered"
    BY <1>3, StartsAtFirst DEF FirstStatement
  <2> QED BY <2>1 DEF TracesInv
<1>4. CASE Ran
  <2>1. call'.q = call.q /\ Asked' = Asked
    BY <1>4, QuestionStays
  <2> SUFFICES ASSUME Live("traces")', call'.pc = "answered" PROVE TracesInv'
    BY DEF TracesInv
  <2>2. call.pc = "traces" /\ IsCall(call)
    BY <1>4, <2>1, PcOfOp DEF StatementsOf, Live
  <2>3. ~StatementFails
    BY <1>4, <2>2, RanBadly DEF Live
  <2>5. PICK page \in TracePages(db.spans, call.q, Asked, Limit(call.q, TracePage)) :
            call' = Answer(call, 200, page)
    BY <1>4, <2>2, <2>3, RanWell DEF QueryTraces
  <2>6. call'.answer = page
    BY <2>2, <2>5, AnswerFields
  <2>7. db["spans"] \in Snapshots("spans")'
    <3>1. db["spans"] \in Snapshots("spans")
      BY <1>1, <2>2, NowIsOne
    <3> QED BY <1>4, <3>1, SnapshotsStay
  <2> QED BY <2>1, <2>5, <2>6, <2>7 DEF TracesInv
<1>5. CASE Respond
  BY <1>5, EndFields DEF TracesInv
<1> QED BY <1>2, <1>3, <1>4, <1>5, StepKinds

\* What a summary says of its rows.
LEMMA SummaryFacts ==
    ASSUME NEW S, IsFiniteSet(S), \A r \in S : SpanOk(r), NEW q, NEW w, NEW limit,
           NEW page \in TracePages(S, q, w, limit), NEW a \in page
    PROVE  LET rows == SpansOf(InWindow(S, w), a.trace) IN
           /\ rows # {} /\ a.count = Cardinality(rows) /\ a.status = StatusOf(rows)
           /\ TraceDuration(rows) \in Int /\ a.ms = ToMs(TraceDuration(rows))
           /\ q.shortest = Absent \/ TraceDuration(rows) >= q.shortest * TicksPerMs
           /\ q.longest = Absent \/ TraceDuration(rows) <= q.longest * TicksPerMs
           /\ \E f \in rows : f.name = a.name /\ \A s \in rows : RootFirst(f, s)
<1> DEFINE all == InWindow(S, w)
<1>1. PICK roots \in RootChoices(all) : page \in Pages(Summaries(all, roots, q), limit, Start)
  BY DEF TracePages
<1>2. a \in Summaries(all, roots, q)
  BY <1>1 DEF Pages, kSubset
<1>3. PICK t \in TraceIds(all) : /\ Wanted(SpansOf(all, t), roots[t], q)
                                 /\ a = Summary(SpansOf(all, t), roots[t])
  BY <1>2 DEF Summaries
<1> DEFINE rows == SpansOf(all, t)
<1>4. roots[t] \in rows /\ \A s \in rows : RootFirst(roots[t], s)
  BY <1>1 DEF RootChoices
<1>5. a.trace = t /\ a.name = roots[t].name /\ a.count = Cardinality(rows)
      /\ a.status = StatusOf(rows) /\ a.ms = ToMs(TraceDuration(rows))
  <2>1. roots[t].trace = t
    BY <1>4 DEF SpansOf
  <2> HIDE DEF rows
  <2> QED BY <1>3, <2>1 DEF Summary, rows
<1>6. TraceDuration(rows) \in Int
  <2>1. rows \subseteq S /\ rows # {}
    BY <1>4 DEF SpansOf, InWindow
  <2> HIDE DEF rows
  <2>2. IsFiniteSet(rows) /\ \A r \in rows : r.start \in Int /\ r.end \in Int
    BY <2>1, FS_Subset DEF SpanOk
  <2> DEFINE f == [r \in rows |-> r.start]
             g == [r \in rows |-> r.end]
             starts == {f[r] : r \in rows}
             ends == {g[r] : r \in rows}
  <2>3. starts \in SUBSET Int /\ ends \in SUBSET Int /\ starts # {} /\ ends # {}
    BY <2>1, <2>2
  <2>4. IsFiniteSet(starts) /\ IsFiniteSet(ends)
    <3>1. DOMAIN f = rows /\ DOMAIN g = rows
      OBVIOUS
    <3> HIDE DEF f, g
    <3> QED BY <2>2, <3>1, ImageFinite
  <2>5. starts = {r.start : r \in rows} /\ ends = {r.end : r \in rows}
    OBVIOUS
  <2> HIDE DEF starts, ends
  <2>6. Min(starts) \in Int /\ Max(ends) \in Int
    BY <2>3, <2>4, Extremes
  <2> QED BY <2>5, <2>6 DEF TraceDuration, TraceStart
<1>7. /\ q.shortest = Absent \/ TraceDuration(rows) >= q.shortest * TicksPerMs
      /\ q.longest = Absent \/ TraceDuration(rows) <= q.longest * TicksPerMs
  <2> HIDE DEF rows
  <2> QED BY <1>3 DEF Wanted, rows
<1> HIDE DEF all
<1> QED BY <1>4, <1>5, <1>6, <1>7 DEF all

LEMMA TracesAre ==
    ASSUME StoreInv, CallInv, TracesInv
    PROVE  SummariesAreTrue /\ (Answered("traces") => \A t \in call.answer : TraceSummary(t))
<1> SUFFICES ASSUME Answered("traces"), NEW a \in call.answer
             PROVE  LET InIt(rows) == SpansOf(InWindow(rows, Asked), a.trace) IN
                    /\ Cardinality(InIt(held.spans)) <= a.count /\ a.count <= Cardinality(InIt(shown.spans))
                    /\ Failed(InIt(held.spans)) # {} => a.status = "error"
                    /\ a.status = "error" => Failed(InIt(shown.spans)) # {}
                    /\ (\E r \in InIt(held.spans) : r.parent = Absent) =>
                          \E r \in InIt(shown.spans) : r.parent = Absent /\ r.name = a.name
                    /\ call.q.shortest # Absent => a.ms >= call.q.shortest
                    /\ call.q.longest # Absent => a.ms <= call.q.longest
                    /\ TraceSummary(a)
  BY DEF SummariesAreTrue
<1> DEFINE InIt(rows) == SpansOf(InWindow(rows, Asked), a.trace)
<1>1. PICK S \in Snapshots("spans") : call.answer \in TracePages(S, call.q, Asked, Limit(call.q, TracePage))
  BY DEF TracesInv, Answered, Live
<1>2. held.spans \subseteq S /\ S \subseteq shown.spans /\ IsFiniteSet(shown.spans)
  BY FiniteNow DEF Snapshots, Tables
<1>3. IsFiniteSet(S) /\ \A r \in S : SpanOk(r)
  BY <1>2, SpansOk, FS_Subset
<1> DEFINE rows == InIt(S)
<1>4. /\ rows # {} /\ a.count = Cardinality(rows) /\ a.status = StatusOf(rows)
      /\ TraceDuration(rows) \in Int /\ a.ms = ToMs(TraceDuration(rows))
      /\ call.q.shortest = Absent \/ TraceDuration(rows) >= call.q.shortest * TicksPerMs
      /\ call.q.longest = Absent \/ TraceDuration(rows) <= call.q.longest * TicksPerMs
      /\ \E f \in rows : f.name = a.name /\ \A s \in rows : RootFirst(f, s)
  BY <1>1, <1>3, SummaryFacts
<1>5. /\ InIt(held.spans) \subseteq rows /\ rows \subseteq InIt(shown.spans)
      /\ InIt(shown.spans) \subseteq shown.spans /\ rows \subseteq S
  BY <1>2 DEF SpansOf, InWindow
<1> HIDE DEF InIt
<1>6. IsFiniteSet(InIt(held.spans)) /\ IsFiniteSet(rows) /\ IsFiniteSet(InIt(shown.spans))
  BY <1>2, <1>5, FS_Subset
<1> HIDE DEF rows
<1>7. Cardinality(InIt(held.spans)) <= a.count /\ a.count <= Cardinality(InIt(shown.spans))
  BY <1>4, <1>5, <1>6, FS_Subset
<1>8. /\ Failed(InIt(held.spans)) # {} => a.status = "error"
      /\ a.status = "error" => Failed(InIt(shown.spans)) # {}
      /\ a.status \in {"ok", "error"}
  BY <1>4, <1>5 DEF StatusOf, Failed
<1>9. (\E r \in InIt(held.spans) : r.parent = Absent) =>
          \E r \in InIt(shown.spans) : r.parent = Absent /\ r.name = a.name
  <2> SUFFICES ASSUME NEW r \in InIt(held.spans), r.parent = Absent
               PROVE  \E f \in InIt(shown.spans) : f.parent = Absent /\ f.name = a.name
    OBVIOUS
  <2>1. PICK f \in rows : f.name = a.name /\ \A s \in rows : RootFirst(f, s)
    BY <1>4
  <2>2. RootFirst(f, r)
    BY <1>5, <2>1
  <2>3. f.parent = Absent
    BY <2>2 DEF RootFirst
  <2> QED BY <1>5, <2>1, <2>3
<1> DEFINE took == TraceDuration(rows)
<1>10. took \in Int /\ a.ms = ToMs(took) /\ a.ms \in Int
  <2>1. took \in Int /\ a.ms = ToMs(took)
    BY <1>4
  <2> HIDE DEF took
  <2> QED BY <2>1, Rounds
<1>11. call.q.shortest \in Optional(Int) /\ call.q.longest \in Optional(Int)
  BY CallTypes DEF Answered, TracesQueryParams
<1>12. ASSUME call.q.shortest # Absent PROVE a.ms >= call.q.shortest
  <2>1. PICK s \in Int : s = call.q.shortest
    BY <1>11, <1>12 DEF Optional
  <2>2. took >= s * TicksPerMs
    BY <1>4, <1>12, <2>1
  <2> HIDE DEF took
  <2>3. ToMs(took) >= s
    BY <1>10, <2>2, Rounds
  <2> QED BY <1>10, <2>1, <2>3
<1>13. ASSUME call.q.longest # Absent PROVE a.ms <= call.q.longest
  <2>1. PICK s \in Int : s = call.q.longest
    BY <1>11, <1>13 DEF Optional
  <2>2. took <= s * TicksPerMs
    BY <1>4, <1>13, <2>1
  <2> HIDE DEF took
  <2>3. ToMs(took) <= s
    BY <1>10, <2>2, Rounds
  <2> QED BY <1>10, <2>1, <2>3
<1>14. TraceSummary(a)
  <2>1. PICK n \in Nat : n = Cardinality(rows)
    BY <1>6, FS_CardinalityType
  <2>2. n # 0
    BY <1>4, <1>6, <2>1, FS_EmptySet
  <2>3. n >= 1
    BY <2>2
  <2> QED BY <1>4, <1>8, <1>10, <2>1, <2>3 DEF TraceSummary
<1> QED BY <1>7, <1>8, <1>9, <1>12, <1>13, <1>14 DEF InIt

-------------------------------------------------------------------------------
(* The four statements of query_metrics: each result is that of a table as it *)
(* was at some time, or empty since the statement failed.                     *)

AskedStep == Step(call.q, DefaultStep)

SeriesAre(found) ==
    \/ call.failed /\ found = {}
    \/ \E S \in Snapshots("series") : found = MatchingSeries(S, call.q)

ScalarsAre(x, found) ==
    \/ call.failed /\ x = {}
    \/ \E P \in Snapshots("points") :
          x = ScalarBuckets(P, ScalarIds(found), Asked, AskedStep, Agg(call.q))

HistogramsAre(h, found) ==
    \/ call.failed /\ h = {}
    \/ \E H \in Snapshots("hists") : h = HistogramBuckets(H, HistogramIds(found), Asked, AskedStep)

NewestAre(n, found) ==
    \/ call.failed /\ n = {}
    \/ \E H \in Snapshots("hists") : n = NewestDistributions(H, HistogramIds(found), Asked)

MetricsInv ==
    Live("metrics") =>
       /\ call.pc = "series" => call.read = <<>>
       /\ call.pc = "scalars" => \E s : call.read = <<s>> /\ SeriesAre(s)
       /\ call.pc = "histograms" =>
             \E s, x : call.read = <<s, x>> /\ SeriesAre(s) /\ ScalarsAre(x, s)
       /\ call.pc = "distributions" =>
             \E s, x, h : call.read = <<s, x, h>> /\ SeriesAre(s) /\ ScalarsAre(x, s) /\ HistogramsAre(h, s)
       /\ call.pc = "answered" =>
             \/ call.answer = {} /\ SeriesAre({})
             \/ \E s, x, h, n :
                   /\ SeriesAre(s) /\ ScalarsAre(x, s) /\ HistogramsAre(h, s) /\ NewestAre(n, s)
                   /\ call.answer = AssembleSeries(s, x, h, n)

LEMMA ReadsStay ==
    ASSUME StoreInv, CallInv, Aside \/ Ran, NEW s, NEW x
    PROVE  /\ SeriesAre(s) => SeriesAre(s)'
           /\ ScalarsAre(x, s) => ScalarsAre(x, s)'
           /\ HistogramsAre(x, s) => HistogramsAre(x, s)'
           /\ NewestAre(x, s) => NewestAre(x, s)'
<1>1. call'.q = call.q /\ Asked' = Asked /\ AskedStep' = AskedStep
  BY QuestionStays DEF AskedStep
<1>2. call.failed => call'.failed
  BY RanFields DEF Aside
<1>3. \A t \in Tables : \A S \in Snapshots(t) : S \in Snapshots(t)'
  BY SnapshotsGrow, SnapshotsStay
<1>4. {"series", "points", "hists"} \subseteq Tables
  BY DEF Tables
<1>5. SeriesAre(s) => SeriesAre(s)'
  BY <1>1, <1>2, <1>3, <1>4 DEF SeriesAre
<1>6. ScalarsAre(x, s) => ScalarsAre(x, s)'
  BY <1>1, <1>2, <1>3, <1>4 DEF ScalarsAre
<1>7. HistogramsAre(x, s) => HistogramsAre(x, s)'
  BY <1>1, <1>2, <1>3, <1>4 DEF HistogramsAre
<1>8. NewestAre(x, s) => NewestAre(x, s)'
  BY <1>1, <1>2, <1>3, <1>4 DEF NewestAre
<1> QED BY <1>5, <1>6, <1>7, <1>8

\* A statement's result, good or failed, on its way into the call.
LEMMA MetricsReads ==
    ASSUME StoreInv, CallInv, Ran, call.q.op = "metrics", NEW y, y = call.read[1]
    PROVE  \E c, z :
              /\ IsCall(c) /\ c.read = call.read /\ c.q = call.q /\ c.status = 200
              /\ call.pc = "series" => call' = SeriesRead(c, z) /\ SeriesAre(z)'
              /\ call.pc = "scalars" =>
                    call' = Continue(c, z, "histograms") /\ ScalarsAre(z, y)'
              /\ call.pc = "histograms" =>
                    call' = Continue(c, z, "distributions") /\ HistogramsAre(z, y)'
              /\ call.pc = "distributions" =>
                    call' = MetricsRead(c, z) /\ NewestAre(z, y)'
<1>1. call.pc \in {"series", "scalars", "histograms", "distributions"} /\ IsCall(call)
      /\ call.status = 200 /\ call.pc # "idle"
  BY PcOfOp, RanReads DEF StatementsOf, CallInv
<1>2. call'.q = call.q /\ Asked' = Asked /\ AskedStep' = AskedStep
  BY QuestionStays DEF AskedStep
<1>3. CASE StatementFails
  <2> DEFINE c == Lost(call)
  <2>1. IsCall(c) /\ c.read = call.read /\ c.q = call.q /\ c.status = 200 /\ c.pc = call.pc
    BY <1>1 DEF IsCall, Lost
  <2>2. call' = AfterFailure(c)
    BY <1>3 DEF StatementFails, Lost
  <2>3. call'.failed
    BY <1>3, RanFields
  <2>4. SeriesAre({})' /\ ScalarsAre({}, y)' /\ HistogramsAre({}, y)' /\ NewestAre({}, y)'
    BY <2>3 DEF SeriesAre, ScalarsAre, HistogramsAre, NewestAre
  <2> HIDE DEF c
  <2>5. /\ call.pc = "series" => call' = SeriesRead(c, {})
        /\ call.pc = "scalars" => call' = Continue(c, {}, "histograms")
        /\ call.pc = "histograms" => call' = Continue(c, {}, "distributions")
        /\ call.pc = "distributions" => call' = MetricsRead(c, {})
    BY <2>1, <2>2 DEF AfterFailure
  <2> QED BY <2>1, <2>4, <2>5
<1>4. CASE ~StatementFails
  <2>1. \A t \in Tables : db[t] \in Snapshots(t)'
    BY <1>1, NowIsOne, SnapshotsStay
  <2>2. {"series", "points", "hists"} \subseteq Tables
    BY DEF Tables
  <2>3. CASE call.pc = "series"
    <3>0. PICK z : z = MatchingSeries(db.series, call.q)
      OBVIOUS
    <3>1. call' = SeriesRead(call, z)
      BY <1>4, <2>3, <3>0, RanWell DEF ReadSeries
    <3>2. SeriesAre(z)'
      BY <1>2, <2>1, <2>2, <3>0 DEF SeriesAre
    <3> QED BY <1>1, <2>3, <3>1, <3>2
  <2>4. CASE call.pc = "scalars"
    <3>0. PICK z : z = ScalarBuckets(db.points, ScalarIds(y), Asked, AskedStep, Agg(call.q))
      OBVIOUS
    <3>1. call' = Continue(call, z, "histograms")
      BY <1>4, <2>4, <3>0, RanWell DEF ReadScalars, AskedStep
    <3>2. ScalarsAre(z, y)'
      BY <1>2, <2>1, <2>2, <3>0 DEF ScalarsAre
    <3> QED BY <1>1, <2>4, <3>1, <3>2
  <2>5. CASE call.pc = "histograms"
    <3>0. PICK z : z = HistogramBuckets(db.hists, HistogramIds(y), Asked, AskedStep)
      OBVIOUS
    <3>1. call' = Continue(call, z, "distributions")
      BY <1>4, <2>5, <3>0, RanWell DEF ReadHistograms, AskedStep
    <3>2. HistogramsAre(z, y)'
      BY <1>2, <2>1, <2>2, <3>0 DEF HistogramsAre
    <3> QED BY <1>1, <2>5, <3>1, <3>2
  <2>6. CASE call.pc = "distributions"
    <3>0. PICK z : z = NewestDistributions(db.hists, HistogramIds(y), Asked)
      OBVIOUS
    <3>1. call' = MetricsRead(call, z)
      BY <1>4, <2>6, <3>0, RanWell DEF ReadDistributions
    <3>2. NewestAre(z, y)'
      BY <1>2, <2>1, <2>2, <3>0 DEF NewestAre
    <3> QED BY <1>1, <2>6, <3>1, <3>2
  <2> QED BY <1>1, <2>3, <2>4, <2>5, <2>6
<1> QED BY <1>3, <1>4

LEMMA AppendsOne ==
    ASSUME NEW z, NEW s
    PROVE  Append(<<s>>, z) = <<s, z>>
<1> DEFINE S == {s, z}
<1>1. <<s>> \in Seq(S) /\ <<s, z>> \in Seq(S) /\ z \in S
  OBVIOUS
<1>2. PICK a, b : a = Append(<<s>>, z) /\ b = <<s, z>>
  OBVIOUS
<1>3. a \in Seq(S) /\ Len(a) = 2 /\ a[1] = s /\ a[2] = z
  BY <1>1, <1>2
<1>4. b \in Seq(S) /\ Len(b) = 2 /\ b[1] = s /\ b[2] = z
  BY <1>1, <1>2
<1>5. \A i \in 1..2 : i = 1 \/ i = 2
  OBVIOUS
<1>6. a = b
  <2> HIDE DEF S
  <2> QED BY <1>3, <1>4, <1>5, SeqEqual
<1> QED BY <1>2, <1>6

LEMMA AppendsTwo ==
    ASSUME NEW z, NEW s, NEW x
    PROVE  Append(<<s, x>>, z) = <<s, x, z>>
<1> DEFINE S == {s, x, z}
<1>1. <<s, x>> \in Seq(S) /\ <<s, x, z>> \in Seq(S) /\ z \in S
  OBVIOUS
<1>2. PICK a, b : a = Append(<<s, x>>, z) /\ b = <<s, x, z>>
  OBVIOUS
<1>3. a \in Seq(S) /\ Len(a) = 3 /\ a[1] = s /\ a[2] = x /\ a[3] = z
  BY <1>1, <1>2
<1>4. b \in Seq(S) /\ Len(b) = 3 /\ b[1] = s /\ b[2] = x /\ b[3] = z
  BY <1>1, <1>2
<1>5. \A i \in 1..3 : i = 1 \/ i = 2 \/ i = 3
  OBVIOUS
<1>6. a = b
  <2> HIDE DEF S
  <2> QED BY <1>3, <1>4, <1>5, SeqEqual
<1> QED BY <1>2, <1>6

LEMMA MetricsRan ==
    ASSUME StoreInv, CallInv, MetricsInv, Ran, call.q.op = "metrics" PROVE MetricsInv'
<1>1. call.pc \in {"series", "scalars", "histograms", "distributions"} /\ Live("metrics")
  BY PcOfOp, RanReads DEF StatementsOf, CallInv, Live
<1>2. PICK y : y = call.read[1]
  OBVIOUS
<1>3. PICK c, z :
         /\ IsCall(c) /\ c.read = call.read /\ c.q = call.q /\ c.status = 200
         /\ call.pc = "series" => call' = SeriesRead(c, z) /\ SeriesAre(z)'
         /\ call.pc = "scalars" => call' = Continue(c, z, "histograms") /\ ScalarsAre(z, y)'
         /\ call.pc = "histograms" => call' = Continue(c, z, "distributions") /\ HistogramsAre(z, y)'
         /\ call.pc = "distributions" => call' = MetricsRead(c, z) /\ NewestAre(z, y)'
  BY <1>2, MetricsReads
<1>4. CASE call.pc = "series"
  <2>1. call.read = <<>> /\ call' = SeriesRead(c, z) /\ SeriesAre(z)'
    BY <1>1, <1>3, <1>4 DEF MetricsInv
  <2>2. CASE z = {}
    <3>1. call' = Answer(c, 200, {})
      BY <2>1, <2>2 DEF SeriesRead
    <3>2. call'.pc = "answered" /\ call'.answer = {}
      BY <1>3, <3>1, AnswerFields
    <3> QED BY <2>1, <2>2, <3>2 DEF MetricsInv
  <2>3. CASE z # {}
    <3>1. call' = Continue(c, z, "scalars")
      BY <2>1, <2>3 DEF SeriesRead
    <3>2. call'.pc = "scalars" /\ call'.read = <<z>>
      BY <1>3, <2>1, <3>1, ContinueFields
    <3> QED BY <2>1, <3>2 DEF MetricsInv
  <2> QED BY <2>2, <2>3
<1>5. CASE call.pc = "scalars"
  <2>1. PICK s : call.read = <<s>> /\ SeriesAre(s)
    BY <1>1, <1>5 DEF MetricsInv
  <2>2. s = y /\ SeriesAre(s)' /\ ScalarsAre(z, s)'
    BY <1>2, <1>3, <1>5, <2>1, ReadsStay
  <2>3. IsCall(c) /\ call' = Continue(c, z, "histograms")
    BY <1>3, <1>5
  <2>4. call'.pc = "histograms" /\ call'.read = Append(c.read, z)
    BY <2>3, ContinueFields
  <2>5. call'.read = <<s, z>>
    <3>1. PICK u, w : u = <<s>> /\ w = <<s, z>>
      OBVIOUS
    <3>2. Append(u, z) = w
      BY <3>1, AppendsOne, Zenon
    <3>3. c.read = u
      BY <1>3, <2>1, <3>1, Zenon
    <3>4. call'.read = w
      BY <2>4, <3>2, <3>3, Zenon
    <3> QED BY <3>1, <3>4, Zenon
  <2> QED BY <2>2, <2>4, <2>5 DEF MetricsInv
<1>6. CASE call.pc = "histograms"
  <2>1. PICK s, x : call.read = <<s, x>> /\ SeriesAre(s) /\ ScalarsAre(x, s)
    BY <1>1, <1>6 DEF MetricsInv
  <2>2. s = y /\ SeriesAre(s)' /\ ScalarsAre(x, s)' /\ HistogramsAre(z, s)'
    BY <1>2, <1>3, <1>6, <2>1, ReadsStay
  <2>3. IsCall(c) /\ call' = Continue(c, z, "distributions")
    BY <1>3, <1>6
  <2>4. call'.pc = "distributions" /\ call'.read = Append(c.read, z)
    BY <2>3, ContinueFields
  <2>5. call'.read = <<s, x, z>>
    <3>1. PICK u, w : u = <<s, x>> /\ w = <<s, x, z>>
      OBVIOUS
    <3>2. Append(u, z) = w
      BY <3>1, AppendsTwo, Zenon
    <3>3. c.read = u
      BY <1>3, <2>1, <3>1, Zenon
    <3>4. call'.read = w
      BY <2>4, <3>2, <3>3, Zenon
    <3> QED BY <3>1, <3>4, Zenon
  <2> QED BY <2>2, <2>4, <2>5 DEF MetricsInv
<1>7. CASE call.pc = "distributions"
  <2>1. PICK s, x, h : call.read = <<s, x, h>> /\ SeriesAre(s) /\ ScalarsAre(x, s) /\ HistogramsAre(h, s)
    BY <1>1, <1>7 DEF MetricsInv
  <2>2. s = y /\ SeriesAre(s)' /\ ScalarsAre(x, s)' /\ HistogramsAre(h, s)' /\ NewestAre(z, s)'
    BY <1>2, <1>3, <1>7, <2>1, ReadsStay
  <2>3. call' = Answer(c, 200, AssembleSeries(s, x, h, z))
    BY <1>3, <1>7, <2>1 DEF MetricsRead
  <2>4. call'.pc = "answered" /\ call'.answer = AssembleSeries(s, x, h, z)
    BY <1>3, <2>3, AnswerFields
  <2> QED BY <2>2, <2>4 DEF MetricsInv
<1> QED BY <1>1, <1>4, <1>5, <1>6, <1>7

LEMMA MetricsStep ==
    ASSUME StoreInv, CallInv, MetricsInv, [Next]_vars PROVE MetricsInv'
<1>1. CASE Aside
  <2>1. call' = call /\ (Live("metrics")' => Live("metrics"))
    BY <1>1 DEF Aside, Live
  <2>2. \A s, x : /\ SeriesAre(s) => SeriesAre(s)'
                  /\ ScalarsAre(x, s) => ScalarsAre(x, s)'
                  /\ HistogramsAre(x, s) => HistogramsAre(x, s)'
                  /\ NewestAre(x, s) => NewestAre(x, s)'
    BY <1>1, ReadsStay
  <2> QED BY <2>1, <2>2 DEF MetricsInv
<1>2. CASE Started
  <2>1. Live("metrics")' => call'.pc = "series" /\ call'.read = <<>>
    BY <1>2, StartsAtFirst DEF FirstStatement
  <2> QED BY <2>1 DEF MetricsInv
<1>3. CASE Ran
  <2>1. CASE call.q.op = "metrics"
    BY <1>3, <2>1, MetricsRan
  <2>2. CASE call.q.op # "metrics"
    <3>1. call'.q = call.q
      BY <1>3, RanFields
    <3> QED BY <2>2, <3>1 DEF MetricsInv, Live
  <2> QED BY <2>1, <2>2
<1>4. CASE Respond
  BY <1>4, EndFields DEF MetricsInv, Live
<1> QED BY <1>1, <1>2, <1>3, <1>4, StepKinds

-------------------------------------------------------------------------------
(* What the statements of query_metrics find.                                *)

\* date_bin: a time is in the bucket that begins at or before it and ends after it.
LEMMA BinIs ==
    ASSUME NEW t \in Int, NEW u \in Int, NEW step \in Nat \ {0}
    PROVE  /\ DateBin(t, step) \in Int /\ DateBin(t, step) <= t /\ t < DateBin(t, step) + step
           /\ DateBin(u, step) = DateBin(t, step)
                 <=> DateBin(t, step) <= u /\ u < DateBin(t, step) + step
<1> DEFINE k == t \div step
           m == u \div step
<1>1. k \in Int /\ step * k <= t /\ t < step * k + step
  BY DivIs
<1>2. m \in Int /\ step * m <= u /\ u < step * m + step
  BY DivIs
<1>3. step * k \in Int /\ step * m \in Int
  BY <1>1, <1>2
<1>4. u >= step * k => m >= k
  <2> SUFFICES ASSUME u >= step * k PROVE u \div step >= k
    OBVIOUS
  <2> HIDE DEF k
  <2> QED BY <1>1, DivAtLeast
<1>5. u < step * k + step => m <= k
  <2> SUFFICES ASSUME u < step * k + step PROVE u \div step <= k
    OBVIOUS
  <2> HIDE DEF k
  <2> QED BY <1>1, DivBelow
<1>6. DateBin(t, step) = step * k /\ DateBin(u, step) = step * m
  BY DEF DateBin
<1> HIDE DEF k, m
<1>7. ASSUME step * k <= u, u < step * k + step PROVE m = k
  <2>1. m >= k /\ m <= k
    BY <1>3, <1>4, <1>5, <1>7
  <2> QED BY <1>1, <1>2, <2>1
<1>8. ASSUME step * m = step * k PROVE step * k <= u /\ u < step * k + step
  BY <1>2, <1>3, <1>8
<1>9. step * m = step * k <=> step * k <= u /\ u < step * k + step
  BY <1>7, <1>8
<1> QED BY <1>1, <1>3, <1>6, <1>9

\* The rows of a bucket are those of its series and of its time.
LEMMA BucketRows ==
    ASSUME NEW rows, \A r \in rows : r.ts \in Int, NEW step \in Nat \ {0}, NEW b \in Bins(rows, step)
    PROVE  /\ b[2] \in Int
           /\ \A r : r \in Binned(rows, b, step)
                       <=> r \in rows /\ r.sid = b[1] /\ b[2] <= r.ts /\ r.ts < b[2] + step
<1>1. PICK x \in rows : b = <<x.sid, DateBin(x.ts, step)>>
  BY DEF Bins
<1>2. b[1] = x.sid /\ b[2] = DateBin(x.ts, step)
  BY <1>1
<1>3. b[2] \in Int
  <2>1. PICK t \in Int : t = x.ts
    OBVIOUS
  <2>2. DateBin(t, step) \in Int
    BY BinIs
  <2> QED BY <1>2, <2>1, <2>2
<1>4. ASSUME NEW r \in rows PROVE DateBin(r.ts, step) = b[2] <=> b[2] <= r.ts /\ r.ts < b[2] + step
  <2>1. PICK u \in Int, t \in Int : u = r.ts /\ t = x.ts
    OBVIOUS
  <2>2. DateBin(u, step) = DateBin(t, step) <=> DateBin(t, step) <= u /\ u < DateBin(t, step) + step
    BY BinIs
  <2> QED BY <1>2, <2>1, <2>2
<1> QED BY <1>3, <1>4 DEF Binned

\* Each row of the statement is in one of the buckets.
LEMMA RowsAreBinned ==
    ASSUME NEW rows, \A r \in rows : r.ts \in Int, NEW step \in Nat \ {0}, NEW r \in rows
    PROVE  \E b \in Bins(rows, step) :
              b[1] = r.sid /\ b[2] \in Int /\ b[2] <= r.ts /\ r.ts < b[2] + step
<1> DEFINE b == <<r.sid, DateBin(r.ts, step)>>
<1>1. b \in Bins(rows, step) /\ b[1] = r.sid /\ b[2] = DateBin(r.ts, step)
  BY DEF Bins
<1>2. b[2] \in Int /\ b[2] <= r.ts /\ r.ts < b[2] + step
  BY <1>1, BinIs
<1> QED BY <1>1, <1>2

InBucket(rows, p, step) == {r \in rows : r.sid = p.sid /\ p.start <= r.ts /\ r.ts < p.start + step}

\* The buckets of the scalar statement, when it adds the values up.
LEMMA ScalarBucket ==
    ASSUME NEW P, \A r \in P : r.ts \in Int, NEW ids, NEW window, NEW step \in Nat \ {0}, NEW agg,
           NEW p \in ScalarBuckets(P, ids, window, step, agg)
    PROVE  /\ p.sid \in ids /\ p.start \in Int /\ p.end = p.start + step
           /\ agg = "sum" =>
                 p.value = Total(InBucket(RowsOf(P, ids, window), p, step))
<1> DEFINE rows == RowsOf(P, ids, window)
<1>1. PICK b \in Bins(rows, step) :
         /\ p.sid = b[1] /\ p.start = b[2] /\ p.end = b[2] + step
         /\ p.value = Aggregate(agg, Binned(rows, b, step))
  BY DEF ScalarBuckets
<1>0. \A r \in rows : r.ts \in Int
  BY DEF RowsOf
<1>2. \A r \in rows : r.sid \in ids
  BY DEF RowsOf
<1>3. PICK x \in rows : b = <<x.sid, DateBin(x.ts, step)>>
  BY DEF Bins
<1>4. p.sid \in ids
  BY <1>1, <1>2, <1>3
<1> HIDE DEF rows
<1>5. b[2] \in Int
      /\ \A r : r \in Binned(rows, b, step)
                  <=> r \in rows /\ r.sid = b[1] /\ b[2] <= r.ts /\ r.ts < b[2] + step
  BY <1>0, BucketRows
<1>6. Binned(rows, b, step) = InBucket(rows, p, step)
  BY <1>1, <1>5 DEF InBucket
<1>7. agg = "sum" => p.value = Total(Binned(rows, b, step))
  BY <1>1 DEF Aggregate
<1> QED BY <1>1, <1>4, <1>5, <1>6, <1>7 DEF rows

LEMMA ScalarBucketFields ==
    ASSUME NEW P, \A r \in P : r.ts \in Int, NEW ids, NEW window, NEW step \in Nat \ {0}, NEW agg,
           NEW p \in ScalarBuckets(P, ids, window, step, agg)
    PROVE  p.sid \in ids /\ p.start \in Int /\ p.end = p.start + step
<1> DEFINE rows == RowsOf(P, ids, window)
<1>1. PICK b \in Bins(rows, step) : p.sid = b[1] /\ p.start = b[2] /\ p.end = b[2] + step
  BY DEF ScalarBuckets
<1>2. \A r \in rows : r.ts \in Int
  BY DEF RowsOf
<1>3. \A r \in rows : r.sid \in ids
  BY DEF RowsOf
<1>4. PICK x \in rows : b = <<x.sid, DateBin(x.ts, step)>>
  BY DEF Bins
<1>5. p.sid \in ids
  BY <1>1, <1>3, <1>4
<1> HIDE DEF rows
<1>6. b[2] \in Int
  BY <1>2, BucketRows
<1> QED BY <1>1, <1>5, <1>6

LEMMA ScalarsAreBinned ==
    ASSUME NEW P, \A r \in P : r.ts \in Int, NEW ids, NEW window, NEW step \in Nat \ {0}, NEW agg,
           agg # "count", NEW r \in RowsOf(P, ids, window)
    PROVE  \E p \in ScalarBuckets(P, ids, window, step, agg) :
              p.sid = r.sid /\ p.start <= r.ts /\ r.ts < p.end
<1> DEFINE rows == RowsOf(P, ids, window)
<1>1. \A x \in rows : x.ts \in Int
  BY DEF RowsOf
<1>2. PICK b \in Bins(rows, step) : b[1] = r.sid /\ b[2] \in Int /\ b[2] <= r.ts /\ r.ts < b[2] + step
  <2> HIDE DEF rows
  <2>1. r \in rows
    BY DEF rows
  <2> QED BY <1>1, <2>1, RowsAreBinned
<1> DEFINE p == [sid |-> b[1], start |-> b[2], end |-> b[2] + step, value |-> Aggregate(agg, Binned(rows, b, step)),
                 count |-> Absent, exemplars |-> {x.exemplar : x \in Binned(rows, b, step)} \ {Absent}]
<1>3. p \in ScalarBuckets(P, ids, window, step, agg)
  BY DEF ScalarBuckets
<1>4. p.sid = b[1] /\ p.start = b[2] /\ p.end = b[2] + step
  OBVIOUS
<1> HIDE DEF p
<1> QED BY <1>2, <1>3, <1>4

LEMMA HistogramBucket ==
    ASSUME NEW H, \A r \in H : r.ts \in Int, NEW ids, NEW window, NEW step \in Nat \ {0},
           NEW p \in HistogramBuckets(H, ids, window, step)
    PROVE  /\ p.sid \in ids /\ p.start \in Int /\ p.end = p.start + step
           /\ p.count = MapThenSumSet(CountOf, InBucket(RowsOf(H, ids, window), p, step))
<1> DEFINE rows == RowsOf(H, ids, window)
<1>1. PICK b \in Bins(rows, step) :
         /\ p.sid = b[1] /\ p.start = b[2] /\ p.end = b[2] + step
         /\ p.count = MapThenSumSet(CountOf, Binned(rows, b, step))
  BY DEF HistogramBuckets
<1>0. \A r \in rows : r.ts \in Int
  BY DEF RowsOf
<1>2. \A r \in rows : r.sid \in ids
  BY DEF RowsOf
<1>3. PICK x \in rows : b = <<x.sid, DateBin(x.ts, step)>>
  BY DEF Bins
<1>4. p.sid \in ids
  BY <1>1, <1>2, <1>3
<1> HIDE DEF rows
<1>5. b[2] \in Int
      /\ \A r : r \in Binned(rows, b, step)
                  <=> r \in rows /\ r.sid = b[1] /\ b[2] <= r.ts /\ r.ts < b[2] + step
  BY <1>0, BucketRows
<1>6. Binned(rows, b, step) = InBucket(rows, p, step)
  BY <1>1, <1>5 DEF InBucket
<1> QED BY <1>1, <1>4, <1>5, <1>6 DEF rows

LEMMA HistogramsAreBinned ==
    ASSUME NEW H, \A r \in H : r.ts \in Int, NEW ids, NEW window, NEW step \in Nat \ {0},
           NEW r \in RowsOf(H, ids, window)
    PROVE  \E p \in HistogramBuckets(H, ids, window, step) :
              p.sid = r.sid /\ p.start <= r.ts /\ r.ts < p.end
<1> DEFINE rows == RowsOf(H, ids, window)
<1>1. \A x \in rows : x.ts \in Int
  BY DEF RowsOf
<1>2. PICK b \in Bins(rows, step) : b[1] = r.sid /\ b[2] \in Int /\ b[2] <= r.ts /\ r.ts < b[2] + step
  <2> HIDE DEF rows
  <2>1. r \in rows
    BY DEF rows
  <2> QED BY <1>1, <2>1, RowsAreBinned
<1> DEFINE p == [sid |-> b[1], start |-> b[2], end |-> b[2] + step, value |-> SumOrNull(Binned(rows, b, step)),
                 count |-> MapThenSumSet(CountOf, Binned(rows, b, step)), exemplars |-> {}]
<1>3. p \in HistogramBuckets(H, ids, window, step)
  BY DEF HistogramBuckets
<1>4. p.sid = b[1] /\ p.start = b[2] /\ p.end = b[2] + step
  OBVIOUS
<1> HIDE DEF p
<1> QED BY <1>2, <1>3, <1>4

LEMMA AtMostOne ==
    ASSUME NEW S, \A x \in S, y \in S : x = y
    PROVE  Cardinality(S) <= 1
<1>1. CASE S = {}
  BY <1>1, FS_EmptySet
<1>2. CASE S # {}
  <2>1. PICK x : S = {x}
    BY <1>2
  <2> QED BY <2>1, FS_Singleton
<1> QED BY <1>1, <1>2

Shaped(rows, sid, window) == {r \in rows : r.sid = sid /\ Within(r.ts, window) /\ r.shape # Absent}
OfSeries(rows, sid) == {r \in rows : r.sid = sid}

\* DISTINCT ON: of each series one row, than which it has none that is newer.
LEMMA NewestOf ==
    ASSUME NEW H, IsFiniteSet(H), \A r \in H : r.ts \in Int,
           \A r \in H, x \in H : r.sid = x.sid /\ r.ts = x.ts => r = x,
           NEW ids, NEW window, NEW sid \in ids
    PROVE  LET mine == OfSeries(NewestDistributions(H, ids, window), sid)
               shaped == Shaped(H, sid, window)
           IN  /\ mine \subseteq shaped /\ Cardinality(mine) <= 1
               /\ \A r \in shaped, h \in mine : r.ts <= h.ts
               /\ shaped # {} => mine # {}
<1> DEFINE mine == OfSeries(NewestDistributions(H, ids, window), sid)
           shaped == Shaped(H, sid, window)
<1>1. \A r : r \in mine <=> r \in shaped /\ \A s \in shaped : s.ts <= r.ts
  BY DEF NewestDistributions, RowsOf, Shaped, OfSeries
<1>2. shaped \subseteq H /\ \A r \in shaped, x \in shaped : r.ts \in Int /\ (r.ts = x.ts => r = x)
  BY DEF Shaped
<1>3. IsFiniteSet(shaped)
  BY <1>2, FS_Subset
<1> HIDE DEF mine, shaped
<1>4. ASSUME NEW r \in mine, NEW x \in mine PROVE r = x
  <2>1. r.ts \in Int /\ x.ts \in Int /\ r.ts <= x.ts /\ x.ts <= r.ts
    BY <1>1, <1>2
  <2>2. r.ts = x.ts
    BY <2>1
  <2> QED BY <1>1, <1>2, <2>2
<1>5. Cardinality(mine) <= 1
  BY <1>4, AtMostOne
<1>6. ASSUME shaped # {} PROVE mine # {}
  <2> DEFINE time == [r \in shaped |-> r.ts]
             times == {time[r] : r \in shaped}
  <2>0. IsFiniteSet(times)
    <3>1. shaped \subseteq DOMAIN time
      OBVIOUS
    <3> HIDE DEF time
    <3> QED BY <1>3, <3>1, ImageFinite
  <2>1. times # {} /\ times \in SUBSET Int
    BY <1>2, <1>6
  <2> HIDE DEF times
  <2>2. Max(times) \in times /\ \A t \in times : Max(times) >= t
    BY <2>0, <2>1, Extremes
  <2> USE DEF times
  <2>3. PICK r \in shaped : r.ts = Max(times)
    BY <2>2
  <2>4. \A s \in shaped : Max(times) >= s.ts
    BY <2>2
  <2> HIDE DEF times
  <2>5. \A s \in shaped : s.ts <= r.ts
    BY <1>2, <2>3, <2>4
  <2> QED BY <1>1, <2>5
<1> QED BY <1>1, <1>5, <1>6 DEF mine, shaped

LEMMA MetricsFacts ==
    ASSUME StoreInv, CallInv, Live("metrics")
    PROVE  /\ AskedStep \in Nat \ {0} /\ AskedStep = Step(call.q, DefaultStep)
           /\ \A P \in Snapshots("points") : held.points \subseteq P /\ P \subseteq shown.points
                                             /\ \A r \in P : r.ts \in Int
           /\ \A H \in Snapshots("hists") :
                 /\ held.hists \subseteq H /\ H \subseteq shown.hists /\ IsFiniteSet(H)
                 /\ \A r \in H : r.ts \in Int
                 /\ \A r \in H, x \in H : r.sid = x.sid /\ r.ts = x.ts => r = x
<1>1. AskedStep \in Nat \ {0}
  <2>1. DefaultStep \in Nat \ {0}
    BY UnitAssumption
  <2>2. call.q.step \in Optional(Int)
    BY CallTypes DEF Live, MetricsQueryParams
  <2>3. CASE call.q.step = Absent
    BY <2>1, <2>3 DEF AskedStep, Step
  <2>4. CASE call.q.step # Absent
    <3>1. PICK n \in Int : n = call.q.step
      BY <2>2, <2>4 DEF Optional
    <3>2. Max({1, n}) = IF 1 <= n THEN n ELSE 1
      BY LesserOf
    <3>3. Max({1, n}) \in Nat \ {0}
      BY <3>2
    <3> QED BY <2>4, <3>1, <3>3 DEF AskedStep, Step
  <2> QED BY <2>3, <2>4
<1>2. {"points", "hists"} \subseteq Tables
  BY DEF Tables
<1> QED BY <1>1, <1>2, RowFacts, FS_Subset DEF AskedStep, Snapshots

LEMMA Assembled ==
    ASSUME NEW ss, NEW x, NEW h, NEW n, NEW a \in AssembleSeries(ss, x, h, n)
    PROVE  \E t \in ss :
              /\ DOMAIN a = {"id", "kind", "attributes", "points", "histogram"}
              /\ a.id = t.id /\ a.kind = t.kind /\ a.points # {}
              /\ a.points = {b \in IF t.kind = "Histogram" THEN h ELSE x : b.sid = t.id}
              /\ a.histogram = {r \in n : t.kind = "Histogram" /\ r.sid = t.id}
BY DEF AssembleSeries

LEMMA IsAssembled ==
    ASSUME NEW ss, NEW x, NEW h, NEW n, NEW t \in ss,
           NEW p \in IF t.kind = "Histogram" THEN h ELSE x, p.sid = t.id
    PROVE  \E a \in AssembleSeries(ss, x, h, n) : a.id = t.id /\ a.kind = t.kind /\ p \in a.points
<1> DEFINE PointsOf(s) == {b \in IF s.kind = "Histogram" THEN h ELSE x : b.sid = s.id}
           ShapeOf(s) == {r \in n : s.kind = "Histogram" /\ r.sid = s.id}
           a == [id |-> t.id, kind |-> t.kind, attributes |-> t.attributes,
                 points |-> PointsOf(t), histogram |-> ShapeOf(t)]
<1>1. p \in PointsOf(t)
  OBVIOUS
<1>2. a \in AssembleSeries(ss, x, h, n)
  BY <1>1 DEF AssembleSeries
<1>3. a.id = t.id /\ a.kind = t.kind /\ a.points = PointsOf(t)
  OBVIOUS
<1> HIDE DEF a
<1> QED BY <1>1, <1>2, <1>3

\* What an answer of query_metrics with a series in it was made of.
MadeOf(ss, x, h, n) ==
    /\ SeriesAre(ss) /\ ScalarsAre(x, ss) /\ HistogramsAre(h, ss) /\ NewestAre(n, ss)
    /\ call.answer = AssembleSeries(ss, x, h, n)

LEMMA WasMade ==
    ASSUME MetricsInv, Answered("metrics"), call.answer # {}
    PROVE  \E ss, x, h, n : MadeOf(ss, x, h, n)
BY DEF MetricsInv, Answered, Live, MadeOf

\* A point on the chart of a scalar series.
LEMMA ScalarPoint ==
    ASSUME StoreInv, CallInv, Live("metrics"), NEW x, NEW ss, ScalarsAre(x, ss), NEW p \in x
    PROVE  /\ p.start \in Int /\ p.end = p.start + AskedStep
           /\ Agg(call.q) = "sum" =>
                 \E P \in Snapshots("points") :
                    /\ p.sid \in ScalarIds(ss)
                    /\ p.value = Total(InBucket(RowsOf(P, ScalarIds(ss), Asked), p, AskedStep))
<1>1. PICK P \in Snapshots("points") : x = ScalarBuckets(P, ScalarIds(ss), Asked, AskedStep, Agg(call.q))
  BY DEF ScalarsAre
<1>2. AskedStep \in Nat \ {0} /\ \A r \in P : r.ts \in Int
  BY MetricsFacts
<1>3. PICK ids, agg, step : ids = ScalarIds(ss) /\ agg = Agg(call.q) /\ step = AskedStep
  OBVIOUS
<1>4. p \in ScalarBuckets(P, ids, Asked, step, agg) /\ step \in Nat \ {0}
  BY <1>1, <1>2, <1>3
<1>5. p.sid \in ids /\ p.start \in Int /\ p.end = p.start + step
  BY <1>2, <1>4, ScalarBucketFields
<1>6. ASSUME agg = "sum"
      PROVE  p.value = Total(InBucket(RowsOf(P, ids, Asked), p, step))
  BY <1>2, <1>4, <1>6, ScalarBucket
<1> QED BY <1>3, <1>5, <1>6

LEMMA HistogramPoint ==
    ASSUME StoreInv, CallInv, Live("metrics"), NEW h, NEW ss, HistogramsAre(h, ss), NEW p \in h
    PROVE  /\ p.start \in Int /\ p.end = p.start + AskedStep
           /\ \E H \in Snapshots("hists") :
                 /\ p.sid \in HistogramIds(ss)
                 /\ p.count = MapThenSumSet(CountOf, InBucket(RowsOf(H, HistogramIds(ss), Asked), p, AskedStep))
<1>1. PICK H \in Snapshots("hists") : h = HistogramBuckets(H, HistogramIds(ss), Asked, AskedStep)
  BY DEF HistogramsAre
<1>2. AskedStep \in Nat \ {0} /\ \A r \in H : r.ts \in Int
  BY MetricsFacts
<1>3. PICK ids, step : ids = HistogramIds(ss) /\ step = AskedStep
  OBVIOUS
<1>4. p \in HistogramBuckets(H, ids, Asked, step) /\ step \in Nat \ {0}
  BY <1>1, <1>2, <1>3
<1>5. /\ p.sid \in ids /\ p.start \in Int /\ p.end = p.start + step
      /\ p.count = MapThenSumSet(CountOf, InBucket(RowsOf(H, ids, Asked), p, step))
  BY <1>2, <1>4, HistogramBucket
<1> QED BY <1>3, <1>5

LEMMA SeriesResults ==
    ASSUME StoreInv, CallInv, MetricsInv, Answered("metrics"), NEW a \in call.answer
    PROVE  SeriesResult(a)
<1>1. PICK ss, x, h, n : MadeOf(ss, x, h, n)
  BY WasMade
<1>2. PICK t \in ss :
         /\ DOMAIN a = {"id", "kind", "attributes", "points", "histogram"}
         /\ a.id = t.id /\ a.kind = t.kind /\ a.points # {}
         /\ a.points = {b \in IF t.kind = "Histogram" THEN h ELSE x : b.sid = t.id}
         /\ a.histogram = {r \in n : t.kind = "Histogram" /\ r.sid = t.id}
  BY <1>1, Assembled DEF MadeOf
<1>3. Live("metrics") /\ ScalarsAre(x, ss) /\ HistogramsAre(h, ss)
  BY <1>1 DEF MadeOf, Answered, Live
<1>4. AskedStep \in Nat \ {0}
  BY <1>3, MetricsFacts
<1>5. ASSUME NEW p \in a.points PROVE p.sid = a.id /\ p.start < p.end
  <2>1. p \in x \/ p \in h
    BY <1>2
  <2>2. p.start \in Int /\ p.end = p.start + AskedStep
    BY <1>3, <2>1, ScalarPoint, HistogramPoint
  <2>3. p.start < p.end
    BY <1>4, <2>2
  <2> QED BY <1>2, <2>3
<1> QED BY <1>2, <1>5 DEF SeriesResult

LEMMA NewestAreShown ==
    ASSUME StoreInv, CallInv, MetricsInv PROVE DistributionIsNewest
<1> SUFFICES ASSUME Answered("metrics"), NEW a \in call.answer
             PROVE  /\ a.histogram \subseteq Shaped(shown.hists, a.id, Asked)
                    /\ Cardinality(a.histogram) <= 1
                    /\ \A r \in Shaped(held.hists, a.id, Asked), h \in a.histogram : r.ts <= h.ts
                    /\ ~call.failed /\ Shaped(held.hists, a.id, Asked) # {} => a.histogram # {}
  BY DEF DistributionIsNewest, Shaped
<1>1. PICK ss, x, h, n : MadeOf(ss, x, h, n)
  BY WasMade
<1>2. PICK t \in ss : a.id = t.id /\ a.histogram = {r \in n : t.kind = "Histogram" /\ r.sid = t.id}
  BY <1>1, Assembled DEF MadeOf
<1>3. Live("metrics") /\ SeriesAre(ss) /\ NewestAre(n, ss)
  BY <1>1 DEF MadeOf, Answered, Live
<1>4. t \in shown.series
  <2>1. PICK S \in Snapshots("series") : ss = MatchingSeries(S, call.q)
    BY <1>3 DEF SeriesAre
  <2> QED BY <2>1 DEF MatchingSeries, Snapshots
<1>5. CASE n = {}
  <2>1. a.histogram = {}
    BY <1>2, <1>5
  <2>2. ASSUME ~call.failed, NEW r \in Shaped(held.hists, t.id, Asked) PROVE FALSE
    <3>1. PICK H \in Snapshots("hists") : n = NewestDistributions(H, HistogramIds(ss), Asked)
      BY <1>3, <2>2 DEF NewestAre
    <3>2. /\ held.hists \subseteq H /\ H \subseteq shown.hists /\ IsFiniteSet(H) /\ \A u \in H : u.ts \in Int
          /\ \A u \in H, v \in H : u.sid = v.sid /\ u.ts = v.ts => u = v
      BY <1>3, MetricsFacts
    <3>3. r \in H /\ r.sid = t.id /\ Within(r.ts, Asked) /\ r.shape # Absent /\ r \in shown.hists
      BY <2>2, <3>2 DEF Shaped
    <3>4. t.kind = "Histogram"
      BY <1>4, <3>3, RowFacts
    <3>5. t.id \in HistogramIds(ss)
      BY <3>4 DEF HistogramIds
    <3> DEFINE mine == OfSeries(NewestDistributions(H, HistogramIds(ss), Asked), t.id)
               shaped == Shaped(H, t.id, Asked)
    <3>6. shaped # {} => mine # {}
      BY <3>2, <3>5, NewestOf
    <3>7. r \in shaped /\ mine \subseteq n
      BY <3>1, <3>3 DEF Shaped, OfSeries
    <3> HIDE DEF mine, shaped
    <3> QED BY <1>5, <3>6, <3>7
  <2>3. Cardinality(a.histogram) <= 1
    BY <2>1, FS_EmptySet
  <2> QED BY <1>2, <2>1, <2>2, <2>3
<1>6. CASE n # {}
  <2>1. PICK H \in Snapshots("hists") : n = NewestDistributions(H, HistogramIds(ss), Asked)
    BY <1>3, <1>6 DEF NewestAre
  <2>2. /\ held.hists \subseteq H /\ H \subseteq shown.hists /\ IsFiniteSet(H) /\ \A u \in H : u.ts \in Int
        /\ \A u \in H, v \in H : u.sid = v.sid /\ u.ts = v.ts => u = v
    BY <1>3, MetricsFacts
  <2>3. CASE t.kind = "Histogram"
    <3>1. t.id \in HistogramIds(ss)
      BY <2>3 DEF HistogramIds
    <3> DEFINE mine == OfSeries(NewestDistributions(H, HistogramIds(ss), Asked), t.id)
               shaped == Shaped(H, t.id, Asked)
    <3>2. /\ mine \subseteq shaped /\ Cardinality(mine) <= 1
          /\ \A r \in shaped, u \in mine : r.ts <= u.ts
          /\ shaped # {} => mine # {}
      BY <2>2, <3>1, NewestOf
    <3>3. a.histogram = mine
      BY <1>2, <2>1, <2>3 DEF OfSeries
    <3>4. Shaped(held.hists, t.id, Asked) \subseteq shaped /\ shaped \subseteq Shaped(shown.hists, t.id, Asked)
      BY <2>2 DEF Shaped
    <3> HIDE DEF mine, shaped
    <3> QED BY <1>2, <3>2, <3>3, <3>4
  <2>4. CASE t.kind # "Histogram"
    <3>1. a.histogram = {}
      BY <1>2, <2>4
    <3>2. ASSUME NEW r \in Shaped(held.hists, t.id, Asked) PROVE FALSE
      <4>1. r \in shown.hists /\ r.sid = t.id
        BY <2>2, <3>2 DEF Shaped
      <4> QED BY <1>4, <2>4, <4>1, RowFacts
    <3>3. Cardinality(a.histogram) <= 1
      BY <3>1, FS_EmptySet
    <3> QED BY <1>2, <3>1, <3>2, <3>3
  <2> QED BY <2>3, <2>4
<1> QED BY <1>5, <1>6

LEMMA SumsAdd ==
    ASSUME StoreInv, CallInv, MetricsInv PROVE SumsAreBracketed
<1> SUFFICES ASSUME Answered("metrics"), Agg(call.q) = "sum" PROVE SumsAreBracketed
  BY DEF SumsAreBracketed
<1> DEFINE step == Step(call.q, DefaultStep)
           DataOf(s, tab) == {r \in IF s.kind = "Histogram" THEN tab.hists ELSE tab.points :
                                 r.sid = s.id /\ Within(r.ts, Asked)}
           InBin(s, tab, t) == {r \in DataOf(s, tab) : t <= r.ts /\ r.ts < t + step}
           Adds(s, p, rows) == IF s.kind = "Histogram" THEN p.count = MapThenSumSet(CountOf, rows)
                               ELSE p.value = Total(rows)
<1>1. Live("metrics") /\ step = AskedStep
  BY DEF Answered, Live, AskedStep
<1>2. ASSUME NEW a \in call.answer, NEW p \in a.points
      PROVE  \E rows \in SUBSET InBin(a, shown, p.start) :
                InBin(a, held, p.start) \subseteq rows /\ Adds(a, p, rows)
  <2>1. PICK ss, x, h, n : MadeOf(ss, x, h, n)
    BY WasMade
  <2>2. PICK t \in ss :
           /\ a.id = t.id /\ a.kind = t.kind
           /\ a.points = {b \in IF t.kind = "Histogram" THEN h ELSE x : b.sid = t.id}
    BY <2>1, Assembled DEF MadeOf
  <2>3. CASE a.kind = "Histogram"
    <3>1. p \in h /\ p.sid = a.id /\ HistogramsAre(h, ss)
      BY <2>1, <2>2, <2>3 DEF MadeOf
    <3>2. PICK H \in Snapshots("hists") :
             /\ p.sid \in HistogramIds(ss)
             /\ p.count = MapThenSumSet(CountOf, InBucket(RowsOf(H, HistogramIds(ss), Asked), p, AskedStep))
      BY <1>1, <3>1, HistogramPoint
    <3> DEFINE rows == InBucket(RowsOf(H, HistogramIds(ss), Asked), p, AskedStep)
    <3>3. held.hists \subseteq H /\ H \subseteq shown.hists
      BY <1>1, MetricsFacts
    <3>4. rows \subseteq InBin(a, shown, p.start) /\ InBin(a, held, p.start) \subseteq rows
      BY <1>1, <2>3, <3>1, <3>2, <3>3 DEF RowsOf, InBucket
    <3>5. Adds(a, p, rows)
      BY <2>3, <3>2
    <3> HIDE DEF rows, InBin, Adds
    <3> QED BY <3>4, <3>5
  <2>4. CASE a.kind # "Histogram"
    <3>1. p \in x /\ p.sid = a.id /\ ScalarsAre(x, ss)
      BY <2>1, <2>2, <2>4 DEF MadeOf
    <3>2. PICK P \in Snapshots("points") :
             /\ p.sid \in ScalarIds(ss)
             /\ p.value = Total(InBucket(RowsOf(P, ScalarIds(ss), Asked), p, AskedStep))
      BY <1>1, <3>1, ScalarPoint
    <3> DEFINE rows == InBucket(RowsOf(P, ScalarIds(ss), Asked), p, AskedStep)
    <3>3. held.points \subseteq P /\ P \subseteq shown.points
      BY <1>1, MetricsFacts
    <3>4. rows \subseteq InBin(a, shown, p.start) /\ InBin(a, held, p.start) \subseteq rows
      BY <1>1, <2>4, <3>1, <3>2, <3>3 DEF RowsOf, InBucket
    <3>5. Adds(a, p, rows)
      BY <2>4, <3>2
    <3> HIDE DEF rows, InBin, Adds
    <3> QED BY <3>4, <3>5
  <2> QED BY <2>3, <2>4
<1>3. ASSUME ~call.failed, NEW s \in MatchingSeries(held.series, call.q), NEW r \in DataOf(s, held)
      PROVE  \E a \in call.answer : \E p \in a.points :
                a.id = s.id /\ a.kind = s.kind /\ p.start <= r.ts /\ r.ts < p.end
  <2>1. ASSUME NEW ss, SeriesAre(ss) PROVE s \in ss
    <3>1. PICK S \in Snapshots("series") : ss = MatchingSeries(S, call.q)
      BY <1>3, <2>1 DEF SeriesAre
    <3> QED BY <1>3, <3>1 DEF MatchingSeries, Snapshots
  <2>2. ~SeriesAre({})
    BY <2>1
  <2>3. PICK ss, x, h, n : MadeOf(ss, x, h, n)
    BY <2>2 DEF MetricsInv, Answered, Live, MadeOf
  <2>4. s \in ss /\ ScalarsAre(x, ss) /\ HistogramsAre(h, ss) /\ call.answer = AssembleSeries(ss, x, h, n)
    BY <2>1, <2>3 DEF MadeOf
  <2>5. AskedStep \in Nat \ {0}
    BY <1>1, MetricsFacts
  <2>6. PICK p \in IF s.kind = "Histogram" THEN h ELSE x : p.sid = s.id /\ p.start <= r.ts /\ r.ts < p.end
    <3>1. CASE s.kind = "Histogram"
      <4>1. PICK H \in Snapshots("hists") : h = HistogramBuckets(H, HistogramIds(ss), Asked, AskedStep)
        BY <1>3, <2>4 DEF HistogramsAre
      <4>2. s.id \in HistogramIds(ss)
        BY <2>4, <3>1 DEF HistogramIds
      <4>3. held.hists \subseteq H /\ \A y \in H : y.ts \in Int
        BY <1>1, MetricsFacts
      <4>4. r \in RowsOf(H, HistogramIds(ss), Asked) /\ r.sid = s.id
        BY <1>3, <3>1, <4>2, <4>3 DEF RowsOf
      <4>5. PICK p \in h : p.sid = r.sid /\ p.start <= r.ts /\ r.ts < p.end
        BY <2>5, <4>1, <4>3, <4>4, HistogramsAreBinned
      <4> QED BY <3>1, <4>4, <4>5
    <3>2. CASE s.kind # "Histogram"
      <4>1. PICK P \in Snapshots("points") :
               x = ScalarBuckets(P, ScalarIds(ss), Asked, AskedStep, Agg(call.q))
        BY <1>3, <2>4 DEF ScalarsAre
      <4>2. s.id \in ScalarIds(ss)
        BY <2>4, <3>2 DEF ScalarIds
      <4>3. held.points \subseteq P /\ \A y \in P : y.ts \in Int
        BY <1>1, MetricsFacts
      <4>4. r \in RowsOf(P, ScalarIds(ss), Asked) /\ r.sid = s.id
        BY <1>3, <3>2, <4>2, <4>3 DEF RowsOf
      <4>5. PICK p \in x : p.sid = r.sid /\ p.start <= r.ts /\ r.ts < p.end
        BY <2>5, <4>1, <4>3, <4>4, ScalarsAreBinned
      <4> QED BY <3>2, <4>4, <4>5
    <3> QED BY <3>1, <3>2
  <2>7. PICK a \in AssembleSeries(ss, x, h, n) : a.id = s.id /\ a.kind = s.kind /\ p \in a.points
    BY <2>4, <2>6, IsAssembled
  <2> QED BY <2>4, <2>6, <2>7
<1> QED BY <1>2, <1>3 DEF SumsAreBracketed

-------------------------------------------------------------------------------
(* The service map and the Kubernetes topology: two statements each.         *)

ServicesAre(s) == \E S \in Snapshots("spans") : s = ServiceRows(S, Asked)
EdgesAre(e) == \E S \in Snapshots("spans") : e = EdgeRows(S, Asked)
WorkloadsAre(w) == \E S \in Snapshots("spans") : w \in Ordered(WorkloadRows(S, Asked))
NodesAre(k) == \E S \in Snapshots("spans") : k = NodeCount(S, Asked)

MapsInv ==
    /\ Live("services") =>
          /\ call.pc = "services" => call.read = <<>>
          /\ call.pc = "edges" => \E s : call.read = <<s>> /\ ServicesAre(s)
          /\ call.pc = "answered" =>
                \E s, e : ServicesAre(s) /\ EdgesAre(e) /\ call.answer = [services |-> s, edges |-> e]
    /\ Live("kubernetes") =>
          /\ call.pc = "workloads" => call.read = <<>>
          /\ call.pc = "nodes" => \E w : call.read = <<w>> /\ WorkloadsAre(w)
          /\ call.pc = "answered" =>
                \E w, k : /\ WorkloadsAre(w) /\ NodesAre(k)
                          /\ call.answer = [namespaces |-> Namespaces(w), nodes |-> k]

LEMMA MapReadsStay ==
    ASSUME StoreInv, CallInv, Aside \/ Ran, NEW x
    PROVE  /\ (ServicesAre(x) => ServicesAre(x)') /\ (EdgesAre(x) => EdgesAre(x)')
           /\ (WorkloadsAre(x) => WorkloadsAre(x)') /\ (NodesAre(x) => NodesAre(x)')
<1>1. Asked' = Asked
  BY QuestionStays
<1>2. \A S \in Snapshots("spans") : S \in Snapshots("spans")'
  BY SnapshotsGrow, SnapshotsStay DEF Tables
<1>3. ServicesAre(x) => ServicesAre(x)'
  BY <1>1, <1>2 DEF ServicesAre
<1>4. EdgesAre(x) => EdgesAre(x)'
  BY <1>1, <1>2 DEF EdgesAre
<1>5. WorkloadsAre(x) => WorkloadsAre(x)'
  BY <1>1, <1>2 DEF WorkloadsAre
<1>6. NodesAre(x) => NodesAre(x)'
  BY <1>1, <1>2 DEF NodesAre
<1> QED BY <1>3, <1>4, <1>5, <1>6

LEMMA MapsRan ==
    ASSUME StoreInv, CallInv, MapsInv, Ran, call.q.op \in {"services", "kubernetes"}
    PROVE  MapsInv'
<1>1. /\ call.q.op = "services" => call.pc \in {"services", "edges"}
      /\ call.q.op = "kubernetes" => call.pc \in {"workloads", "nodes"}
      /\ IsCall(call) /\ call.pc # "idle"
  BY PcOfOp DEF StatementsOf
<1>2. call.status = 200
  BY RanReads DEF CallInv
<1>3. Live(call.q.op)
  BY <1>1, <1>2 DEF Live
<1>4. call'.q = call.q /\ Asked' = Asked
  BY QuestionStays
<1>5. CASE StatementFails
  <2>1. call'.status = 500
    BY <1>1, <1>5, RanBadly
  <2> QED BY <2>1 DEF MapsInv, Live
<1>6. CASE ~StatementFails
  <2>0. PICK S : S = db.spans
    OBVIOUS
  <2>1. S \in Snapshots("spans")'
    <3>1. db["spans"] \in Snapshots("spans")
      BY <1>1, NowIsOne DEF Tables
    <3> QED BY <2>0, <3>1, SnapshotsStay
  <2>2. CASE call.pc = "services"
    <3>1. PICK s : s = ServiceRows(S, Asked)
      OBVIOUS
    <3>2. call' = Continue(call, s, "edges")
      BY <1>6, <2>0, <2>2, <3>1, RanWell DEF ReadServices
    <3>3. call.q.op = "services" /\ call.read = <<>>
      BY <1>1, <1>3, <2>2 DEF MapsInv
    <3>4. call'.pc = "edges" /\ call'.read = <<s>>
      BY <1>1, <3>2, <3>3, ContinueFields
    <3>5. ServicesAre(s)'
      BY <1>4, <2>1, <3>1 DEF ServicesAre
    <3> QED BY <1>4, <3>3, <3>4, <3>5 DEF MapsInv, Live
  <2>3. CASE call.pc = "edges"
    <3>0. call.q.op = "services"
      BY <1>1, <2>3
    <3>1. PICK s : call.read = <<s>> /\ ServicesAre(s)
      BY <1>3, <2>3, <3>0 DEF MapsInv
    <3>2. PICK e : e = EdgeRows(S, Asked)
      OBVIOUS
    <3>3. call' = Answer(call, 200, [services |-> s, edges |-> e])
      BY <1>6, <2>0, <2>3, <3>1, <3>2, RanWell DEF ReadEdges
    <3>4. call'.pc = "answered" /\ call'.answer = [services |-> s, edges |-> e]
      BY <1>1, <3>3, AnswerFields
    <3>5. ServicesAre(s)' /\ EdgesAre(e)'
      BY <1>4, <2>1, <3>1, <3>2, MapReadsStay DEF EdgesAre
    <3> QED BY <1>4, <3>0, <3>4, <3>5 DEF MapsInv, Live
  <2>4. CASE call.pc = "workloads"
    <3>1. PICK w \in Ordered(WorkloadRows(S, Asked)) : call' = Continue(call, w, "nodes")
      BY <1>6, <2>0, <2>4, RanWell DEF ReadWorkloads
    <3>3. call.q.op = "kubernetes" /\ call.read = <<>>
      BY <1>1, <1>3, <2>4 DEF MapsInv
    <3>4. call'.pc = "nodes" /\ call'.read = <<w>>
      BY <1>1, <3>1, <3>3, ContinueFields
    <3>5. WorkloadsAre(w)'
      BY <1>4, <2>1, <3>1 DEF WorkloadsAre
    <3> QED BY <1>4, <3>3, <3>4, <3>5 DEF MapsInv, Live
  <2>5. CASE call.pc = "nodes"
    <3>0. call.q.op = "kubernetes"
      BY <1>1, <2>5
    <3>1. PICK w : call.read = <<w>> /\ WorkloadsAre(w)
      BY <1>3, <2>5, <3>0 DEF MapsInv
    <3>2. PICK k : k = NodeCount(S, Asked)
      OBVIOUS
    <3>3. call' = Answer(call, 200, [namespaces |-> Namespaces(w), nodes |-> k])
      BY <1>6, <2>0, <2>5, <3>1, <3>2, RanWell DEF CountNodes
    <3>4. call'.pc = "answered" /\ call'.answer = [namespaces |-> Namespaces(w), nodes |-> k]
      BY <1>1, <3>3, AnswerFields
    <3>5. WorkloadsAre(w)' /\ NodesAre(k)'
      BY <1>4, <2>1, <3>1, <3>2, MapReadsStay DEF NodesAre
    <3> QED BY <1>4, <3>0, <3>4, <3>5 DEF MapsInv, Live
  <2> QED BY <1>1, <2>2, <2>3, <2>4, <2>5
<1> QED BY <1>5, <1>6

LEMMA MapsStep ==
    ASSUME StoreInv, CallInv, MapsInv, [Next]_vars PROVE MapsInv'
<1>1. CASE Aside
  <2>1. /\ call' = call /\ (Live("services")' => Live("services"))
        /\ (Live("kubernetes")' => Live("kubernetes"))
    BY <1>1 DEF Aside, Live
  <2>2. \A x : /\ (ServicesAre(x) => ServicesAre(x)') /\ (EdgesAre(x) => EdgesAre(x)')
               /\ (WorkloadsAre(x) => WorkloadsAre(x)') /\ (NodesAre(x) => NodesAre(x)')
    BY <1>1, MapReadsStay
  <2> QED BY <2>1, <2>2 DEF MapsInv
<1>2. CASE Started
  <2>1. /\ Live("services")' => call'.pc = "services" /\ call'.read = <<>>
        /\ Live("kubernetes")' => call'.pc = "workloads" /\ call'.read = <<>>
    BY <1>2, StartsAtFirst DEF FirstStatement
  <2> QED BY <2>1 DEF MapsInv
<1>3. CASE Ran
  <2>1. CASE call.q.op \in {"services", "kubernetes"}
    BY <1>3, <2>1, MapsRan
  <2>2. CASE call.q.op \notin {"services", "kubernetes"}
    <3>1. call'.q = call.q
      BY <1>3, RanFields
    <3> QED BY <2>2, <3>1 DEF MapsInv, Live
  <2> QED BY <2>1, <2>2
<1>4. CASE Respond
  BY <1>4, EndFields DEF MapsInv, Live
<1> QED BY <1>1, <1>2, <1>3, <1>4, StepKinds

-------------------------------------------------------------------------------
(* The rows of the service map.                                              *)

\* The values that are enough for a percentile.
Enough(p, rows) ==
    {v \in {r.duration : r \in rows} :
        100 * Cardinality({r \in rows : r.duration <= v}) >= p * Cardinality(rows)}

LEMMA PercentileIs ==
    ASSUME NEW p, NEW rows
    PROVE  Percentile(p, rows, Took) = Min(Enough(p, rows))
BY DEF Percentile, Enough, Took

LEMMA LessIsEnough ==
    ASSUME NEW rows, IsFiniteSet(rows)
    PROVE  Enough(99, rows) \subseteq Enough(90, rows) /\ Enough(90, rows) \subseteq Enough(50, rows)
<1>1. PICK c \in Nat : c = Cardinality(rows)
  BY FS_CardinalityType
<1>2. ASSUME NEW v
      PROVE  LET d == 100 * Cardinality({r \in rows : r.duration <= v}) IN
             (d >= 99 * c => d >= 90 * c) /\ (d >= 90 * c => d >= 50 * c)
  <2>1. PICK k \in Nat : k = Cardinality({r \in rows : r.duration <= v})
    BY FS_Subset, FS_CardinalityType
  <2>2. (100 * k >= 99 * c => 100 * k >= 90 * c) /\ (100 * k >= 90 * c => 100 * k >= 50 * c)
    OBVIOUS
  <2> QED BY <2>1, <2>2
<1> QED BY <1>1, <1>2 DEF Enough

LEMMA LongestIsEnough ==
    ASSUME NEW rows, IsFiniteSet(rows), rows # {}, \A r \in rows : r.duration \in Nat
    PROVE  /\ Enough(99, rows) # {}
           /\ \A p : IsFiniteSet(Enough(p, rows)) /\ Enough(p, rows) \in SUBSET Nat
<1> DEFINE f == [r \in rows |-> r.duration]
           all == {f[r] : r \in rows}
<1>1. all \in SUBSET Nat /\ all # {} /\ all = {r.duration : r \in rows}
  OBVIOUS
<1>2. IsFiniteSet(all)
  <2>1. rows \subseteq DOMAIN f
    OBVIOUS
  <2> HIDE DEF f
  <2> QED BY <2>1, ImageFinite
<1> HIDE DEF all
<1>3. \A p : Enough(p, rows) \subseteq all
  BY <1>1 DEF Enough
<1>4. \A p : IsFiniteSet(Enough(p, rows))
  BY <1>2, <1>3, FS_Subset
<1>5. PICK m \in all : \A v \in all : m >= v
  <2>1. all \in SUBSET Int
    BY <1>1
  <2> QED BY <1>1, <1>2, <2>1, Extremes
<1>6. {r \in rows : r.duration <= m} = rows
  BY <1>1, <1>5
<1>7. m \in Enough(99, rows)
  <2>1. PICK c \in Nat : c = Cardinality(rows)
    BY FS_CardinalityType
  <2>2. 100 * c >= 99 * c
    OBVIOUS
  <2> QED BY <1>1, <1>6, <2>1, <2>2 DEF Enough
<1> QED BY <1>1, <1>3, <1>4, <1>7

LEMMA Percentiles ==
    ASSUME NEW rows, IsFiniteSet(rows), rows # {}, \A r \in rows : r.duration \in Nat
    PROVE  LET P(p) == Percentile(p, rows, Took) IN
           /\ P(50) \in Nat /\ P(50) <= P(90) /\ P(90) <= P(99)
           /\ P(50) \in Enough(50, rows) /\ P(90) \in Enough(90, rows) /\ P(99) \in Enough(99, rows)
<1> DEFINE A == Enough(50, rows)
           B == Enough(90, rows)
           C == Enough(99, rows)
<1>1. C \subseteq B /\ B \subseteq A
  BY LessIsEnough
<1>2. C # {} /\ A \in SUBSET Nat /\ IsFiniteSet(A) /\ IsFiniteSet(B) /\ IsFiniteSet(C)
  BY LongestIsEnough
<1>3. Percentile(50, rows, Took) = Min(A) /\ Percentile(90, rows, Took) = Min(B)
      /\ Percentile(99, rows, Took) = Min(C)
  BY PercentileIs
<1> HIDE DEF A, B, C
<1>4. /\ A \in SUBSET Int /\ B \in SUBSET Int /\ C \in SUBSET Int
      /\ A # {} /\ B # {}
  <2>1. \A x \in A : x \in Int
    BY <1>2
  <2>2. A \subseteq Int
    BY <2>1
  <2>3. B \subseteq Int /\ C \subseteq Int
    BY <1>1, <2>2
  <2> QED BY <1>1, <1>2, <2>2, <2>3
<1>5. /\ Min(A) \in A /\ \A y \in A : Min(A) <= y
      /\ Min(B) \in B /\ \A y \in B : Min(B) <= y
      /\ Min(C) \in C
  BY <1>2, <1>4, Extremes
<1>6. Min(A) \in Nat /\ Min(A) <= Min(B) /\ Min(B) <= Min(C)
  BY <1>1, <1>2, <1>5
<1> QED BY <1>3, <1>5, <1>6 DEF A, B, C

Serves(S, w, n) == {r \in InWindow(S, w) : r.kind = "Server" /\ r.service # Absent /\ r.service = n}

LEMMA ServiceRowIs ==
    ASSUME NEW S, NEW w, NEW s \in ServiceRows(S, w)
    PROVE  LET rows == Serves(S, w, s.name) IN
           /\ s.name # Absent /\ rows # {}
           /\ s.count = Cardinality(rows) /\ s.errors = Cardinality(Failed(rows))
           /\ s.p50 = Percentile(50, rows, Took) /\ s.p90 = Percentile(90, rows, Took)
           /\ s.p99 = Percentile(99, rows, Took)
<1> DEFINE served == {r \in InWindow(S, w) : r.kind = "Server" /\ r.service # Absent}
           Of(name) == {r \in served : r.service = name}
<1>1. PICK n \in {r.service : r \in served} :
         s = [name |-> n, count |-> Cardinality(Of(n)), errors |-> Cardinality(Failed(Of(n))),
              p50 |-> Percentile(50, Of(n), Took), p90 |-> Percentile(90, Of(n), Took),
              p99 |-> Percentile(99, Of(n), Took)]
  BY DEF ServiceRows
<1>2. Of(n) = Serves(S, w, n) /\ n # Absent /\ Of(n) # {}
  BY DEF Serves
<1> HIDE DEF Of, served
<1> QED BY <1>1, <1>2

CallsOf(S, w, from, to) ==
    {p \in InWindow(S, w) \X S : Calls(p[1], p[2]) /\ p[2].service = from /\ p[1].service = to}

EdgeRow(S, w, e) ==
    LET pairs == {p \in InWindow(S, w) \X S : Calls(p[1], p[2])}
        Ends(p) == <<p[2].service, p[1].service>>
        Of(d) == {p \in pairs : Ends(p) = d}
        CallTook(p) == p[1].duration
    IN  [from |-> e[1], to |-> e[2], count |-> Cardinality(Of(e)),
         errors |-> Cardinality({p \in Of(e) : p[1].error}),
         p99 |-> Percentile(99, Of(e), CallTook)]

LEMMA EdgeRowsAre ==
    ASSUME NEW S, NEW w
    PROVE  EdgeRows(S, w) = {EdgeRow(S, w, e) : e \in {<<p[2].service, p[1].service>> :
                                p \in {p \in InWindow(S, w) \X S : Calls(p[1], p[2])}}}
BY Zenon DEF EdgeRows, EdgeRow

LEMMA EdgeRowIs ==
    ASSUME NEW S, NEW w, NEW e \in EdgeRows(S, w)
    PROVE  LET pairs == CallsOf(S, w, e.from, e.to) IN
           /\ pairs # {} /\ e.count = Cardinality(pairs)
           /\ e.errors = Cardinality({p \in pairs : p[1].error})
<1> DEFINE pairs == {p \in InWindow(S, w) \X S : Calls(p[1], p[2])}
           Ends(p) == <<p[2].service, p[1].service>>
           Of(d) == {p \in pairs : Ends(p) = d}
<1>1. PICK d \in {Ends(p) : p \in pairs} : e = EdgeRow(S, w, d)
  BY EdgeRowsAre
<1>0. /\ e.from = d[1] /\ e.to = d[2] /\ e.count = Cardinality(Of(d))
      /\ e.errors = Cardinality({p \in Of(d) : p[1].error})
  BY <1>1 DEF EdgeRow
<1>2. PICK x \in pairs : d = Ends(x)
  OBVIOUS
<1>3. \A p : Ends(p) = d <=> p[2].service = d[1] /\ p[1].service = d[2]
  BY <1>2
<1>4. Of(d) = CallsOf(S, w, e.from, e.to)
  BY <1>0, <1>3 DEF CallsOf
<1>5. x \in Of(d)
  BY <1>2
<1> HIDE DEF Of
<1> QED BY <1>0, <1>4, <1>5

LEMMA EdgeOfPair ==
    ASSUME NEW S, NEW w, NEW p \in InWindow(S, w) \X S, Calls(p[1], p[2])
    PROVE  \E e \in EdgeRows(S, w) : e.from = p[2].service /\ e.to = p[1].service
<1> DEFINE d == <<p[2].service, p[1].service>>
<1>1. EdgeRow(S, w, d) \in EdgeRows(S, w)
  BY EdgeRowsAre
<1>2. EdgeRow(S, w, d).from = p[2].service /\ EdgeRow(S, w, d).to = p[1].service
  BY DEF EdgeRow
<1> QED BY <1>1, <1>2

-------------------------------------------------------------------------------
(* The service map is true.                                                  *)

LEMMA SpanFacts ==
    ASSUME StoreInv, NEW S \in Snapshots("spans")
    PROVE  /\ held.spans \subseteq S /\ S \subseteq shown.spans /\ IsFiniteSet(S)
           /\ IsFiniteSet(shown.spans) /\ \A r \in S : r.duration \in Nat
<1>1. "spans" \in Tables
  BY DEF Tables
<1>2. held.spans \subseteq S /\ S \subseteq shown.spans
  BY DEF Snapshots
<1>3. IsFiniteSet(shown.spans)
  BY <1>1, FiniteNow
<1>4. \A r \in shown.spans : r.duration \in Nat
  BY SpansOk DEF SpanOk
<1> QED BY <1>2, <1>3, <1>4, FS_Subset

LEMMA SomeAreCounted ==
    ASSUME NEW S, IsFiniteSet(S), S # {}
    PROVE  Cardinality(S) \in Nat /\ Cardinality(S) >= 1
<1>1. Cardinality(S) \in Nat /\ Cardinality(S) # 0
  BY FS_CardinalityType, FS_EmptySet
<1> QED BY <1>1

\* A duration some of the rows had, and p percent of them did not exceed.
IsPercentile(p, rows, v) ==
    /\ \E r \in rows : r.duration = v
    /\ 100 * Cardinality({r \in rows : r.duration <= v}) >= p * Cardinality(rows)

LEMMA EnoughIs ==
    ASSUME NEW p, NEW rows, NEW v \in Enough(p, rows)
    PROVE  IsPercentile(p, rows, v)
BY DEF Enough, IsPercentile

LEMMA ServiceIsTrue ==
    ASSUME StoreInv, NEW x, ServicesAre(x), NEW s \in x
    PROVE  /\ s.count >= 1 /\ s.errors \in 0..s.count
           /\ s.p50 >= 0 /\ s.p50 <= s.p90 /\ s.p90 <= s.p99
           /\ \E S \in Snapshots("spans") :
                 LET rows == Serves(S, Asked, s.name) IN
                 /\ s.name # Absent
                 /\ s.count = Cardinality(rows) /\ s.errors = Cardinality(Failed(rows))
                 /\ IsPercentile(50, rows, s.p50) /\ IsPercentile(90, rows, s.p90)
                 /\ IsPercentile(99, rows, s.p99)
<1>1. PICK S \in Snapshots("spans") : x = ServiceRows(S, Asked)
  BY DEF ServicesAre
<1> DEFINE rows == Serves(S, Asked, s.name)
<1>2. /\ s.name # Absent /\ rows # {}
      /\ s.count = Cardinality(rows) /\ s.errors = Cardinality(Failed(rows))
      /\ s.p50 = Percentile(50, rows, Took) /\ s.p90 = Percentile(90, rows, Took)
      /\ s.p99 = Percentile(99, rows, Took)
  BY <1>1, ServiceRowIs
<1>3. rows \subseteq S
  BY DEF Serves, InWindow
<1> HIDE DEF rows
<1>4. IsFiniteSet(rows) /\ \A r \in rows : r.duration \in Nat
  BY <1>3, SpanFacts, Smaller
<1>5. /\ s.p50 \in Nat /\ s.p50 <= s.p90 /\ s.p90 <= s.p99
      /\ s.p50 \in Enough(50, rows) /\ s.p90 \in Enough(90, rows) /\ s.p99 \in Enough(99, rows)
  BY <1>2, <1>4, Percentiles
<1>6. Failed(rows) \in SUBSET rows
  BY DEF Failed
<1>7. s.count >= 1 /\ s.errors \in 0..s.count
  <2>1. PICK c, k : c = Cardinality(rows) /\ k = Cardinality(Failed(rows))
    OBVIOUS
  <2>2. c \in Nat /\ c >= 1 /\ k \in Nat /\ k <= c
    BY <1>2, <1>4, <1>6, <2>1, SomeAreCounted, Smaller
  <2> QED BY <1>2, <2>1, <2>2
<1>8. /\ IsPercentile(50, rows, s.p50) /\ IsPercentile(90, rows, s.p90)
      /\ IsPercentile(99, rows, s.p99)
  BY <1>5, EnoughIs
<1>9. s.p50 >= 0
  BY <1>5
<1> QED BY <1>2, <1>5, <1>7, <1>8, <1>9 DEF rows

CallPairs(S, from, to) ==
    {p \in InWindow(S, Asked) \X S : /\ p[1].trace = p[2].trace /\ p[1].parent = p[2].id
                                     /\ p[2].service = from /\ p[1].service = to /\ from # to}

LEMMA EdgeIsTrue ==
    ASSUME StoreInv, NEW x, EdgesAre(x), NEW e \in x
    PROVE  /\ e.from # e.to /\ e.count >= 1 /\ e.errors \in 0..e.count
           /\ e.count <= Cardinality(CallPairs(shown.spans, e.from, e.to))
           /\ e.count >= Cardinality(CallPairs(held.spans, e.from, e.to))
<1>1. PICK S \in Snapshots("spans") : x = EdgeRows(S, Asked)
  BY DEF EdgesAre
<1> DEFINE pairs == CallsOf(S, Asked, e.from, e.to)
           failed == {p \in pairs : p[1].error}
           before == CallPairs(held.spans, e.from, e.to)
           after == CallPairs(shown.spans, e.from, e.to)
<1>2. pairs # {} /\ e.count = Cardinality(pairs) /\ e.errors = Cardinality(failed)
  BY <1>1, EdgeRowIs
<1>3. held.spans \subseteq S /\ S \subseteq shown.spans /\ IsFiniteSet(shown.spans)
  BY SpanFacts
<1>4. e.from # Absent /\ e.to # Absent /\ e.from # e.to
  BY <1>2 DEF CallsOf, Calls
<1>5. pairs \subseteq after
  BY <1>3, <1>4 DEF CallsOf, Calls, CallPairs, InWindow
<1>6. before \subseteq pairs
  BY <1>3, <1>4 DEF CallsOf, Calls, CallPairs, InWindow
<1>7. IsFiniteSet(after)
  <2>1. InWindow(shown.spans, Asked) \in SUBSET shown.spans
    BY DEF InWindow
  <2>2. IsFiniteSet(InWindow(shown.spans, Asked) \X shown.spans)
    BY <1>3, <2>1, Smaller, FS_Product
  <2>3. after \in SUBSET (InWindow(shown.spans, Asked) \X shown.spans)
    BY DEF CallPairs
  <2> HIDE DEF after
  <2> QED BY <2>2, <2>3, Smaller
<1>8. failed \in SUBSET pairs
  OBVIOUS
<1> HIDE DEF pairs, failed, before, after
<1>9. IsFiniteSet(pairs) /\ Cardinality(pairs) <= Cardinality(after)
  BY <1>5, <1>7, Smaller
<1>10. Cardinality(before) <= Cardinality(pairs) /\ Cardinality(pairs) \in Nat /\ Cardinality(before) \in Nat
       /\ Cardinality(failed) \in Nat /\ Cardinality(failed) <= Cardinality(pairs) /\ Cardinality(pairs) >= 1
  BY <1>2, <1>6, <1>8, <1>9, Smaller, SomeAreCounted
<1>11. PICK c, k, b : c = Cardinality(pairs) /\ k = Cardinality(failed) /\ b = Cardinality(before)
  OBVIOUS
<1>12. c >= b /\ c >= 1 /\ k \in 0..c
  BY <1>10, <1>11
<1> QED BY <1>2, <1>4, <1>9, <1>11, <1>12 DEF before, after

LEMMA EdgesAreThere ==
    ASSUME StoreInv, NEW x, EdgesAre(x), NEW p \in held.spans \X held.spans,
           p \in CallPairs(held.spans, p[2].service, p[1].service),
           p[1].service # Absent, p[2].service # Absent
    PROVE  \E e \in x : e.from = p[2].service /\ e.to = p[1].service
<1>1. PICK S \in Snapshots("spans") : x = EdgeRows(S, Asked)
  BY DEF EdgesAre
<1>2. held.spans \subseteq S
  BY SpanFacts
<1>3. p \in InWindow(S, Asked) \X S /\ Calls(p[1], p[2])
  BY <1>2 DEF CallPairs, Calls, InWindow
<1> QED BY <1>1, <1>3, EdgeOfPair

Serving(rows, n) == {r \in InWindow(rows, Asked) : r.kind = "Server" /\ r.service = n}
Least(p, rows, v) == 100 * Cardinality({r \in rows : r.duration <= v}) >= p * Cardinality(rows)

ServiceHolds(s) ==
    LET before == Serving(held.spans, s.name)
        after == Serving(shown.spans, s.name)
    IN  /\ Cardinality(before) <= s.count /\ s.count <= Cardinality(after)
        /\ Cardinality(Failed(before)) <= s.errors
        /\ s.errors <= Cardinality(Failed(after))
        /\ s.p50 <= s.p90 /\ s.p90 <= s.p99
        /\ {s.p50, s.p90, s.p99} \subseteq {r.duration : r \in after}
        /\ held.spans = shown.spans =>
              Least(50, before, s.p50) /\ Least(90, before, s.p90) /\ Least(99, before, s.p99)

\* Larger sets of spans have more spans and more failures.
LEMMA MoreIsCounted ==
    ASSUME NEW A, NEW B, IsFiniteSet(B), A \subseteq B
    PROVE  /\ Cardinality(A) <= Cardinality(B)
           /\ Cardinality(Failed(A)) <= Cardinality(Failed(B))
<1>1. Failed(A) \in SUBSET Failed(B) /\ Failed(B) \in SUBSET B
  BY DEF Failed
<1>2. IsFiniteSet(Failed(B))
  BY <1>1, Smaller
<1>3. A \in SUBSET B
  OBVIOUS
<1> QED BY <1>1, <1>2, <1>3, Smaller

LEMMA ServiceNumbers ==
    ASSUME StoreInv, NEW x, ServicesAre(x), NEW s \in x
    PROVE  ServiceHolds(s)
<1>1. PICK S \in Snapshots("spans") :
         LET rows == Serves(S, Asked, s.name) IN
         /\ s.name # Absent
         /\ s.count = Cardinality(rows) /\ s.errors = Cardinality(Failed(rows))
         /\ IsPercentile(50, rows, s.p50) /\ IsPercentile(90, rows, s.p90)
         /\ IsPercentile(99, rows, s.p99)
  BY ServiceIsTrue
<1>2. held.spans \subseteq S /\ S \subseteq shown.spans /\ IsFiniteSet(S) /\ IsFiniteSet(shown.spans)
  BY SpanFacts
<1> DEFINE rows == Serves(S, Asked, s.name)
           before == Serving(held.spans, s.name)
           after == Serving(shown.spans, s.name)
<1>3. before \subseteq rows /\ rows \subseteq after
  BY <1>1, <1>2 DEF Serves, Serving, InWindow
<1>4. IsFiniteSet(rows) /\ IsFiniteSet(after)
  <2>1. rows \in SUBSET S /\ after \in SUBSET shown.spans
    BY DEF Serves, Serving, InWindow
  <2> HIDE DEF rows, after
  <2> QED BY <1>2, <2>1, Smaller
<1>5. held.spans = shown.spans => rows = before
  BY <1>1, <1>2, <1>3 DEF Serves, Serving
<1>6. s.p50 <= s.p90 /\ s.p90 <= s.p99
  BY ServiceIsTrue
<1>7. /\ s.count = Cardinality(rows) /\ s.errors = Cardinality(Failed(rows))
      /\ IsPercentile(50, rows, s.p50) /\ IsPercentile(90, rows, s.p90)
      /\ IsPercentile(99, rows, s.p99)
  BY <1>1
<1> HIDE DEF rows, before, after
<1>8. /\ Cardinality(before) <= s.count /\ s.count <= Cardinality(after)
      /\ Cardinality(Failed(before)) <= s.errors /\ s.errors <= Cardinality(Failed(after))
  BY <1>3, <1>4, <1>7, MoreIsCounted
<1>9. {s.p50, s.p90, s.p99} \subseteq {r.duration : r \in after}
  BY <1>3, <1>7 DEF IsPercentile
<1>10. held.spans = shown.spans =>
          Least(50, before, s.p50) /\ Least(90, before, s.p90) /\ Least(99, before, s.p99)
  BY <1>5, <1>7 DEF IsPercentile, Least
<1> QED BY <1>6, <1>8, <1>9, <1>10 DEF ServiceHolds, before, after

LEMMA ServiceOfSpan ==
    ASSUME NEW S, NEW w, NEW r \in InWindow(S, w), r.kind = "Server", r.service # Absent
    PROVE  \E s \in ServiceRows(S, w) : s.name = r.service
<1> DEFINE served == {q \in InWindow(S, w) : q.kind = "Server" /\ q.service # Absent}
           Of(name) == {q \in served : q.service = name}
           n == r.service
<1>1. n \in {q.service : q \in served}
  OBVIOUS
<1>2. PICK s : s = [name |-> n, count |-> Cardinality(Of(n)), errors |-> Cardinality(Failed(Of(n))),
                    p50 |-> Percentile(50, Of(n), Took), p90 |-> Percentile(90, Of(n), Took),
                    p99 |-> Percentile(99, Of(n), Took)]
  OBVIOUS
<1>3. s \in ServiceRows(S, w)
  BY <1>1, <1>2 DEF ServiceRows
<1> QED BY <1>2, <1>3

LEMMA ServicesAreThere ==
    ASSUME StoreInv, NEW x, ServicesAre(x),
           NEW r \in InWindow(held.spans, Asked), r.kind = "Server", r.service # Absent
    PROVE  \E s \in x : s.name = r.service
<1>1. PICK S \in Snapshots("spans") : x = ServiceRows(S, Asked)
  BY DEF ServicesAre
<1>2. r \in InWindow(S, Asked)
  BY SpanFacts DEF InWindow
<1> QED BY <1>1, <1>2, ServiceOfSpan

LEMMA ServicesAreTrue ==
    ASSUME StoreInv, MapsInv
    PROVE  ServiceMapIsTrue /\ (Answered("services") => ServiceMapResponse(call.answer))
<1> SUFFICES ASSUME Answered("services")
             PROVE  ServiceMapIsTrue /\ ServiceMapResponse(call.answer)
  BY DEF ServiceMapIsTrue
<1>1. PICK x, y : ServicesAre(x) /\ EdgesAre(y) /\ call.answer = [services |-> x, edges |-> y]
  BY DEF MapsInv, Answered, Live
<1>2. call.answer.services = x /\ call.answer.edges = y
  BY <1>1
<1>3. ServiceMapResponse(call.answer)
  BY <1>1, <1>2, ServiceIsTrue, EdgeIsTrue DEF ServiceMapResponse
<1>4. ASSUME NEW s \in x PROVE ServiceHolds(s)
  BY <1>1, <1>4, ServiceNumbers
<1>8. ASSUME NEW r \in InWindow(held.spans, Asked), r.kind = "Server", r.service # Absent
      PROVE  \E s \in x : s.name = r.service
  BY <1>1, <1>8, ServicesAreThere
<1>5. ASSUME NEW p \in held.spans \X held.spans,
             p \in CallPairs(held.spans, p[2].service, p[1].service),
             p[1].service # Absent, p[2].service # Absent
      PROVE  \E e \in y : e.from = p[2].service /\ e.to = p[1].service
  BY <1>1, <1>5, EdgesAreThere
<1>6. \A e \in y : /\ e.count <= Cardinality(CallPairs(shown.spans, e.from, e.to))
                   /\ e.count >= Cardinality(CallPairs(held.spans, e.from, e.to))
  BY <1>1, EdgeIsTrue
<1>7. ServiceMapIsTrue
  BY <1>2, <1>4, <1>5, <1>6, <1>8 DEF ServiceMapIsTrue, CallPairs, ServiceHolds, Serving, Least
<1> QED BY <1>3, <1>7

-------------------------------------------------------------------------------
(* Folding rows into the tree: one after the other.                          *)

FoldStep(list, g, s) ==
    IF s = {} THEN NoNamespaces ELSE LET x == Max(s) IN Folded(g[s \ {x}], list[x])

IsFold(list, D, g) == g = [s \in SUBSET D |-> FoldStep(list, g, s)]

LEMMA NamespacesFold ==
    ASSUME NEW list
    PROVE  Namespaces(list) = (CHOOSE g : IsFold(list, DOMAIN list, g))[DOMAIN list]
BY Zenon DEF Namespaces, FoldLeft, MapThenFoldSet, IsFold, FoldStep

\* Every set of indices can be folded over.
LEMMA FoldExists ==
    ASSUME NEW list, NEW D \in SUBSET Int, IsFiniteSet(D)
    PROVE  \E g : IsFold(list, D, g)
<1> DEFINE Small(n) == {s \in SUBSET D : Cardinality(s) <= n}
           FoldUpTo(n, g) == \A s \in Small(n) : g[s] = FoldStep(list, g, s)
           N == {n \in Nat : \E g : FoldUpTo(n, g)}
<1>1. \A s \in SUBSET D : IsFiniteSet(s) /\ Cardinality(s) \in Nat /\ Cardinality(s) <= Cardinality(D)
  BY Smaller
<1>2. 0 \in N
  <2> DEFINE g == [s \in Small(0) |-> NoNamespaces]
  <2>1. \A s \in Small(0) : s = {}
    BY <1>1, FS_EmptySet
  <2>2. \A s \in Small(0) : g[s] = NoNamespaces
    OBVIOUS
  <2> HIDE DEF g
  <2>3. FoldUpTo(0, g)
    BY <2>1, <2>2 DEF FoldStep
  <2> QED BY <2>3
<1>3. ASSUME NEW n \in Nat, n \in N PROVE n + 1 \in N
  <2>1. PICK h : FoldUpTo(n, h)
    BY <1>3
  <2> DEFINE g == [s \in Small(n + 1) |-> FoldStep(list, h, s)]
  <2>2. ASSUME NEW s \in Small(n + 1), s # {} PROVE s \ {Max(s)} \in Small(n)
    <3>1. s \in SUBSET Int /\ IsFiniteSet(s) /\ Cardinality(s) <= n + 1
      BY <1>1
    <3>2. Max(s) \in s
      BY <2>2, <3>1, Extremes
    <3>3. Cardinality(s \ {Max(s)}) = Cardinality(s) - 1 /\ Cardinality(s) \in Nat
      BY <3>1, <3>2, FS_RemoveElement, FS_CardinalityType
    <3>4. Cardinality(s \ {Max(s)}) <= n
      BY <3>1, <3>3
    <3> QED BY <3>4
  <2>3. ASSUME NEW s \in Small(n) PROVE g[s] = h[s]
    <3>1. s \in Small(n + 1)
      BY <1>1
    <3>2. h[s] = FoldStep(list, h, s)
      BY <2>1
    <3> HIDE DEF Small
    <3> QED BY <3>1, <3>2
  <2>4. ASSUME NEW s \in Small(n + 1) PROVE g[s] = FoldStep(list, g, s)
    <3>1. g[s] = FoldStep(list, h, s)
      OBVIOUS
    <3>2. CASE s = {}
      BY <3>1, <3>2 DEF FoldStep
    <3>3. CASE s # {}
      <4>1. g[s \ {Max(s)}] = h[s \ {Max(s)}]
        BY <2>2, <2>3, <3>3
      <4> HIDE DEF g
      <4> QED BY <3>1, <3>3, <4>1 DEF FoldStep
    <3> QED BY <3>2, <3>3
  <2> HIDE DEF g
  <2>5. FoldUpTo(n + 1, g)
    BY <2>4
  <2> QED BY <2>5
<1>4. \A n \in Nat : n \in N
  <2> HIDE DEF N
  <2> QED BY <1>2, <1>3, Induction
<1>5. Cardinality(D) \in Nat /\ Small(Cardinality(D)) = SUBSET D
  BY <1>1
<1>6. PICK h : FoldUpTo(Cardinality(D), h)
  BY <1>4, <1>5
<1> DEFINE g == [s \in SUBSET D |-> h[s]]
<1>7. ASSUME NEW s \in SUBSET D PROVE g[s] = FoldStep(list, g, s)
  <2>1. h[s] = FoldStep(list, h, s)
    BY <1>5, <1>6
  <2>2. CASE s = {}
    BY <2>1, <2>2 DEF FoldStep
  <2>3. CASE s # {}
    <3>1. g[s \ {Max(s)}] = h[s \ {Max(s)}] /\ g[s] = h[s]
      OBVIOUS
    <3> HIDE DEF g
    <3> QED BY <2>1, <2>3, <3>1 DEF FoldStep
  <2> QED BY <2>2, <2>3
<1>8. g = [s \in SUBSET D |-> g[s]]
  OBVIOUS
<1> HIDE DEF g
<1>9. g = [s \in SUBSET D |-> FoldStep(list, g, s)]
  BY <1>7, <1>8
<1> QED BY <1>9 DEF IsFold

\* The tree after each of the rows.
LEMMA TreesOf ==
    ASSUME NEW list, NEW n \in Nat, DOMAIN list = 1..n
    PROVE  \E tree : /\ DOMAIN tree = 0..n /\ tree[0] = NoNamespaces
                     /\ \A k \in 1..n : tree[k] = Folded(tree[k - 1], list[k])
                     /\ tree[n] = Namespaces(list)
<1>1. IsFiniteSet(1..n) /\ 1..n \in SUBSET Int
  BY FS_Interval
<1> DEFINE g == CHOOSE g : IsFold(list, 1..n, g)
<1>2. IsFold(list, 1..n, g)
  BY <1>1, FoldExists
<1>3. Namespaces(list) = g[1..n]
  BY NamespacesFold
<1> HIDE DEF g
<1>4. \A s \in SUBSET (1..n) : g[s] = FoldStep(list, g, s)
  BY <1>2 DEF IsFold
<1> DEFINE tree == [k \in 0..n |-> g[1..k]]
<1>5. tree[0] = NoNamespaces
  <2>1. 1..0 = {} /\ 1..0 \in SUBSET (1..n) /\ 0 \in 0..n
    OBVIOUS
  <2> QED BY <1>4, <2>1 DEF FoldStep
<1>6. ASSUME NEW k \in 1..n PROVE tree[k] = Folded(tree[k - 1], list[k])
  <2>1. Max(1..k) = k
    <3>1. 1..k \in SUBSET Int /\ IsFiniteSet(1..k) /\ k \in 1..k
      BY FS_Interval
    <3>2. Max(1..k) \in 1..k /\ Max(1..k) >= k
      BY <3>1, Extremes
    <3> QED BY <3>2
  <2>2. (1..k) \ {k} = 1..(k - 1) /\ 1..k # {} /\ 1..k \in SUBSET (1..n)
    OBVIOUS
  <2>3. g[1..k] = Folded(g[1..(k - 1)], list[k])
    BY <1>4, <2>1, <2>2 DEF FoldStep
  <2> QED BY <2>3
<1>7. tree[n] = Namespaces(list) /\ DOMAIN tree = 0..n
  BY <1>3
<1> HIDE DEF tree
<1> QED BY <1>5, <1>6, <1>7

-------------------------------------------------------------------------------
(* The rows of the Kubernetes statement.                                     *)

WorkloadKey(w) == <<w.namespace, w.workload, w.kind>>
Grouped(S, win) == {r \in InWindow(S, win) : Has(r, "namespace")}
OfKey(S, win, g) == {r \in Grouped(S, win) : GroupKey(r) = g}

WorkloadRow(S, win, g) ==
    LET rows == {s \in InWindow(S, win) : Has(s, "namespace")}
        Of(h) == {r \in rows : GroupKey(r) = h}
    IN  [namespace |-> g[1], workload |-> g[2], kind |-> g[3], pods |-> PodsOf(Of(g)),
         count |-> Cardinality(Of(g)), errors |-> Cardinality(Failed(Of(g))),
         p50 |-> Percentile(50, Of(g), Took), p90 |-> Percentile(90, Of(g), Took),
         p99 |-> Percentile(99, Of(g), Took)]

LEMMA WorkloadRowsAre ==
    ASSUME NEW S, NEW win
    PROVE  WorkloadRows(S, win) = {WorkloadRow(S, win, g) : g \in {GroupKey(r) : r \in Grouped(S, win)}}
BY Zenon DEF WorkloadRows, WorkloadRow, Grouped

LEMMA WorkloadRowIs ==
    ASSUME NEW S, NEW win, NEW r \in Grouped(S, win), NEW w, w = WorkloadRow(S, win, GroupKey(r))
    PROVE  LET rows == OfKey(S, win, GroupKey(r)) IN
           /\ WorkloadKey(w) = GroupKey(r) /\ w.namespace = Text(r, "namespace") /\ w.workload = Workload(r)
           /\ rows # {} /\ w.pods = PodsOf(rows)
           /\ w.count = Cardinality(rows) /\ w.errors = Cardinality(Failed(rows))
<1> DEFINE g == GroupKey(r)
<1>1. g = <<Text(r, "namespace"), Workload(r), WorkloadKind(r)>>
  BY DEF GroupKey
<1>2. g[1] = Text(r, "namespace") /\ g[2] = Workload(r) /\ g = <<g[1], g[2], g[3]>>
  BY <1>1
<1>3. {x \in {s \in InWindow(S, win) : Has(s, "namespace")} : GroupKey(x) = g} = OfKey(S, win, g)
  BY DEF OfKey, Grouped
<1>4. r \in OfKey(S, win, g)
  BY DEF OfKey
<1> HIDE DEF g
<1>5. /\ w.namespace = g[1] /\ w.workload = g[2] /\ w.kind = g[3] /\ w.pods = PodsOf(OfKey(S, win, g))
      /\ w.count = Cardinality(OfKey(S, win, g)) /\ w.errors = Cardinality(Failed(OfKey(S, win, g)))
  BY <1>3 DEF WorkloadRow, g
<1>6. WorkloadKey(w) = g
  BY <1>2, <1>5 DEF WorkloadKey
<1> QED BY <1>2, <1>4, <1>5, <1>6 DEF g

LEMMA RowOfKey ==
    ASSUME NEW S, NEW win, NEW w \in WorkloadRows(S, win)
    PROVE  LET rows == OfKey(S, win, WorkloadKey(w)) IN
           /\ w = WorkloadRow(S, win, WorkloadKey(w))
           /\ rows # {} /\ w.pods = PodsOf(rows)
           /\ w.count = Cardinality(rows) /\ w.errors = Cardinality(Failed(rows))
           /\ \A r \in rows : w.namespace = Text(r, "namespace") /\ w.workload = Workload(r)
<1>1. PICK r \in Grouped(S, win) : w = WorkloadRow(S, win, GroupKey(r))
  BY WorkloadRowsAre
<1>2. LET rows == OfKey(S, win, GroupKey(r)) IN
      /\ WorkloadKey(w) = GroupKey(r) /\ rows # {} /\ w.pods = PodsOf(rows)
      /\ w.count = Cardinality(rows) /\ w.errors = Cardinality(Failed(rows))
  BY <1>1, WorkloadRowIs
<1>3. ASSUME NEW x \in OfKey(S, win, GroupKey(r))
      PROVE  w.namespace = Text(x, "namespace") /\ w.workload = Workload(x)
  <2>1. x \in Grouped(S, win) /\ GroupKey(x) = GroupKey(r)
    BY DEF OfKey
  <2> QED BY <1>1, <2>1, WorkloadRowIs
<1> QED BY <1>1, <1>2, <1>3

LEMMA KeyOfRow ==
    ASSUME NEW S, NEW win, NEW r \in Grouped(S, win)
    PROVE  \E w \in WorkloadRows(S, win) : WorkloadKey(w) = GroupKey(r)
<1>1. PICK w : w = WorkloadRow(S, win, GroupKey(r))
  OBVIOUS
<1>2. w \in WorkloadRows(S, win)
  BY <1>1, WorkloadRowsAre
<1> QED BY <1>1, <1>2, WorkloadRowIs

LEMMA WorkloadsFinite ==
    ASSUME NEW S, IsFiniteSet(S), NEW win
    PROVE  IsFiniteSet(Grouped(S, win)) /\ IsFiniteSet(WorkloadRows(S, win))
<1>1. Grouped(S, win) \in SUBSET S
  BY DEF Grouped, InWindow
<1>2. IsFiniteSet(Grouped(S, win))
  BY <1>1, Smaller
<1> DEFINE R == Grouped(S, win)
           f == [r \in R |-> WorkloadRow(S, win, GroupKey(r))]
<1>3. {f[r] : r \in R} = WorkloadRows(S, win)
  BY WorkloadRowsAre
<1>4. IsFiniteSet({f[r] : r \in R})
  <2>1. R \subseteq DOMAIN f /\ IsFiniteSet(R)
    BY <1>2
  <2> HIDE DEF f, R
  <2> QED BY <2>1, ImageFinite
<1> QED BY <1>2, <1>3, <1>4

\* A list in order has each row once.
LEMMA Listed ==
    ASSUME NEW W, IsFiniteSet(W), NEW list \in Ordered(W)
    PROVE  /\ Cardinality(W) \in Nat /\ DOMAIN list = 1..Cardinality(W)
           /\ \A i \in DOMAIN list : list[i] \in W
           /\ \A i, j \in DOMAIN list : list[i] = list[j] => i = j
           /\ \A w \in W : \E i \in DOMAIN list : list[i] = w
           /\ \A i, j \in DOMAIN list :
                 i < j /\ list[i].namespace = list[j].namespace => list[i].count >= list[j].count
<1> DEFINE n == Cardinality(W)
           R == {list[i] : i \in 1..n}
<1>1. n \in Nat
  BY FS_CardinalityType
<1>2. list \in [1..n -> W] /\ \A i, j \in 1..n : i # j => list[i] # list[j]
  BY DEF Ordered, SetToSeqs
<1>3. \A i, j \in DOMAIN list :
         i < j /\ list[i].namespace = list[j].namespace => list[i].count >= list[j].count
  BY DEF Ordered
<1>4. R = W
  <2>1. list \in Bijection(1..n, R)
    BY <1>2 DEF Bijection, Injection, Surjection, IsInjective
  <2>2. IsFiniteSet(1..n) /\ Cardinality(1..n) = n
    BY <1>1, FS_Interval
  <2>3. ExistsBijection(1..n, R)
    BY <2>1 DEF ExistsBijection
  <2>4. R \subseteq W
    BY <1>2
  <2> HIDE DEF R
  <2>5. Cardinality(R) = n
    BY <2>2, <2>3, FS_Bijection
  <2> QED BY <2>4, <2>5, FS_Subset
<1>5. \A w \in W : \E i \in 1..n : list[i] = w
  BY <1>4
<1> HIDE DEF n, R
<1> QED BY <1>1, <1>2, <1>3, <1>5 DEF n

-------------------------------------------------------------------------------
(* The rows of the Kubernetes statement folded into the tree.                *)

Zero == [pods |-> 0, count |-> 0, errors |-> 0, workloads |-> <<>>]
EntryOf(T, m) == IF m \in DOMAIN T THEN T[m] ELSE Zero

Skipped(w) == w.namespace = Absent \/ w.workload = Absent

LEMMA FoldedSkips ==
    ASSUME NEW T, NEW w, Skipped(w)
    PROVE  Folded(T, w) = T
BY DEF Folded, Skipped

LEMMA FoldedAdds ==
    ASSUME NEW T, NEW w, ~Skipped(w)
    PROVE  /\ DOMAIN Folded(T, w) = DOMAIN T \cup {w.namespace}
           /\ \A n \in DOMAIN T \ {w.namespace} : Folded(T, w)[n] = T[n]
           /\ LET old == EntryOf(T, w.namespace) IN
              Folded(T, w)[w.namespace] =
                 [pods |-> old.pods + Cardinality(w.pods), count |-> old.count + w.count,
                  errors |-> old.errors + w.errors, workloads |-> Append(old.workloads, w)]
<1>1. PICK old : old = EntryOf(T, w.namespace)
  OBVIOUS
<1>2. PICK new : new = [pods |-> old.pods + Cardinality(w.pods), count |-> old.count + w.count,
                        errors |-> old.errors + w.errors, workloads |-> Append(old.workloads, w)]
  OBVIOUS
<1>3. Folded(T, w) = [n \in DOMAIN T \cup {w.namespace} |-> IF n = w.namespace THEN new ELSE T[n]]
  BY Zenon, <1>1, <1>2 DEF Folded, Skipped, EntryOf, Zero
<1>4. Folded(T, w)[w.namespace] = new
  BY <1>3
<1>5. \A n \in DOMAIN T \ {w.namespace} : Folded(T, w)[n] = T[n]
  BY <1>3
<1>6. DOMAIN Folded(T, w) = DOMAIN T \cup {w.namespace}
  BY <1>3
<1> QED BY <1>1, <1>2, <1>4, <1>5, <1>6

LEMMA FoldedElsewhere ==
    ASSUME NEW T, NEW w, NEW m, Skipped(w) \/ m # w.namespace
    PROVE  EntryOf(Folded(T, w), m) = EntryOf(T, m)
<1>1. CASE Skipped(w)
  BY <1>1, FoldedSkips
<1>2. CASE ~Skipped(w)
  <2>1. /\ DOMAIN Folded(T, w) = DOMAIN T \cup {w.namespace}
        /\ \A n \in DOMAIN T \ {w.namespace} : Folded(T, w)[n] = T[n]
    BY <1>2, FoldedAdds
  <2> QED BY <1>2, <2>1 DEF EntryOf
<1> QED BY <1>1, <1>2

LEMMA FoldedHere ==
    ASSUME NEW T, NEW w, ~Skipped(w), NEW old, old = EntryOf(T, w.namespace),
           NEW new, new = EntryOf(Folded(T, w), w.namespace)
    PROVE  /\ new.pods = old.pods + Cardinality(w.pods) /\ new.count = old.count + w.count
           /\ new.errors = old.errors + w.errors /\ new.workloads = Append(old.workloads, w)
<1>1. new = Folded(T, w)[w.namespace]
  <2>1. w.namespace \in DOMAIN Folded(T, w)
    BY FoldedAdds
  <2> QED BY <2>1 DEF EntryOf
<1>2. new = [pods |-> old.pods + Cardinality(w.pods), count |-> old.count + w.count,
             errors |-> old.errors + w.errors, workloads |-> Append(old.workloads, w)]
  BY <1>1, FoldedAdds
<1> QED BY <1>2

\* The numbers of the rows in a list, and an entry that has their sums.
Tallied(ws) == [j \in 1..Len(ws) |-> ws[j].count]
Failing(ws) == [j \in 1..Len(ws) |-> ws[j].errors]
Housed(ws) == [j \in 1..Len(ws) |-> Cardinality(ws[j].pods)]

Sums(e) ==
    LET D == 1..Len(e.workloads) IN
    /\ e.count = SumOver(Tallied(e.workloads), D) /\ e.errors = SumOver(Failing(e.workloads), D)
    /\ e.pods = SumOver(Housed(e.workloads), D)

\* The rows of one namespace, in the order in which they were folded, none forgotten.
Lists(ws, list, W, m, k) ==
    /\ ws \in Seq(W)
    /\ \A j \in 1..Len(ws) : \E i \in 1..k : ws[j] = list[i] /\ list[i].namespace = m /\ ~Skipped(list[i])
    /\ \A i, j \in 1..Len(ws) : i < j => ws[i].count >= ws[j].count /\ ws[i] # ws[j]
    /\ \A i \in 1..k : list[i].namespace = m /\ ~Skipped(list[i]) => \E j \in 1..Len(ws) : ws[j] = list[i]

\* Numbers in a row, and one more at the end.
LEMMA SumAppended ==
    ASSUME NEW n \in Nat, NEW f \in [1..n -> Nat], NEW g \in [1..(n + 1) -> Nat],
           \A j \in 1..n : g[j] = f[j]
    PROVE  SumOver(g, 1..(n + 1)) = SumOver(f, 1..n) + g[n + 1]
<1>1. IsFiniteSet(1..n)
  BY FS_Interval
<1>2. 1..n \in SUBSET (1..(n + 1)) /\ n + 1 \in 1..(n + 1) /\ n + 1 \notin 1..n
      /\ 1..n \cup {n + 1} = 1..(n + 1)
  OBVIOUS
<1>3. SumOver(g, 1..n \cup {n + 1}) = SumOver(g, 1..n) + g[n + 1]
  BY <1>1, <1>2, SumFacts
<1>4. 1..n \in SUBSET (1..n \cap 1..(n + 1))
  BY <1>2
<1>5. SumOver(f, 1..n) = SumOver(g, 1..n)
  BY <1>1, <1>4, SameSum
<1> QED BY <1>2, <1>3, <1>5

\* SumFunction, of the community modules, is the sum the lemmas are about.
LEMMA SumFunctionIs ==
    ASSUME NEW D, IsFiniteSet(D), NEW f \in [D -> Nat]
    PROVE  SumFunction(f) = SumOver(f, D)
<1> DEFINE it == CHOOSE it : it = [s \in SUBSET D |-> SumStep(f, it, s)]
<1>0. DOMAIN f = D
  OBVIOUS
<1>1. SumFunction(f) = it[D]
  BY Zenon, <1>0 DEF SumFunction, SumFunctionOnSet, FoldFunctionOnSet, MapThenFoldSet, SumStep
<1>2. D \in SUBSET D
  OBVIOUS
<1>3. PICK g \in [SUBSET D -> Nat] : IsSum(f, D, g)
  BY <1>2, SumExists
<1>4. g = [s \in SUBSET D |-> SumStep(f, g, s)]
  BY <1>3 DEF IsSum
<1>5. it = [s \in SUBSET D |-> SumStep(f, it, s)]
  BY <1>4
<1> HIDE DEF it
<1>6. IsSum(f, D, it)
  BY <1>5 DEF IsSum
<1>7. it[D] = SumOver(f, D)
  BY <1>2, <1>6, SumIsUnique
<1> QED BY <1>1, <1>7

LEMMA SpaceIsGrouped ==
    ASSUME NEW S, NEW m, m # Absent
    PROVE  InSpace(S, m) \subseteq Grouped(S, Asked)
BY DEF InSpace, Grouped, Text

LEMMA PodsFinite ==
    ASSUME NEW rows, IsFiniteSet(rows)
    PROVE  IsFiniteSet(PodsOf(rows)) /\ Cardinality(PodsOf(rows)) \in Nat
<1> DEFINE f == [r \in rows |-> Text(r, "pod")]
           T == {f[r] : r \in rows}
<1>1. PodsOf(rows) \in SUBSET T
  BY DEF PodsOf
<1>2. IsFiniteSet(T)
  <2>1. rows \subseteq DOMAIN f
    OBVIOUS
  <2> HIDE DEF f
  <2> QED BY <2>1, ImageFinite
<1> HIDE DEF T
<1> QED BY <1>1, <1>2, Smaller

\* A row's numbers are natural ones.
LEMMA RowNumbers ==
    ASSUME NEW S, IsFiniteSet(S), NEW win, NEW w \in WorkloadRows(S, win)
    PROVE  w.count \in Nat /\ w.errors \in Nat /\ Cardinality(w.pods) \in Nat
<1> DEFINE rows == OfKey(S, win, WorkloadKey(w))
<1>1. w.pods = PodsOf(rows) /\ w.count = Cardinality(rows) /\ w.errors = Cardinality(Failed(rows))
  BY RowOfKey
<1>2. rows \in SUBSET S /\ Failed(rows) \in SUBSET rows
  BY DEF OfKey, Grouped, InWindow, Failed
<1> HIDE DEF rows
<1>3. IsFiniteSet(rows) /\ Cardinality(rows) \in Nat /\ Cardinality(Failed(rows)) \in Nat
  BY <1>2, Smaller
<1> QED BY <1>1, <1>3, PodsFinite

LEMMA ListNumbers ==
    ASSUME NEW S, IsFiniteSet(S), NEW win, NEW ws \in Seq(WorkloadRows(S, win))
    PROVE  /\ Len(ws) \in Nat /\ DOMAIN ws = 1..Len(ws)
           /\ Tallied(ws) \in [1..Len(ws) -> Nat] /\ Failing(ws) \in [1..Len(ws) -> Nat]
           /\ Housed(ws) \in [1..Len(ws) -> Nat]
<1>1. Len(ws) \in Nat /\ DOMAIN ws = 1..Len(ws) /\ \A j \in 1..Len(ws) : ws[j] \in WorkloadRows(S, win)
  OBVIOUS
<1>2. \A j \in 1..Len(ws) :
         ws[j].count \in Nat /\ ws[j].errors \in Nat /\ Cardinality(ws[j].pods) \in Nat
  BY <1>1, RowNumbers
<1> QED BY <1>1, <1>2 DEF Tallied, Failing, Housed

\* One more row: the sums stay sums.
LEMMA SumsOneMore ==
    ASSUME NEW S, IsFiniteSet(S), NEW win, NEW w \in WorkloadRows(S, win),
           NEW e, e.workloads \in Seq(WorkloadRows(S, win)), Sums(e), NEW new,
           new.count = e.count + w.count, new.errors = e.errors + w.errors,
           new.pods = e.pods + Cardinality(w.pods), new.workloads = Append(e.workloads, w)
    PROVE  Sums(new)
<1> DEFINE W == WorkloadRows(S, win)
<1>1. PICK ws \in Seq(W), n \in Nat : ws = e.workloads /\ n = Len(ws)
  OBVIOUS
<1>2. PICK vs : vs = new.workloads
  OBVIOUS
<1>3. /\ vs \in Seq(W) /\ Len(vs) = n + 1 /\ vs[n + 1] = w
      /\ \A j \in 1..n : vs[j] = ws[j]
  BY <1>1, <1>2
<1>4. /\ Tallied(ws) \in [1..n -> Nat] /\ Failing(ws) \in [1..n -> Nat] /\ Housed(ws) \in [1..n -> Nat]
      /\ Tallied(vs) \in [1..(n + 1) -> Nat] /\ Failing(vs) \in [1..(n + 1) -> Nat]
      /\ Housed(vs) \in [1..(n + 1) -> Nat]
  <2> HIDE DEF W
  <2> QED BY <1>1, <1>3, ListNumbers DEF W
<1>5. \A j \in 1..n : j \in 1..(n + 1)
  OBVIOUS
<1>6. n + 1 \in 1..(n + 1)
  OBVIOUS
<1>7. \A j \in 1..n : /\ Tallied(vs)[j] = Tallied(ws)[j] /\ Failing(vs)[j] = Failing(ws)[j]
                      /\ Housed(vs)[j] = Housed(ws)[j]
  BY <1>1, <1>3, <1>5 DEF Tallied, Failing, Housed
<1>8. /\ Tallied(vs)[n + 1] = w.count /\ Failing(vs)[n + 1] = w.errors
      /\ Housed(vs)[n + 1] = Cardinality(w.pods)
  BY <1>3, <1>6 DEF Tallied, Failing, Housed
<1>9. /\ SumOver(Tallied(vs), 1..(n + 1)) = SumOver(Tallied(ws), 1..n) + w.count
      /\ SumOver(Failing(vs), 1..(n + 1)) = SumOver(Failing(ws), 1..n) + w.errors
      /\ SumOver(Housed(vs), 1..(n + 1)) = SumOver(Housed(ws), 1..n) + Cardinality(w.pods)
  BY <1>4, <1>7, <1>8, SumAppended
<1>10. /\ e.count = SumOver(Tallied(ws), 1..n) /\ e.errors = SumOver(Failing(ws), 1..n)
       /\ e.pods = SumOver(Housed(ws), 1..n)
  BY <1>1 DEF Sums
<1> QED BY <1>2, <1>3, <1>9, <1>10 DEF Sums

\* One more row at the end.
LEMMA ListsOneMore ==
    ASSUME NEW W, NEW list, NEW m, NEW k \in Nat, NEW ws, Lists(ws, list, W, m, k),
           list[k + 1] \in W, list[k + 1].namespace = m, ~Skipped(list[k + 1]),
           \A i \in 1..k : list[i] # list[k + 1],
           \A i \in 1..k : list[i].namespace = m => list[i].count >= list[k + 1].count
    PROVE  Lists(Append(ws, list[k + 1]), list, W, m, k + 1)
<1>1. PICK w : w = list[k + 1]
  OBVIOUS
<1>2. PICK n \in Nat : n = Len(ws)
  BY DEF Lists
<1>3. PICK vs : vs = Append(ws, w)
  OBVIOUS
<1>4. /\ vs \in Seq(W) /\ Len(vs) = n + 1 /\ vs[n + 1] = w
      /\ \A j \in 1..n : vs[j] = ws[j]
  BY <1>1, <1>2, <1>3 DEF Lists
<1>5. ASSUME NEW j \in 1..(n + 1)
      PROVE  \E i \in 1..(k + 1) : vs[j] = list[i] /\ list[i].namespace = m /\ ~Skipped(list[i])
  <2>1. CASE j = n + 1
    <3>1. k + 1 \in 1..(k + 1)
      OBVIOUS
    <3> QED BY <1>1, <1>4, <2>1, <3>1
  <2>2. CASE j \in 1..n
    <3>1. PICK i \in 1..k : ws[j] = list[i] /\ list[i].namespace = m /\ ~Skipped(list[i])
      BY <1>2, <2>2 DEF Lists
    <3>2. i \in 1..(k + 1)
      OBVIOUS
    <3> QED BY <1>4, <2>2, <3>1, <3>2
  <2>3. j = n + 1 \/ j \in 1..n
    OBVIOUS
  <2> QED BY <2>1, <2>2, <2>3
<1>6. ASSUME NEW i \in 1..(n + 1), NEW j \in 1..(n + 1), i < j
      PROVE  vs[i].count >= vs[j].count /\ vs[i] # vs[j]
  <2>1. i \in 1..n
    BY <1>6
  <2>2. CASE j = n + 1
    <3>1. PICK h \in 1..k : ws[i] = list[h] /\ list[h].namespace = m
      BY <1>2, <2>1 DEF Lists
    <3>2. vs[j] = w /\ vs[i] = list[h]
      BY <1>4, <2>1, <2>2, <3>1
    <3> QED BY <1>1, <3>1, <3>2
  <2>3. CASE j \in 1..n
    <3>1. vs[j] = ws[j] /\ vs[i] = ws[i]
      BY <1>4, <2>1, <2>3
    <3>2. ws[i].count >= ws[j].count /\ ws[i] # ws[j]
      BY <1>2, <1>6, <2>1, <2>3 DEF Lists
    <3> QED BY <3>1, <3>2
  <2>4. j = n + 1 \/ j \in 1..n
    OBVIOUS
  <2> QED BY <2>2, <2>3, <2>4
<1>7. ASSUME NEW i \in 1..(k + 1), list[i].namespace = m, ~Skipped(list[i])
      PROVE  \E j \in 1..(n + 1) : vs[j] = list[i]
  <2>1. CASE i = k + 1
    <3>1. n + 1 \in 1..(n + 1)
      OBVIOUS
    <3> QED BY <1>1, <1>4, <2>1, <3>1
  <2>2. CASE i \in 1..k
    <3>1. PICK j \in 1..n : ws[j] = list[i]
      BY <1>2, <1>7, <2>2 DEF Lists
    <3>2. j \in 1..(n + 1)
      OBVIOUS
    <3> QED BY <1>4, <3>1, <3>2
  <2>3. i = k + 1 \/ i \in 1..k
    OBVIOUS
  <2> QED BY <2>1, <2>2, <2>3
<1>8. /\ \A j \in 1..Len(vs) : \E i \in 1..(k + 1) :
            vs[j] = list[i] /\ list[i].namespace = m /\ ~Skipped(list[i])
      /\ \A i, j \in 1..Len(vs) : i < j => vs[i].count >= vs[j].count /\ vs[i] # vs[j]
  BY <1>4, <1>5, <1>6
<1>9. \A i \in 1..(k + 1) : list[i].namespace = m /\ ~Skipped(list[i]) => \E j \in 1..Len(vs) : vs[j] = list[i]
  BY <1>4, <1>7
<1>10. Lists(vs, list, W, m, k + 1)
  BY Zenon, <1>4, <1>8, <1>9 DEF Lists
<1> QED BY <1>1, <1>3, <1>10

\* A row that is not of the namespace, or skipped, leaves its list as it is.
LEMMA ListsStay ==
    ASSUME NEW W, NEW list, NEW m, NEW k \in Nat, NEW ws, Lists(ws, list, W, m, k),
           Skipped(list[k + 1]) \/ list[k + 1].namespace # m
    PROVE  Lists(ws, list, W, m, k + 1)
<1>1. \A i \in 1..k : i \in 1..(k + 1)
  OBVIOUS
<1>2. ASSUME NEW i \in 1..(k + 1), list[i].namespace = m, ~Skipped(list[i])
      PROVE  \E j \in 1..Len(ws) : ws[j] = list[i]
  <2>1. i # k + 1
    BY <1>2
  <2>2. i \in 1..k
    BY <2>1
  <2> QED BY <1>2, <2>2 DEF Lists
<1>3. \A j \in 1..Len(ws) : \E i \in 1..(k + 1) : ws[j] = list[i] /\ list[i].namespace = m /\ ~Skipped(list[i])
  BY <1>1 DEF Lists
<1> QED BY <1>2, <1>3 DEF Lists

-------------------------------------------------------------------------------
(* The tree adds up: after k rows it has the sums of the rows it lists.      *)

TreeOk(S, win, list, T, k) ==
    /\ Absent \notin DOMAIN T
    /\ \A m : m # Absent =>
          /\ Sums(EntryOf(T, m))
          /\ Lists(EntryOf(T, m).workloads, list, WorkloadRows(S, win), m, k)

LEMMA NothingFolded ==
    ASSUME NEW S, NEW win, NEW list
    PROVE  TreeOk(S, win, list, NoNamespaces, 0)
<1>1. DOMAIN NoNamespaces = {} /\ \A m : EntryOf(NoNamespaces, m) = Zero
  BY DEF NoNamespaces, EntryOf
<1>2. Zero.count = 0 /\ Zero.errors = 0 /\ Zero.pods = 0 /\ Zero.workloads = <<>>
  BY DEF Zero
<1>3. Sums(Zero)
  <2> DEFINE f == [x \in {} |-> 0]
  <2>1. Len(<<>>) = 0 /\ 1..0 = {}
    OBVIOUS
  <2>2. Tallied(<<>>) \in [{} -> Nat] /\ Failing(<<>>) \in [{} -> Nat] /\ Housed(<<>>) \in [{} -> Nat]
    BY <2>1 DEF Tallied, Failing, Housed
  <2>3. {} \in SUBSET {} /\ IsFiniteSet({})
    BY FS_EmptySet
  <2>4. /\ SumOver(Tallied(<<>>), {}) = 0 /\ SumOver(Failing(<<>>), {}) = 0
        /\ SumOver(Housed(<<>>), {}) = 0
    BY <2>2, <2>3, SumFacts
  <2> QED BY <1>2, <2>1, <2>4 DEF Sums
<1>4. ASSUME NEW m PROVE Lists(Zero.workloads, list, WorkloadRows(S, win), m, 0)
  <2>1. <<>> \in Seq(WorkloadRows(S, win)) /\ Len(<<>>) = 0
    OBVIOUS
  <2>2. 1..0 = {}
    OBVIOUS
  <2> QED BY <1>2, <2>1, <2>2 DEF Lists
<1> QED BY <1>1, <1>3, <1>4 DEF TreeOk

LEMMA OneMoreRow ==
    ASSUME NEW S, IsFiniteSet(S), NEW win, NEW list, NEW n \in Nat,
           \A i \in 1..n : list[i] \in WorkloadRows(S, win),
           \A i, j \in 1..n : list[i] = list[j] => i = j,
           \A i, j \in 1..n :
              i < j /\ list[i].namespace = list[j].namespace => list[i].count >= list[j].count,
           NEW k \in Nat, k + 1 \in 1..n, NEW T, TreeOk(S, win, list, T, k)
    PROVE  TreeOk(S, win, list, Folded(T, list[k + 1]), k + 1)
<1> DEFINE w == list[k + 1]
           W == WorkloadRows(S, win)
<1>1. w \in W
  OBVIOUS
<1>2. \A i \in 1..k : i \in 1..n /\ i < k + 1 /\ i # k + 1
  OBVIOUS
<1>3. Absent \notin DOMAIN Folded(T, w)
  <2>1. Absent \notin DOMAIN T
    BY DEF TreeOk
  <2>2. CASE Skipped(w)
    BY <2>1, <2>2, FoldedSkips
  <2>3. CASE ~Skipped(w)
    <3>1. DOMAIN Folded(T, w) = DOMAIN T \cup {w.namespace}
      BY <2>3, FoldedAdds
    <3>2. w.namespace # Absent
      BY <2>3 DEF Skipped
    <3> HIDE DEF w
    <3> QED BY <2>1, <3>1, <3>2
  <2> QED BY <2>2, <2>3
<1>4. ASSUME NEW m, m # Absent
      PROVE  /\ Sums(EntryOf(Folded(T, w), m))
             /\ Lists(EntryOf(Folded(T, w), m).workloads, list, W, m, k + 1)
  <2> DEFINE old == EntryOf(T, m)
             new == EntryOf(Folded(T, w), m)
  <2>1. Sums(old) /\ Lists(old.workloads, list, W, m, k)
    BY <1>4 DEF TreeOk
  <2>2. ASSUME Skipped(w) \/ w.namespace # m
        PROVE  Sums(new) /\ Lists(new.workloads, list, W, m, k + 1)
    <3>1. new = old
      <4> HIDE DEF w
      <4> QED BY <2>2, FoldedElsewhere
    <3>2. Lists(old.workloads, list, W, m, k + 1)
      <4> HIDE DEF old, W
      <4> QED BY <2>1, <2>2, ListsStay
    <3> HIDE DEF old, new, w, W
    <3> QED BY <2>1, <3>1, <3>2
  <2>3. ASSUME ~Skipped(w) /\ w.namespace = m
        PROVE  Sums(new) /\ Lists(new.workloads, list, W, m, k + 1)
    <3>1. /\ new.pods = old.pods + Cardinality(w.pods) /\ new.count = old.count + w.count
          /\ new.errors = old.errors + w.errors /\ new.workloads = Append(old.workloads, w)
      <4>1. old = EntryOf(T, w.namespace) /\ new = EntryOf(Folded(T, w), w.namespace)
        BY <2>3
      <4> HIDE DEF w, old, new
      <4> QED BY <2>3, <4>1, FoldedHere
    <3>2. \A i \in 1..k : list[i] # w /\ (list[i].namespace = m => list[i].count >= w.count)
      BY <1>2, <2>3
    <3>3. Lists(Append(old.workloads, w), list, W, m, k + 1)
      <4> HIDE DEF old, W
      <4> QED BY <1>1, <2>1, <2>3, <3>2, ListsOneMore
    <3>4. old.workloads \in Seq(W)
      BY <2>1 DEF Lists
    <3> HIDE DEF old, new, w
    <3>5. Sums(new)
      BY <1>1, <2>1, <3>1, <3>4, SumsOneMore
    <3> QED BY <3>1, <3>3, <3>5
  <2> QED BY <2>2, <2>3
<1> QED BY <1>3, <1>4 DEF TreeOk

\* The whole list.
LEMMA NamespacesAddUp ==
    ASSUME NEW S, IsFiniteSet(S), NEW win, NEW list \in Ordered(WorkloadRows(S, win))
    PROVE  LET T == Namespaces(list) IN
           /\ Absent \notin DOMAIN T
           /\ \A m : m # Absent =>
                 /\ Sums(EntryOf(T, m))
                 /\ LET ws == EntryOf(T, m).workloads IN
                    /\ ws \in Seq(WorkloadRows(S, win))
                    /\ \A j \in 1..Len(ws) : ws[j].namespace = m /\ ~Skipped(ws[j])
                    /\ \A i, j \in 1..Len(ws) : i < j => ws[i].count >= ws[j].count /\ ws[i] # ws[j]
                    /\ \A w \in WorkloadRows(S, win) : w.namespace = m /\ ~Skipped(w) =>
                          \E j \in 1..Len(ws) : ws[j] = w
<1> DEFINE W == WorkloadRows(S, win)
           n == Cardinality(W)
<1>0. IsFiniteSet(W)
  BY WorkloadsFinite
<1>1. /\ n \in Nat /\ DOMAIN list = 1..n
      /\ \A i \in 1..n : list[i] \in W
      /\ \A i, j \in 1..n : list[i] = list[j] => i = j
      /\ \A w \in W : \E i \in 1..n : list[i] = w
      /\ \A i, j \in 1..n :
            i < j /\ list[i].namespace = list[j].namespace => list[i].count >= list[j].count
  BY <1>0, Listed
<1> HIDE DEF n
<1>2. PICK tree : /\ DOMAIN tree = 0..n /\ tree[0] = NoNamespaces
                  /\ \A k \in 1..n : tree[k] = Folded(tree[k - 1], list[k])
                  /\ tree[n] = Namespaces(list)
  BY <1>1, TreesOf
<1> DEFINE Ok(k) == k <= n => TreeOk(S, win, list, tree[k], k)
<1>3. Ok(0)
  BY <1>2, NothingFolded
<1>4. ASSUME NEW k \in Nat, Ok(k) PROVE Ok(k + 1)
  <2> SUFFICES ASSUME k + 1 <= n PROVE TreeOk(S, win, list, tree[k + 1], k + 1)
    OBVIOUS
  <2>1. k + 1 \in 1..n /\ k <= n /\ (k + 1) - 1 = k
    BY <1>1
  <2>2. tree[k + 1] = Folded(tree[k], list[k + 1])
    BY <1>2, <2>1
  <2>3. TreeOk(S, win, list, tree[k], k)
    BY <1>4, <2>1
  <2>4. TreeOk(S, win, list, Folded(tree[k], list[k + 1]), k + 1)
    BY <1>1, <2>1, <2>3, OneMoreRow
  <2> QED BY <2>2, <2>4
<1> DEFINE N == {k \in Nat : Ok(k)}
<1>5. 0 \in N /\ \A k \in Nat : k \in N => k + 1 \in N
  BY <1>3, <1>4
<1>6. \A k \in Nat : k \in N
  <2> HIDE DEF N
  <2> QED BY <1>5, Induction
<1>7. TreeOk(S, win, list, Namespaces(list), n)
  BY <1>1, <1>2, <1>6
<1>8. ASSUME NEW m, NEW ws, Lists(ws, list, W, m, n)
      PROVE  /\ ws \in Seq(W)
             /\ \A j \in 1..Len(ws) : ws[j].namespace = m /\ ~Skipped(ws[j])
             /\ \A i, j \in 1..Len(ws) : i < j => ws[i].count >= ws[j].count /\ ws[i] # ws[j]
             /\ \A w \in W : w.namespace = m /\ ~Skipped(w) => \E j \in 1..Len(ws) : ws[j] = w
  <2>1. \A j \in 1..Len(ws) : ws[j].namespace = m /\ ~Skipped(ws[j])
    BY <1>8 DEF Lists
  <2>2. \A w \in W : w.namespace = m /\ ~Skipped(w) => \E j \in 1..Len(ws) : ws[j] = w
    BY <1>1, <1>8 DEF Lists
  <2> QED BY <1>8, <2>1, <2>2 DEF Lists
<1> HIDE DEF W
<1> QED BY <1>7, <1>8 DEF TreeOk, W

-------------------------------------------------------------------------------
(* The Kubernetes topology is true.                                          *)

LEMMA NodesAreCounted ==
    ASSUME NEW S, IsFiniteSet(S), NEW win
    PROVE  NodeCount(S, win) \in Nat
<1> DEFINE R == {r \in InWindow(S, win) : Has(r, "node")}
           f == [r \in R |-> Text(r, "node")]
           T == {f[r] : r \in R}
<1>1. IsFiniteSet(R) /\ R \subseteq DOMAIN f
  <2>1. R \in SUBSET S
    BY DEF InWindow
  <2> HIDE DEF R
  <2> QED BY <2>1, Smaller
<1>2. {Text(s, "node") : s \in R} \ {Absent} \in SUBSET T
  OBVIOUS
<1>3. IsFiniteSet(T)
  <2> HIDE DEF f, R
  <2> QED BY <1>1, ImageFinite
<1>4. Cardinality({Text(s, "node") : s \in R} \ {Absent}) \in Nat
  <2> HIDE DEF T, R
  <2> QED BY <1>2, <1>3, Smaller
<1> QED BY <1>4 DEF NodeCount

LEMMA WorkloadIsTrue ==
    ASSUME NEW S, IsFiniteSet(S), NEW win, NEW w \in WorkloadRows(S, win)
    PROVE  w.count >= 1 /\ w.errors \in 0..w.count
<1> DEFINE rows == OfKey(S, win, WorkloadKey(w))
<1>1. rows # {} /\ w.count = Cardinality(rows) /\ w.errors = Cardinality(Failed(rows))
  BY RowOfKey
<1>2. rows \in SUBSET S /\ Failed(rows) \in SUBSET rows
  BY DEF OfKey, Grouped, InWindow, Failed
<1> HIDE DEF rows
<1>3. IsFiniteSet(rows)
  BY <1>2, Smaller
<1>4. PICK c, k : c = Cardinality(rows) /\ k = Cardinality(Failed(rows))
  OBVIOUS
<1>5. c \in Nat /\ c >= 1 /\ k \in Nat /\ k <= c
  BY <1>1, <1>2, <1>3, <1>4, SomeAreCounted, Smaller
<1> QED BY <1>1, <1>4, <1>5

\* Rows of one namespace, the busiest first, none of them twice.
ListHolds(W, n, ws) ==
    /\ \A j \in DOMAIN ws : ws[j] \in W /\ ws[j].namespace = n /\ ~Skipped(ws[j])
    /\ \A i, j \in DOMAIN ws : i < j => ws[i].count >= ws[j].count /\ ws[i] # ws[j]

LEMMA KeyParts ==
    ASSUME NEW r, NEW w
    PROVE  GroupKey(r) = WorkloadKey(w) <=>
              Text(r, "namespace") = w.namespace /\ Workload(r) = w.workload /\ WorkloadKind(r) = w.kind
BY DEF GroupKey, WorkloadKey

LEMMA WorkloadNumbers ==
    ASSUME StoreInv, NEW S \in Snapshots("spans"), NEW w \in WorkloadRows(S, Asked),
           NEW n, n # Absent, w.namespace = n, ~Skipped(w)
    PROVE  WorkloadHolds(n, w)
<1> DEFINE rows == OfKey(S, Asked, WorkloadKey(w))
           before == OfWorkload(held.spans, n, w)
           after == OfWorkload(shown.spans, n, w)
<1>1. w.pods = PodsOf(rows) /\ w.count = Cardinality(rows) /\ w.errors = Cardinality(Failed(rows))
  BY RowOfKey
<1>2. held.spans \subseteq S /\ S \subseteq shown.spans /\ IsFiniteSet(S) /\ IsFiniteSet(shown.spans)
  BY SpanFacts
<1>3. before \subseteq rows
  <2>1. ASSUME NEW r \in before PROVE r \in rows
    <3>1. r \in InSpace(held.spans, n) /\ Workload(r) = w.workload /\ WorkloadKind(r) = w.kind
      BY <2>1 DEF OfWorkload
    <3>2. r \in InSpace(S, n) /\ Text(r, "namespace") = n
      BY <1>2, <3>1 DEF InSpace, InWindow
    <3>3. r \in Grouped(S, Asked)
      BY <3>2, SpaceIsGrouped
    <3>4. GroupKey(r) = WorkloadKey(w)
      BY <3>1, <3>2, KeyParts
    <3> QED BY <3>3, <3>4 DEF OfKey
  <2> QED BY <2>1
<1>4. rows \subseteq after
  <2>1. ASSUME NEW r \in rows PROVE r \in after
    <3>1. r \in Grouped(S, Asked) /\ GroupKey(r) = WorkloadKey(w)
      BY <2>1 DEF OfKey
    <3>2. Text(r, "namespace") = n /\ Workload(r) = w.workload /\ WorkloadKind(r) = w.kind
      BY <3>1, KeyParts
    <3>3. Workload(r) # Absent
      BY <3>2 DEF Skipped
    <3>4. r \in InWindow(shown.spans, Asked)
      BY <1>2, <3>1 DEF Grouped, InWindow
    <3> QED BY <3>2, <3>3, <3>4 DEF OfWorkload, InSpace
  <2> QED BY <2>1
<1>5. IsFiniteSet(rows) /\ IsFiniteSet(after)
  <2>1. rows \in SUBSET S /\ after \in SUBSET shown.spans
    BY DEF OfKey, Grouped, OfWorkload, InSpace, InWindow
  <2> HIDE DEF rows, after
  <2> QED BY <1>2, <2>1, Smaller
<1> HIDE DEF rows, before, after
<1>6. /\ Cardinality(before) <= w.count /\ w.count <= Cardinality(after)
      /\ Cardinality(Failed(before)) <= w.errors /\ w.errors <= Cardinality(Failed(after))
  BY <1>1, <1>3, <1>4, <1>5, MoreIsCounted
<1>7. PodsOf(before) \subseteq w.pods /\ w.pods \subseteq PodsOf(after)
  BY <1>1, <1>3, <1>4 DEF PodsOf
<1> QED BY <1>6, <1>7 DEF WorkloadHolds, before, after

LEMMA RollupsAreTrue ==
    ASSUME StoreInv, MapsInv
    PROVE  RollupsAddUp /\ (Answered("kubernetes") => K8sTopologyResponse(call.answer))
<1> SUFFICES ASSUME Answered("kubernetes")
             PROVE  RollupsAddUp /\ K8sTopologyResponse(call.answer)
  BY DEF RollupsAddUp
<1>1. PICK list, k : /\ WorkloadsAre(list) /\ NodesAre(k)
                     /\ call.answer = [namespaces |-> Namespaces(list), nodes |-> k]
  BY DEF MapsInv, Answered, Live
<1>2. PICK T : T = Namespaces(list)
  OBVIOUS
<1>3. call.answer.namespaces = T /\ call.answer.nodes = k
  BY <1>1, <1>2
<1>4. PICK S \in Snapshots("spans") : list \in Ordered(WorkloadRows(S, Asked))
  BY <1>1 DEF WorkloadsAre
<1>5. IsFiniteSet(S) /\ held.spans \subseteq S
  BY SpanFacts
<1> DEFINE W == WorkloadRows(S, Asked)
           List(n) == EntryOf(T, n).workloads
<1>6. /\ Absent \notin DOMAIN T
      /\ \A m : m # Absent =>
            /\ Sums(EntryOf(T, m))
            /\ List(m) \in Seq(W)
            /\ \A j \in 1..Len(List(m)) : List(m)[j].namespace = m /\ ~Skipped(List(m)[j])
            /\ \A i, j \in 1..Len(List(m)) : i < j =>
                  List(m)[i].count >= List(m)[j].count /\ List(m)[i] # List(m)[j]
            /\ \A w \in W : w.namespace = m /\ ~Skipped(w) =>
                  \E j \in 1..Len(List(m)) : List(m)[j] = w
  BY <1>2, <1>4, <1>5, NamespacesAddUp
<1>7. ASSUME NEW n \in DOMAIN T
      PROVE  n # Absent /\ EntryOf(T, n) = T[n] /\ List(n) = T[n].workloads
  BY <1>6 DEF EntryOf
<1>8. ASSUME NEW n \in DOMAIN T, NEW ws, ws = T[n].workloads
      PROVE  n # Absent /\ DOMAIN ws = 1..Len(ws) /\ ws \in Seq(W) /\ Sums(T[n]) /\ ListHolds(W, n, ws)
  <2>1. ws \in Seq(W) /\ n # Absent /\ EntryOf(T, n) = T[n] /\ List(n) = ws
    BY <1>6, <1>7, <1>8
  <2>2. DOMAIN ws = 1..Len(ws) /\ \A j \in 1..Len(ws) : ws[j] \in W
    <3> HIDE DEF W
    <3> QED BY <2>1
  <2> HIDE DEF W, List
  <2>3. ListHolds(W, n, ws)
    BY <1>6, <2>1, <2>2 DEF ListHolds
  <2> QED BY <1>6, <2>1, <2>2, <2>3
<1>9. ASSUME NEW n \in DOMAIN T, NEW ws, ws = T[n].workloads
      PROVE  /\ T[n].count = SumFunction([j \in DOMAIN ws |-> ws[j].count])
             /\ T[n].errors = SumFunction([j \in DOMAIN ws |-> ws[j].errors])
             /\ T[n].pods = SumFunction([j \in DOMAIN ws |-> Cardinality(ws[j].pods)])
  <2>1. DOMAIN ws = 1..Len(ws) /\ ws \in Seq(W) /\ Sums(T[n])
    BY <1>8, <1>9
  <2>2. /\ Len(ws) \in Nat
        /\ Tallied(ws) \in [1..Len(ws) -> Nat] /\ Failing(ws) \in [1..Len(ws) -> Nat]
        /\ Housed(ws) \in [1..Len(ws) -> Nat]
    BY <1>5, <2>1, ListNumbers
  <2>3. IsFiniteSet(1..Len(ws))
    BY <2>2, FS_Interval
  <2>4. /\ SumFunction(Tallied(ws)) = SumOver(Tallied(ws), 1..Len(ws))
        /\ SumFunction(Failing(ws)) = SumOver(Failing(ws), 1..Len(ws))
        /\ SumFunction(Housed(ws)) = SumOver(Housed(ws), 1..Len(ws))
    BY <2>2, <2>3, SumFunctionIs
  <2>5. /\ Tallied(ws) = [j \in DOMAIN ws |-> ws[j].count]
        /\ Failing(ws) = [j \in DOMAIN ws |-> ws[j].errors]
        /\ Housed(ws) = [j \in DOMAIN ws |-> Cardinality(ws[j].pods)]
    BY <2>1 DEF Tallied, Failing, Housed
  <2>6. /\ T[n].count = SumOver(Tallied(ws), 1..Len(ws)) /\ T[n].errors = SumOver(Failing(ws), 1..Len(ws))
        /\ T[n].pods = SumOver(Housed(ws), 1..Len(ws))
    BY <1>9, <2>1 DEF Sums
  <2> QED BY <2>4, <2>5, <2>6
<1>10. ASSUME NEW n \in DOMAIN T, NEW ws, ws = T[n].workloads,
              NEW i \in DOMAIN ws, NEW j \in DOMAIN ws, i < j
       PROVE  ws[i].count >= ws[j].count /\ (ws[i].workload # ws[j].workload \/ ws[i].kind # ws[j].kind)
  <2>1. ListHolds(W, n, ws)
    BY <1>8, <1>10
  <2>2. PICK v, w : v = ws[i] /\ w = ws[j]
    OBVIOUS
  <2>3. v \in W /\ w \in W /\ v.namespace = n /\ w.namespace = n /\ v.count >= w.count /\ v # w
    <3> HIDE DEF W
    <3> QED BY <1>10, <2>1, <2>2 DEF ListHolds
  <2>4. v = WorkloadRow(S, Asked, WorkloadKey(v)) /\ w = WorkloadRow(S, Asked, WorkloadKey(w))
    BY <2>3, RowOfKey
  <2>5. WorkloadKey(v) # WorkloadKey(w)
    BY <2>3, <2>4
  <2> QED BY <2>2, <2>3, <2>5 DEF WorkloadKey
<1>11. ASSUME NEW n \in DOMAIN T, NEW ws, ws = T[n].workloads, NEW j \in DOMAIN ws
       PROVE  WorkloadHolds(n, ws[j])
  <2>1. PICK w : w = ws[j]
    OBVIOUS
  <2>2. w \in W /\ w.namespace = n /\ ~Skipped(w) /\ n # Absent
    BY <1>8, <1>11, <2>1 DEF ListHolds
  <2>3. WorkloadHolds(n, w)
    BY <2>2, WorkloadNumbers
  <2> QED BY <2>1, <2>3
<1>12. ASSUME NEW r \in InWindow(held.spans, Asked), Text(r, "namespace") # Absent, Workload(r) # Absent
       PROVE  SpanListed(T, r)
  <2>1. PICK n : n = Text(r, "namespace")
    OBVIOUS
  <2>2. r \in InSpace(S, n) /\ n # Absent
    BY <1>5, <1>12, <2>1 DEF InSpace, InWindow
  <2>3. r \in Grouped(S, Asked)
    BY <2>2, SpaceIsGrouped
  <2>4. PICK w \in W : WorkloadKey(w) = GroupKey(r)
    BY <2>3, KeyOfRow
  <2>5. w.namespace = n /\ w.workload = Workload(r) /\ w.kind = WorkloadKind(r) /\ ~Skipped(w)
    BY <1>12, <2>1, <2>2, <2>4, KeyParts DEF Skipped
  <2>6. PICK j \in 1..Len(List(n)) : List(n)[j] = w
    <3> HIDE DEF W, List
    <3> QED BY <1>6, <2>2, <2>5
  <2>7. n \in DOMAIN T
    <3>1. ASSUME n \notin DOMAIN T PROVE FALSE
      <4>1. List(n) = <<>>
        BY <3>1 DEF EntryOf, Zero
      <4>2. Len(List(n)) = 0
        BY <4>1
      <4> HIDE DEF List
      <4> QED BY <2>6, <4>2
    <3> QED BY <3>1
  <2>8. List(n) = T[n].workloads /\ DOMAIN T[n].workloads = 1..Len(T[n].workloads)
    BY <1>7, <1>8, <2>7
  <2> HIDE DEF List
  <2> QED BY <2>1, <2>5, <2>6, <2>7, <2>8 DEF SpanListed
<1> HIDE DEF W, List
<1>13. RollupsAddUp
  <2>1. \A n \in DOMAIN T : NamespaceHolds(n, T[n])
    BY <1>9, <1>10, <1>11 DEF NamespaceHolds
  <2>2. \A r \in InWindow(held.spans, Asked) :
           Text(r, "namespace") # Absent /\ Workload(r) # Absent => SpanListed(T, r)
    BY <1>12
  <2> QED BY <1>3, <2>1, <2>2 DEF RollupsAddUp
<1>14. K8sTopologyResponse(call.answer)
  <2>1. k \in Nat
    <3>1. PICK R \in Snapshots("spans") : k = NodeCount(R, Asked)
      BY <1>1 DEF NodesAre
    <3> QED BY <3>1, SpanFacts, NodesAreCounted
  <2>2. ASSUME NEW n \in DOMAIN T, NEW j \in DOMAIN T[n].workloads
        PROVE  LET w == T[n].workloads[j] IN
               w.workload # Absent /\ w.count >= 1 /\ w.errors \in 0..w.count
    <3>1. T[n].workloads[j] \in W /\ ~Skipped(T[n].workloads[j])
      BY <1>8 DEF ListHolds
    <3> QED BY <1>5, <3>1, WorkloadIsTrue DEF Skipped, W
  <2> QED BY <1>3, <2>1, <2>2 DEF K8sTopologyResponse
<1> QED BY <1>13, <1>14

-------------------------------------------------------------------------------
(* What has been read so far, and the failures.                              *)

Reads == [scalars |-> 1, edges |-> 1, nodes |-> 1, histograms |-> 2, distributions |-> 3,
          stats |-> 4, answered |-> 4]
MostReads(pc) == IF pc \in DOMAIN Reads THEN Reads[pc] ELSE 0

IsList(s) == \E S : s \in Seq(S)

ReadInv ==
    /\ IsList(call.read) /\ Len(call.read) <= MostReads(call.pc)
    /\ faults \in 0..MaxFaults

\* One more result, which is the last of them only after a statement of the same rank.
Longer(c, d) ==
    \/ d.pc = "answered" /\ d.read = c.read
    \/ /\ \E x : d.read = Append(c.read, x)
       /\ \/ MostReads(c.pc) < MostReads(d.pc)
          \/ c.pc = "stats" /\ d.pc = "stats" /\ Len(c.read) + 1 < 5

LEMMA ListGrows ==
    ASSUME NEW s, IsList(s), NEW x
    PROVE  IsList(Append(s, x)) /\ Len(Append(s, x)) = Len(s) + 1 /\ Len(s) \in Nat
<1>1. PICK S : s \in Seq(S)
  BY DEF IsList
<1>2. s \in Seq(S \cup {x})
  BY <1>1
<1>3. Append(s, x) \in Seq(S \cup {x}) /\ Len(Append(s, x)) = Len(s) + 1 /\ Len(s) \in Nat
  BY <1>2, AppendProperties, LenProperties
<1> QED BY <1>3 DEF IsList

LEMMA MostReadsAre ==
    /\ \A pc : MostReads(pc) \in 0..4
    /\ \A pc \in {"series", "services", "workloads"} : MostReads(pc) = 0
    /\ MostReads("scalars") = 1 /\ MostReads("edges") = 1 /\ MostReads("nodes") = 1
    /\ MostReads("histograms") = 2 /\ MostReads("distributions") = 3
    /\ MostReads("stats") = 4 /\ MostReads("answered") = 4
<1>1. DOMAIN Reads = {"scalars", "edges", "nodes", "histograms", "distributions", "stats", "answered"}
  BY DEF Reads
<1>2. /\ Reads["scalars"] = 1 /\ Reads["edges"] = 1 /\ Reads["nodes"] = 1 /\ Reads["histograms"] = 2
      /\ Reads["distributions"] = 3 /\ Reads["stats"] = 4 /\ Reads["answered"] = 4
  BY DEF Reads
<1> QED BY <1>1, <1>2 DEF MostReads

LEMMA ContinueLonger ==
    ASSUME NEW c, IsCall(c), NEW x, NEW n,
           \/ MostReads(c.pc) < MostReads(n)
           \/ c.pc = "stats" /\ n = "stats" /\ Len(c.read) + 1 < 5
    PROVE  Longer(c, Continue(c, x, n))
<1>1. PICK d : d = Continue(c, x, n)
  OBVIOUS
<1>2. d.pc = n /\ d.read = Append(c.read, x)
  BY <1>1, ContinueFields
<1> QED BY <1>1, <1>2 DEF Longer

LEMMA AnswerLonger ==
    ASSUME NEW c, IsCall(c), NEW x, NEW st
    PROVE  Longer(c, Answer(c, st, x))
BY AnswerFields DEF Longer

LEMMA SeriesLonger ==
    ASSUME NEW c, IsCall(c), c.pc = "series", NEW x
    PROVE  Longer(c, SeriesRead(c, x))
<1>1. MostReads(c.pc) < MostReads("scalars")
  BY MostReadsAre
<1> QED BY <1>1, ContinueLonger, AnswerLonger DEF SeriesRead

LEMMA CountsLonger ==
    ASSUME NEW c, IsCall(c), c.pc = "stats", NEW x
    PROVE  Longer(c, Counted(c, x))
<1>1. CASE Len(c.read) + 1 < 5
  <2>1. Counted(c, x) = Continue(c, x, "stats")
    BY <1>1, FiveColumns DEF Counted
  <2> QED BY <1>1, <2>1, ContinueLonger
<1>2. CASE ~(Len(c.read) + 1 < 5)
  <2>1. Counted(c, x) = Answer(c, 200, Append(c.read, x))
    BY <1>2, FiveColumns DEF Counted
  <2> QED BY <2>1, AnswerLonger
<1> QED BY <1>1, <1>2

LEMMA RanLonger ==
    ASSUME CallInv, Ran
    PROVE  \/ Longer(call, call') \/ Longer(Lost(call), call')
<1>1. IsCall(call) /\ call.pc \in Statements
  BY RanReads DEF CallInv
<1>2. CASE StatementFails
  <2> DEFINE c == Lost(call)
  <2>1. IsCall(c) /\ c.pc = call.pc
    BY <1>1, LostFields
  <2>2. call' = AfterFailure(c)
    BY <1>2 DEF StatementFails, Lost
  <2> HIDE DEF c
  <2>3. CASE c.pc = "series"
    BY <2>1, <2>2, <2>3, SeriesLonger DEF AfterFailure, c
  <2>4. CASE c.pc = "stats"
    BY <2>1, <2>2, <2>4, CountsLonger DEF AfterFailure, c
  <2>5. ASSUME c.pc \in {"scalars", "histograms"} PROVE Longer(c, call')
    <3>1. PICK n : /\ call' = Continue(c, {}, n)
                   /\ n = IF c.pc = "scalars" THEN "histograms" ELSE "distributions"
      BY <2>2, <2>5 DEF AfterFailure
    <3>2. MostReads(c.pc) < MostReads(n)
      BY <2>5, <3>1, MostReadsAre
    <3> QED BY <2>1, <3>1, <3>2, ContinueLonger
  <2>6. ASSUME c.pc \notin {"series", "stats", "scalars", "histograms"} PROVE Longer(c, call')
    <3>1. \E st, x : call' = Answer(c, st, x)
      BY <2>2, <2>6 DEF AfterFailure, MetricsRead
    <3> QED BY <2>1, <3>1, AnswerLonger
  <2> QED BY <2>3, <2>4, <2>5, <2>6 DEF c
<1>3. CASE ReadSeries
  BY <1>1, <1>3, SeriesLonger DEF ReadSeries, Reading
<1>4. CASE ReadStats
  BY <1>1, <1>4, CountsLonger DEF ReadStats, Reading
<1>5. CASE ReadScalars \/ ReadHistograms
  <2>1. PICK x, n : /\ call' = Continue(call, x, n) /\ call.pc \in {"scalars", "histograms"}
                    /\ n = IF call.pc = "scalars" THEN "histograms" ELSE "distributions"
    BY <1>5 DEF ReadScalars, ReadHistograms, Reading
  <2>2. MostReads(call.pc) < MostReads(n)
    BY <2>1, MostReadsAre
  <2> QED BY <1>1, <2>1, <2>2, ContinueLonger
<1>6. CASE ReadServices \/ ReadWorkloads
  <2>1. PICK x, n : /\ call' = Continue(call, x, n) /\ call.pc \in {"services", "workloads"}
                    /\ n = IF call.pc = "services" THEN "edges" ELSE "nodes"
    BY <1>6 DEF ReadServices, ReadWorkloads, Reading
  <2>2. MostReads(call.pc) < MostReads(n)
    BY <2>1, MostReadsAre
  <2> QED BY <1>1, <2>1, <2>2, ContinueLonger
<1>7. CASE \/ ReadDistributions \/ ListNames \/ ListSeries \/ QueryLogs \/ QueryTraces \/ ReadEdges
           \/ CountNodes \/ GetTrace
  <2>1. \E st, x : call' = Answer(call, st, x)
    BY <1>7 DEF ReadDistributions, MetricsRead, ListNames, ListSeries, QueryLogs, QueryTraces,
                ReadEdges, CountNodes, GetTrace
  <2> QED BY <1>1, <2>1, AnswerLonger
<1> QED BY <1>2, <1>3, <1>4, <1>5, <1>6, <1>7 DEF Ran, QueryMetrics, ServiceMap, K8sTopology

LEMMA NoReads == IsList(<<>>) /\ Len(<<>>) = 0
<1>1. <<>> \in Seq({}) /\ Len(<<>>) = 0
  OBVIOUS
<1> QED BY <1>1 DEF IsList

LEMMA ReadInit ==
    ASSUME Init PROVE ReadInv
<1>1. call.read = <<>> /\ faults = 0 /\ MaxFaults \in Nat
  BY UnitAssumption DEF Init, Idle
<1> QED BY <1>1, NoReads, MostReadsAre DEF ReadInv

LEMMA FaultsStep ==
    ASSUME ReadInv, [Next]_vars PROVE faults' \in 0..MaxFaults
<1>1. faults \in 0..MaxFaults /\ MaxFaults \in Nat
  BY UnitAssumption DEF ReadInv
<1>2. ASSUME StatementFails PROVE faults' \in 0..MaxFaults
  <2>1. faults < MaxFaults /\ faults' = faults + 1
    BY <1>2 DEF StatementFails
  <2> QED BY <1>1, <2>1
<1>3. ASSUME [Next]_vars, ~StatementFails PROVE faults' = faults
  BY <1>3 DEF Next, vars, Ingest, DropPartition, Receive, QueryMetrics, ReadSeries, ReadScalars,
              ReadHistograms, ReadDistributions, ListNames, ListSeries, QueryLogs, QueryTraces,
              GetTrace, ServiceMap, ReadServices, ReadEdges, K8sTopology, ReadWorkloads, CountNodes,
              ReadStats, Reading, Respond
<1> QED BY <1>1, <1>2, <1>3

LEMMA ReadStep ==
    ASSUME StoreInv, CallInv, ReadInv, [Next]_vars PROVE ReadInv'
<1>1. faults' \in 0..MaxFaults
  BY FaultsStep
<1>2. CASE Aside
  BY <1>1, <1>2 DEF Aside, ReadInv
<1>3. CASE Started
  <2>1. PICK q \in calls : Receive(q)
    BY <1>3 DEF Started
  <2>2. call'.read = <<>>
    BY <2>1 DEF Receive, Idle
  <2> QED BY <1>1, <2>2, NoReads, MostReadsAre DEF ReadInv
<1>4. CASE Ran
  <2>1. PICK c : /\ Longer(c, call') /\ c.read = call.read /\ c.pc = call.pc
    <3>1. IsCall(call)
      BY DEF CallInv
    <3> QED BY <1>4, <3>1, RanLonger, LostFields
  <2>2. PICK n \in Nat : n = Len(call.read) /\ n <= MostReads(c.pc)
    BY <2>1, ListGrows DEF ReadInv
  <2>3. MostReads(c.pc) \in 0..4 /\ MostReads(call'.pc) \in 0..4
    BY MostReadsAre
  <2>4. IsList(call.read)
    BY DEF ReadInv
  <2>5. CASE call'.pc = "answered" /\ call'.read = c.read
    BY <1>1, <2>1, <2>2, <2>3, <2>4, <2>5, MostReadsAre DEF ReadInv
  <2>6. CASE \E x : call'.read = Append(c.read, x)
    <3>1. PICK x : call'.read = Append(call.read, x)
      BY <2>1, <2>6
    <3>2. IsList(call'.read) /\ Len(call'.read) = n + 1
      BY <2>2, <2>4, <3>1, ListGrows
    <3>3. CASE call'.pc = "answered" /\ call'.read = c.read
      BY <2>5, <3>3
    <3>4. CASE MostReads(c.pc) < MostReads(call'.pc)
      BY <1>1, <2>2, <2>3, <3>2, <3>4 DEF ReadInv
    <3>5. CASE call'.pc = "stats" /\ Len(c.read) + 1 < 5
      BY <1>1, <2>1, <2>2, <3>2, <3>5, MostReadsAre DEF ReadInv
    <3> QED BY <2>1, <3>3, <3>4, <3>5 DEF Longer
  <2> QED BY <2>1, <2>5, <2>6 DEF Longer
<1>5. CASE Respond
  <2>1. call'.read = <<>>
    BY <1>5 DEF Respond, Idle
  <2> QED BY <1>1, <2>1, NoReads, MostReadsAre DEF ReadInv
<1> QED BY <1>2, <1>3, <1>4, <1>5, StepKinds

-------------------------------------------------------------------------------
(* The inductive invariant, and what it means.                               *)

QueryInv ==
    /\ StoreInv /\ CallInv /\ ReadInv
    /\ StatsInv /\ LogsInv /\ TracesInv /\ MetricsInv /\ MapsInv

LEMMA QueryInit ==
    ASSUME Init PROVE QueryInv
<1>1. call.pc = "idle"
  BY DEF Init, Idle
<1> QED BY <1>1, StoreInit, CallInit, ReadInit
        DEF QueryInv, StatsInv, LogsInv, TracesInv, MetricsInv, MapsInv, Live

LEMMA QueryStep ==
    ASSUME QueryInv, [Next]_vars PROVE QueryInv'
<1>1. StoreInv' /\ CallInv' /\ ReadInv'
  BY StoreStep, CallStep, ReadStep DEF QueryInv
<1>2. StatsInv' /\ LogsInv' /\ TracesInv' /\ MetricsInv' /\ MapsInv'
  BY <1>1, StatsStep, LogsStep, TracesStep, MetricsStep, MapsStep DEF QueryInv
<1> QED BY <1>1, <1>2 DEF QueryInv

LEMMA QueryTyped ==
    ASSUME QueryInv PROVE TypeOK
<1>1. /\ DOMAIN db = Tables /\ DOMAIN pending = Tables
      /\ \A t \in Tables : held[t] \subseteq shown[t]
  BY DEF QueryInv, StoreInv
<1>2. /\ call.pc \in Statements \cup {"idle", "answered"} /\ call.status \in {200, 400, 404, 500}
      /\ call.pc # "idle" => call.q \in calls
  BY DEF QueryInv, CallInv
<1>3. Len(call.read) <= Len(StatColumns) /\ faults \in 0..MaxFaults
  <2>1. PICK n, m : n = Len(call.read) /\ m = MostReads(call.pc)
    OBVIOUS
  <2>2. n \in Nat /\ n <= m /\ m \in 0..4 /\ faults \in 0..MaxFaults
    BY <2>1, ListGrows, MostReadsAre DEF QueryInv, ReadInv
  <2>3. n <= 5
    BY <2>2
  <2> QED BY <2>1, <2>2, <2>3, FiveColumns
<1>4. /\ Answered("metrics") => \A s \in call.answer : SeriesResult(s)
      /\ Answered("logs") => Cardinality(call.answer) <= LogPage.most
      /\ Answered("traces") => \A t \in call.answer : TraceSummary(t)
      /\ Answered("services") => ServiceMapResponse(call.answer)
      /\ Answered("kubernetes") => K8sTopologyResponse(call.answer)
  BY SeriesResults, LogsAre, TracesAre, ServicesAreTrue, RollupsAreTrue DEF QueryInv
<1> QED BY <1>1, <1>2, <1>3, <1>4 DEF TypeOK

LEMMA AlwaysQueryInv == Spec => []QueryInv
<1>1. Init => QueryInv
  BY QueryInit
<1>2. QueryInv /\ [Next]_vars => QueryInv'
  BY QueryStep
<1> QED BY <1>1, <1>2, PTL DEF Spec

\* Whatever is stored, dropped and failed meanwhile, a call is at a statement of its own
\* handler and its answer is of the form of the response type of src/query.
THEOREM AnswersAreTyped == Spec => []TypeOK
BY QueryTyped, AlwaysQueryInv, PTL

\* admin::stats: each count is between that of the rows there all along and that of the
\* rows there at some time, or 0 where its statement failed.
THEOREM StatsBracketed == Spec => []StatsAreBracketed
<1>1. QueryInv => StatsAreBracketed
  BY StatsAre DEF QueryInv
<1> QED BY <1>1, AlwaysQueryInv, PTL

\* query_logs: only rows that match are returned, and no newer one is left out for them.
THEOREM NewestPage == Spec => []PageIsNewest
<1>1. QueryInv => PageIsNewest
  BY LogsAre DEF QueryInv
<1> QED BY <1>1, AlwaysQueryInv, PTL

\* query_traces: a summary counts the spans of its trace, has its worst status and its
\* root's name, and passes the duration filter even after it was rounded.
THEOREM TrueSummaries == Spec => []SummariesAreTrue
<1>1. QueryInv => SummariesAreTrue
  BY TracesAre DEF QueryInv
<1> QED BY <1>1, AlwaysQueryInv, PTL

\* query_metrics: a histogram is shown with its newest bucket counts.
THEOREM NewestDistribution == Spec => []DistributionIsNewest
<1>1. QueryInv => DistributionIsNewest
  BY NewestAreShown DEF QueryInv
<1> QED BY <1>1, AlwaysQueryInv, PTL

\* query_metrics: buckets leave no data point out and count none twice.
THEOREM BracketedSums == Spec => []SumsAreBracketed
<1>1. QueryInv => SumsAreBracketed
  BY SumsAdd DEF QueryInv
<1> QED BY <1>1, AlwaysQueryInv, PTL

\* service_map: an edge counts the calls between its two services, and no call is
\* without one; a service has its spans' counts and percentiles, none is left out.
THEOREM TrueServiceMap == Spec => []ServiceMapIsTrue
<1>1. QueryInv => ServiceMapIsTrue
  BY ServicesAreTrue DEF QueryInv
<1> QED BY <1>1, AlwaysQueryInv, PTL

\* k8s_topology: folding the sorted rows one after the other leaves each namespace with
\* the sums of the workloads it lists, and lists each workload once with its numbers,
\* however many workloads, scenarios and spans there are.
THEOREM TrueRollups == Spec => []RollupsAddUp
<1>1. QueryInv => RollupsAddUp
  BY RollupsAreTrue DEF QueryInv
<1> QED BY <1>1, AlwaysQueryInv, PTL
==============================================================================
