-------------------------- MODULE MetricTotals_proofs --------------------------
(***************************************************************************)
(* What a counter's stored deltas add up to, for any set of series, any    *)
(* readings and any number of database failures, lost answers and retries: *)
(* never more than the instrument counted, and exactly what it counted     *)
(* when nothing goes wrong.  Both are about one batch at a time (Requests  *)
(* is a singleton) and about a cache that holds every series.              *)
(***************************************************************************)
EXTENDS MetricIngest_proofs

-------------------------------------------------------------------------------
(* Sums of rows.                                                             *)

Val == [p \in Row |-> p.val]
RowsOf(S, k) == {p \in S : p.src = k}

\* The total a query reads is the sum the lemmas on sums are about.
LEMMA StoredTotalIsSum ==
    ASSUME points \subseteq Row, IsFiniteSet(points), NEW k
    PROVE  StoredTotal(k) = SumOver(Val, RowsOf(points, k))
<1> DEFINE S == RowsOf(points, k)
           it == CHOOSE it : it = [s \in SUBSET S |->
                    IF s = {} THEN 0 ELSE LET x == CHOOSE x \in s : TRUE IN x.val + it[s \ {x}]]
<1>1. StoredTotal(k) = it[S]
  BY DEF StoredTotal, MapThenSumSet, MapThenFoldSet, RowsOf
<1>2. S \in SUBSET Row /\ IsFiniteSet(S) /\ Val \in [Row -> Nat]
  BY FS_Subset DEF RowsOf, Val, Row
<1>3. PICK g \in [SUBSET S -> Nat] : IsSum(Val, S, g)
  BY <1>2, SumExists
<1> HIDE DEF S
<1>4. ASSUME NEW s \in SUBSET S, NEW h
      PROVE  SumStep(Val, h, s)
             = IF s = {} THEN 0 ELSE LET x == CHOOSE x \in s : TRUE IN x.val + h[s \ {x}]
  BY <1>2 DEF SumStep, Val
<1>5. g = [s \in SUBSET S |->
              IF s = {} THEN 0 ELSE LET x == CHOOSE x \in s : TRUE IN x.val + g[s \ {x}]]
  BY <1>3, <1>4 DEF IsSum
<1>6. it = [s \in SUBSET S |->
              IF s = {} THEN 0 ELSE LET x == CHOOSE x \in s : TRUE IN x.val + it[s \ {x}]]
  BY <1>5
<1> HIDE DEF it
<1>7. IsSum(Val, S, it)
  BY <1>6, <1>4 DEF IsSum
<1>8. it[S] = SumOver(Val, S)
  BY <1>2, <1>7, SumIsUnique
<1> QED BY <1>1, <1>8 DEF S

SumRows(A, k) == SumOver(Val, RowsOf(A, k))

\* One more row: the total grows by what the row is worth, if it is new and of
\* the series at all.
LEMMA RowSums ==
    ASSUME NEW A \in SUBSET Row, IsFiniteSet(A), NEW k
    PROVE  /\ SumRows(A, k) \in Nat
           /\ \A B \in SUBSET A : SumRows(B, k) \in Nat /\ SumRows(B, k) <= SumRows(A, k)
           /\ \A p \in Row : p.src # k => SumRows(A \cup {p}, k) = SumRows(A, k)
           /\ \A p \in Row : p.src = k =>
                 /\ SumRows(A \cup {p}, k) <= SumRows(A, k) + p.val
                 /\ p \notin A => SumRows(A \cup {p}, k) = SumRows(A, k) + p.val
<1> DEFINE S == RowsOf(A, k)
<1>1. S \in SUBSET Row /\ IsFiniteSet(S) /\ Val \in [Row -> Nat]
  BY FS_Subset DEF RowsOf, Val, Row
<1>2. /\ SumOver(Val, S) \in Nat
      /\ \A T \in SUBSET S : SumOver(Val, T) \in Nat /\ SumOver(Val, T) <= SumOver(Val, S)
      /\ \A y \in Row : y \notin S => SumOver(Val, S \cup {y}) = SumOver(Val, S) + Val[y]
  BY <1>1, SumFacts
<1>3. \A B \in SUBSET A : RowsOf(B, k) \in SUBSET S
  BY DEF RowsOf
<1>4. ASSUME NEW p \in Row, p.src # k PROVE RowsOf(A \cup {p}, k) = S
  BY <1>4 DEF RowsOf
<1>5. ASSUME NEW p \in Row, p.src = k PROVE RowsOf(A \cup {p}, k) = S \cup {p}
  BY <1>5 DEF RowsOf
<1> HIDE DEF S
<1>6. ASSUME NEW p \in Row, p.src = k
      PROVE  /\ SumRows(A \cup {p}, k) <= SumOver(Val, S) + p.val
             /\ p \notin A => SumRows(A \cup {p}, k) = SumOver(Val, S) + p.val
  <2>1. SumRows(A \cup {p}, k) = SumOver(Val, S \cup {p}) /\ p.val \in Nat /\ Val[p] = p.val
    BY <1>5, <1>6 DEF SumRows, Val, Row
  <2>2. CASE p \in S
    <3>1. S \cup {p} = S /\ p \in A
      BY <2>2 DEF S, RowsOf
    <3>2. SumRows(A \cup {p}, k) = SumOver(Val, S)
      BY <2>1, <3>1
    <3> QED BY <1>2, <2>1, <3>1, <3>2
  <2>3. CASE p \notin S
    BY <1>2, <2>1, <2>3
  <2> QED BY <2>2, <2>3
<1> QED BY <1>2, <1>3, <1>4, <1>6 DEF SumRows, S

ScalarsOf(q) == {q.scalars[j] : j \in DOMAIN q.scalars}

\* The rows of a batch are finitely many, and so are those of the table it is
\* written to.
LEMMA BatchRows ==
    ASSUME NEW q \in Request
    PROVE  /\ ScalarsOf(q) \in SUBSET Row /\ IsFiniteSet(ScalarsOf(q))
           /\ \A table : Inserted(table, q.scalars) \subseteq table \cup ScalarsOf(q)
<1>1. q.scalars \in Seq(Row)
  BY DEF Request
<1> DEFINE f == [j \in 1..Len(q.scalars) |-> q.scalars[j]]
<1>2. IsFiniteSet(1..Len(q.scalars))
  BY <1>1, FS_Interval
<1>3. f \in Surjection(1..Len(q.scalars), ScalarsOf(q))
  BY <1>1 DEF Surjection, ScalarsOf
<1>4. IsFiniteSet(ScalarsOf(q))
  <2> HIDE DEF f
  <2> QED BY <1>2, <1>3, FS_Surjection
<1> QED BY <1>1, <1>4 DEF ScalarsOf, Inserted

LEMMA ScalarsAppended ==
    ASSUME NEW q \in Request, NEW p, NEW row, p.scalars = Append(q.scalars, row)
    PROVE  ScalarsOf(p) = ScalarsOf(q) \cup {row}
<1>1. q.scalars \in Seq(Row)
  BY DEF Request
<1> DEFINE a == Append(q.scalars, row)
           n == Len(q.scalars)
<1>2. DOMAIN a = 1..(n + 1) /\ a[n + 1] = row /\ \A j \in 1..n : a[j] = q.scalars[j]
  BY <1>1
<1>3. DOMAIN q.scalars = 1..n /\ n \in Nat
  BY <1>1
<1>4. 1..(n + 1) = 1..n \cup {n + 1}
  BY <1>3
<1> HIDE DEF a, n
<1> QED BY <1>2, <1>3, <1>4 DEF ScalarsOf, a

-------------------------------------------------------------------------------
(* The last readings the cache holds: 0 where there is none, which is what a *)
(* first reading is counted from.                                            *)

Last(c, k) == IF k \in DOMAIN c /\ c[k].last # NoReading THEN c[k].last ELSE 0
Inc(a, b) == IF b >= a THEN b - a ELSE b

LEMMA LastType ==
    ASSUME NEW D, NEW c \in [D -> Entry], NEW k
    PROVE  Last(c, k) \in Nat
BY DEF Last, Entry

\* The conversion counts the increase since the last reading of the cache.
LEMMA DeltaIsInc ==
    ASSUME NEW D, NEW c \in [D -> Entry], NEW k, NEW v \in Nat
    PROVE  Delta(LastReading(c, k), v) = Inc(Last(c, k), v)
BY NoReadingAssumption DEF Delta, LastReading, Last, Inc, Entry

LEMMA TouchLast ==
    ASSUME NEW D \in SUBSET Keys, NEW c \in [D -> Entry], NEW k \in D
    PROVE  DOMAIN Touch(c, k) = D /\ \A m : Last(Touch(c, k), m) = Last(c, m)
<1>1. \A e \in Entry, a \in Nat : Aged(e, a).last = e.last
  BY DEF Aged, Entry
<1>2. c[k].age \in Nat /\ [c[k] EXCEPT !.age = 0].last = c[k].last
  BY DEF Entry
<1>3. DOMAIN Touch(c, k) = D /\ \A x \in D : Touch(c, k)[x].last = c[x].last
  BY <1>1, <1>2 DEF Touch
<1> QED BY <1>3 DEF Last

LEMMA SwapLast ==
    ASSUME NEW D \in SUBSET Keys, NEW c \in [D -> Entry], NEW k \in D, NEW v \in Nat
    PROVE  /\ DOMAIN SwapReading(c, k, v) = D
           /\ \A m : Last(SwapReading(c, k, v), m) = IF m = k THEN v ELSE Last(c, m)
<1> DEFINE t == Touch(c, k)
<1>1. t \in [D -> Entry] /\ \A m : Last(t, m) = Last(c, m)
  BY TouchIds, TouchLast
<1>2. SwapReading(c, k, v) = [t EXCEPT ![k] = [t[k] EXCEPT !.last = v]]
  BY DEF SwapReading
<1> HIDE DEF t
<1>3. [t[k] EXCEPT !.last = v].last = v
  BY <1>1 DEF Entry
<1>4. /\ DOMAIN SwapReading(c, k, v) = D
      /\ \A x \in D : SwapReading(c, k, v)[x].last = IF x = k THEN v ELSE t[x].last
  BY <1>1, <1>2, <1>3
<1>5. \A m : Last(SwapReading(c, k, v), m) = IF m = k THEN v ELSE Last(t, m)
  BY <1>1, <1>4, NoReadingAssumption DEF Last
<1> QED BY <1>1, <1>4, <1>5

\* One request at a time, and a cache that never has to evict.
OneAtATime(r) == Requests = {r} /\ IsFiniteSet(Keys) /\ Cardinality(Keys) <= Capacity

SameLasts(b, c) == \A m : Last(b, m) = Last(c, m)

\* Then a new key pushes nothing out.
LEMMA PutLast ==
    ASSUME NEW r, OneAtATime(r), NEW D \in SUBSET Keys, NEW c \in [D -> Entry],
           NEW k \in Keys, k \notin D, NEW id
    PROVE  /\ DOMAIN PutFresh(c, k, id) = D \cup {k}
           /\ SameLasts(PutFresh(c, k, id), c)
<1>1. Cardinality(D) \in Nat /\ Cardinality(D) < Capacity
  <2>1. IsFiniteSet(D) /\ Cardinality(D) <= Cardinality(Keys) /\ D # Keys
    BY FS_Subset DEF OneAtATime
  <2>2. Cardinality(D) # Cardinality(Keys)
    BY <2>1, FS_Subset DEF OneAtATime
  <2>3. Cardinality(D) \in Nat /\ Cardinality(Keys) \in Nat
    BY <2>1, FS_CardinalityType DEF OneAtATime
  <2> QED BY <2>1, <2>2, <2>3, CapacityAssumption DEF OneAtATime
<1> DEFINE n == Cardinality(D)
           p == PutFresh(c, k, id)
<1>2. Kept(c, k) = D
  BY <1>1 DEF Kept
<1>3. \A e \in Entry : Aged(e, n).last = e.last
  BY DEF Aged, Entry
<1>4. /\ DOMAIN p = D \cup {k} /\ p[k].last = NoReading
      /\ \A x \in D : p[x] = Aged(c[x], n)
  BY <1>2 DEF PutFresh
<1>5. \A x \in D : p[x].last = c[x].last
  BY <1>3, <1>4
<1> HIDE DEF p, n
<1> QED BY <1>4, <1>5 DEF SameLasts, Last, p

-------------------------------------------------------------------------------
(* The steps, told apart by what they do to the data points: those of the    *)
(* batch from the i-th on are still to be converted, the scalars before them *)
(* are on their way to the table.                                            *)

Filling == {"point", "insert", "select", "value"}
Storing == {"histograms", "ok"}

\* What the handler knows of the cache from the look-up on, no other request
\* being there to change it.
PlaceInv(r) ==
    /\ req[r].pc = "idle" => req[r] = Idle
    /\ req[r].pc \in {"insert", "select"} => Current(r).key \notin DOMAIN cache
    /\ req[r].pc = "value" => Current(r).key \in DOMAIN cache

LastsKept == \A m : Last(cache', m) = Last(cache, m)

\* The handler is busy with something else.
Moves(r) ==
    /\ req'[r].batch = req[r].batch /\ req'[r].i = req[r].i /\ req'[r].scalars = req[r].scalars
    /\ UNCHANGED <<points, exporter>> /\ LastsKept
    /\ \/ req[r].pc \in Filling /\ req'[r].pc \in Filling
       \/ req[r].pc \in Storing /\ req'[r].pc \in Storing
       \/ req'[r].pc = "unavailable" /\ (faults' # 0 \/ InsertCollides(r))

\* It is done with a data point that is no reading of a counter, or too old.
Skips(r) ==
    /\ req[r].pc \in Filling /\ req'[r].pc = "point"
    /\ req[r].i \in 1..Len(req[r].batch)
    /\ \/ Kind[Current(r).key] # "counter"
       \/ Current(r).cum = NoReading
       \/ ~InWindow(Current(r).ts)
    /\ req'[r].batch = req[r].batch /\ req'[r].i = req[r].i + 1
    /\ \/ req'[r].scalars = req[r].scalars
       \/ \E row \in Row :
             /\ Kind[row.src] # "counter" /\ row.ts = Current(r).ts
             /\ req'[r].scalars = Append(req[r].scalars, row)
    /\ UNCHANGED <<points, exporter>> /\ LastsKept

\* It converts a counter's reading.
Counts(r) ==
    LET k == Current(r).key
        v == Current(r).cum
    IN
    /\ req[r].pc \in Filling /\ req'[r].pc = "point"
    /\ req[r].i \in 1..Len(req[r].batch)
    /\ Kind[k] = "counter" /\ v \in Nat
    /\ req'[r].batch = req[r].batch /\ req'[r].i = req[r].i + 1
    /\ \E row \in Row :
          /\ row.src = k /\ row.ts = Current(r).ts /\ row.val = Inc(Last(cache, k), v)
          /\ req'[r].scalars = Append(req[r].scalars, row)
    /\ UNCHANGED <<points, exporter>>
    /\ \A m : Last(cache', m) = IF m = k THEN v ELSE Last(cache, m)

\* It writes the rows it has collected.
Writes(r) ==
    /\ req[r].pc \in Filling /\ req[r].i > Len(req[r].batch) /\ req'[r].pc \in Storing
    /\ points' = Inserted(points, req[r].scalars)
    /\ req'[r].batch = req[r].batch /\ req'[r].i = req[r].i /\ req'[r].scalars = req[r].scalars
    /\ UNCHANGED exporter /\ LastsKept

\* The batch starts again, or the exporter is done with it.
Returns(r, batch) ==
    /\ req'[r].batch = batch /\ req'[r].i = 1 /\ req'[r].scalars = <<>>
    /\ \/ batch = req[r].batch /\ req[r].pc = "unavailable" /\ req'[r].pc = "point"
       \/ batch = <<>> /\ req[r].pc \in {"unavailable", "ok"} /\ req'[r].pc = "idle"
    /\ UNCHANGED <<points, exporter>> /\ LastsKept

LEMMA ConvertKinds ==
    ASSUME NEW r, OneAtATime(r), TypeInv, PlaceInv(r), Convert(r)
    PROVE  (Skips(r) \/ Counts(r)) /\ PlaceInv(r)'
<1> DEFINE q == req[r]
           k == Current(r).key
           v == Current(r).cum
<1>1. q \in Request /\ r \in Requests /\ req \in [Requests -> Request]
  BY DEF TypeInv, TypeOK, OneAtATime
<1>2. PICK D \in SUBSET Keys : cache \in [D -> Entry]
  BY DEF TypeInv, TypeOK
<1>3. /\ q.pc \in Filling /\ q.i \in 1..Len(q.batch) /\ k \in Keys /\ Current(r).ts \in Int
      /\ v \in Nat \cup {NoReading}
  <2>1. AtPoint(r) \/ q.pc = "value"
    BY DEF Convert, Reject, RejectValueless, PushCounter, PushRaw, PushHistogram
  <2> QED BY <1>1, <2>1, CurrentType DEF AtPoint, Filling
<1> DEFINE n == NextPoint(q)
<1>4. /\ n \in Request /\ n.pc = "point" /\ n.batch = q.batch /\ n.i = q.i + 1
      /\ n.scalars = q.scalars
  BY <1>1, NextPointTypes DEF NextPoint, Request
<1>5. \A p \in Request : p.pc = "point" /\ req'[r] = p => PlaceInv(r)'
  BY DEF PlaceInv
<1> HIDE DEF n
<1>6. CASE Reject(r) \/ RejectValueless(r)
  <2> DEFINE p == [n EXCEPT !.rejected = @ + 1]
  <2>1. /\ req'[r] = p /\ p \in Request /\ p.pc = "point" /\ p.batch = q.batch /\ p.i = q.i + 1
        /\ p.scalars = q.scalars
    <3>1. req'[r] = p
      BY <1>1, <1>6 DEF Reject, RejectValueless, n
    <3>2. n.rejected + 1 \in Nat
      BY <1>4 DEF Request
    <3> QED BY <3>1, <3>2, <1>4 DEF Request
  <2> HIDE DEF p
  <2>2. Kind[k] # "counter" \/ v = NoReading \/ ~InWindow(Current(r).ts)
    BY <1>6 DEF Reject, RejectValueless, Acceptable
  <2>3. UNCHANGED <<points, exporter>> /\ LastsKept
    BY <1>6 DEF Reject, RejectValueless, database, LastsKept
  <2> QED BY <1>3, <1>5, <2>1, <2>2, <2>3 DEF Skips
<1>7. CASE PushRaw(r) \/ PushHistogram(r)
  <2>1. /\ q.pc = "value" /\ Kind[k] # "counter"
        /\ UNCHANGED <<points, exporter>> /\ LastsKept
    BY <1>7 DEF PushRaw, PushHistogram, database, LastsKept
  <2>2. \A x \in Nat : RowOf(r, x) \in Row /\ RowOf(r, x).src = k /\ RowOf(r, x).ts = Current(r).ts
    BY <1>1, <2>1, RowType DEF RowOf
  <2>3. CASE PushRaw(r)
    <3> DEFINE row == RowOf(r, v)
               p == [n EXCEPT !.scalars = Append(@, row)]
    <3>1. row \in Row /\ row.src = k /\ row.ts = Current(r).ts
      BY <1>3, <2>2, <2>3 DEF PushRaw
    <3> HIDE DEF row
    <3>2. /\ req'[r] = p /\ p \in Request /\ p.pc = "point" /\ p.batch = q.batch /\ p.i = q.i + 1
          /\ p.scalars = Append(q.scalars, row)
      <4>1. req'[r] = p
        BY <1>1, <2>3 DEF PushRaw, row, n
      <4>2. Append(n.scalars, row) \in Seq(Row)
        BY <1>4, <3>1 DEF Request
      <4> QED BY <4>1, <4>2, <1>4 DEF Request
    <3> HIDE DEF p
    <3> QED BY <1>3, <1>5, <2>1, <3>1, <3>2 DEF Skips
  <2>4. CASE PushHistogram(r)
    <3> DEFINE x == IF v = NoReading THEN 0 ELSE v
               row == RowOf(r, x)
               p == [n EXCEPT !.histos = Append(@, row)]
    <3>1. row \in Row
      BY <1>3, <2>2
    <3> HIDE DEF row
    <3>2. /\ req'[r] = p /\ p \in Request /\ p.pc = "point" /\ p.batch = q.batch /\ p.i = q.i + 1
          /\ p.scalars = q.scalars
      <4>1. req'[r] = p
        BY <1>1, <2>4 DEF PushHistogram, row, n
      <4>2. Append(n.histos, row) \in Seq(Row)
        BY <1>4, <3>1 DEF Request
      <4> QED BY <4>1, <4>2, <1>4 DEF Request
    <3> HIDE DEF p
    <3> QED BY <1>3, <1>5, <2>1, <3>2 DEF Skips
  <2> QED BY <1>7, <2>3, <2>4
<1>8. CASE PushCounter(r)
  <2>1. /\ q.pc = "value" /\ Kind[k] = "counter" /\ v \in Nat /\ k \in D
        /\ UNCHANGED <<points, exporter>>
    BY <1>2, <1>3, <1>8 DEF PushCounter, PlaceInv, database
  <2> DEFINE d == Delta(LastReading(cache, k), v)
             row == RowOf(r, d)
             p == [n EXCEPT !.scalars = Append(@, row)]
  <2>2. d = Inc(Last(cache, k), v) /\ d \in Nat
    BY <1>2, <2>1, DeltaIsInc, LastType DEF Inc
  <2> HIDE DEF d
  <2>3. row \in Row /\ row.src = k /\ row.ts = Current(r).ts /\ row.val = Inc(Last(cache, k), v)
    BY <1>1, <2>1, <2>2, RowType DEF RowOf
  <2> HIDE DEF row
  <2>4. /\ req'[r] = p /\ p \in Request /\ p.pc = "point" /\ p.batch = q.batch /\ p.i = q.i + 1
        /\ p.scalars = Append(q.scalars, row)
    <3>1. req'[r] = p
      BY <1>1, <1>8 DEF PushCounter, row, d, n
    <3>2. Append(n.scalars, row) \in Seq(Row)
      BY <1>4, <2>3 DEF Request
    <3> QED BY <3>1, <3>2, <1>4 DEF Request
  <2> HIDE DEF p
  <2>5. \A m : Last(cache', m) = IF m = k THEN v ELSE Last(cache, m)
    BY <1>2, <1>8, <2>1, SwapLast DEF PushCounter
  <2> QED BY <1>3, <1>5, <2>1, <2>3, <2>4, <2>5 DEF Counts
<1> QED BY <1>6, <1>7, <1>8 DEF Convert

\* A step after which the request is elsewhere, with the same data points.
LEMMA ResolveKinds ==
    ASSUME NEW r, OneAtATime(r), TypeInv, PlaceInv(r), Resolve(r)
    PROVE  Moves(r) /\ PlaceInv(r)'
<1> DEFINE q == req[r]
           k == Current(r).key
<1>1. q \in Request /\ r \in Requests /\ req \in [Requests -> Request]
  BY DEF TypeInv, TypeOK, OneAtATime
<1>2. PICK D \in SUBSET Keys : cache \in [D -> Entry]
  BY DEF TypeInv, TypeOK
<1>3. k \in Keys
  <2>1. AtPoint(r) \/ q.pc \in {"insert", "select", "value"}
    BY DEF Resolve, LookupHit, LookupMiss, InsertSeries, InsertCollides, SelectSeries
  <2> QED BY <1>1, <2>1, CurrentType
<1>4. ASSUME NEW p, req'[r] = p, p.batch = q.batch, p.i = q.i
      PROVE  Current(r)' = Current(r)
  BY <1>4 DEF Current
<1>5. CASE LookupHit(r)
  <2> DEFINE p == [q EXCEPT !.pc = "value", !.sid = cache[k].id]
  <2>1. /\ req'[r] = p /\ p.pc = "value" /\ p.batch = q.batch /\ p.i = q.i /\ p.scalars = q.scalars
        /\ q.pc = "point" /\ k \in D
    BY <1>1, <1>2, <1>5 DEF LookupHit, AtPoint, Request
  <2>2. DOMAIN cache' = D /\ LastsKept
    BY <1>2, <1>5, <2>1, TouchLast DEF LookupHit, LastsKept
  <2> HIDE DEF p
  <2>3. PlaceInv(r)'
    BY <1>4, <2>1, <2>2 DEF PlaceInv
  <2> QED BY <1>5, <2>1, <2>2, <2>3 DEF Moves, LookupHit, database, Filling
<1>6. CASE LookupMiss(r)
  <2> DEFINE p == [q EXCEPT !.pc = "insert"]
  <2>1. /\ req'[r] = p /\ p.pc = "insert" /\ p.batch = q.batch /\ p.i = q.i /\ p.scalars = q.scalars
        /\ q.pc = "point" /\ k \notin DOMAIN cache /\ UNCHANGED <<points, exporter, cache>>
    BY <1>1, <1>6 DEF LookupMiss, AtPoint, Request, database
  <2> HIDE DEF p
  <2>2. PlaceInv(r)'
    BY <1>4, <2>1 DEF PlaceInv
  <2> QED BY <2>1, <2>2 DEF Moves, Filling, LastsKept
<1>7. CASE InsertSeries(r)
  <2> DEFINE p == [q EXCEPT !.pc = "select"]
  <2>1. /\ req'[r] = p /\ p.pc = "select" /\ p.batch = q.batch /\ p.i = q.i /\ p.scalars = q.scalars
        /\ q.pc = "insert" /\ UNCHANGED <<points, exporter, cache>>
    BY <1>1, <1>7 DEF InsertSeries, Request
  <2> HIDE DEF p
  <2>2. PlaceInv(r)'
    BY <1>4, <2>1 DEF PlaceInv
  <2> QED BY <2>1, <2>2 DEF Moves, Filling, LastsKept
<1>8. CASE InsertCollides(r)
  <2> DEFINE p == [q EXCEPT !.pc = "unavailable"]
  <2>1. /\ req'[r] = p /\ p.pc = "unavailable" /\ p.batch = q.batch /\ p.i = q.i
        /\ p.scalars = q.scalars /\ UNCHANGED <<points, exporter, cache>>
    BY <1>1, <1>8 DEF InsertCollides, Request, database
  <2> HIDE DEF p
  <2> QED BY <1>8, <2>1 DEF Moves, LastsKept, PlaceInv
<1>9. CASE SelectSeries(r)
  <2> DEFINE p == [q EXCEPT !.pc = "value", !.sid = ResolvedId(k)]
  <2>1. /\ req'[r] = p /\ p.pc = "value" /\ p.batch = q.batch /\ p.i = q.i /\ p.scalars = q.scalars
        /\ q.pc = "select" /\ k \in Keys \ D
    BY <1>1, <1>2, <1>3, <1>9 DEF SelectSeries, Request, PlaceInv
  <2>2. DOMAIN cache' = D \cup {k} /\ LastsKept
    <3>1. cache' = PutFresh(cache, k, ResolvedId(k))
      BY <1>9 DEF SelectSeries
    <3>2. k \in Keys /\ k \notin D
      BY <2>1
    <3> DEFINE id == ResolvedId(k)
    <3> HIDE DEF k, q, p, id
    <3>3. /\ DOMAIN PutFresh(cache, k, id) = D \cup {k}
          /\ SameLasts(PutFresh(cache, k, id), cache)
      BY <1>2, <3>2, PutLast
    <3> QED BY <3>1, <3>3 DEF LastsKept, SameLasts, id
  <2> HIDE DEF p
  <2>3. PlaceInv(r)'
    BY <1>4, <2>1, <2>2 DEF PlaceInv
  <2> QED BY <1>9, <2>1, <2>2, <2>3 DEF Moves, SelectSeries, database, Filling
<1> QED BY <1>5, <1>6, <1>7, <1>8, <1>9 DEF Resolve

LEMMA OtherKinds ==
    ASSUME NEW r, OneAtATime(r), TypeInv, PlaceInv(r)
    PROVE  /\ WriteScalars(r) => Writes(r) /\ PlaceInv(r)'
           /\ WriteHistograms(r) \/ DbFails(r) \/ LoseReply(r) => Moves(r) /\ PlaceInv(r)'
           /\ Respond(r) \/ GiveUp(r) => Returns(r, <<>>) /\ PlaceInv(r)'
           /\ Retry(r) => Returns(r, req[r].batch) /\ PlaceInv(r)'
           /\ Post(r) => PlaceInv(r)'
<1> DEFINE q == req[r]
<1>1. q \in Request /\ r \in Requests /\ req \in [Requests -> Request] /\ faults \in Nat
  BY DEF TypeInv, TypeOK, OneAtATime
<1>2. \A pc : /\ [q EXCEPT !.pc = pc].pc = pc /\ [q EXCEPT !.pc = pc].batch = q.batch
              /\ [q EXCEPT !.pc = pc].i = q.i /\ [q EXCEPT !.pc = pc].scalars = q.scalars
  BY <1>1 DEF Request
<1>3. \A b : /\ [Idle EXCEPT !.pc = "point", !.batch = b].pc = "point"
             /\ [Idle EXCEPT !.pc = "point", !.batch = b].batch = b
             /\ [Idle EXCEPT !.pc = "point", !.batch = b].i = 1
             /\ [Idle EXCEPT !.pc = "point", !.batch = b].scalars = <<>>
  BY DEF Idle
<1>4. Idle.pc = "idle" /\ Idle.batch = <<>> /\ Idle.i = 1 /\ Idle.scalars = <<>>
  BY DEF Idle
<1>5. ASSUME WriteScalars(r) PROVE Writes(r) /\ PlaceInv(r)'
  <2>1. req'[r] = [q EXCEPT !.pc = "histograms"]
    BY <1>1, <1>5 DEF WriteScalars
  <2>2. req'[r].pc = "histograms" /\ req'[r].batch = q.batch /\ req'[r].i = q.i
        /\ req'[r].scalars = q.scalars
    BY <1>2, <2>1
  <2> QED BY <1>5, <2>2 DEF WriteScalars, BatchRead, Writes, PlaceInv, LastsKept, Filling, Storing
<1>6. ASSUME WriteHistograms(r) PROVE Moves(r) /\ PlaceInv(r)'
  <2>1. req'[r] = [q EXCEPT !.pc = "ok"]
    BY <1>1, <1>6 DEF WriteHistograms
  <2>2. req'[r].pc = "ok" /\ req'[r].batch = q.batch /\ req'[r].i = q.i
        /\ req'[r].scalars = q.scalars
    BY <1>2, <2>1
  <2> QED BY <1>6, <2>2 DEF WriteHistograms, Moves, PlaceInv, LastsKept, Storing
<1>7. ASSUME DbFails(r) \/ LoseReply(r) PROVE Moves(r) /\ PlaceInv(r)'
  <2>1. req'[r] = [q EXCEPT !.pc = "unavailable"] /\ UNCHANGED <<points, exporter, cache>>
    BY <1>1, <1>7 DEF DbFails, LoseReply, database
  <2>2. req'[r].pc = "unavailable" /\ req'[r].batch = q.batch /\ req'[r].i = q.i
        /\ req'[r].scalars = q.scalars
    BY <1>2, <2>1
  <2>3. faults' # 0
    BY <1>1, <1>7 DEF DbFails, LoseReply, Fault
  <2> QED BY <2>1, <2>2, <2>3 DEF Moves, PlaceInv, LastsKept
<1>8. ASSUME Respond(r) \/ GiveUp(r) PROVE Returns(r, <<>>) /\ PlaceInv(r)'
  <2>1. /\ req'[r] = Idle /\ UNCHANGED <<points, exporter, cache>>
        /\ q.pc \in {"ok", "unavailable"}
    BY <1>1, <1>8 DEF Respond, GiveUp, database
  <2> QED BY <1>4, <2>1 DEF Returns, PlaceInv, LastsKept
<1>9. ASSUME Retry(r) PROVE Returns(r, q.batch) /\ PlaceInv(r)'
  <2>1. /\ req'[r] = [Idle EXCEPT !.pc = "point", !.batch = q.batch]
        /\ UNCHANGED <<points, exporter, cache>> /\ q.pc = "unavailable"
    BY <1>1, <1>9 DEF Retry, database
  <2>2. /\ req'[r].batch = q.batch /\ req'[r].i = 1 /\ req'[r].scalars = <<>>
        /\ req'[r].pc = "point"
    BY <1>3, <2>1
  <2> QED BY <2>1, <2>2 DEF Returns, PlaceInv, LastsKept
<1>10. ASSUME Post(r) PROVE PlaceInv(r)'
  <2>1. req'[r].pc = "point"
    BY <1>1, <1>3, <1>10 DEF Post
  <2> QED BY <2>1 DEF PlaceInv
<1> QED BY <1>5, <1>6, <1>7, <1>8, <1>9, <1>10

\* Every step is one of these, or the restart after which nothing is claimed.
LEMMA StepKinds ==
    ASSUME NEW r, OneAtATime(r), TypeInv, PlaceInv(r), [Next]_vars
    PROVE  /\ PlaceInv(r)'
           /\ \/ restarts' # 0
              \/ UNCHANGED vars
              \/ \E k \in Keys, v \in Readings : Sample(k, v)
              \/ Post(r)
              \/ Moves(r) \/ Skips(r) \/ Counts(r) \/ Writes(r)
              \/ Returns(r, <<>>) \/ Returns(r, req[r].batch)
<1>1. r \in Requests /\ \A x \in Requests : x = r
  BY DEF OneAtATime
<1>2. ASSUME NEW k \in Keys, NEW v \in Readings, Sample(k, v) PROVE PlaceInv(r)'
  BY <1>2 DEF Sample, PlaceInv, Current
<1>3. CASE \E k \in Keys, v \in Readings : Sample(k, v)
  BY <1>2, <1>3
<1>4. CASE \E x \in Requests :
              Post(x) \/ Retry(x) \/ GiveUp(x) \/ Handler(x) \/ DbFails(x) \/ LoseReply(x)
  <2>1. Post(r) \/ Retry(r) \/ GiveUp(r) \/ Handler(r) \/ DbFails(r) \/ LoseReply(r)
    BY <1>1, <1>4
  <2>2. CASE Post(r)
    BY <2>2, OtherKinds
  <2>3. CASE Retry(r)
    BY <2>3, OtherKinds
  <2>4. CASE GiveUp(r)
    BY <2>4, OtherKinds
  <2>5. CASE DbFails(r) \/ LoseReply(r)
    BY <2>5, OtherKinds
  <2>6. CASE Resolve(r)
    BY <2>6, ResolveKinds
  <2>7. CASE Convert(r)
    BY <2>7, ConvertKinds
  <2>8. CASE Store(r)
    BY <2>8, OtherKinds DEF Store
  <2> QED BY <2>1, <2>2, <2>3, <2>4, <2>5, <2>6, <2>7, <2>8 DEF Handler
<1>5. CASE Restart
  <2>1. restarts' # 0
    BY <1>5 DEF Restart, TypeInv, TypeOK
  <2>2. PlaceInv(r)'
    <3>1. req[r] \in Request
      BY <1>1 DEF TypeInv, TypeOK
    <3>2. CASE req[r].pc \in InServer
      <4>1. req'[r] = [req[r] EXCEPT !.pc = "unavailable"]
        BY <1>1, <1>5, <3>2 DEF Restart
      <4>2. req'[r].pc = "unavailable"
        BY <3>1, <4>1 DEF Request
      <4> QED BY <4>2 DEF PlaceInv
    <3>3. CASE req[r].pc \notin InServer
      <4>1. req'[r] = req[r]
        BY <1>1, <1>5, <3>3 DEF Restart
      <4> QED BY <3>3, <4>1 DEF PlaceInv, InServer
    <3> QED BY <3>2, <3>3
  <2> QED BY <2>1, <2>2
<1>6. CASE UNCHANGED vars
  BY <1>6 DEF vars, PlaceInv, Current
<1> QED BY <1>3, <1>4, <1>5, <1>6 DEF Next

LEMMA InitialPlace == ASSUME NEW r, OneAtATime(r), Init PROVE PlaceInv(r)
BY DEF Init, OneAtATime, PlaceInv, Idle

-------------------------------------------------------------------------------
(* Never more than was counted, whatever fails.                              *)

LEMMA IncFacts ==
    ASSUME NEW a \in Nat, NEW b \in Nat, NEW c \in Nat
    PROVE  Inc(a, b) \in Nat /\ Inc(a, a) = 0 /\ Inc(a, c) <= Inc(a, b) + Inc(b, c)
BY DEF Inc

\* The readings of k among the data points of s from the lo-th on; in a batch
\* with one data point of a series there is one of them at most.
At(s, lo, k) == {n \in DOMAIN s : n >= lo /\ s[n].key = k /\ s[n].cum # NoReading}
Sparse(s) == \A m, n \in DOMAIN s : s[m].key = s[n].key => m = n

Sole(S) == CHOOSE n \in S : TRUE

\* The last reading once they are converted, l being the last one before.
After(l, s, lo, k) == IF At(s, lo, k) = {} THEN l ELSE s[Sole(At(s, lo, k))].cum

LEMMA AfterType ==
    ASSUME NEW s \in Seq(DataPoint), NEW l \in Nat, NEW lo, NEW k
    PROVE  After(l, s, lo, k) \in Nat
<1>1. \A n \in DOMAIN s : s[n] \in DataPoint
  OBVIOUS
<1>2. \A n \in At(s, lo, k) : s[n].cum \in Nat
  BY <1>1, ReadingAssumption DEF At, DataPoint
<1>3. At(s, lo, k) # {} => Sole(At(s, lo, k)) \in At(s, lo, k)
  BY DEF Sole
<1> QED BY <1>2, <1>3 DEF After

LEMMA AfterReading ==
    ASSUME NEW s, Sparse(s), NEW lo, NEW k, NEW n \in At(s, lo, k), NEW l
    PROVE  After(l, s, lo, k) = s[n].cum
<1>1. \A m \in At(s, lo, k) : m = n
  BY DEF At, Sparse
<1>2. Sole(At(s, lo, k)) \in At(s, lo, k)
  BY DEF Sole
<1> QED BY <1>1, <1>2 DEF After

LEMMA AfterNext ==
    ASSUME NEW s \in Seq(DataPoint), Sparse(s), NEW lo \in DOMAIN s, NEW k, NEW l
    PROVE  /\ lo \notin At(s, lo, k) => After(l, s, lo + 1, k) = After(l, s, lo, k)
           /\ lo \in At(s, lo, k) => After(l, s, lo + 1, k) = l
<1>1. At(s, lo + 1, k) = At(s, lo, k) \ {lo}
  BY DEF At
<1>2. lo \in At(s, lo, k) => At(s, lo + 1, k) = {}
  BY <1>1 DEF At, Sparse
<1>3. lo \notin At(s, lo, k) => At(s, lo + 1, k) = At(s, lo, k)
  BY <1>1
<1> QED BY <1>2, <1>3 DEF After

LEMMA AfterNone ==
    ASSUME NEW s, NEW lo, NEW k, NEW l, \A n \in DOMAIN s : ~(n >= lo)
    PROVE  After(l, s, lo, k) = l
BY DEF After, At

LEMMA AfterAppend ==
    ASSUME NEW s \in Seq(DataPoint), NEW d \in DataPoint, NEW k, NEW l
    PROVE  LET t == Append(s, d) IN
           /\ ~(d.key = k /\ d.cum # NoReading) => After(l, t, 1, k) = After(l, s, 1, k)
           /\ Sparse(t) /\ d.key = k /\ d.cum # NoReading =>
                 After(l, t, 1, k) = d.cum /\ After(l, s, 1, k) = l
<1> DEFINE t == Append(s, d)
           N == Len(s)
<1>1. /\ DOMAIN s = 1..N /\ DOMAIN t = 1..(N + 1) /\ t[N + 1] = d /\ N \in Nat
      /\ \A n \in 1..N : t[n] = s[n]
  OBVIOUS
<1> HIDE DEF t, N
<1>2. ASSUME ~(d.key = k /\ d.cum # NoReading)
      PROVE  After(l, t, 1, k) = After(l, s, 1, k)
  <2>1. At(t, 1, k) = At(s, 1, k)
    BY <1>1, <1>2 DEF At
  <2>2. \A n \in At(s, 1, k) : t[n] = s[n]
    BY <1>1 DEF At
  <2>3. CASE At(s, 1, k) = {}
    BY <2>1, <2>3 DEF After
  <2>4. CASE At(s, 1, k) # {}
    <3>1. Sole(At(s, 1, k)) \in At(s, 1, k)
      BY <2>4 DEF Sole
    <3> QED BY <2>1, <2>2, <2>4, <3>1 DEF After
  <2> QED BY <2>3, <2>4
<1>3. ASSUME Sparse(t), d.key = k, d.cum # NoReading
      PROVE  After(l, t, 1, k) = d.cum /\ After(l, s, 1, k) = l
  <2>1. N + 1 \in At(t, 1, k)
    BY <1>1, <1>3 DEF At
  <2>2. At(s, 1, k) = {}
    BY <1>1, <1>3 DEF At, Sparse
  <2>3. After(l, t, 1, k) = d.cum
    BY <1>1, <1>3, <2>1, AfterReading
  <2> QED BY <2>2, <2>3 DEF After
<1> QED BY <1>2, <1>3 DEF t

\* What the cache still has to count up to the instrument's last reading z, if
\* the readings of the batch and then those of the queue are converted; reading
\* none of the batch leaves no more to count.
Owes(l, s, lo, later, z, k) ==
    LET b == After(l, s, lo, k)
        e == After(b, later, 1, k)
    IN  Inc(l, b) + Inc(b, e) + Inc(e, z)

LEMMA OwesLess ==
    ASSUME NEW l \in Nat, NEW b \in Nat, NEW s \in Seq(DataPoint), NEW z \in Nat, NEW k
    PROVE  /\ Inc(l, l) + Inc(l, After(l, s, 1, k)) + Inc(After(l, s, 1, k), z)
              <= Inc(l, b) + Inc(b, After(b, s, 1, k)) + Inc(After(b, s, 1, k), z)
           /\ After(l, s, 1, k) \in Nat /\ After(b, s, 1, k) \in Nat
<1>1. After(l, s, 1, k) \in Nat /\ After(b, s, 1, k) \in Nat
  BY AfterType
<1>2. CASE At(s, 1, k) = {}
  <2>1. After(l, s, 1, k) = l /\ After(b, s, 1, k) = b
    BY <1>2 DEF After
  <2> QED BY <2>1 DEF Inc
<1>3. CASE At(s, 1, k) # {}
  <2>1. After(l, s, 1, k) = After(b, s, 1, k)
    BY <1>3 DEF After
  <2> HIDE DEF After
  <2> QED BY <1>1, <2>1 DEF Inc
<1> QED BY <1>1, <1>2, <1>3

\* The inductive invariant.  What is stored, what is on its way to the table and
\* what is still owed for the rest of the batch is within the instrument's total;
\* so is what is stored and what would be owed if the batch started again; and a
\* reading whose row is on its way has reached the cache.
Within(r, k) ==
    LET q == req[r]
        l == Last(cache, k)
    IN
    /\ SumRows(points \cup ScalarsOf(q), k) + Owes(l, q.batch, q.i, queue, seen[k], k) <= total[k]
    /\ SumRows(points, k) + Owes(l, q.batch, 1, queue, seen[k], k) <= total[k]
    /\ RowsOf(ScalarsOf(q), k) # {} => After(l, q.batch, 1, k) = l

RetryInv(r) ==
    /\ IsFiniteSet(points)
    /\ Sparse(queue) /\ Sparse(req[r].batch)
    /\ \A k \in CounterKeys : Within(r, k)

LEMMA StateTypes ==
    ASSUME NEW r, OneAtATime(r), TypeInv, NEW k \in CounterKeys
    PROVE  /\ req[r] \in Request /\ req[r].batch \in Seq(DataPoint) /\ req[r].i \in Nat \ {0}
           /\ queue \in Seq(DataPoint) /\ points \in SUBSET Row
           /\ ScalarsOf(req[r]) \in SUBSET Row /\ IsFiniteSet(ScalarsOf(req[r]))
           /\ seen[k] \in Nat /\ total[k] \in Nat /\ Last(cache, k) \in Nat
           /\ k \in Keys /\ Kind[k] = "counter"
           /\ \A d \in DataPoint : d.cum # NoReading => d.cum \in Nat
<1>1. req[r] \in Request
  BY DEF OneAtATime, TypeInv, TypeOK
<1>2. Last(cache, k) \in Nat
  BY LastType DEF TypeInv, TypeOK
<1>3. \A d \in DataPoint : d.cum # NoReading => d.cum \in Nat
  BY ReadingAssumption DEF DataPoint
<1>4. req[r].batch \in Seq(DataPoint) /\ req[r].i \in Nat \ {0}
  BY <1>1 DEF Request
<1> QED BY <1>1, <1>2, <1>3, <1>4, BatchRows DEF CounterKeys, TypeInv, TypeOK

\* Nothing the invariant speaks of changed.
LEMMA WithinSame ==
    ASSUME NEW r, NEW k, Within(r, k),
           req'[r].batch = req[r].batch, req'[r].i = req[r].i, req'[r].scalars = req[r].scalars,
           points' = points, queue' = queue, seen'[k] = seen[k], total'[k] = total[k],
           Last(cache', k) = Last(cache, k)
    PROVE  Within(r, k)'
<1>1. ScalarsOf(req'[r]) = ScalarsOf(req[r])
  BY DEF ScalarsOf
<1> QED BY <1>1 DEF Within

\* What the invariant is about, for one counter.
LEMMA WithinTypes ==
    ASSUME NEW r, OneAtATime(r), TypeInv, RetryInv(r), NEW k \in CounterKeys
    PROVE  LET q == req[r]
               l == Last(cache, k)
               S == points \cup ScalarsOf(q)
           IN  /\ S \in SUBSET Row /\ IsFiniteSet(S) /\ points \in SUBSET S
               /\ SumRows(S, k) \in Nat /\ SumRows(points, k) \in Nat
               /\ SumRows(points, k) <= SumRows(S, k)
               /\ SumRows(S, k) + Owes(l, q.batch, q.i, queue, seen[k], k) <= total[k]
               /\ SumRows(points, k) + Owes(l, q.batch, 1, queue, seen[k], k) <= total[k]
               /\ RowsOf(ScalarsOf(q), k) # {} => After(l, q.batch, 1, k) = l
               /\ After(l, q.batch, q.i, k) \in Nat /\ After(l, q.batch, 1, k) \in Nat
<1> DEFINE S == points \cup ScalarsOf(req[r])
<1>1. S \in SUBSET Row /\ IsFiniteSet(S) /\ points \in SUBSET S
  BY StateTypes, FS_Union DEF RetryInv
<1>2. /\ SumRows(S, k) \in Nat /\ SumRows(points, k) \in Nat
      /\ SumRows(points, k) <= SumRows(S, k)
  BY <1>1, RowSums
<1>3. /\ After(Last(cache, k), req[r].batch, req[r].i, k) \in Nat
      /\ After(Last(cache, k), req[r].batch, 1, k) \in Nat
  BY StateTypes, AfterType
<1> QED BY <1>1, <1>2, <1>3 DEF RetryInv, Within

\* The handler went on to the next data point without a reading of k.
LEMMA WithinPassed ==
    ASSUME NEW r, OneAtATime(r), TypeInv, RetryInv(r), NEW k \in CounterKeys,
           req[r].i \in DOMAIN req[r].batch,
           req'[r].batch = req[r].batch, req'[r].i = req[r].i + 1,
           RowsOf(ScalarsOf(req'[r]), k) = RowsOf(ScalarsOf(req[r]), k),
           points' = points, queue' = queue, seen'[k] = seen[k], total'[k] = total[k],
           Last(cache', k) = Last(cache, k)
    PROVE  Within(r, k)'
<1> DEFINE s == req[r].batch
           i == req[r].i
           l == Last(cache, k)
           z == seen[k]
           S == points \cup ScalarsOf(req[r])
           b == After(l, s, i, k)
<1>1. /\ l \in Nat /\ z \in Nat /\ s \in Seq(DataPoint) /\ Sparse(s) /\ queue \in Seq(DataPoint)
      /\ b \in Nat /\ total[k] \in Nat
  BY StateTypes, AfterType DEF RetryInv
<1>2. /\ SumRows(S, k) \in Nat
      /\ SumRows(S, k) + Owes(l, s, i, queue, z, k) <= total[k]
      /\ SumRows(points, k) + Owes(l, s, 1, queue, z, k) <= total[k]
      /\ RowsOf(ScalarsOf(req[r]), k) # {} => After(l, s, 1, k) = l
  BY WithinTypes
<1>3. RowsOf(points \cup ScalarsOf(req'[r]), k) = RowsOf(S, k)
  BY DEF RowsOf
<1>4. SumRows(points \cup ScalarsOf(req'[r]), k) = SumRows(S, k)
  BY <1>3 DEF SumRows
<1> DEFINE a == After(l, s, i + 1, k)
           e1 == After(l, queue, 1, k)
           e2 == After(b, queue, 1, k)
<1>5. a = b \/ a = l
  BY <1>1, AfterNext
<1>6. /\ Owes(l, s, i, queue, z, k) = Inc(l, b) + Inc(b, e2) + Inc(e2, z)
      /\ a = b => Owes(l, s, i + 1, queue, z, k) = Owes(l, s, i, queue, z, k)
      /\ a = l => Owes(l, s, i + 1, queue, z, k) = Inc(l, l) + Inc(l, e1) + Inc(e1, z)
  BY DEF Owes
<1>7. /\ Inc(l, l) + Inc(l, e1) + Inc(e1, z) <= Inc(l, b) + Inc(b, e2) + Inc(e2, z)
      /\ e1 \in Nat /\ e2 \in Nat
  BY <1>1, OwesLess
<1> HIDE DEF a, b, e1, e2, l, z
<1>8. /\ Inc(l, l) \in Nat /\ Inc(l, e1) \in Nat /\ Inc(e1, z) \in Nat
      /\ Inc(l, b) \in Nat /\ Inc(b, e2) \in Nat /\ Inc(e2, z) \in Nat
  BY <1>1, <1>7, IncFacts
<1>9. SumRows(S, k) + Owes(l, s, i + 1, queue, z, k) <= total[k]
  <2> DEFINE o1 == Owes(l, s, i, queue, z, k)
             o2 == Owes(l, s, i + 1, queue, z, k)
             m == SumRows(S, k)
  <2>1. o1 \in Nat /\ o2 \in Nat /\ o2 <= o1
    BY <1>5, <1>6, <1>7, <1>8
  <2>2. m \in Nat /\ m + o1 <= total[k]
    BY <1>2
  <2> HIDE DEF o1, o2, m
  <2>3. m + o2 <= total[k]
    BY <1>1, <2>1, <2>2
  <2> QED BY <2>3 DEF m, o2
<1> QED BY <1>2, <1>4, <1>9 DEF Within, l, z

LEMMA SkipsWithin ==
    ASSUME NEW r, OneAtATime(r), TypeInv, RetryInv(r), NEW k \in CounterKeys, Skips(r)
    PROVE  Within(r, k)'
<1>1. RowsOf(ScalarsOf(req'[r]), k) = RowsOf(ScalarsOf(req[r]), k)
  <2>1. CASE req'[r].scalars = req[r].scalars
    BY <2>1 DEF ScalarsOf
  <2>2. CASE req'[r].scalars # req[r].scalars
    <3>1. PICK row \in Row : /\ Kind[row.src] # "counter"
                             /\ req'[r].scalars = Append(req[r].scalars, row)
      BY <2>2 DEF Skips
    <3>2. ScalarsOf(req'[r]) = ScalarsOf(req[r]) \cup {row}
      BY <3>1, StateTypes, ScalarsAppended
    <3> QED BY <3>1, <3>2, StateTypes DEF RowsOf
  <2> QED BY <2>1, <2>2
<1>2. req[r].i \in DOMAIN req[r].batch
  BY StateTypes DEF Skips
<1> QED BY <1>1, <1>2, WithinPassed DEF Skips, LastsKept, exporter

LEMMA CountsWithin ==
    ASSUME NEW r, OneAtATime(r), TypeInv, RetryInv(r), NEW k \in CounterKeys, Counts(r)
    PROVE  Within(r, k)'
<1> DEFINE s == req[r].batch
           i == req[r].i
           l == Last(cache, k)
           z == seen[k]
           S == points \cup ScalarsOf(req[r])
           v == Current(r).cum
<1>1. PICK row \in Row :
         /\ row.src = Current(r).key
         /\ row.val = Inc(Last(cache, Current(r).key), v)
         /\ req'[r].scalars = Append(req[r].scalars, row)
  BY DEF Counts
<1>2. ScalarsOf(req'[r]) = ScalarsOf(req[r]) \cup {row}
  <2>1. req[r] \in Request
    BY StateTypes
  <2> QED BY <1>1, <2>1, ScalarsAppended
<1>3. i \in DOMAIN s /\ v \in Nat
  BY StateTypes DEF Counts
<1>4. CASE Current(r).key # k
  <2>1. RowsOf(ScalarsOf(req'[r]), k) = RowsOf(ScalarsOf(req[r]), k)
    BY <1>1, <1>2, <1>4 DEF RowsOf
  <2> QED BY <1>3, <1>4, <2>1, WithinPassed DEF Counts, exporter
<1>5. CASE Current(r).key = k
  <2>1. /\ l \in Nat /\ z \in Nat /\ s \in Seq(DataPoint) /\ Sparse(s) /\ queue \in Seq(DataPoint)
        /\ total[k] \in Nat
    BY StateTypes DEF RetryInv
  <2>2. /\ S \in SUBSET Row /\ IsFiniteSet(S) /\ SumRows(S, k) \in Nat /\ SumRows(points, k) \in Nat
        /\ SumRows(S, k) + Owes(l, s, i, queue, z, k) <= total[k]
        /\ SumRows(points, k) + Owes(l, s, 1, queue, z, k) <= total[k]
    BY WithinTypes
  <2>3. i \in At(s, i, k) /\ i \in At(s, 1, k) /\ s[i].cum = v
    BY <1>3, <1>5, <2>1, NoReadingAssumption DEF At, Current
  <2>4. /\ \A x : After(x, s, i, k) = v /\ After(x, s, 1, k) = v
        /\ After(v, s, i + 1, k) = v
    BY <1>3, <2>1, <2>3, AfterReading, AfterNext
  <2> DEFINE e == After(v, queue, 1, k)
  <2>5. /\ Owes(l, s, i, queue, z, k) = Inc(l, v) + Inc(v, e) + Inc(e, z)
        /\ Owes(l, s, 1, queue, z, k) = Inc(l, v) + Inc(v, e) + Inc(e, z)
        /\ Owes(v, s, i + 1, queue, z, k) = Inc(v, v) + Inc(v, e) + Inc(e, z)
        /\ Owes(v, s, 1, queue, z, k) = Inc(v, v) + Inc(v, e) + Inc(e, z)
    BY <2>4 DEF Owes
  <2>6. e \in Nat
    BY <1>3, <2>1, AfterType
  <2> HIDE DEF e
  <2>7. /\ Inc(l, v) \in Nat /\ Inc(v, e) \in Nat /\ Inc(e, z) \in Nat /\ Inc(v, v) = 0
    BY <1>3, <2>1, <2>6, IncFacts
  <2>8. SumRows(S \cup {row}, k) \in Nat /\ SumRows(S \cup {row}, k) <= SumRows(S, k) + Inc(l, v)
    <3>1. SumRows(S \cup {row}, k) <= SumRows(S, k) + Inc(l, v)
      BY <1>1, <1>5, <2>2, RowSums
    <3>2. S \cup {row} \in SUBSET Row /\ IsFiniteSet(S \cup {row})
      BY <2>2, FS_AddElement
    <3> QED BY <3>1, <3>2, RowSums
  <2>9. points \cup ScalarsOf(req'[r]) = S \cup {row}
    BY <1>2
  <2> HIDE DEF S, l, z, v
  <2>10. SumRows(S \cup {row}, k) + Owes(v, s, i + 1, queue, z, k) <= total[k]
    BY <2>1, <2>2, <2>5, <2>7, <2>8
  <2>11. SumRows(points, k) + Owes(v, s, 1, queue, z, k) <= total[k]
    BY <2>1, <2>2, <2>5, <2>7
  <2>12. /\ Last(cache', k) = v /\ req'[r].batch = s /\ req'[r].i = i + 1 /\ points' = points
         /\ queue' = queue /\ seen'[k] = z /\ total'[k] = total[k]
    BY <1>5 DEF Counts, exporter, v, z
  <2> QED BY <2>4, <2>9, <2>10, <2>11, <2>12 DEF Within
<1> QED BY <1>4, <1>5

LEMMA WritesWithin ==
    ASSUME NEW r, OneAtATime(r), TypeInv, RetryInv(r), NEW k \in CounterKeys, Writes(r)
    PROVE  Within(r, k)'
<1> DEFINE q == req[r]
           s == q.batch
           l == Last(cache, k)
           z == seen[k]
           S == points \cup ScalarsOf(q)
<1>1. /\ req'[r].batch = s /\ req'[r].i = q.i /\ ScalarsOf(req'[r]) = ScalarsOf(q)
      /\ queue' = queue /\ seen'[k] = z /\ total'[k] = total[k] /\ Last(cache', k) = l
  BY DEF Writes, LastsKept, exporter, ScalarsOf
<1>2. points \subseteq points' /\ points' \subseteq S
  BY StateTypes, BatchRows, InsertedRows DEF Writes
<1>3. /\ S \in SUBSET Row /\ IsFiniteSet(S) /\ SumRows(S, k) \in Nat /\ SumRows(points, k) \in Nat
      /\ SumRows(S, k) + Owes(l, s, q.i, queue, z, k) <= total[k]
      /\ SumRows(points, k) + Owes(l, s, 1, queue, z, k) <= total[k]
      /\ RowsOf(ScalarsOf(q), k) # {} => After(l, s, 1, k) = l
  BY WithinTypes
<1>4. points' \cup ScalarsOf(q) = S
  BY <1>2
<1>5. SumRows(points', k) + Owes(l, s, 1, queue, z, k) <= total[k]
  <2>1. CASE RowsOf(ScalarsOf(q), k) = {}
    <3>1. RowsOf(points', k) = RowsOf(points, k)
      BY <1>2, <2>1 DEF RowsOf
    <3>2. SumRows(points', k) = SumRows(points, k)
      BY <3>1 DEF SumRows
    <3> QED BY <1>3, <3>2
  <2>2. CASE RowsOf(ScalarsOf(q), k) # {}
    <3>1. After(l, s, q.i, k) = l
      <4>1. \A n \in DOMAIN s : ~(n >= q.i)
        BY StateTypes DEF Writes
      <4> QED BY <4>1, AfterNone
    <3>2. Owes(l, s, 1, queue, z, k) = Owes(l, s, q.i, queue, z, k)
      BY <1>3, <2>2, <3>1 DEF Owes
    <3> DEFINE o == Owes(l, s, q.i, queue, z, k)
    <3>3. o \in Nat
      <4>1. After(l, queue, 1, k) \in Nat /\ l \in Nat /\ z \in Nat
        BY StateTypes, AfterType
      <4> HIDE DEF l, z
      <4>2. /\ Inc(l, l) \in Nat /\ Inc(l, After(l, queue, 1, k)) \in Nat
            /\ Inc(After(l, queue, 1, k), z) \in Nat
        BY <4>1, IncFacts
      <4> QED BY <3>1, <4>2 DEF Owes
    <3>4. SumRows(points', k) \in Nat /\ SumRows(points', k) <= SumRows(S, k)
      BY <1>2, <1>3, RowSums
    <3>5. total[k] \in Nat
      BY StateTypes
    <3>6. SumRows(S, k) + o <= total[k]
      BY <1>3
    <3> HIDE DEF S, o
    <3>7. SumRows(points', k) + o <= total[k]
      BY <1>3, <3>3, <3>4, <3>5, <3>6
    <3> QED BY <3>2, <3>7 DEF o
  <2> QED BY <2>1, <2>2
<1> QED BY <1>1, <1>3, <1>4, <1>5 DEF Within

LEMMA ReturnsWithin ==
    ASSUME NEW r, OneAtATime(r), TypeInv, RetryInv(r), NEW k \in CounterKeys,
           Returns(r, <<>>) \/ Returns(r, req[r].batch)
    PROVE  Within(r, k)'
<1> DEFINE s == req[r].batch
           l == Last(cache, k)
           z == seen[k]
           b == After(l, s, 1, k)
           e1 == After(l, queue, 1, k)
           e2 == After(b, queue, 1, k)
<1>1. /\ req'[r].i = 1 /\ ScalarsOf(req'[r]) = {} /\ req'[r].batch \in {<<>>, s}
      /\ queue' = queue /\ seen'[k] = z /\ total'[k] = total[k] /\ Last(cache', k) = l
      /\ points' = points
  BY DEF Returns, LastsKept, exporter, ScalarsOf
<1>2. SumRows(points, k) \in Nat /\ SumRows(points, k) + Owes(l, s, 1, queue, z, k) <= total[k]
  BY WithinTypes
<1>3. points' \cup ScalarsOf(req'[r]) = points /\ RowsOf(ScalarsOf(req'[r]), k) = {}
  BY <1>1 DEF RowsOf
<1>4. CASE req'[r].batch = s
  BY <1>1, <1>2, <1>3, <1>4 DEF Within
<1>5. CASE req'[r].batch = <<>>
  <2>1. /\ Owes(l, s, 1, queue, z, k) = Inc(l, b) + Inc(b, e2) + Inc(e2, z)
        /\ Owes(l, <<>>, 1, queue, z, k) = Inc(l, l) + Inc(l, e1) + Inc(e1, z)
    BY AfterNone DEF Owes
  <2>2. /\ l \in Nat /\ z \in Nat /\ b \in Nat /\ queue \in Seq(DataPoint) /\ total[k] \in Nat
    BY StateTypes, AfterType
  <2>3. /\ Inc(l, l) + Inc(l, e1) + Inc(e1, z) <= Inc(l, b) + Inc(b, e2) + Inc(e2, z)
        /\ e1 \in Nat /\ e2 \in Nat
    BY <2>2, OwesLess
  <2> DEFINE o1 == Owes(l, s, 1, queue, z, k)
             o2 == Owes(l, <<>>, 1, queue, z, k)
  <2>4. o1 \in Nat /\ o2 \in Nat /\ o2 <= o1
    <3> HIDE DEF l, z, b, e1, e2
    <3>1. /\ Inc(l, l) \in Nat /\ Inc(l, e1) \in Nat /\ Inc(e1, z) \in Nat
          /\ Inc(l, b) \in Nat /\ Inc(b, e2) \in Nat /\ Inc(e2, z) \in Nat
      BY <2>2, <2>3, IncFacts
    <3> QED BY <2>1, <2>3, <3>1
  <2>5. SumRows(points, k) + o1 <= total[k]
    BY <1>2
  <2> HIDE DEF o1, o2
  <2>6. SumRows(points, k) + o2 <= total[k]
    BY <1>2, <2>2, <2>4, <2>5
  <2>7. SumRows(points, k) + Owes(l, <<>>, 1, queue, z, k) <= total[k]
    BY <2>6 DEF o2
  <2> QED BY <1>1, <1>3, <1>5, <2>7 DEF Within
<1> QED BY <1>1, <1>4, <1>5

LEMMA PostWithin ==
    ASSUME NEW r, OneAtATime(r), TypeInv, PlaceInv(r), RetryInv(r), NEW k \in CounterKeys, Post(r)
    PROVE  Within(r, k)' /\ req'[r].batch = queue /\ queue' = <<>>
<1> DEFINE l == Last(cache, k)
           z == seen[k]
           e == After(l, queue, 1, k)
<1>1. req[r] = Idle /\ r \in Requests /\ req \in [Requests -> Request]
  BY DEF Post, PlaceInv, OneAtATime, TypeInv, TypeOK
<1>2. /\ req'[r].batch = queue /\ req'[r].i = 1 /\ req'[r].scalars = <<>> /\ queue' = <<>>
      /\ seen'[k] = z /\ total'[k] = total[k] /\ Last(cache', k) = l /\ points' = points
  <2>1. req'[r] = [Idle EXCEPT !.pc = "point", !.batch = queue]
    BY <1>1 DEF Post
  <2>2. \A s : LET q == [Idle EXCEPT !.pc = "point", !.batch = s]
              IN  q.batch = s /\ q.i = 1 /\ q.scalars = <<>>
    BY DEF Idle
  <2>3. req'[r].batch = queue /\ req'[r].i = 1 /\ req'[r].scalars = <<>>
    BY <2>1, <2>2
  <2>4. /\ queue' = <<>> /\ seen'[k] = z /\ total'[k] = total[k] /\ Last(cache', k) = l
        /\ points' = points
    BY DEF Post, database
  <2> QED BY <2>3, <2>4
<1>3. ScalarsOf(req'[r]) = {} /\ points' \cup ScalarsOf(req'[r]) = points
  BY <1>2 DEF ScalarsOf
<1>4. SumRows(points, k) + Owes(l, <<>>, 1, queue, z, k) <= total[k]
  <2>1. SumRows(points, k) + Owes(l, req[r].batch, 1, queue, z, k) <= total[k]
    BY WithinTypes
  <2>2. req[r].batch = <<>>
    BY <1>1 DEF Idle
  <2> QED BY <2>1, <2>2
<1>5. Owes(l, <<>>, 1, queue, z, k) = Owes(l, queue, 1, <<>>, z, k)
  <2>1. /\ Owes(l, <<>>, 1, queue, z, k) = Inc(l, l) + Inc(l, e) + Inc(e, z)
        /\ Owes(l, queue, 1, <<>>, z, k) = Inc(l, e) + Inc(e, e) + Inc(e, z)
    BY AfterNone DEF Owes
  <2>2. l \in Nat /\ z \in Nat /\ e \in Nat
    BY StateTypes, AfterType
  <2> HIDE DEF l, z, e
  <2>3. Inc(l, l) = 0 /\ Inc(e, e) = 0 /\ Inc(l, e) \in Nat /\ Inc(e, z) \in Nat
    BY <2>2, IncFacts
  <2> QED BY <2>1, <2>3
<1>6. RowsOf({}, k) = {}
  BY DEF RowsOf
<1> QED BY <1>2, <1>3, <1>4, <1>5, <1>6 DEF Within

LEMMA SampleWithin ==
    ASSUME NEW r, OneAtATime(r), TypeInv, RetryInv(r), NEW k \in CounterKeys,
           NEW m \in Keys, NEW v \in Readings, Sample(m, v), Sparse(queue')
    PROVE  Within(r, k)'
<1> DEFINE q == req[r]
           s == q.batch
           l == Last(cache, k)
           z == seen[k]
<1>1. PICK skew \in Skews : queue' = Append(queue, [key |-> m, ts |-> now + skew, cum |-> v])
  BY DEF Sample
<1> DEFINE d == [key |-> m, ts |-> now + skew, cum |-> v]
<1>2. d \in DataPoint /\ d.key = m /\ d.cum = v
  BY SkewAssumption DEF DataPoint, TypeInv, TypeOK
<1> HIDE DEF d
<1>3. /\ req' = req /\ cache' = cache /\ points' = points /\ queue' = Append(queue, d)
      /\ seen \in [Keys -> Nat] /\ total \in [Keys -> Nat]
  BY <1>1 DEF Sample, database, d, TypeInv, TypeOK
<1>4. /\ l \in Nat /\ z \in Nat /\ queue \in Seq(DataPoint) /\ total[k] \in Nat /\ k \in Keys
      /\ Kind[k] = "counter"
  BY StateTypes
<1>5. CASE m = k /\ v # NoReading
  <2>1. v \in Nat /\ seen'[k] = v /\ total'[k] = total[k] + Inc(z, v)
    BY <1>3, <1>4, <1>5, ReadingAssumption DEF Sample, Increase, Inc
  <2>2. \A x : After(x, queue', 1, k) = v /\ After(x, queue, 1, k) = x
    BY <1>2, <1>3, <1>4, <1>5, AfterAppend
  <2>3. ASSUME NEW b \in Nat
        PROVE  /\ Inc(l, b) + Inc(b, v) + Inc(v, v) <= Inc(l, b) + Inc(b, b) + Inc(b, z) + Inc(z, v)
               /\ Inc(l, b) + Inc(b, v) + Inc(v, v) \in Nat
               /\ Inc(l, b) + Inc(b, b) + Inc(b, z) \in Nat
    <3> HIDE DEF l, z
    <3>1. Inc(b, v) <= Inc(b, z) + Inc(z, v) /\ Inc(v, v) = 0 /\ Inc(b, b) = 0
      BY <1>4, <2>1, <2>3, IncFacts
    <3>2. Inc(l, b) \in Nat /\ Inc(b, v) \in Nat /\ Inc(b, z) \in Nat /\ Inc(z, v) \in Nat
      BY <1>4, <2>1, <2>3, IncFacts
    <3> QED BY <3>1, <3>2
  <2>4. ASSUME NEW lo, NEW sum \in Nat, After(l, s, lo, k) \in Nat,
               sum + Owes(l, s, lo, queue, z, k) <= total[k]
        PROVE  sum + Owes(l, s, lo, queue', v, k) <= total[k] + Inc(z, v)
    <3> DEFINE b == After(l, s, lo, k)
    <3>1. /\ Owes(l, s, lo, queue, z, k) = Inc(l, b) + Inc(b, b) + Inc(b, z)
          /\ Owes(l, s, lo, queue', v, k) = Inc(l, b) + Inc(b, v) + Inc(v, v)
      BY <2>2 DEF Owes
    <3>2. b \in Nat
      BY <2>4
    <3>3. Inc(z, v) \in Nat
      BY <1>4, <2>1, IncFacts
    <3>4. /\ Inc(l, b) + Inc(b, v) + Inc(v, v) <= Inc(l, b) + Inc(b, b) + Inc(b, z) + Inc(z, v)
          /\ Inc(l, b) + Inc(b, v) + Inc(v, v) \in Nat
          /\ Inc(l, b) + Inc(b, b) + Inc(b, z) \in Nat
      BY <2>3, <3>2
    <3> DEFINE o1 == Owes(l, s, lo, queue, z, k)
               o2 == Owes(l, s, lo, queue', v, k)
               g == Inc(z, v)
               t == total[k]
    <3>5. o1 \in Nat /\ o2 \in Nat /\ o2 <= o1 + g
      BY <3>1, <3>4
    <3>6. sum + o1 <= t /\ t \in Nat /\ g \in Nat
      BY <1>4, <2>4, <3>3
    <3> HIDE DEF o1, o2, g, t
    <3>7. sum + o2 <= t + g
      BY <3>5, <3>6
    <3> QED BY <3>7 DEF o2, t, g
  <2>5. /\ SumRows(points \cup ScalarsOf(q), k) \in Nat /\ SumRows(points, k) \in Nat
        /\ After(l, s, q.i, k) \in Nat /\ After(l, s, 1, k) \in Nat
        /\ SumRows(points \cup ScalarsOf(q), k) + Owes(l, s, q.i, queue, z, k) <= total[k]
        /\ SumRows(points, k) + Owes(l, s, 1, queue, z, k) <= total[k]
        /\ RowsOf(ScalarsOf(q), k) # {} => After(l, s, 1, k) = l
    BY WithinTypes
  <2>6. /\ SumRows(points \cup ScalarsOf(q), k) + Owes(l, s, q.i, queue', v, k)
           <= total[k] + Inc(z, v)
        /\ SumRows(points, k) + Owes(l, s, 1, queue', v, k) <= total[k] + Inc(z, v)
    BY <2>4, <2>5
  <2> QED BY <1>3, <2>1, <2>5, <2>6 DEF Within
<1>6. CASE ~(m = k /\ v # NoReading)
  <2>1. seen'[k] = z /\ total'[k] = total[k]
    BY <1>3, <1>4, <1>6 DEF Sample
  <2>2. \A x : After(x, queue', 1, k) = After(x, queue, 1, k)
    BY <1>2, <1>3, <1>4, <1>6, AfterAppend
  <2>3. \A lo : Owes(l, s, lo, queue', z, k) = Owes(l, s, lo, queue, z, k)
    BY <2>2 DEF Owes
  <2> QED BY <1>3, <2>1, <2>3 DEF RetryInv, Within
<1> QED BY <1>5, <1>6

\* What went wrong once went wrong for good.
LEMMA NothingUndone ==
    ASSUME TypeInv, [Next]_vars
    PROVE  /\ restarts' = 0 => restarts = 0 /\ ~Restart
           /\ faults' = 0 => faults = 0
<1>1. restarts \in Nat /\ faults \in Nat
  BY DEF TypeInv, TypeOK
<1>2. CASE \E k \in Keys, v \in Readings : Sample(k, v)
  BY <1>1, <1>2 DEF Sample, counters, Restart
<1>3. ASSUME NEW r \in Requests, Post(r) \/ Retry(r) \/ GiveUp(r)
      PROVE  UNCHANGED counters
  BY <1>3 DEF Post, Retry, GiveUp
<1>4. ASSUME NEW r \in Requests, Handler(r)
      PROVE  UNCHANGED counters
  <2>1. CASE Resolve(r)
    BY <2>1 DEF Resolve, LookupHit, LookupMiss, InsertSeries, InsertCollides, SelectSeries
  <2>2. CASE Convert(r)
    BY <2>2 DEF Convert, Reject, RejectValueless, PushCounter, PushRaw, PushHistogram
  <2>3. CASE Store(r)
    BY <2>3 DEF Store, WriteScalars, WriteHistograms, Respond
  <2> QED BY <1>4, <2>1, <2>2, <2>3 DEF Handler
<1>5. ASSUME NEW r \in Requests, DbFails(r) \/ LoseReply(r)
      PROVE  faults' = faults + 1 /\ restarts' = restarts
  BY <1>5 DEF DbFails, LoseReply, Fault
<1>6. CASE Restart
  BY <1>1, <1>6 DEF Restart
<1>7. CASE UNCHANGED vars
  BY <1>1, <1>7 DEF vars, Restart
<1> QED BY <1>1, <1>2, <1>3, <1>4, <1>5, <1>6, <1>7 DEF Next, counters, Restart

LEMMA RetryInvPreserved ==
    ASSUME NEW r, OneAtATime(r), MaxPerSeries <= 1, TypeInv, PlaceInv(r), RetryInv(r),
           [Next]_vars, restarts' = 0
    PROVE  RetryInv(r)'
<1>1. PlaceInv(r)' /\ TypeInv'
  BY StepKinds, TypesPreserved
<1>2. CASE UNCHANGED vars
  <2>1. UNCHANGED <<points, queue, req, cache, seen, total>>
    BY <1>2 DEF vars
  <2>2. ASSUME NEW k \in CounterKeys PROVE Within(r, k)'
    BY <2>1, WithinSame DEF RetryInv
  <2> QED BY <2>1, <2>2 DEF RetryInv, CounterKeys
<1>3. CASE \E m \in Keys, v \in Readings : Sample(m, v)
  <2>1. PICK m \in Keys, v \in Readings : Sample(m, v)
    BY <1>3
  <2>2. PICK skew \in Skews : queue' = Append(queue, [key |-> m, ts |-> now + skew, cum |-> v])
    BY <2>1 DEF Sample
  <2>3. queue \in Seq(DataPoint) /\ Sparse(queue)
    BY DEF TypeInv, TypeOK, RetryInv
  <2>4. \A j \in DOMAIN queue : queue[j].key # m
    <3> DEFINE J == {j \in DOMAIN queue : queue[j].key = m}
    <3>1. IsFiniteSet(J)
      BY <2>3, FS_Interval, FS_Subset
    <3>2. Cardinality(J) < MaxPerSeries /\ Cardinality(J) \in Nat
      BY <2>1, <3>1, FS_CardinalityType DEF Sample
    <3>3. Cardinality(J) = 0
      BY <3>2, BoundAssumption
    <3> QED BY <3>1, <3>3, FS_EmptySet
  <2>5. Sparse(queue')
    BY <2>2, <2>3, <2>4 DEF Sparse
  <2>6. ASSUME NEW k \in CounterKeys PROVE Within(r, k)'
    BY <2>1, <2>5, SampleWithin
  <2>7. UNCHANGED <<points, req>>
    BY <2>1 DEF Sample, database
  <2> QED BY <2>5, <2>6, <2>7 DEF RetryInv, CounterKeys
<1>4. CASE Post(r)
  <2>1. ASSUME NEW k \in CounterKeys PROVE Within(r, k)'
    BY <1>4, PostWithin
  <2>2. req'[r].batch = queue /\ queue' = <<>> /\ points' = points
    <3>1. req[r] = Idle /\ r \in Requests /\ req \in [Requests -> Request]
      BY <1>4 DEF Post, PlaceInv, OneAtATime, TypeInv, TypeOK
    <3>2. req'[r] = [Idle EXCEPT !.pc = "point", !.batch = queue]
      BY <1>4, <3>1 DEF Post
    <3>3. \A s : [Idle EXCEPT !.pc = "point", !.batch = s].batch = s
      BY DEF Idle
    <3> QED BY <1>4, <3>2, <3>3 DEF Post, database
  <2> QED BY <2>1, <2>2 DEF RetryInv, CounterKeys, Sparse
<1>5. CASE Moves(r)
  <2>1. ASSUME NEW k \in CounterKeys PROVE Within(r, k)'
    BY <1>5, <2>1, WithinSame DEF Moves, LastsKept, exporter, RetryInv
  <2>2. req'[r].batch = req[r].batch /\ UNCHANGED <<points, queue>>
    BY <1>5 DEF Moves, exporter
  <2> QED BY <2>1, <2>2 DEF RetryInv, CounterKeys
<1>6. CASE Skips(r)
  <2>1. ASSUME NEW k \in CounterKeys PROVE Within(r, k)'
    BY <1>6, SkipsWithin
  <2>2. req'[r].batch = req[r].batch /\ UNCHANGED <<points, queue>>
    BY <1>6 DEF Skips, exporter
  <2> QED BY <2>1, <2>2 DEF RetryInv, CounterKeys
<1>7. CASE Counts(r)
  <2>1. ASSUME NEW k \in CounterKeys PROVE Within(r, k)'
    BY <1>7, CountsWithin
  <2>2. req'[r].batch = req[r].batch /\ UNCHANGED <<points, queue>>
    BY <1>7 DEF Counts, exporter
  <2> QED BY <2>1, <2>2 DEF RetryInv, CounterKeys
<1>8. CASE Writes(r)
  <2>1. ASSUME NEW k \in CounterKeys PROVE Within(r, k)'
    BY <1>8, WritesWithin
  <2>2. req'[r].batch = req[r].batch /\ queue' = queue
    BY <1>8 DEF Writes, exporter
  <2>3. IsFiniteSet(points')
    <3>1. req[r] \in Request
      BY DEF OneAtATime, TypeInv, TypeOK
    <3>2. points' \subseteq points \cup ScalarsOf(req[r]) /\ IsFiniteSet(ScalarsOf(req[r]))
      BY <1>8, <3>1, BatchRows DEF Writes
    <3> QED BY <3>2, FS_Union, FS_Subset DEF RetryInv
  <2> QED BY <2>1, <2>2, <2>3 DEF RetryInv, CounterKeys
<1>9. CASE Returns(r, <<>>) \/ Returns(r, req[r].batch)
  <2>1. ASSUME NEW k \in CounterKeys PROVE Within(r, k)'
    BY <1>9, ReturnsWithin
  <2>2. req'[r].batch \in {<<>>, req[r].batch} /\ UNCHANGED <<points, queue>>
    BY <1>9 DEF Returns, exporter
  <2>3. Sparse(req'[r].batch)
    BY <2>2 DEF Sparse, RetryInv
  <2> QED BY <2>1, <2>2, <2>3 DEF RetryInv, CounterKeys
<1> QED BY <1>2, <1>3, <1>4, <1>5, <1>6, <1>7, <1>8, <1>9, StepKinds

LEMMA InitialRetry == ASSUME NEW r, OneAtATime(r), Init PROVE RetryInv(r)
<1>1. /\ points = {} /\ queue = <<>> /\ req[r].batch = <<>> /\ req[r].i = 1 /\ req[r].scalars = <<>>
      /\ cache = EmptyCache
  BY DEF Init, OneAtATime, Idle
<1>2. ASSUME NEW k \in CounterKeys
      PROVE  Within(r, k)
  <2>1. seen[k] = 0 /\ total[k] = 0
    BY DEF Init, CounterKeys
  <2>2. RowsOf(ScalarsOf(req[r]), k) = {} /\ RowsOf(points, k) = {}
        /\ points \cup ScalarsOf(req[r]) = points
    BY <1>1 DEF RowsOf, ScalarsOf
  <2>3. SumRows(points, k) = 0
    <3>1. Val \in [Row -> Nat] /\ IsFiniteSet({})
      BY FS_EmptySet DEF Val, Row
    <3> QED BY <2>2, <3>1, SumFacts DEF SumRows
  <2>4. Last(cache, k) = 0
    BY <1>1 DEF Last, EmptyCache
  <2>5. Owes(0, <<>>, 1, <<>>, 0, k) = 0
    <3>1. After(0, <<>>, 1, k) = 0
      BY AfterNone
    <3>2. Inc(0, 0) = 0
      BY DEF Inc
    <3> QED BY <3>1, <3>2 DEF Owes
  <2>6. Owes(Last(cache, k), req[r].batch, 1, queue, seen[k], k) = 0
    BY <1>1, <2>1, <2>4, <2>5
  <2>7. SumRows(points \cup ScalarsOf(req[r]), k) = 0
    BY <2>2, <2>3
  <2>8. req[r].i = 1
    BY <1>1
  <2> QED BY <2>1, <2>2, <2>3, <2>6, <2>7, <2>8 DEF Within
<1> QED BY <1>1, <1>2, FS_EmptySet DEF RetryInv, Sparse

\* Database failures, lost answers and retries never make a counter count more
\* than its instrument did, as long as the server's memory is kept: for a handler
\* that has one batch at a time with one data point of each series in it, and a
\* cache that holds all the series (otlp_http.rs ingest_metrics, series.rs
\* swap_cumulative).
THEOREM NoOvercount ==
    ASSUME NEW r, OneAtATime(r), MaxPerSeries <= 1
    PROVE  Spec => [](restarts = 0 => NeverOvercounts)
<1> DEFINE I == TypeInv /\ PlaceInv(r) /\ (restarts = 0 => RetryInv(r))
<1>1. Init => I
  BY InitialTypes, InitialPlace, InitialRetry
<1>2. I /\ [Next]_vars => I'
  <2> SUFFICES ASSUME I, [Next]_vars PROVE I'
    OBVIOUS
  <2>1. TypeInv' /\ PlaceInv(r)'
    BY TypesPreserved, StepKinds
  <2>2. ASSUME restarts' = 0 PROVE RetryInv(r)'
    BY <2>2, NothingUndone, RetryInvPreserved
  <2> QED BY <2>1, <2>2
<1>3. I => (restarts = 0 => NeverOvercounts)
  <2> SUFFICES ASSUME I, restarts = 0, NEW k \in CounterKeys PROVE StoredTotal(k) <= total[k]
    BY DEF NeverOvercounts
  <2>1. StoredTotal(k) = SumRows(points, k)
    BY StoredTotalIsSum DEF RetryInv, TypeInv, TypeOK, SumRows
  <2> DEFINE l == Last(cache, k)
             s == req[r].batch
             b == After(l, s, 1, k)
             e == After(b, queue, 1, k)
             o == Owes(l, s, 1, queue, seen[k], k)
  <2>2. SumRows(points, k) \in Nat /\ SumRows(points, k) + o <= total[k]
    BY WithinTypes
  <2>3. l \in Nat /\ b \in Nat /\ e \in Nat /\ seen[k] \in Nat /\ total[k] \in Nat
    BY StateTypes, AfterType
  <2>4. o \in Nat
    <3>1. o = Inc(l, b) + Inc(b, e) + Inc(e, seen[k])
      BY DEF Owes
    <3> HIDE DEF o, l, b, e
    <3>2. Inc(l, b) \in Nat /\ Inc(b, e) \in Nat /\ Inc(e, seen[k]) \in Nat
      BY <2>3, IncFacts
    <3> QED BY <3>1, <3>2
  <2> HIDE DEF o
  <2> QED BY <2>1, <2>2, <2>3, <2>4
<1> QED BY <1>1, <1>2, <1>3, PTL DEF Spec

-------------------------------------------------------------------------------
(* Exactly what was counted, if nothing goes wrong.  The readings of a counter *)
(* not converted yet, in the order of their timestamps, say what is missing. *)

Earlier(R, d) == {e \in R : e.ts < d.ts}
Newest(R) == CHOOSE d \in R : \A e \in R : e.ts <= d.ts

\* The last reading once those of R are converted.
Latest(R, l) == IF R = {} THEN l ELSE Newest(R).cum

\* What each of them adds, and all of them together.
Steps(R, l) == [d \in R |-> Inc(Latest(Earlier(R, d), l), d.cum)]
Pending(R, l) == SumOver(Steps(R, l), R)

\* A finite set of readings taken one at a time before N.
InTime(R, N) ==
    /\ R \in SUBSET DataPoint /\ IsFiniteSet(R)
    /\ \A d \in R : d.cum \in Nat /\ d.ts < N
    /\ \A d, e \in R : d.ts = e.ts => d = e

LEMMA NewestExists ==
    ASSUME NEW R, NEW N \in Int, InTime(R, N), R # {}
    PROVE  Newest(R) \in R /\ \A e \in R : e.ts <= Newest(R).ts
<1> DEFINE T == {N - d.ts : d \in R}
<1>1. \A d \in R : d.ts \in Int /\ d.ts < N
  BY DEF InTime, DataPoint
<1>2. T \in SUBSET Nat /\ T # {}
  BY <1>1
<1>3. PICK t \in T : \A u \in T : t <= u
  BY <1>2, LeastNatural
<1>4. PICK d \in R : t = N - d.ts
  BY <1>3
<1>5. \A e \in R : N - d.ts <= N - e.ts
  BY <1>3, <1>4
<1>6. \A e \in R : e.ts <= d.ts
  BY <1>1, <1>5
<1> QED BY <1>6 DEF Newest

\* The newest one is the only one there is.
LEMMA NewestIs ==
    ASSUME NEW R, NEW N \in Int, InTime(R, N), NEW d \in R, \A e \in R : e.ts <= d.ts
    PROVE  Newest(R) = d
<1>1. Newest(R) \in R /\ \A e \in R : e.ts <= Newest(R).ts
  BY NewestExists
<1>2. \A e \in R : e.ts \in Int
  BY DEF InTime, DataPoint
<1>3. Newest(R).ts = d.ts
  BY <1>1, <1>2
<1> QED BY <1>1, <1>3 DEF InTime

LEMMA SubInTime ==
    ASSUME NEW R, NEW N \in Int, InTime(R, N), NEW S \in SUBSET R
    PROVE  InTime(S, N)
BY FS_Subset DEF InTime

LEMMA LatestType ==
    ASSUME NEW R, NEW N \in Int, InTime(R, N), NEW l \in Nat
    PROVE  /\ Latest(R, l) \in Nat
           /\ Steps(R, l) \in [R -> Nat]
           /\ Pending(R, l) \in Nat
<1>1. ASSUME NEW S \in SUBSET R PROVE Latest(S, l) \in Nat
  <2>1. InTime(S, N)
    BY SubInTime
  <2>2. CASE S = {}
    BY <2>2 DEF Latest
  <2>3. CASE S # {}
    <3>1. Newest(S) \in S
      BY <2>1, <2>3, NewestExists
    <3> QED BY <2>1, <2>3, <3>1 DEF Latest, InTime
  <2> QED BY <2>2, <2>3
<1>2. \A d \in R : Earlier(R, d) \in SUBSET R /\ d.cum \in Nat
  BY DEF Earlier, InTime
<1>3. \A a, b \in Nat : Inc(a, b) \in Nat
  BY IncFacts
<1>4. Steps(R, l) \in [R -> Nat]
  BY <1>1, <1>2, <1>3 DEF Steps
<1>5. Pending(R, l) \in Nat
  BY <1>4, SumFacts DEF Pending, InTime
<1> QED BY <1>1, <1>4, <1>5

\* Converting the first reading leaves the rest to be converted after it.
LEMMA FirstConverted ==
    ASSUME NEW R, NEW N \in Int, InTime(R, N), NEW l \in Nat,
           NEW d \in R, \A e \in R : e # d => d.ts < e.ts
    PROVE  /\ Pending(R, l) = Inc(l, d.cum) + Pending(R \ {d}, d.cum)
           /\ Latest(R \ {d}, d.cum) = Latest(R, l)
<1> DEFINE S == R \ {d}
           f == Steps(R, l)
           g == Steps(S, d.cum)
           h == [e \in S |-> f[e]]
<1>1. InTime(S, N) /\ d.cum \in Nat /\ \A e \in R : e.ts \in Int
  BY SubInTime DEF InTime, DataPoint
<1>2. ASSUME NEW A \in SUBSET S
      PROVE  Latest(A \cup {d}, l) = Latest(A, d.cum)
  <2>1. InTime(A \cup {d}, N) /\ InTime(A, N)
    BY <1>1, SubInTime
  <2>2. CASE A = {}
    <3>1. Newest(A \cup {d}) = d
      BY <1>1, <2>1, <2>2, NewestIs
    <3> QED BY <2>2, <3>1 DEF Latest
  <2>3. CASE A # {}
    <3>1. Newest(A) \in A /\ \A e \in A : e.ts <= Newest(A).ts
      BY <2>1, <2>3, NewestExists
    <3>2. \A e \in A \cup {d} : e.ts <= Newest(A).ts
      BY <1>1, <3>1
    <3>3. Newest(A \cup {d}) = Newest(A)
      BY <2>1, <3>1, <3>2, NewestIs
    <3> QED BY <2>3, <3>3 DEF Latest
  <2> QED BY <2>2, <2>3
<1>3. Latest(S, d.cum) = Latest(R, l)
  <2>1. S \cup {d} = R
    OBVIOUS
  <2> QED BY <1>2, <2>1
<1>4. f[d] = Inc(l, d.cum)
  <2>1. Earlier(R, d) = {}
    BY <1>1 DEF Earlier
  <2>2. Latest(Earlier(R, d), l) = l
    BY <2>1 DEF Latest
  <2> QED BY <2>2 DEF Steps
<1>5. ASSUME NEW e \in S PROVE f[e] = g[e]
  <2>1. Earlier(R, e) = Earlier(S, e) \cup {d} /\ Earlier(S, e) \in SUBSET S
    BY <1>1 DEF Earlier
  <2>2. Latest(Earlier(R, e), l) = Latest(Earlier(S, e), d.cum)
    BY <1>2, <2>1
  <2> QED BY <2>2 DEF Steps
<1>6. f \in [R -> Nat] /\ g \in [S -> Nat] /\ IsFiniteSet(R) /\ IsFiniteSet(S) /\ f[d] \in Nat
  <2>1. f \in [R -> Nat] /\ g \in [S -> Nat]
    BY <1>1, LatestType
  <2>2. IsFiniteSet(R) /\ IsFiniteSet(S)
    BY <1>1 DEF InTime
  <2> HIDE DEF f, g
  <2> QED BY <2>1, <2>2
<1>7. SumOver(f, R) = f[d] + SumOver(f, S)
  <2> HIDE DEF f
  <2> QED BY <1>6, SumFacts
<1>8. SumOver(f, S) = SumOver(g, S)
  <2> HIDE DEF f, g
  <2> QED BY <1>5, <1>6, SameSum
<1> QED BY <1>3, <1>4, <1>7, <1>8 DEF Pending

\* A later reading adds its increase over the last one.
LEMMA LastSampled ==
    ASSUME NEW R, NEW N \in Int, InTime(R, N), NEW l \in Nat,
           NEW d \in DataPoint, d.cum \in Nat, d.ts = N
    PROVE  /\ InTime(R \cup {d}, N + 1)
           /\ Pending(R \cup {d}, l) = Pending(R, l) + Inc(Latest(R, l), d.cum)
           /\ Latest(R \cup {d}, l) = d.cum
<1> DEFINE S == R \cup {d}
           f == Steps(R, l)
           g == Steps(S, l)
<1>1. /\ \A e \in R : e \in DataPoint /\ e.ts \in Int /\ e.ts < N
      /\ d \notin R
  BY DEF InTime, DataPoint
<1>2. InTime(S, N + 1)
  <2>1. IsFiniteSet(S) /\ S \in SUBSET DataPoint
    BY FS_AddElement DEF InTime
  <2> QED BY <1>1, <2>1 DEF InTime
<1>3. Latest(S, l) = d.cum
  <2>1. Newest(S) = d
    BY <1>1, <1>2, NewestIs
  <2> QED BY <2>1 DEF Latest
<1>4. g[d] = Inc(Latest(R, l), d.cum)
  <2>1. Earlier(S, d) = R
    BY <1>1 DEF Earlier
  <2> QED BY <2>1 DEF Steps
<1>5. ASSUME NEW e \in R PROVE g[e] = f[e]
  <2>1. Earlier(S, e) = Earlier(R, e)
    BY <1>1 DEF Earlier
  <2> QED BY <2>1 DEF Steps
<1>6. f \in [R -> Nat] /\ g \in [S -> Nat] /\ IsFiniteSet(R) /\ IsFiniteSet(S)
  <2>1. N + 1 \in Int
    OBVIOUS
  <2>2. f \in [R -> Nat] /\ g \in [S -> Nat]
    BY <1>2, <2>1, LatestType
  <2>3. IsFiniteSet(R) /\ IsFiniteSet(S)
    BY <1>2 DEF InTime
  <2> QED BY <2>2, <2>3
<1>7. SumOver(g, S) = g[d] + SumOver(g, R) /\ S \ {d} = R
  <2>1. S \ {d} = R
    BY <1>1
  <2> HIDE DEF g
  <2> QED BY <1>6, <2>1, SumFacts
<1>8. SumOver(g, R) = SumOver(f, R)
  <2> HIDE DEF f, g
  <2> QED BY <1>5, <1>6, SameSum
<1>9. SumOver(f, R) \in Nat /\ g[d] \in Nat
  <2> HIDE DEF f, g
  <2> QED BY <1>6, SumFacts
<1> QED BY <1>2, <1>3, <1>4, <1>7, <1>8, <1>9 DEF Pending

\* What is left of the batch and of the queue, and the readings of k in it.
Rest(r) == {req[r].batch[n] : n \in {m \in DOMAIN req[r].batch : m >= req[r].i}}
           \cup {queue[n] : n \in DOMAIN queue}
ReadingsOf(D, k) == {d \in D : d.key = k /\ d.cum # NoReading}

Ascending(s) == \A m, n \in DOMAIN s : m < n => s[m].ts < s[n].ts

\* Data points and rows stay in the order in which they were sampled: what is
\* stored, what is on its way to the table, what is left of the batch, the queue.
TimeInv(r) ==
    LET q == req[r] IN
    /\ now <= MaxTime
    /\ q.pc # "unavailable"
    /\ Ascending(q.batch) /\ Ascending(queue) /\ Ascending(q.scalars)
    /\ \A m \in DOMAIN q.batch : q.batch[m].ts < now
    /\ \A m \in DOMAIN q.batch, n \in DOMAIN queue : q.batch[m].ts < queue[n].ts
    /\ \A d \in Rest(r) : d.ts >= 0 /\ d.ts < now
    /\ \A p \in points \cup ScalarsOf(q) : p.ts < now /\ \A d \in Rest(r) : p.ts < d.ts
    /\ q.pc \in Filling => \A p \in points, s \in ScalarsOf(q) : p.ts < s.ts
    /\ q.pc \in Storing => q.i > Len(q.batch) /\ ScalarsOf(q) \subseteq points

\* What is stored or on its way there and what the rest will add is the total.
Balanced(r, k) ==
    LET l == Last(cache, k)
        R == ReadingsOf(Rest(r), k)
    IN  /\ SumRows(points \cup ScalarsOf(req[r]), k) + Pending(R, l) = total[k]
        /\ Latest(R, l) = seen[k]

\* Every row of metric_series has the hash of some key with its content.
HashedInv == \A c \in Contents : HasRow(c) => \E m \in Keys : ContentOf[m] = c /\ HashOf[m] = series[c]

\* Clocks agree, and no data point is too old when it is handled.
OnTime == Skews = {0} /\ IngestWindow >= MaxTime
\* No two contents have keys with one hash.
NoCollisions == \A k, m \in Keys : HashOf[k] = HashOf[m] => ContentOf[k] = ContentOf[m]

ExactInv(r) ==
    /\ IsFiniteSet(points)
    /\ TimeInv(r)
    /\ \A k \in CounterKeys : Balanced(r, k)

LEMMA RestFacts ==
    ASSUME NEW r, OneAtATime(r), TypeInv, TimeInv(r)
    PROVE  /\ Rest(r) \in SUBSET DataPoint /\ IsFiniteSet(Rest(r)) /\ now \in Nat
           /\ \A d \in Rest(r) : d.ts \in Int /\ d.ts < now /\ d.ts >= 0
           /\ \A d, e \in Rest(r) : d.ts = e.ts => d = e
           /\ \A k : InTime(ReadingsOf(Rest(r), k), now)
<1> DEFINE s == req[r].batch
           B == {m \in DOMAIN s : m >= req[r].i}
<1>1. req[r] \in Request /\ queue \in Seq(DataPoint) /\ now \in Nat
  BY DEF OneAtATime, TypeInv, TypeOK
<1>2. s \in Seq(DataPoint)
  BY <1>1 DEF Request
<1>3. /\ \A n \in DOMAIN s : s[n] \in DataPoint
      /\ \A n \in DOMAIN queue : queue[n] \in DataPoint
  BY <1>1, <1>2
<1>4. Rest(r) \in SUBSET DataPoint
  BY <1>3 DEF Rest
<1>5. IsFiniteSet(Rest(r))
  <2>1. /\ IsFiniteSet(DOMAIN s) /\ IsFiniteSet(DOMAIN queue)
    BY <1>1, <1>2, FS_Interval
  <2>2. ASSUME NEW t, IsFiniteSet(DOMAIN t), NEW J \in SUBSET DOMAIN t
        PROVE  IsFiniteSet({t[n] : n \in J})
    <3> DEFINE f == [n \in J |-> t[n]]
    <3>1. IsFiniteSet(J)
      BY <2>2, FS_Subset
    <3>2. f \in Surjection(J, {t[n] : n \in J})
      BY DEF Surjection
    <3> HIDE DEF f
    <3> QED BY <3>1, <3>2, FS_Surjection
  <2>3. B \in SUBSET DOMAIN s
    OBVIOUS
  <2> HIDE DEF B
  <2>4. IsFiniteSet({s[n] : n \in B}) /\ IsFiniteSet({queue[n] : n \in DOMAIN queue})
    BY <2>1, <2>2, <2>3
  <2> QED BY <2>4, FS_Union DEF Rest, B
<1>6. \A d \in Rest(r) : d.ts \in Int /\ d.ts < now /\ d.ts >= 0
  BY <1>4 DEF TimeInv, DataPoint
<1>7. ASSUME NEW d \in Rest(r), NEW e \in Rest(r), d.ts = e.ts PROVE d = e
  <2>1. /\ \A m, n \in DOMAIN s : m < n => s[m].ts < s[n].ts
        /\ \A m, n \in DOMAIN queue : m < n => queue[m].ts < queue[n].ts
        /\ \A m \in DOMAIN s, n \in DOMAIN queue : s[m].ts < queue[n].ts
    BY DEF TimeInv, Ascending
  <2>2. /\ \A n \in DOMAIN s : s[n].ts \in Int /\ n \in Nat
        /\ \A n \in DOMAIN queue : queue[n].ts \in Int /\ n \in Nat
    BY <1>1, <1>2, <1>3 DEF DataPoint
  <2>3. /\ \A m, n \in DOMAIN s : s[m].ts = s[n].ts => m = n
        /\ \A m, n \in DOMAIN queue : queue[m].ts = queue[n].ts => m = n
        /\ \A m \in DOMAIN s, n \in DOMAIN queue : s[m].ts # queue[n].ts
    BY <2>1, <2>2
  <2>4. \A x \in Rest(r) : (\E n \in DOMAIN s : x = s[n]) \/ (\E n \in DOMAIN queue : x = queue[n])
    BY DEF Rest
  <2> QED BY <1>7, <2>3, <2>4
<1>8. ASSUME NEW k PROVE InTime(ReadingsOf(Rest(r), k), now)
  <2>1. ReadingsOf(Rest(r), k) \in SUBSET Rest(r)
    BY DEF ReadingsOf
  <2>2. \A d \in ReadingsOf(Rest(r), k) : d.cum \in Nat
    BY <1>4, ReadingAssumption DEF ReadingsOf, DataPoint
  <2>3. IsFiniteSet(ReadingsOf(Rest(r), k))
    BY <1>5, <2>1, FS_Subset
  <2> QED BY <1>4, <1>6, <1>7, <2>1, <2>2, <2>3 DEF InTime
<1> QED BY <1>1, <1>4, <1>5, <1>6, <1>7, <1>8

\* The data point the handler is at is the first of the rest.
LEMMA CurrentIsFirst ==
    ASSUME NEW r, OneAtATime(r), TypeInv, TimeInv(r), req[r].i \in 1..Len(req[r].batch)
    PROVE  /\ Current(r) \in Rest(r)
           /\ \A e \in Rest(r) : e # Current(r) => Current(r).ts < e.ts
           /\ req'[r].batch = req[r].batch /\ req'[r].i = req[r].i + 1 /\ queue' = queue
                 => Rest(r)' = Rest(r) \ {Current(r)}
<1> DEFINE s == req[r].batch
           i == req[r].i
<1>1. req[r] \in Request /\ queue \in Seq(DataPoint)
  BY DEF OneAtATime, TypeInv, TypeOK
<1>2. s \in Seq(DataPoint) /\ i \in Nat /\ i \in DOMAIN s /\ Current(r) = s[i]
  BY <1>1 DEF Request, Current
<1>3. /\ \A m, n \in DOMAIN s : m < n => s[m].ts < s[n].ts
      /\ \A m \in DOMAIN s, n \in DOMAIN queue : s[m].ts < queue[n].ts
  BY DEF TimeInv, Ascending
<1>4. /\ \A n \in DOMAIN s : s[n].ts \in Int /\ n \in Nat
      /\ \A n \in DOMAIN queue : queue[n].ts \in Int
  <2>1. /\ \A n \in DOMAIN s : s[n] \in DataPoint /\ n \in Nat
        /\ \A n \in DOMAIN queue : queue[n] \in DataPoint
    BY <1>1, <1>2
  <2> QED BY <2>1 DEF DataPoint
<1>5. Current(r) \in Rest(r)
  BY <1>2 DEF Rest
<1>6. ASSUME NEW e \in Rest(r), e # Current(r) PROVE Current(r).ts < e.ts
  <2>1. (\E n \in DOMAIN s : n >= i /\ e = s[n]) \/ (\E n \in DOMAIN queue : e = queue[n])
    BY DEF Rest
  <2> QED BY <1>2, <1>3, <1>4, <1>6, <2>1
<1>7. ASSUME req'[r].batch = s, req'[r].i = i + 1, queue' = queue
      PROVE  Rest(r)' = Rest(r) \ {Current(r)}
  <2>1. {m \in DOMAIN s : m >= i} = {m \in DOMAIN s : m >= i + 1} \cup {i}
    BY <1>2, <1>4
  <2>2. \A n \in DOMAIN s : n >= i + 1 => s[n] # s[i]
    <3>1. \A n \in DOMAIN s : n >= i + 1 => s[i].ts < s[n].ts
      BY <1>2, <1>3, <1>4
    <3> QED BY <1>2, <1>4, <3>1
  <2>3. \A n \in DOMAIN queue : queue[n] # s[i]
    BY <1>2, <1>3, <1>4
  <2> DEFINE A == {s[n] : n \in {m \in DOMAIN s : m >= i + 1}}
             Q == {queue[n] : n \in DOMAIN queue}
  <2>4. Rest(r)' = A \cup Q
    BY <1>7 DEF Rest
  <2>5. Rest(r) = A \cup {s[i]} \cup Q
    BY <2>1 DEF Rest
  <2>6. s[i] \notin A /\ s[i] \notin Q
    BY <2>2, <2>3
  <2> HIDE DEF A, Q
  <2> QED BY <1>2, <2>4, <2>5, <2>6
<1> QED BY <1>5, <1>6, <1>7

\* Nothing changed for k.
LEMMA BalancedSame ==
    ASSUME NEW r, NEW k, Balanced(r, k),
           ReadingsOf(Rest(r)', k) = ReadingsOf(Rest(r), k),
           RowsOf(points' \cup ScalarsOf(req'[r]), k) = RowsOf(points \cup ScalarsOf(req[r]), k),
           seen'[k] = seen[k], total'[k] = total[k], Last(cache', k) = Last(cache, k)
    PROVE  Balanced(r, k)'
<1>1. SumRows(points' \cup ScalarsOf(req'[r]), k) = SumRows(points \cup ScalarsOf(req[r]), k)
  BY DEF SumRows
<1> QED BY <1>1 DEF Balanced

LEMMA AdvanceInTime ==
    ASSUME NEW r, OneAtATime(r), TypeInv, TimeInv(r),
           req[r].pc \in Filling, req'[r].pc = "point", req[r].i \in 1..Len(req[r].batch),
           req'[r].batch = req[r].batch, req'[r].i = req[r].i + 1,
           \/ req'[r].scalars = req[r].scalars
           \/ \E row \in Row : /\ row.ts = Current(r).ts
                               /\ req'[r].scalars = Append(req[r].scalars, row),
           UNCHANGED <<points, exporter>>
    PROVE  TimeInv(r)'
<1> DEFINE q == req[r]
           d == Current(r)
<1>1. /\ d \in Rest(r) /\ \A e \in Rest(r) : e # d => d.ts < e.ts
      /\ Rest(r)' = Rest(r) \ {d}
  BY CurrentIsFirst DEF exporter
<1>2. /\ q \in Request /\ q.scalars \in Seq(Row) /\ points \in SUBSET Row /\ ScalarsOf(q) \in SUBSET Row
  <2>1. q \in Request /\ points \in SUBSET Row
    BY DEF OneAtATime, TypeInv, TypeOK
  <2> QED BY <2>1, BatchRows DEF Request
<1>3. \A e \in Rest(r) : e.ts \in Int
  BY RestFacts
<1>4. UNCHANGED <<points, queue, now>>
  BY DEF exporter
<1>5. /\ \A p \in points \cup ScalarsOf(q) : p.ts < now /\ p.ts < d.ts
      /\ d.ts < now
  BY <1>1 DEF TimeInv
<1>6. CASE req'[r].scalars = q.scalars
  <2>1. ScalarsOf(req'[r]) = ScalarsOf(q)
    BY <1>6 DEF ScalarsOf
  <2> QED BY <1>1, <1>4, <1>6, <2>1 DEF TimeInv, Filling, Storing
<1>7. CASE \E row \in Row : row.ts = d.ts /\ req'[r].scalars = Append(q.scalars, row)
  <2>1. PICK row \in Row : row.ts = d.ts /\ req'[r].scalars = Append(q.scalars, row)
    BY <1>7
  <2>2. ScalarsOf(req'[r]) = ScalarsOf(q) \cup {row}
    BY <1>2, <2>1, ScalarsAppended
  <2>3. Ascending(req'[r].scalars)
    <3> DEFINE t == q.scalars
               a == Append(t, row)
               n == Len(t)
    <3>1. /\ DOMAIN a = 1..(n + 1) /\ a[n + 1] = row /\ n \in Nat /\ DOMAIN t = 1..n
          /\ \A j \in 1..n : a[j] = t[j]
      BY <1>2
    <3>2. \A j \in 1..n : t[j].ts < row.ts
      BY <1>5, <2>1, <3>1 DEF ScalarsOf
    <3>3. \A m, j \in 1..n : m < j => t[m].ts < t[j].ts
      BY <3>1 DEF TimeInv, Ascending
    <3> HIDE DEF a, n, t
    <3>4. ASSUME NEW m \in 1..(n + 1), NEW j \in 1..(n + 1), m < j
          PROVE  a[m].ts < a[j].ts
      <4>1. m \in 1..n
        BY <3>1, <3>4
      <4>2. j = n + 1 \/ j \in 1..n
        BY <3>1, <3>4
      <4> QED BY <3>1, <3>2, <3>3, <3>4, <4>1, <4>2
    <3>5. Ascending(a)
      BY <3>1, <3>4 DEF Ascending
    <3> QED BY <2>1, <3>5 DEF a, t
  <2>4. \A p \in points \cup ScalarsOf(req'[r]) : p.ts < now /\ \A e \in Rest(r)' : p.ts < e.ts
    BY <1>1, <1>5, <2>1, <2>2 DEF TimeInv
  <2>5. \A p \in points, s \in ScalarsOf(req'[r]) : p.ts < s.ts
    BY <1>5, <2>1, <2>2 DEF TimeInv
  <2> QED BY <1>1, <1>4, <2>3, <2>4, <2>5 DEF TimeInv, Filling, Storing
<1> QED BY <1>6, <1>7

\* No data point is rejected for its age.
LEMMA CurrentInWindow ==
    ASSUME NEW r, OneAtATime(r), OnTime, TypeInv, TimeInv(r), req[r].i \in 1..Len(req[r].batch)
    PROVE  InWindow(Current(r).ts)
<1>1. Current(r).ts \in Int /\ Current(r).ts < now /\ Current(r).ts >= 0 /\ now \in Nat
  BY CurrentIsFirst, RestFacts
<1>2. now <= MaxTime /\ IngestWindow >= MaxTime
  BY DEF TimeInv, OnTime
<1> QED BY <1>1, <1>2, BoundAssumption, WindowAssumption DEF InWindow

LEMMA SkipsExact ==
    ASSUME NEW r, OneAtATime(r), OnTime, TypeInv, ExactInv(r), Skips(r)
    PROVE  ExactInv(r)'
<1>1. req[r].i \in 1..Len(req[r].batch) /\ TimeInv(r)
  BY DEF Skips, ExactInv
<1>2. TimeInv(r)'
  BY <1>1, AdvanceInTime DEF Skips
<1>3. Rest(r)' = Rest(r) \ {Current(r)}
  BY <1>1, CurrentIsFirst DEF Skips, exporter
<1>4. Kind[Current(r).key] # "counter" \/ Current(r).cum = NoReading
  BY <1>1, CurrentInWindow DEF Skips
<1>5. ASSUME NEW k \in CounterKeys PROVE Balanced(r, k)'
  <2>1. Balanced(r, k) /\ Kind[k] = "counter"
    BY DEF ExactInv, CounterKeys
  <2>2. ReadingsOf(Rest(r)', k) = ReadingsOf(Rest(r), k)
    BY <1>3, <1>4, <2>1 DEF ReadingsOf
  <2>3. RowsOf(points' \cup ScalarsOf(req'[r]), k) = RowsOf(points \cup ScalarsOf(req[r]), k)
    <3>1. CASE req'[r].scalars = req[r].scalars
      BY <3>1 DEF ScalarsOf, Skips
    <3>2. CASE req'[r].scalars # req[r].scalars
      <4>1. PICK row \in Row : /\ Kind[row.src] # "counter"
                               /\ req'[r].scalars = Append(req[r].scalars, row)
        BY <3>2 DEF Skips
      <4>2. req[r] \in Request
        BY DEF OneAtATime, TypeInv, TypeOK
      <4>3. ScalarsOf(req'[r]) = ScalarsOf(req[r]) \cup {row}
        BY <4>1, <4>2, ScalarsAppended
      <4> QED BY <2>1, <4>1, <4>3 DEF RowsOf, Skips
    <3> QED BY <3>1, <3>2
  <2>4. seen'[k] = seen[k] /\ total'[k] = total[k] /\ Last(cache', k) = Last(cache, k)
    BY DEF Skips, LastsKept, exporter
  <2> QED BY <2>1, <2>2, <2>3, <2>4, BalancedSame
<1>6. IsFiniteSet(points')
  BY DEF Skips, ExactInv
<1> QED BY <1>2, <1>5, <1>6 DEF ExactInv, CounterKeys

LEMMA CountsExact ==
    ASSUME NEW r, OneAtATime(r), OnTime, TypeInv, ExactInv(r), Counts(r)
    PROVE  ExactInv(r)'
<1> DEFINE d == Current(r)
           S == points \cup ScalarsOf(req[r])
<1>1. req[r].i \in 1..Len(req[r].batch) /\ TimeInv(r)
  BY DEF Counts, ExactInv
<1>2. TimeInv(r)'
  <2>1. \E row \in Row : row.ts = d.ts /\ req'[r].scalars = Append(req[r].scalars, row)
    BY DEF Counts
  <2> QED BY <1>1, <2>1, AdvanceInTime DEF Counts
<1>3. /\ Rest(r)' = Rest(r) \ {d} /\ d \in Rest(r)
      /\ \A e \in Rest(r) : e # d => d.ts < e.ts
  BY <1>1, CurrentIsFirst DEF Counts, exporter
<1>4. PICK row \in Row :
         /\ row.src = d.key /\ row.ts = d.ts /\ row.val = Inc(Last(cache, d.key), d.cum)
         /\ req'[r].scalars = Append(req[r].scalars, row)
  BY DEF Counts
<1>5. points' \cup ScalarsOf(req'[r]) = S \cup {row}
  <2>1. req[r] \in Request
    BY DEF OneAtATime, TypeInv, TypeOK
  <2>2. ScalarsOf(req'[r]) = ScalarsOf(req[r]) \cup {row}
    BY <1>4, <2>1, ScalarsAppended
  <2> QED BY <2>2 DEF Counts
<1>6. ASSUME NEW k \in CounterKeys PROVE Balanced(r, k)'
  <2>1. Balanced(r, k)
    BY <1>6 DEF ExactInv
  <2>2. seen'[k] = seen[k] /\ total'[k] = total[k]
    BY DEF Counts, exporter
  <2>3. CASE d.key # k
    <3>1. ReadingsOf(Rest(r)', k) = ReadingsOf(Rest(r), k)
      BY <1>3, <2>3 DEF ReadingsOf
    <3>2. RowsOf(points' \cup ScalarsOf(req'[r]), k) = RowsOf(S, k)
      BY <1>4, <1>5, <2>3 DEF RowsOf
    <3>3. Last(cache', k) = Last(cache, k)
      BY <2>3 DEF Counts
    <3> QED BY <2>1, <2>2, <3>1, <3>2, <3>3, BalancedSame
  <2>4. CASE d.key = k
    <3> DEFINE R == ReadingsOf(Rest(r), k)
               l == Last(cache, k)
               v == d.cum
    <3>1. d \in R /\ v \in Nat /\ ReadingsOf(Rest(r)', k) = R \ {d} /\ \A e \in R : e # d => d.ts < e.ts
      BY <1>3, <2>4, NoReadingAssumption DEF Counts, ReadingsOf
    <3>2. InTime(R, now) /\ now \in Int /\ l \in Nat
      BY <1>1, <1>6, RestFacts, StateTypes
    <3>3. Last(cache', k) = v
      BY <2>4 DEF Counts
    <3>4. S \in SUBSET Row /\ IsFiniteSet(S) /\ row \notin S
      <4>1. S \in SUBSET Row /\ IsFiniteSet(S)
        BY <1>6, StateTypes, FS_Union DEF ExactInv
      <4>2. \A p \in S : p.ts < d.ts
        BY <1>1, <1>3 DEF TimeInv
      <4>3. d.ts \in Int
        BY <1>1, <1>3, RestFacts
      <4>4. row \notin S
        <5> HIDE DEF S, d
        <5> QED BY <1>4, <4>2, <4>3
      <4> QED BY <4>1, <4>4
    <3>5. /\ SumRows(S \cup {row}, k) = SumRows(S, k) + Inc(l, v)
          /\ SumRows(S, k) \in Nat
      BY <1>4, <2>4, <3>4, RowSums
    <3> HIDE DEF R, l, v, S, d
    <3>6. /\ Pending(R, l) = Inc(l, d.cum) + Pending(R \ {d}, d.cum)
          /\ Latest(R \ {d}, d.cum) = Latest(R, l)
      BY <3>1, <3>2, FirstConverted
    <3>7. Pending(R \ {d}, d.cum) \in Nat /\ Inc(l, d.cum) \in Nat
      <4>1. InTime(R \ {d}, now)
        BY <3>2, SubInTime
      <4> QED BY <3>1, <3>2, <4>1, LatestType, IncFacts DEF v
    <3>8. SumRows(S, k) + Pending(R, l) = total[k] /\ Latest(R, l) = seen[k]
      BY <2>1 DEF Balanced, R, l, S
    <3>9. SumRows(S \cup {row}, k) + Pending(R \ {d}, d.cum) = total[k]
      BY <3>5, <3>6, <3>7, <3>8 DEF v
    <3> QED BY <1>5, <2>2, <3>1, <3>3, <3>6, <3>8, <3>9 DEF Balanced, v
  <2> QED BY <2>3, <2>4
<1>7. IsFiniteSet(points')
  BY DEF Counts, ExactInv
<1> QED BY <1>2, <1>6, <1>7 DEF ExactInv, CounterKeys

LEMMA WritesExact ==
    ASSUME NEW r, OneAtATime(r), TypeInv, ExactInv(r), Writes(r)
    PROVE  ExactInv(r)'
<1> DEFINE q == req[r]
           s == q.scalars
<1>1. /\ q \in Request /\ s \in Seq(Row) /\ points \in SUBSET Row /\ TimeInv(r) /\ IsFiniteSet(points)
  BY DEF OneAtATime, TypeInv, TypeOK, Request, ExactInv
<1>2. /\ points' = Inserted(points, s) /\ q.pc \in Filling /\ req'[r].pc \in Storing
      /\ req'[r].batch = q.batch /\ req'[r].i = q.i /\ req'[r].scalars = s /\ q.i > Len(q.batch)
      /\ UNCHANGED exporter
  BY DEF Writes
<1>3. ScalarsOf(req'[r]) = ScalarsOf(q) /\ Rest(r)' = Rest(r)
  BY <1>2 DEF ScalarsOf, Rest, exporter
\* Every scalar is inserted: no row has its timestamp.
<1>4. points' = points \cup ScalarsOf(q)
  <2>1. /\ \A n \in DOMAIN s : s[n].ts \in Int /\ n \in Nat
        /\ \A p \in points : p.ts \in Int
    <3>1. \A n \in DOMAIN s : s[n] \in Row /\ n \in Nat
      BY <1>1
    <3> QED BY <1>1, <3>1 DEF Row
  <2>2. \A p \in points, n \in DOMAIN s : p.ts < s[n].ts
    BY <1>1, <1>2 DEF TimeInv, ScalarsOf
  <2>3. \A m, n \in DOMAIN s : m < n => s[m].ts < s[n].ts
    BY <1>1 DEF TimeInv, Ascending
  <2>4. \A n \in DOMAIN s : /\ \A p \in points : ~SameKey(p, s[n])
                            /\ \A m \in DOMAIN s : m < n => ~SameKey(s[m], s[n])
    BY <2>1, <2>2, <2>3 DEF SameKey
  <2>5. {n \in DOMAIN s : /\ \A p \in points : ~SameKey(p, s[n])
                          /\ \A m \in DOMAIN s : m < n => ~SameKey(s[m], s[n])} = DOMAIN s
    BY <2>4
  <2> QED BY <1>2, <2>5 DEF Inserted, ScalarsOf
<1>5. TimeInv(r)'
  BY <1>1, <1>2, <1>3, <1>4 DEF TimeInv, exporter, Filling, Storing
<1>6. ASSUME NEW k \in CounterKeys PROVE Balanced(r, k)'
  <2>1. Balanced(r, k)
    BY <1>6 DEF ExactInv
  <2>2. points' \cup ScalarsOf(req'[r]) = points \cup ScalarsOf(q)
    BY <1>3, <1>4
  <2>3. seen'[k] = seen[k] /\ total'[k] = total[k] /\ Last(cache', k) = Last(cache, k)
    BY DEF Writes, LastsKept, exporter
  <2> QED BY <1>3, <2>1, <2>2, <2>3, BalancedSame
<1>7. IsFiniteSet(points')
  BY <1>1, <1>4, BatchRows, FS_Union
<1> QED BY <1>5, <1>6, <1>7 DEF ExactInv, CounterKeys

LEMMA ReturnsExact ==
    ASSUME NEW r, OneAtATime(r), TypeInv, ExactInv(r),
           Returns(r, <<>>) \/ Returns(r, req[r].batch)
    PROVE  ExactInv(r)'
<1> DEFINE q == req[r]
<1>1. q \in Request /\ q.batch \in Seq(DataPoint) /\ q.i \in Nat /\ TimeInv(r)
  BY DEF OneAtATime, TypeInv, TypeOK, Request, ExactInv
<1>2. /\ req'[r].batch = <<>> /\ req'[r].scalars = <<>> /\ req'[r].pc = "idle" /\ q.pc = "ok"
      /\ UNCHANGED <<points, exporter>> /\ LastsKept
  <2>1. q.pc # "unavailable"
    BY <1>1 DEF TimeInv
  <2> QED BY <2>1 DEF Returns
<1>3. q.i > Len(q.batch) /\ ScalarsOf(q) \subseteq points
  BY <1>1, <1>2 DEF TimeInv, Storing
<1>4. ScalarsOf(req'[r]) = {} /\ Rest(r)' = Rest(r)
  <2>1. {m \in DOMAIN q.batch : m >= q.i} = {}
    BY <1>1, <1>3
  <2>2. DOMAIN req'[r].batch = {} /\ DOMAIN req'[r].scalars = {}
    BY <1>2
  <2> QED BY <1>2, <2>1, <2>2 DEF Rest, ScalarsOf, exporter
<1>5. points' \cup ScalarsOf(req'[r]) = points \cup ScalarsOf(q)
  BY <1>2, <1>3, <1>4
<1>6. TimeInv(r)'
  <2>1. Ascending(req'[r].batch) /\ Ascending(req'[r].scalars)
    BY <1>2 DEF Ascending
  <2>2. /\ \A m \in DOMAIN req'[r].batch, n \in DOMAIN queue' : req'[r].batch[m].ts < queue'[n].ts
        /\ req'[r].pc \notin Filling /\ req'[r].pc \notin Storing
    BY <1>2 DEF Filling, Storing
  <2> QED BY <1>1, <1>2, <1>4, <1>5, <2>1, <2>2 DEF TimeInv, exporter
<1>7. ASSUME NEW k \in CounterKeys PROVE Balanced(r, k)'
  <2>1. Balanced(r, k)
    BY <1>7 DEF ExactInv
  <2>2. seen'[k] = seen[k] /\ total'[k] = total[k] /\ Last(cache', k) = Last(cache, k)
    BY <1>2 DEF LastsKept, exporter
  <2> QED BY <1>4, <1>5, <2>1, <2>2, BalancedSame
<1> QED BY <1>2, <1>6, <1>7 DEF ExactInv, CounterKeys

LEMMA MovesExact ==
    ASSUME NEW r, OneAtATime(r), TypeInv, ExactInv(r), Moves(r), faults' = 0, ~InsertCollides(r)
    PROVE  ExactInv(r)'
<1> DEFINE q == req[r]
<1>1. /\ req'[r].batch = q.batch /\ req'[r].i = q.i /\ req'[r].scalars = q.scalars
      /\ UNCHANGED <<points, exporter>> /\ LastsKept
      /\ \/ q.pc \in Filling /\ req'[r].pc \in Filling
         \/ q.pc \in Storing /\ req'[r].pc \in Storing
  BY DEF Moves
<1>2. ScalarsOf(req'[r]) = ScalarsOf(q) /\ Rest(r)' = Rest(r)
  BY <1>1 DEF ScalarsOf, Rest, exporter
<1>3. TimeInv(r)'
  BY <1>1, <1>2 DEF ExactInv, TimeInv, exporter, Filling, Storing
<1>4. ASSUME NEW k \in CounterKeys PROVE Balanced(r, k)'
  <2>1. Balanced(r, k)
    BY <1>4 DEF ExactInv
  <2>2. /\ seen'[k] = seen[k] /\ total'[k] = total[k] /\ Last(cache', k) = Last(cache, k)
        /\ points' = points
    BY <1>1 DEF LastsKept, exporter
  <2> QED BY <1>2, <2>1, <2>2, BalancedSame
<1> QED BY <1>1, <1>3, <1>4 DEF ExactInv, CounterKeys

LEMMA PostExact ==
    ASSUME NEW r, OneAtATime(r), TypeInv, PlaceInv(r), ExactInv(r), Post(r)
    PROVE  ExactInv(r)'
<1>1. req[r] = Idle /\ r \in Requests /\ req \in [Requests -> Request] /\ queue \in Seq(DataPoint)
  BY DEF Post, PlaceInv, OneAtATime, TypeInv, TypeOK
<1>2. /\ req'[r].batch = queue /\ req'[r].i = 1 /\ req'[r].scalars = <<>> /\ req'[r].pc = "point"
      /\ queue' = <<>> /\ UNCHANGED <<points, cache, now, seen, total>>
  <2>1. req'[r] = [Idle EXCEPT !.pc = "point", !.batch = queue]
    BY <1>1 DEF Post
  <2>2. \A s : LET q == [Idle EXCEPT !.pc = "point", !.batch = s]
              IN  q.batch = s /\ q.i = 1 /\ q.scalars = <<>> /\ q.pc = "point"
    BY DEF Idle
  <2>3. queue' = <<>> /\ UNCHANGED <<points, cache, now, seen, total>>
    BY DEF Post, database
  <2> QED BY <2>1, <2>2, <2>3
<1>3. req[r].batch = <<>> /\ req[r].scalars = <<>>
  BY <1>1 DEF Idle
<1>4. Rest(r)' = Rest(r)
  <2>1. {m \in DOMAIN queue : m >= 1} = DOMAIN queue
    <3>1. \A m \in DOMAIN queue : m >= 1
      BY <1>1
    <3> QED BY <3>1
  <2>2. DOMAIN req[r].batch = {} /\ DOMAIN queue' = {}
    BY <1>2, <1>3
  <2> QED BY <1>2, <2>1, <2>2 DEF Rest
<1>5. ScalarsOf(req[r]) = {} /\ ScalarsOf(req'[r]) = {}
  BY <1>2, <1>3 DEF ScalarsOf
<1>6. TimeInv(r)'
  <2>1. TimeInv(r)
    BY DEF ExactInv
  <2>2. Ascending(<<>>) /\ Ascending(queue)
    BY <2>1 DEF Ascending, TimeInv
  <2>3. \A p \in points' \cup ScalarsOf(req'[r]) : p.ts < now' /\ \A d \in Rest(r)' : p.ts < d.ts
    BY <1>2, <1>4, <1>5, <2>1 DEF TimeInv
  <2>4. \A d \in Rest(r)' : d.ts >= 0 /\ d.ts < now'
    BY <1>2, <1>4, <2>1 DEF TimeInv
  <2>5. now' <= MaxTime
    BY <1>2, <2>1 DEF TimeInv
  <2>6. \A m \in DOMAIN queue : queue[m].ts < now
    <3>1. \A m \in DOMAIN queue : queue[m] \in Rest(r)
      BY DEF Rest
    <3> QED BY <2>1, <3>1 DEF TimeInv
  <2> QED BY <1>2, <1>5, <2>2, <2>3, <2>4, <2>5, <2>6 DEF TimeInv, Filling, Storing
<1>7. ASSUME NEW k \in CounterKeys PROVE Balanced(r, k)'
  <2>1. Balanced(r, k)
    BY <1>7 DEF ExactInv
  <2> QED BY <1>2, <1>4, <1>5, <2>1, BalancedSame
<1> QED BY <1>2, <1>6, <1>7 DEF ExactInv, CounterKeys

LEMMA SampleExact ==
    ASSUME NEW r, OneAtATime(r), OnTime, TypeInv, ExactInv(r),
           NEW m \in Keys, NEW v \in Readings, Sample(m, v)
    PROVE  ExactInv(r)'
<1> DEFINE q == req[r]
           d == [key |-> m, ts |-> now, cum |-> v]
<1>1. /\ q \in Request /\ q.batch \in Seq(DataPoint) /\ queue \in Seq(DataPoint) /\ now \in Nat
      /\ seen \in [Keys -> Nat] /\ total \in [Keys -> Nat] /\ TimeInv(r)
  BY DEF OneAtATime, TypeInv, TypeOK, Request, ExactInv
<1>2. /\ queue' = Append(queue, d) /\ now' = now + 1 /\ now < MaxTime
      /\ UNCHANGED <<points, cache, req>>
  <2>1. PICK skew \in Skews : queue' = Append(queue, [key |-> m, ts |-> now + skew, cum |-> v])
    BY DEF Sample
  <2>2. now + skew = now
    BY <1>1 DEF OnTime
  <2>3. now' = now + 1 /\ now < MaxTime /\ UNCHANGED <<points, cache, req>>
    BY DEF Sample, database
  <2> QED BY <2>1, <2>2, <2>3
<1>3. d \in DataPoint /\ d.key = m /\ d.ts = now /\ d.cum = v
  BY <1>1 DEF DataPoint
<1> HIDE DEF d
<1> DEFINE n == Len(queue)
<1>4. /\ DOMAIN queue = 1..n /\ DOMAIN queue' = 1..(n + 1) /\ queue'[n + 1] = d /\ n \in Nat
      /\ \A j \in 1..n : queue'[j] = queue[j]
  BY <1>1, <1>2
<1> HIDE DEF n
<1>5. Rest(r)' = Rest(r) \cup {d}
  <2>1. {queue'[j] : j \in DOMAIN queue'} = {queue[j] : j \in DOMAIN queue} \cup {d}
    BY <1>4
  <2> QED BY <1>2, <2>1 DEF Rest
<1>6. \A e \in Rest(r) : e.ts < now /\ e.ts \in Int
  BY <1>1, RestFacts
<1>7. TimeInv(r)'
  <2>1. \A j \in 1..n : queue[j].ts < now
    <3>1. \A j \in 1..n : queue[j] \in Rest(r)
      BY <1>4 DEF Rest
    <3> QED BY <1>6, <3>1
  <2>2. \A i, j \in 1..n : i < j => queue[i].ts < queue[j].ts
    BY <1>1, <1>4 DEF TimeInv, Ascending
  <2>3. Ascending(queue')
    <3>1. ASSUME NEW i \in 1..(n + 1), NEW j \in 1..(n + 1), i < j
          PROVE  queue'[i].ts < queue'[j].ts
      <4>1. i \in 1..n /\ (j = n + 1 \/ j \in 1..n)
        BY <1>4, <3>1
      <4> QED BY <1>3, <1>4, <2>1, <2>2, <3>1, <4>1
    <3> QED BY <1>4, <3>1 DEF Ascending
  <2>4. \A i \in DOMAIN q.batch, j \in DOMAIN queue' : q.batch[i].ts < queue'[j].ts
    <3>1. \A i \in DOMAIN q.batch, j \in 1..n : q.batch[i].ts < queue[j].ts
      BY <1>1, <1>4 DEF TimeInv
    <3>2. \A i \in DOMAIN q.batch : q.batch[i].ts < now
      BY <1>1 DEF TimeInv
    <3> QED BY <1>3, <1>4, <3>1, <3>2
  <2>5. \A e \in Rest(r)' : e.ts >= 0 /\ e.ts < now'
    BY <1>1, <1>2, <1>3, <1>5, <1>6 DEF TimeInv
  <2>6. points \cup ScalarsOf(q) \in SUBSET Row
    BY <1>1, BatchRows DEF TypeInv, TypeOK
  <2>7. \A p \in points \cup ScalarsOf(q) : p.ts \in Int /\ p.ts < now /\ \A e \in Rest(r) : p.ts < e.ts
    BY <1>1, <2>6 DEF TimeInv, Row
  <2>8. \A p \in points \cup ScalarsOf(q) : p.ts < now' /\ \A e \in Rest(r)' : p.ts < e.ts
    BY <1>1, <1>2, <1>3, <1>5, <2>7
  <2>9. now' <= MaxTime
    BY <1>1, <1>2, BoundAssumption
  <2>10. \A i \in DOMAIN q.batch : q.batch[i].ts < now'
    <3>1. \A i \in DOMAIN q.batch : q.batch[i] \in DataPoint
      BY <1>1
    <3>2. \A i \in DOMAIN q.batch : q.batch[i].ts \in Int /\ q.batch[i].ts < now
      BY <1>1, <3>1 DEF TimeInv, DataPoint
    <3> QED BY <1>1, <1>2, <3>2
  <2> QED BY <1>1, <1>2, <2>3, <2>4, <2>5, <2>8, <2>9, <2>10 DEF TimeInv
<1>8. ASSUME NEW k \in CounterKeys PROVE Balanced(r, k)'
  <2>1. Balanced(r, k) /\ Kind[k] = "counter" /\ k \in Keys
    BY <1>8 DEF ExactInv, CounterKeys
  <2>2. points' \cup ScalarsOf(req'[r]) = points \cup ScalarsOf(q) /\ Last(cache', k) = Last(cache, k)
    BY <1>2
  <2>3. CASE ~(m = k /\ v # NoReading)
    <3>1. seen'[k] = seen[k] /\ total'[k] = total[k]
      BY <1>1, <2>1, <2>3 DEF Sample
    <3>2. ReadingsOf(Rest(r)', k) = ReadingsOf(Rest(r), k)
      BY <1>3, <1>5, <2>3 DEF ReadingsOf
    <3> QED BY <2>1, <2>2, <3>1, <3>2, BalancedSame
  <2>4. CASE m = k /\ v # NoReading
    <3> DEFINE R == ReadingsOf(Rest(r), k)
               l == Last(cache, k)
               A == points \cup ScalarsOf(q)
    <3>1. v \in Nat /\ seen'[k] = v /\ total'[k] = total[k] + Inc(seen[k], v)
      BY <1>1, <2>1, <2>4, ReadingAssumption DEF Sample, Increase, Inc
    <3>2. ReadingsOf(Rest(r)', k) = R \cup {d}
      BY <1>3, <1>5, <2>4 DEF ReadingsOf
    <3>3. InTime(R, now) /\ now \in Int /\ l \in Nat /\ seen[k] \in Nat
      BY <1>1, <1>8, RestFacts, StateTypes
    <3>4. SumRows(A, k) \in Nat
      <4>1. A \in SUBSET Row /\ IsFiniteSet(A)
        BY <1>8, StateTypes, FS_Union DEF ExactInv
      <4> QED BY <4>1, RowSums
    <3>5. SumRows(A, k) + Pending(R, l) = total[k] /\ Latest(R, l) = seen[k]
      BY <2>1 DEF Balanced
    <3> HIDE DEF R, l, A
    <3>6. /\ Pending(R \cup {d}, l) = Pending(R, l) + Inc(Latest(R, l), d.cum)
          /\ Latest(R \cup {d}, l) = d.cum
      BY <1>3, <3>1, <3>3, LastSampled
    <3>7. Pending(R, l) \in Nat /\ Inc(seen[k], v) \in Nat
      BY <3>1, <3>3, LatestType, IncFacts
    <3>8. Pending(R \cup {d}, l) = Pending(R, l) + Inc(seen[k], v)
      BY <1>3, <3>5, <3>6
    <3>9. SumRows(A, k) + Pending(R \cup {d}, l) = total[k] + Inc(seen[k], v)
      BY <3>4, <3>5, <3>7, <3>8
    <3> QED BY <1>3, <2>2, <3>1, <3>2, <3>6, <3>9 DEF Balanced, l, A
  <2> QED BY <2>3, <2>4
<1> QED BY <1>2, <1>7, <1>8 DEF ExactInv, CounterKeys

LEMMA NothingPending == \A l : Pending({}, l) = 0
<1>1. ASSUME NEW f \in [{} -> Nat] PROVE SumOver(f, {}) = 0
  BY SumFacts, FS_EmptySet
<1>2. \A l : Steps({}, l) \in [{} -> Nat]
  BY DEF Steps
<1> QED BY <1>1, <1>2 DEF Pending

LEMMA HashedPreserved ==
    ASSUME TypeInv, HashedInv, [Next]_vars
    PROVE  HashedInv'
<1>1. CASE UNCHANGED series
  BY <1>1 DEF HashedInv, HasRow
<1>2. ASSUME NEW r \in Requests, InsertSeries(r) PROVE HashedInv'
  <2> DEFINE k == Current(r).key
             c == ContentOf[k]
  <2>1. k \in Keys /\ c \in Contents /\ series \in [Contents -> Ids \cup {0}]
    <3>1. req[r] \in Request /\ series \in [Contents -> Ids \cup {0}]
      BY DEF TypeInv, TypeOK
    <3>2. k \in Keys
      BY <1>2, <3>1, CurrentType DEF InsertSeries
    <3> QED BY <3>1, <3>2, KeyAssumption
  <2>2. series' = series \/ series' = [series EXCEPT ![c] = HashOf[k]]
    BY <1>2 DEF InsertSeries, SeriesAfterInsert
  <2> HIDE DEF k
  <2>3. CASE series' = [series EXCEPT ![c] = HashOf[k]]
    BY <2>1, <2>3 DEF HashedInv, HasRow
  <2> QED BY <1>1, <2>2, <2>3
<1>3. \/ UNCHANGED series
      \/ \E r \in Requests : InsertSeries(r)
  <2>1. CASE \E k \in Keys, v \in Readings : Sample(k, v)
    BY <2>1 DEF Sample, database
  <2>2. CASE Restart \/ UNCHANGED vars
    BY <2>2 DEF Restart, vars, database
  <2>3. ASSUME NEW r \in Requests, Post(r) \/ Retry(r) \/ GiveUp(r) \/ DbFails(r) \/ LoseReply(r)
        PROVE  UNCHANGED series
    BY <2>3 DEF Post, Retry, GiveUp, DbFails, LoseReply, database
  <2>4. ASSUME NEW r \in Requests, Handler(r)
        PROVE  UNCHANGED series \/ InsertSeries(r)
    <3>1. CASE Resolve(r)
      BY <3>1 DEF Resolve, LookupHit, LookupMiss, InsertCollides, SelectSeries, database
    <3>2. CASE Convert(r)
      BY <3>2 DEF Convert, Reject, RejectValueless, PushCounter, PushRaw, PushHistogram, database
    <3>3. CASE Store(r)
      BY <3>3 DEF Store, WriteScalars, WriteHistograms, Respond, database
    <3> QED BY <2>4, <3>1, <3>2, <3>3 DEF Handler
  <2> QED BY <2>1, <2>2, <2>3, <2>4 DEF Next
<1> QED BY <1>1, <1>2, <1>3

LEMMA NeverCollides ==
    ASSUME NEW r \in Requests, NoCollisions, TypeInv, HashedInv
    PROVE  ~InsertCollides(r)
<1> DEFINE k == Current(r).key
<1>1. SUFFICES ASSUME InsertCollides(r) PROVE FALSE
  OBVIOUS
<1>2. k \in Keys
  <2>1. req[r] \in Request
    BY DEF TypeInv, TypeOK
  <2> QED BY <1>1, <2>1, CurrentType DEF InsertCollides
<1>3. /\ ~HasRow(ContentOf[k])
      /\ \E c \in Contents : series[c] = HashOf[k]
  BY <1>1 DEF InsertCollides, IdTaken
<1> HIDE DEF k
<1>4. PICK c \in Contents : series[c] = HashOf[k]
  BY <1>3
<1>5. HasRow(c)
  BY <1>2, <1>4, KeyAssumption, NoIdAssumption DEF HasRow
<1>6. PICK m \in Keys : ContentOf[m] = c /\ HashOf[m] = series[c]
  BY <1>5 DEF HashedInv
<1>7. ContentOf[k] = c
  BY <1>2, <1>4, <1>6 DEF NoCollisions
<1> QED BY <1>3, <1>5, <1>7

LEMMA ExactPreserved ==
    ASSUME NEW r, OneAtATime(r), OnTime, NoCollisions, TypeInv, PlaceInv(r), HashedInv, ExactInv(r),
           [Next]_vars, faults' = 0, restarts' = 0
    PROVE  ExactInv(r)'
<1>1. r \in Requests
  BY DEF OneAtATime
<1>2. CASE UNCHANGED vars
  <2>1. UNCHANGED <<points, queue, req, cache, seen, total, now>>
    BY <1>2 DEF vars
  <2>2. Rest(r)' = Rest(r)
    BY <2>1 DEF Rest
  <2>3. TimeInv(r)'
    BY <2>1, <2>2 DEF ExactInv, TimeInv
  <2>4. ASSUME NEW k \in CounterKeys PROVE Balanced(r, k)'
    BY <2>1, <2>2, BalancedSame DEF ExactInv
  <2> QED BY <2>1, <2>3, <2>4 DEF ExactInv, CounterKeys
<1>3. CASE \E m \in Keys, v \in Readings : Sample(m, v)
  BY <1>3, SampleExact
<1>4. CASE Moves(r)
  BY <1>1, <1>4, NeverCollides, MovesExact
<1>5. CASE Post(r) \/ Skips(r) \/ Counts(r) \/ Writes(r)
  BY <1>5, PostExact, SkipsExact, CountsExact, WritesExact
<1>6. CASE Returns(r, <<>>) \/ Returns(r, req[r].batch)
  BY <1>6, ReturnsExact
<1> QED BY <1>2, <1>3, <1>4, <1>5, <1>6, StepKinds

LEMMA InitialExact == ASSUME NEW r, OneAtATime(r), Init PROVE HashedInv /\ ExactInv(r)
<1>1. /\ points = {} /\ queue = <<>> /\ cache = EmptyCache /\ now = 0
      /\ req[r].batch = <<>> /\ req[r].i = 1 /\ req[r].scalars = <<>> /\ req[r].pc = "idle"
  BY DEF Init, OneAtATime, Idle
<1>2. Rest(r) = {} /\ ScalarsOf(req[r]) = {}
  BY <1>1 DEF Rest, ScalarsOf
<1>3. TimeInv(r)
  <2>1. Ascending(<<>>)
    BY DEF Ascending
  <2>2. now <= MaxTime
    BY <1>1, BoundAssumption
  <2> QED BY <1>1, <1>2, <2>1, <2>2 DEF TimeInv, Filling, Storing
<1>4. ASSUME NEW k \in CounterKeys PROVE Balanced(r, k)
  <2>1. seen[k] = 0 /\ total[k] = 0
    BY DEF Init, CounterKeys
  <2>2. ReadingsOf(Rest(r), k) = {} /\ RowsOf(points \cup ScalarsOf(req[r]), k) = {}
    BY <1>1, <1>2 DEF RowsOf, ReadingsOf
  <2>3. SumRows(points \cup ScalarsOf(req[r]), k) = 0
    <3>1. Val \in [Row -> Nat] /\ IsFiniteSet({})
      BY FS_EmptySet DEF Val, Row
    <3> QED BY <2>2, <3>1, SumFacts DEF SumRows
  <2>4. Last(cache, k) = 0
    BY <1>1 DEF Last, EmptyCache
  <2>5. Latest({}, 0) = 0 /\ Pending({}, 0) = 0
    BY NothingPending DEF Latest
  <2> QED BY <2>1, <2>2, <2>3, <2>4, <2>5 DEF Balanced
<1>5. HashedInv
  BY DEF Init, HashedInv, HasRow
<1> QED BY <1>1, <1>3, <1>4, <1>5, FS_EmptySet DEF ExactInv

\* The deltas of a counter add up to what its instrument counted, resets
\* included, once everything sampled was delivered and nothing went wrong: for
\* clocks that agree and hashes that do not collide, for a handler that has one
\* batch at a time, and a cache that holds all the series (otlp_http.rs
\* ingest_metrics, series.rs swap_cumulative, write.rs write_metric_points).
THEOREM ExactTotals ==
    ASSUME NEW r, OneAtATime(r), OnTime, NoCollisions
    PROVE  Spec => []DeltasTelescope
<1> DEFINE I == /\ TypeInv /\ PlaceInv(r) /\ HashedInv
                /\ faults = 0 /\ restarts = 0 => ExactInv(r)
<1>1. Init => I
  BY InitialTypes, InitialPlace, InitialExact
<1>2. I /\ [Next]_vars => I'
  <2> SUFFICES ASSUME I, [Next]_vars PROVE I'
    OBVIOUS
  <2>1. TypeInv' /\ PlaceInv(r)' /\ HashedInv'
    BY TypesPreserved, StepKinds, HashedPreserved
  <2>2. ASSUME faults' = 0, restarts' = 0 PROVE ExactInv(r)'
    BY <2>2, NothingUndone, ExactPreserved
  <2> QED BY <2>1, <2>2
<1>3. I => DeltasTelescope
  <2> SUFFICES ASSUME I, AllDelivered, faults = 0, restarts = 0, NEW k \in CounterKeys
               PROVE  StoredTotal(k) = total[k]
    BY DEF DeltasTelescope
  <2>1. StoredTotal(k) = SumRows(points, k)
    BY StoredTotalIsSum DEF ExactInv, TypeInv, TypeOK, SumRows
  <2>2. req[r] = Idle /\ queue = <<>>
    BY DEF AllDelivered, OneAtATime, PlaceInv
  <2>3. req[r].batch = <<>> /\ req[r].scalars = <<>>
    BY <2>2 DEF Idle
  <2>4. Rest(r) = {} /\ ScalarsOf(req[r]) = {}
    BY <2>2, <2>3 DEF Rest, ScalarsOf
  <2>5. ReadingsOf(Rest(r), k) = {} /\ points \cup ScalarsOf(req[r]) = points
    BY <2>4 DEF ReadingsOf
  <2>6. SumRows(points, k) \in Nat
    BY RowSums DEF ExactInv, TypeInv, TypeOK
  <2>7. SumRows(points, k) + Pending({}, Last(cache, k)) = total[k]
    BY <2>5 DEF ExactInv, Balanced
  <2> QED BY <2>1, <2>6, <2>7, NothingPending
<1> QED BY <1>1, <1>2, <1>3, PTL DEF Spec
===============================================================================
