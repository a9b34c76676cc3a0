------------------------- MODULE MetricIngest_proofs -------------------------
(***************************************************************************)
(* The type and safety invariants of MetricIngest (ids, filing, reporting, *)
(* acknowledgement, recency), for every set of keys and requests, every    *)
(* hash function, capacity and number of faults and restarts.              *)
(***************************************************************************)
EXTENDS MetricIngest, Sums_proofs

-------------------------------------------------------------------------------
(* Types.                                                                    *)

\* A handler that left the loop's head is at a data point of its batch.
InBatch ==
    \A r \in Requests :
        req[r].pc \in {"insert", "select", "value"} => req[r].i \in 1..Len(req[r].batch)

TypeInv == TypeOK /\ InBatch

\* The map is one whatever is put into it, looked up in it or swapped in it.
LEMMA CacheOperators ==
    ASSUME NEW D \in SUBSET Keys, NEW c \in [D -> Entry], NEW k \in Keys,
           NEW id \in Ids \cup {0}, NEW v \in Nat
    PROVE  /\ k \in D => Touch(c, k) \in [D -> Entry]
           /\ \E E \in SUBSET Keys : PutFresh(c, k, id) \in [E -> Entry]
           /\ SwapReading(c, k, v) \in [D -> Entry]
           /\ LastReading(c, k) \in Nat \cup {NoReading}
<1>1. ASSUME NEW e \in Entry, NEW a \in Nat PROVE Aged(e, a) \in Entry
  BY <1>1 DEF Aged, Entry
<1>2. ASSUME k \in D PROVE Touch(c, k) \in [D -> Entry]
  <2>1. c[k] \in Entry /\ c[k].age \in Nat
    BY <1>2 DEF Entry
  <2>2. [c[k] EXCEPT !.age = 0] \in Entry
    BY <2>1 DEF Entry
  <2>3. \A x \in D : Aged(c[x], c[k].age) \in Entry
    BY <2>1, <1>1
  <2> QED BY <2>2, <2>3 DEF Touch
<1>3. \E E \in SUBSET Keys : PutFresh(c, k, id) \in [E -> Entry]
  <2> DEFINE age == IF k \in DOMAIN c THEN c[k].age ELSE Cardinality(DOMAIN c)
  <2>1. Kept(c, k) \subseteq D
    BY DEF Kept
  <2>2. [id |-> id, last |-> NoReading, age |-> 0] \in Entry
    BY DEF Entry
  <2>3. \A x \in D : Aged(c[x], age) \in Entry
    BY DEF Aged, Entry
  <2>4. PutFresh(c, k, id) \in [Kept(c, k) \cup {k} -> Entry]
    BY <2>1, <2>2, <2>3 DEF PutFresh
  <2> QED BY <2>1, <2>4
<1>4. SwapReading(c, k, v) \in [D -> Entry]
  <2>1. CASE k \in D
    <3> DEFINE t == Touch(c, k)
    <3>1. t \in [D -> Entry]
      BY <1>2, <2>1
    <3>2. [t[k] EXCEPT !.last = v] \in Entry
      <4> HIDE DEF t
      <4> QED BY <3>1, <2>1 DEF Entry
    <3>3. SwapReading(c, k, v) = [t EXCEPT ![k] = [t[k] EXCEPT !.last = v]]
      BY <2>1 DEF SwapReading
    <3> QED BY <3>1, <3>2, <3>3
  <2>2. CASE k \notin D
    BY <2>2 DEF SwapReading
  <2> QED BY <2>1, <2>2
<1>5. LastReading(c, k) \in Nat \cup {NoReading}
  BY DEF LastReading, Entry
<1> QED BY <1>2, <1>3, <1>4, <1>5

\* A conversion yields a natural number (counters only grow or restart at zero).
LEMMA DeltaType ==
    ASSUME NEW p \in Nat \cup {NoReading}, NEW v \in Nat
    PROVE  Delta(p, v) \in Nat
BY NoReadingAssumption DEF Delta

\* A batch INSERT adds rows of the batch only.
LEMMA InsertedRows ==
    ASSUME NEW table, NEW rows
    PROVE  /\ table \subseteq Inserted(table, rows)
           /\ \A p \in Inserted(table, rows) \ table : \E j \in DOMAIN rows : p = rows[j]
BY DEF Inserted

\* A request that waits for work, and one that was just received.
LEMMA BatchTypes ==
    /\ Idle \in Request
    /\ \A b \in Seq(DataPoint) : [Idle EXCEPT !.pc = "point", !.batch = b] \in Request
<1>1. <<>> \in Seq(DataPoint) /\ <<>> \in Seq(Row) /\ "point" \in InServer
  BY DEF InServer
<1>2. 1 \in Nat \ {0} /\ 0 \in Nat /\ 0 \in Ids \cup {0}
  OBVIOUS
<1>3. \A n \in Nat \ {0}, m \in Nat :
         [pc |-> "idle", batch |-> <<>>, i |-> n, sid |-> 0, rejected |-> m,
          scalars |-> <<>>, histos |-> <<>>] \in Request
  BY <1>1, <1>2 DEF Request
<1>4. Idle \in Request
  BY <1>2, <1>3 DEF Idle
<1>5. \A q \in Request, b \in Seq(DataPoint) : [q EXCEPT !.pc = "point", !.batch = b] \in Request
  BY <1>1 DEF Request
<1> QED BY <1>4, <1>5

\* A request that went on to its next data point.
LEMMA NextPointTypes ==
    ASSUME NEW q \in Request
    PROVE  NextPoint(q) \in Request
<1>1. q.i + 1 \in Nat \ {0} /\ "point" \in InServer
  BY DEF Request, InServer
<1>2. \A n \in Nat \ {0}, p \in InServer : [q EXCEPT !.pc = p, !.i = n] \in Request
  BY DEF Request
<1> QED BY <1>1, <1>2 DEF NextPoint

InBatchRequest(q) == q.pc \in {"insert", "select", "value"} => q.i \in 1..Len(q.batch)

\* One request's record changes: the others keep their types and their place.
LEMMA OneRequestTypes ==
    ASSUME TypeInv, NEW r \in Requests, NEW q \in Request, InBatchRequest(q),
           req' = [req EXCEPT ![r] = q]
    PROVE  req' \in [Requests -> Request] /\ InBatch'
<1>1. req \in [Requests -> Request]
  BY DEF TypeInv, TypeOK
<1>2. req' \in [Requests -> Request]
  BY <1>1
<1>3. \A x \in Requests : req'[x] = IF x = r THEN q ELSE req[x]
  BY <1>1
<1>4. InBatch'
  BY <1>3 DEF TypeInv, InBatch, InBatchRequest
<1> QED BY <1>2, <1>4

\* The data point a handler is at.
LEMMA CurrentType ==
    ASSUME TypeInv, NEW r \in Requests, AtPoint(r) \/ req[r].pc \in {"insert", "select", "value"}
    PROVE  /\ req[r] \in Request
           /\ req[r].i \in 1..Len(req[r].batch)
           /\ Current(r) \in DataPoint
           /\ Current(r).key \in Keys /\ Current(r).ts \in Int
           /\ Current(r).cum \in Nat \cup {NoReading}
           /\ ContentOf[Current(r).key] \in Contents
           /\ HashOf[Current(r).key] \in Ids
<1>1. req[r] \in Request
  BY DEF TypeInv, TypeOK
<1>2. req[r].i \in 1..Len(req[r].batch)
  BY <1>1 DEF TypeInv, InBatch, AtPoint, Request
<1>3. Current(r) \in DataPoint
  BY <1>1, <1>2 DEF Current, Request
<1>4. Current(r).key \in Keys /\ Current(r).ts \in Int /\ Current(r).cum \in Readings
  BY <1>3 DEF DataPoint
<1> QED BY <1>1, <1>2, <1>3, <1>4, KeyAssumption, ReadingAssumption

\* After "pc := ..." the record has its type, and its place when i is in the batch.
LEMMA MovedRequest ==
    ASSUME NEW q \in Request, NEW pc \in InServer \cup {"idle", "unavailable"},
           NEW id \in Ids \cup {0},
           pc \in {"insert", "select", "value"} => q.i \in 1..Len(q.batch)
    PROVE  /\ [q EXCEPT !.pc = pc] \in Request
           /\ InBatchRequest([q EXCEPT !.pc = pc])
           /\ [q EXCEPT !.pc = pc, !.sid = id] \in Request
           /\ InBatchRequest([q EXCEPT !.pc = pc, !.sid = id])
<1>1. [q EXCEPT !.pc = pc] \in Request /\ [q EXCEPT !.pc = pc, !.sid = id] \in Request
  BY DEF Request
<1> DEFINE a == [q EXCEPT !.pc = pc]
           b == [q EXCEPT !.pc = pc, !.sid = id]
<1>2. a.pc = pc /\ a.i = q.i /\ a.batch = q.batch
  BY DEF Request
<1>3. b.pc = pc /\ b.i = q.i /\ b.batch = q.batch
  BY DEF Request
<1> HIDE DEF a, b
<1>4. InBatchRequest(a) /\ InBatchRequest(b)
  BY <1>2, <1>3 DEF InBatchRequest
<1> QED BY <1>1, <1>4 DEF a, b

\* After a rejected data point: the next one, counted.
LEMMA RejectedRequest ==
    ASSUME NEW q \in Request
    PROVE  LET n == [NextPoint(q) EXCEPT !.rejected = @ + 1] IN n \in Request /\ InBatchRequest(n)
<1> DEFINE n == NextPoint(q)
<1>1. n \in Request /\ n.pc = "point"
  BY NextPointTypes DEF NextPoint, Request
<1> HIDE DEF n
<1>2. [n EXCEPT !.rejected = @ + 1].pc = "point"
  BY <1>1 DEF Request
<1>3. InBatchRequest([n EXCEPT !.rejected = @ + 1])
  BY <1>2 DEF InBatchRequest
<1>4. [n EXCEPT !.rejected = @ + 1] \in Request
  <2>1. n.rejected + 1 \in Nat
    BY <1>1 DEF Request
  <2>2. \A x \in Nat : [n EXCEPT !.rejected = x] \in Request
    BY <1>1 DEF Request
  <2> QED BY <2>1, <2>2
<1> QED BY <1>3, <1>4 DEF n

\* After a pushed data point: the next one, the row among the handler's locals.
LEMMA PushedRequest ==
    ASSUME NEW q \in Request, NEW row \in Row
    PROVE  LET s == [NextPoint(q) EXCEPT !.scalars = Append(@, row)]
               h == [NextPoint(q) EXCEPT !.histos = Append(@, row)]
           IN  s \in Request /\ h \in Request /\ InBatchRequest(s) /\ InBatchRequest(h)
<1> DEFINE n == NextPoint(q)
<1>1. n \in Request /\ n.pc = "point"
  BY NextPointTypes DEF NextPoint, Request
<1> HIDE DEF n
<1>2. Append(n.scalars, row) \in Seq(Row) /\ Append(n.histos, row) \in Seq(Row)
  BY <1>1 DEF Request
<1>3. \A x \in Seq(Row) : [n EXCEPT !.scalars = x] \in Request /\ [n EXCEPT !.histos = x] \in Request
  BY <1>1 DEF Request
<1>4. \A x : [n EXCEPT !.scalars = x].pc = "point" /\ [n EXCEPT !.histos = x].pc = "point"
  BY <1>1 DEF Request
<1>5. /\ InBatchRequest([n EXCEPT !.scalars = Append(@, row)])
      /\ InBatchRequest([n EXCEPT !.histos = Append(@, row)])
  BY <1>4 DEF InBatchRequest
<1>6. /\ [n EXCEPT !.scalars = Append(@, row)] \in Request
      /\ [n EXCEPT !.histos = Append(@, row)] \in Request
  BY <1>2, <1>3
<1> QED BY <1>5, <1>6 DEF n

\* A step that changes one request's record and counts faults, and nothing else.
LEMMA RequestStep ==
    ASSUME TypeInv, NEW r \in Requests, NEW q \in Request, InBatchRequest(q),
           req' = [req EXCEPT ![r] = q],
           UNCHANGED <<database, cache, exporter, acked, restarts>>, faults' \in Nat
    PROVE  TypeInv'
<1>1. req' \in [Requests -> Request] /\ InBatch'
  BY OneRequestTypes
<1>2. TypeOK'
  BY <1>1 DEF TypeInv, TypeOK, database, exporter
<1> QED BY <1>1, <1>2 DEF TypeInv

\* The row a handler pushes.
LEMMA RowType ==
    ASSUME TypeInv, NEW r \in Requests, req[r].pc = "value", NEW v \in Nat
    PROVE  RowOf(r, v) \in Row
<1>1. Current(r).key \in Keys /\ Current(r).ts \in Int /\ req[r].sid \in Ids \cup {0}
  BY CurrentType DEF Request
<1> QED BY <1>1 DEF RowOf, Row

\* A batch written to a table leaves rows in it.
LEMMA InsertedType ==
    ASSUME NEW table \in SUBSET Row, NEW rows \in Seq(Row)
    PROVE  Inserted(table, rows) \subseteq Row
<1>1. \A j \in DOMAIN rows : rows[j] \in Row
  OBVIOUS
<1> QED BY <1>1, InsertedRows

-------------------------------------------------------------------------------
(* The exporter's steps.                                                     *)

LEMMA ExporterKeepsTypes ==
    ASSUME TypeInv
    PROVE  /\ \A k \in Keys, v \in Readings : Sample(k, v) => TypeInv'
           /\ \A r \in Requests : Post(r) \/ Retry(r) \/ GiveUp(r) => TypeInv'
<1>1. ASSUME NEW k \in Keys, NEW v \in Readings, Sample(k, v) PROVE TypeInv'
  <2>1. queue' \in Seq(DataPoint)
    <3>1. PICK skew \in Skews :
             queue' = Append(queue, [key |-> k, ts |-> now + skew, cum |-> v])
      BY <1>1 DEF Sample
    <3>2. [key |-> k, ts |-> now + skew, cum |-> v] \in DataPoint
      BY SkewAssumption DEF DataPoint, TypeInv, TypeOK
    <3> QED BY <3>1, <3>2 DEF TypeInv, TypeOK
  <2>2. seen' \in [Keys -> Nat] /\ total' \in [Keys -> Nat]
    <3>1. CASE Kind[k] = "counter" /\ v # NoReading
      <4>1. v \in Nat /\ Increase(k, v) \in Nat
        BY <3>1, ReadingAssumption DEF Increase, TypeInv, TypeOK
      <4>2. total[k] + Increase(k, v) \in Nat
        BY <4>1 DEF TypeInv, TypeOK
      <4> QED BY <1>1, <3>1, <4>1, <4>2 DEF Sample, TypeInv, TypeOK
    <3>2. CASE ~(Kind[k] = "counter" /\ v # NoReading)
      BY <1>1, <3>2 DEF Sample, TypeInv, TypeOK
    <3> QED BY <3>1, <3>2
  <2>3. now' \in Nat
    BY <1>1 DEF Sample, TypeInv, TypeOK
  <2>4. TypeOK'
    BY <1>1, <2>1, <2>2, <2>3 DEF Sample, TypeInv, TypeOK, database, counters
  <2>5. InBatch'
    BY <1>1 DEF Sample, TypeInv, InBatch
  <2> QED BY <2>4, <2>5 DEF TypeInv
<1>2. ASSUME NEW r \in Requests, Post(r) PROVE TypeInv'
  <2> DEFINE q == [Idle EXCEPT !.pc = "point", !.batch = queue]
  <2>1. q \in Request
    BY BatchTypes DEF TypeInv, TypeOK, InServer
  <2>2. InBatchRequest(q)
    BY DEF InBatchRequest, Idle
  <2> HIDE DEF q
  <2>3. req' = [req EXCEPT ![r] = q]
    BY <1>2 DEF Post, q
  <2>4. req' \in [Requests -> Request] /\ InBatch'
    BY <2>1, <2>2, <2>3, OneRequestTypes
  <2>5. TypeOK'
    BY <1>2, <2>4 DEF Post, TypeInv, TypeOK, database, counters
  <2> QED BY <2>4, <2>5 DEF TypeInv
<1>3. ASSUME NEW r \in Requests, Retry(r) PROVE TypeInv'
  <2> DEFINE q == [Idle EXCEPT !.pc = "point", !.batch = req[r].batch]
  <2>1. q \in Request
    BY BatchTypes DEF TypeInv, TypeOK, InServer, Request
  <2>2. InBatchRequest(q)
    BY DEF InBatchRequest, Idle
  <2> HIDE DEF q
  <2> QED BY <1>3, <2>1, <2>2, RequestStep DEF Retry, counters, TypeInv, TypeOK, q
<1>4. ASSUME NEW r \in Requests, GiveUp(r) PROVE TypeInv'
  <2>1. Idle \in Request /\ InBatchRequest(Idle)
    BY BatchTypes DEF InBatchRequest, Idle
  <2> QED BY <1>4, <2>1, RequestStep DEF GiveUp, counters, TypeInv, TypeOK
<1> QED BY <1>1, <1>2, <1>3, <1>4

-------------------------------------------------------------------------------
(* The handler's steps.                                                      *)

LEMMA ResolveKeepsTypes ==
    ASSUME TypeInv, NEW r \in Requests, Resolve(r)
    PROVE  TypeInv'
<1>1. req[r] \in Request
  BY DEF TypeInv, TypeOK
<1>2. PICK D \in SUBSET Keys : cache \in [D -> Entry]
  BY DEF TypeInv, TypeOK
<1>3. CASE LookupHit(r)
  <2> DEFINE k == Current(r).key
             q == [req[r] EXCEPT !.pc = "value", !.sid = cache[k].id]
  <2>1. req[r].i \in 1..Len(req[r].batch) /\ k \in D
    BY <1>2, <1>3, CurrentType DEF LookupHit
  <2>2. cache[k].id \in Ids \cup {0} /\ k \in Keys
    BY <1>2, <2>1 DEF Entry
  <2>3. q \in Request /\ InBatchRequest(q)
    BY <1>1, <2>1, <2>2, MovedRequest DEF InServer
  <2>4. req' = [req EXCEPT ![r] = q]
    BY <1>3 DEF LookupHit, TypeInv, TypeOK
  <2>5. cache' \in [D -> Entry]
    <3>1. cache' = Touch(cache, k)
      BY <1>3 DEF LookupHit
    <3>2. 0 \in Nat /\ 0 \in Ids \cup {0}
      OBVIOUS
    <3> QED BY <1>2, <2>1, <2>2, <3>1, <3>2, CacheOperators
  <2> HIDE DEF q
  <2>6. req' \in [Requests -> Request] /\ InBatch'
    BY <2>3, <2>4, OneRequestTypes
  <2>7. TypeOK'
    BY <1>3, <2>5, <2>6 DEF LookupHit, TypeInv, TypeOK, database, exporter, counters
  <2> QED BY <2>6, <2>7 DEF TypeInv
<1>4. CASE LookupMiss(r)
  <2> DEFINE q == [req[r] EXCEPT !.pc = "insert"]
  <2>1. q \in Request /\ InBatchRequest(q)
    BY <1>1, <1>4, CurrentType, MovedRequest DEF LookupMiss, InServer
  <2>2. req' = [req EXCEPT ![r] = q]
    BY <1>4 DEF LookupMiss, TypeInv, TypeOK
  <2> HIDE DEF q
  <2> QED BY <1>4, <2>1, <2>2, RequestStep DEF LookupMiss, counters, TypeInv, TypeOK
<1>5. CASE InsertSeries(r)
  <2> DEFINE k == Current(r).key
             q == [req[r] EXCEPT !.pc = "select"]
  <2>1. /\ req[r].i \in 1..Len(req[r].batch)
        /\ ContentOf[k] \in Contents /\ HashOf[k] \in Ids
    BY <1>5, CurrentType DEF InsertSeries
  <2>2. q \in Request /\ InBatchRequest(q)
    BY <1>1, <2>1, MovedRequest DEF InServer
  <2>3. req' = [req EXCEPT ![r] = q]
    BY <1>5 DEF InsertSeries, TypeInv, TypeOK
  <2>4. series' \in [Contents -> Ids \cup {0}]
    BY <1>5, <2>1 DEF InsertSeries, SeriesAfterInsert, TypeInv, TypeOK
  <2> HIDE DEF q
  <2>5. req' \in [Requests -> Request] /\ InBatch'
    BY <2>2, <2>3, OneRequestTypes
  <2>6. TypeOK'
    BY <1>5, <2>4, <2>5 DEF InsertSeries, TypeInv, TypeOK, exporter, counters
  <2> QED BY <2>5, <2>6 DEF TypeInv
<1>6. CASE InsertCollides(r)
  <2> DEFINE q == [req[r] EXCEPT !.pc = "unavailable"]
  <2>1. q \in Request /\ InBatchRequest(q)
    BY <1>1, MovedRequest DEF InServer
  <2>2. req' = [req EXCEPT ![r] = q]
    BY <1>6 DEF InsertCollides, TypeInv, TypeOK
  <2> HIDE DEF q
  <2> QED BY <1>6, <2>1, <2>2, RequestStep DEF InsertCollides, counters, TypeInv, TypeOK
<1>7. CASE SelectSeries(r)
  <2> DEFINE k == Current(r).key
             q == [req[r] EXCEPT !.pc = "value", !.sid = ResolvedId(k)]
  <2>1. req[r].i \in 1..Len(req[r].batch) /\ k \in Keys /\ ResolvedId(k) \in Ids \cup {0}
    BY <1>7, CurrentType DEF SelectSeries, ResolvedId, TypeInv, TypeOK
  <2>2. q \in Request /\ InBatchRequest(q)
    BY <1>1, <2>1, MovedRequest DEF InServer
  <2>3. req' = [req EXCEPT ![r] = q]
    BY <1>7 DEF SelectSeries, TypeInv, TypeOK
  <2>4. \E E \in SUBSET Keys : cache' \in [E -> Entry]
    <3>1. cache' = PutFresh(cache, k, ResolvedId(k))
      BY <1>7 DEF SelectSeries
    <3>2. 0 \in Nat
      OBVIOUS
    <3> QED BY <1>2, <2>1, <3>1, <3>2, CacheOperators
  <2> HIDE DEF q
  <2>5. req' \in [Requests -> Request] /\ InBatch'
    BY <2>2, <2>3, OneRequestTypes
  <2>6. TypeOK'
    BY <1>7, <2>4, <2>5 DEF SelectSeries, TypeInv, TypeOK, database, exporter, counters
  <2> QED BY <2>5, <2>6 DEF TypeInv
<1> QED BY <1>3, <1>4, <1>5, <1>6, <1>7 DEF Resolve

LEMMA ConvertKeepsTypes ==
    ASSUME TypeInv, NEW r \in Requests, Convert(r)
    PROVE  TypeInv'
<1>1. req[r] \in Request
  BY DEF TypeInv, TypeOK
<1>2. CASE Reject(r) \/ RejectValueless(r)
  <2> DEFINE q == [NextPoint(req[r]) EXCEPT !.rejected = @ + 1]
  <2>1. q \in Request /\ InBatchRequest(q)
    BY <1>1, RejectedRequest
  <2>2. req' = [req EXCEPT ![r] = q]
    BY <1>2 DEF Reject, RejectValueless
  <2> HIDE DEF q
  <2> QED BY <1>2, <2>1, <2>2, RequestStep DEF Reject, RejectValueless, counters, TypeInv, TypeOK
<1>3. CASE PushCounter(r)
  <2> DEFINE k == Current(r).key
             v == Current(r).cum
             row == RowOf(r, Delta(LastReading(cache, k), v))
             q == [NextPoint(req[r]) EXCEPT !.scalars = Append(@, row)]
  <2>1. PICK D \in SUBSET Keys : cache \in [D -> Entry]
    BY DEF TypeInv, TypeOK
  <2>2. k \in Keys /\ v \in Nat
    BY <1>3, CurrentType DEF PushCounter
  <2>3. SwapReading(cache, k, v) \in [D -> Entry] /\ LastReading(cache, k) \in Nat \cup {NoReading}
    <3>1. 0 \in Ids \cup {0}
      OBVIOUS
    <3> QED BY <2>1, <2>2, <3>1, CacheOperators
  <2>4. row \in Row
    BY <1>3, <2>2, <2>3, DeltaType, RowType DEF PushCounter
  <2>5. req' = [req EXCEPT ![r] = q] /\ cache' = SwapReading(cache, k, v)
    BY <1>3 DEF PushCounter
  <2> HIDE DEF row
  <2>6. q \in Request /\ InBatchRequest(q)
    BY <1>1, <2>4, PushedRequest
  <2> HIDE DEF q, k, v
  <2>7. req' \in [Requests -> Request] /\ InBatch'
    BY <2>5, <2>6, OneRequestTypes
  <2>8. TypeOK'
    BY <1>3, <2>1, <2>3, <2>5, <2>7 DEF PushCounter, TypeInv, TypeOK, database, exporter, counters
  <2> QED BY <2>7, <2>8 DEF TypeInv
<1>4. CASE PushRaw(r)
  <2> DEFINE row == RowOf(r, Current(r).cum)
             q == [NextPoint(req[r]) EXCEPT !.scalars = Append(@, row)]
  <2>1. row \in Row
    BY <1>4, CurrentType, RowType DEF PushRaw
  <2>2. req' = [req EXCEPT ![r] = q]
    BY <1>4 DEF PushRaw
  <2> HIDE DEF row
  <2>3. q \in Request /\ InBatchRequest(q)
    BY <1>1, <2>1, PushedRequest
  <2> HIDE DEF q
  <2> QED BY <1>4, <2>2, <2>3, RequestStep DEF PushRaw, counters, TypeInv, TypeOK
<1>5. CASE PushHistogram(r)
  <2> DEFINE v == IF Current(r).cum = NoReading THEN 0 ELSE Current(r).cum
             row == RowOf(r, v)
             q == [NextPoint(req[r]) EXCEPT !.histos = Append(@, row)]
  <2>1. v \in Nat
    BY <1>5, CurrentType DEF PushHistogram
  <2>2. row \in Row
    BY <1>5, <2>1, RowType DEF PushHistogram
  <2>3. req' = [req EXCEPT ![r] = q]
    BY <1>5 DEF PushHistogram
  <2> HIDE DEF row
  <2>4. q \in Request /\ InBatchRequest(q)
    BY <1>1, <2>2, PushedRequest
  <2> HIDE DEF q
  <2> QED BY <1>5, <2>3, <2>4, RequestStep DEF PushHistogram, counters, TypeInv, TypeOK
<1> QED BY <1>2, <1>3, <1>4, <1>5 DEF Convert

LEMMA StoreKeepsTypes ==
    ASSUME TypeInv, NEW r \in Requests, Store(r)
    PROVE  TypeInv'
<1>1. req[r] \in Request
  BY DEF TypeInv, TypeOK
<1>2. CASE WriteScalars(r)
  <2> DEFINE q == [req[r] EXCEPT !.pc = "histograms"]
  <2>1. q \in Request /\ InBatchRequest(q)
    BY <1>1, MovedRequest DEF InServer
  <2>2. req' = [req EXCEPT ![r] = q]
    BY <1>2 DEF WriteScalars, TypeInv, TypeOK
  <2>3. points' \subseteq Row
    BY <1>1, <1>2, InsertedType DEF WriteScalars, Request, TypeInv, TypeOK
  <2> HIDE DEF q
  <2>4. req' \in [Requests -> Request] /\ InBatch'
    BY <2>1, <2>2, OneRequestTypes
  <2>5. TypeOK'
    BY <1>2, <2>3, <2>4 DEF WriteScalars, TypeInv, TypeOK, exporter, counters
  <2> QED BY <2>4, <2>5 DEF TypeInv
<1>3. CASE WriteHistograms(r)
  <2> DEFINE q == [req[r] EXCEPT !.pc = "ok"]
  <2>1. q \in Request /\ InBatchRequest(q)
    BY <1>1, MovedRequest DEF InServer
  <2>2. req' = [req EXCEPT ![r] = q]
    BY <1>3 DEF WriteHistograms, TypeInv, TypeOK
  <2>3. hists' \subseteq Row
    BY <1>1, <1>3, InsertedType DEF WriteHistograms, Request, TypeInv, TypeOK
  <2> HIDE DEF q
  <2>4. req' \in [Requests -> Request] /\ InBatch'
    BY <2>1, <2>2, OneRequestTypes
  <2>5. TypeOK'
    BY <1>3, <2>3, <2>4 DEF WriteHistograms, TypeInv, TypeOK, exporter, counters
  <2> QED BY <2>4, <2>5 DEF TypeInv
<1>4. CASE Respond(r)
  <2>1. Idle \in Request /\ InBatchRequest(Idle)
    BY BatchTypes DEF InBatchRequest, Idle
  <2>2. req' \in [Requests -> Request] /\ InBatch'
    BY <1>4, <2>1, OneRequestTypes DEF Respond
  <2>3. acked' \subseteq [key : Keys, ts : Int]
    <3>1. \A j \in DOMAIN req[r].scalars : req[r].scalars[j] \in Row
      BY <1>1 DEF Request
    <3>2. \A j \in DOMAIN req[r].histos : req[r].histos[j] \in Row
      BY <1>1 DEF Request
    <3>3. AcceptedBy(req[r]) \subseteq [key : Keys, ts : Int]
      BY <3>1, <3>2 DEF AcceptedBy, Row
    <3> QED BY <1>4, <3>3 DEF Respond, TypeInv, TypeOK
  <2>4. TypeOK'
    BY <1>4, <2>2, <2>3 DEF Respond, TypeInv, TypeOK, database, exporter, counters
  <2> QED BY <2>2, <2>4 DEF TypeInv
<1> QED BY <1>2, <1>3, <1>4 DEF Store

-------------------------------------------------------------------------------
(* What goes wrong.                                                          *)

LEMMA FaultsKeepTypes ==
    ASSUME TypeInv, NEW r \in Requests, DbFails(r) \/ LoseReply(r)
    PROVE  TypeInv'
<1> DEFINE q == [req[r] EXCEPT !.pc = "unavailable"]
<1>1. q \in Request /\ InBatchRequest(q)
  BY MovedRequest DEF TypeInv, TypeOK, InServer
<1>2. req' = [req EXCEPT ![r] = q] /\ faults' \in Nat
  BY DEF DbFails, LoseReply, Fault, TypeInv, TypeOK
<1> HIDE DEF q
<1> QED BY <1>1, <1>2, RequestStep DEF DbFails, LoseReply, Fault

LEMMA RestartKeepsTypes ==
    ASSUME TypeInv, Restart
    PROVE  TypeInv'
<1>1. \A r \in Requests : /\ req[r] \in Request
                          /\ [req[r] EXCEPT !.pc = "unavailable"] \in Request
  BY DEF TypeInv, TypeOK, Request
<1>2. req' \in [Requests -> Request]
  BY <1>1 DEF Restart
<1>3. InBatch'
  <2> SUFFICES ASSUME NEW r \in Requests, req'[r].pc \in {"insert", "select", "value"}
               PROVE  req'[r].i \in 1..Len(req'[r].batch)
    BY DEF InBatch
  <2>1. [req[r] EXCEPT !.pc = "unavailable"].pc = "unavailable"
    BY <1>1 DEF Request
  <2>2. req'[r] = req[r]
    BY <2>1 DEF Restart
  <2> QED BY <2>2 DEF TypeInv, InBatch
<1>4. cache' \in [{} -> Entry]
  BY DEF Restart, EmptyCache
<1>5. restarts' \in Nat
  BY DEF Restart, TypeInv, TypeOK
<1>6. TypeOK'
  BY <1>2, <1>4, <1>5 DEF Restart, TypeInv, TypeOK, database, exporter
<1> QED BY <1>3, <1>6 DEF TypeInv

-------------------------------------------------------------------------------
LEMMA InitialTypes == Init => TypeInv
<1> SUFFICES ASSUME Init PROVE TypeInv
  OBVIOUS
<1>1. req \in [Requests -> Request]
  BY BatchTypes DEF Init
<1>2. cache \in [{} -> Entry]
  BY DEF Init, EmptyCache
<1>3. InBatch
  BY DEF Init, InBatch, Idle
<1>4. TypeOK
  BY <1>1, <1>2 DEF Init, TypeOK
<1> QED BY <1>3, <1>4 DEF TypeInv

LEMMA TypesPreserved == TypeInv /\ [Next]_vars => TypeInv'
<1> SUFFICES ASSUME TypeInv, [Next]_vars PROVE TypeInv'
  OBVIOUS
<1>1. CASE \E k \in Keys, v \in Readings : Sample(k, v)
  BY <1>1, ExporterKeepsTypes
<1>2. ASSUME NEW r \in Requests,
             Post(r) \/ Retry(r) \/ GiveUp(r) \/ Handler(r) \/ DbFails(r) \/ LoseReply(r)
      PROVE  TypeInv'
  BY <1>2, ExporterKeepsTypes, ResolveKeepsTypes, ConvertKeepsTypes, StoreKeepsTypes,
     FaultsKeepTypes DEF Handler
<1>3. CASE Restart
  BY <1>3, RestartKeepsTypes
<1>4. CASE UNCHANGED vars
  BY <1>4 DEF vars, TypeInv, TypeOK, InBatch
<1> QED BY <1>1, <1>2, <1>3, <1>4 DEF Next

\* Whatever the instruments report, whatever fails and however often the process
\* restarts, every variable keeps its type: no negative delta is ever stored, and
\* a handler past the loop's head is at a data point of its batch.
THEOREM TypeCorrect == Spec => []TypeOK
<1>1. TypeInv => TypeOK
  BY DEF TypeInv
<1> QED BY InitialTypes, TypesPreserved, <1>1, PTL DEF Spec

-------------------------------------------------------------------------------
(* Filing.  A request is in order with respect to the series rows s when     *)
(* whatever it pushed, and the id it is about to use, belong to its series.  *)

BufferOf(q) == {q.scalars[j] : j \in DOMAIN q.scalars} \cup {q.histos[j] : j \in DOMAIN q.histos}

Filed(p, s) == p.sid # 0 /\ p.sid = s[ContentOf[p.src]]

InOrder(q, s) ==
    /\ \A p \in BufferOf(q) : Filed(p, s)
    /\ q.pc = "select" => s[ContentOf[q.batch[q.i].key]] # 0
    /\ q.pc = "value" => q.sid # 0 /\ q.sid = s[ContentOf[q.batch[q.i].key]]

\* What the primary key of metric_series keeps: no two series share an id, not
\* even when their keys hash to the same one.
IdsAreUnique ==
    \A c, d \in Contents : series[c] = series[d] /\ HasRow(c) => c = d

FilingInv ==
    /\ CacheIsCanonical
    /\ IdsAreUnique
    /\ \A p \in points \cup hists : Filed(p, series)
    /\ \A r \in Requests : InOrder(req[r], series)

\* Rows of metric_series are only ever added.
Grows == \A c \in Contents : HasRow(c) => series'[c] = series[c]

\* What filing needs to know of the cache operators: the ids, not the ages.
LEMMA TouchIds ==
    ASSUME NEW D \in SUBSET Keys, NEW c \in [D -> Entry], NEW k \in D
    PROVE  Touch(c, k) \in [D -> Entry] /\ \A x \in D : Touch(c, k)[x].id = c[x].id
<1>1. \A e \in Entry, a \in Nat : Aged(e, a) \in Entry /\ Aged(e, a).id = e.id
  BY DEF Aged, Entry
<1>2. c[k].age \in Nat
  BY DEF Entry
<1>3. [c[k] EXCEPT !.age = 0] \in Entry /\ [c[k] EXCEPT !.age = 0].id = c[k].id
  BY DEF Entry
<1> QED BY <1>1, <1>2, <1>3 DEF Touch

LEMMA SwapIds ==
    ASSUME NEW D \in SUBSET Keys, NEW c \in [D -> Entry], NEW k, NEW v
    PROVE  /\ DOMAIN SwapReading(c, k, v) = D
           /\ \A x \in D : SwapReading(c, k, v)[x].id = c[x].id
<1>1. CASE k \in D
  <2> DEFINE t == Touch(c, k)
  <2>1. t \in [D -> Entry] /\ \A x \in D : t[x].id = c[x].id
    BY <1>1, TouchIds
  <2>2. SwapReading(c, k, v) = [t EXCEPT ![k] = [t[k] EXCEPT !.last = v]]
    BY <1>1 DEF SwapReading
  <2> HIDE DEF t
  <2>3. [t[k] EXCEPT !.last = v].id = t[k].id
    BY <1>1, <2>1 DEF Entry
  <2> QED BY <2>1, <2>2, <2>3
<1>2. CASE k \notin D
  BY <1>2 DEF SwapReading
<1> QED BY <1>1, <1>2

LEMMA PutIds ==
    ASSUME NEW D \in SUBSET Keys, NEW c \in [D -> Entry], NEW k \in Keys, NEW id,
           NEW x \in DOMAIN PutFresh(c, k, id)
    PROVE  \/ x = k /\ PutFresh(c, k, id)[x].id = id
           \/ x \in D /\ PutFresh(c, k, id)[x].id = c[x].id
<1> DEFINE age == IF k \in DOMAIN c THEN c[k].age ELSE Cardinality(DOMAIN c)
<1>1. x \in D \cup {k}
  BY DEF PutFresh, Kept
<1>2. CASE x = k
  BY <1>2 DEF PutFresh
<1>3. CASE x # k
  <2>1. PutFresh(c, k, id)[x] = Aged(c[x], age)
    BY <1>3 DEF PutFresh
  <2>2. Aged(c[x], age).id = c[x].id
    BY <1>1, <1>3 DEF Aged, Entry
  <2> QED BY <1>1, <1>3, <2>1, <2>2
<1> QED BY <1>2, <1>3

\* Rows that are filed stay filed when series are added.
LEMMA FiledForGood ==
    ASSUME TypeInv, Grows, NEW p \in Row, Filed(p, series)
    PROVE  Filed(p, series')
BY KeyAssumption DEF Filed, Grows, HasRow, Row

LEMMA BufferTypes ==
    ASSUME NEW q \in Request
    PROVE  /\ BufferOf(q) \subseteq Row
           /\ \A j \in DOMAIN q.scalars : q.scalars[j] \in Row
           /\ \A j \in DOMAIN q.histos : q.histos[j] \in Row
<1>1. \A j \in DOMAIN q.scalars : q.scalars[j] \in Row
  BY DEF Request
<1>2. \A j \in DOMAIN q.histos : q.histos[j] \in Row
  BY DEF Request
<1> QED BY <1>1, <1>2 DEF BufferOf

\* So does a request that is in order.
LEMMA InOrderForGood ==
    ASSUME TypeInv, Grows, NEW r \in Requests, InOrder(req[r], series)
    PROVE  InOrder(req[r], series')
<1> DEFINE q == req[r]
<1>1. q \in Request
  BY DEF TypeInv, TypeOK
<1>2. \A p \in BufferOf(q) : Filed(p, series')
  BY <1>1, BufferTypes, FiledForGood DEF InOrder
<1>3. q.pc \in {"select", "value"} => ContentOf[q.batch[q.i].key] \in Contents
  BY CurrentType DEF Current
<1>4. q.pc = "select" => series'[ContentOf[q.batch[q.i].key]] # 0
  BY <1>3 DEF InOrder, Grows, HasRow
<1>5. q.pc = "value" => q.sid # 0 /\ q.sid = series'[ContentOf[q.batch[q.i].key]]
  BY <1>3 DEF InOrder, Grows, HasRow
<1> QED BY <1>2, <1>4, <1>5 DEF InOrder

\* One request moves on, the rows of metric_series grow, nothing else is written:
\* it is enough to look at that request and at the cache.
LEMMA FilingStep ==
    ASSUME TypeInv, FilingInv, NEW r \in Requests, NEW q \in Request,
           req' = [req EXCEPT ![r] = q], Grows, InOrder(q, series'),
           CacheIsCanonical', IdsAreUnique',
           \A p \in (points \cup hists)' \ (points \cup hists) : Filed(p, series')
    PROVE  FilingInv'
<1>1. \A x \in Requests : req'[x] = IF x = r THEN q ELSE req[x]
  BY DEF TypeInv, TypeOK
<1>2. \A x \in Requests : InOrder(req'[x], series')
  BY <1>1, InOrderForGood DEF FilingInv
<1>3. \A p \in points \cup hists : Filed(p, series')
  BY FiledForGood DEF FilingInv, TypeInv, TypeOK
<1> QED BY <1>2, <1>3 DEF FilingInv

\* The same for a step that touches neither the cache nor the database.
LEMMA FilingRequestStep ==
    ASSUME TypeInv, FilingInv, NEW r \in Requests, NEW q \in Request,
           req' = [req EXCEPT ![r] = q], UNCHANGED <<database, cache>>, InOrder(q, series)
    PROVE  FilingInv'
<1>1. Grows /\ CacheIsCanonical' /\ IdsAreUnique' /\ (points \cup hists)' = points \cup hists
  BY DEF Grows, FilingInv, CacheIsCanonical, IdsAreUnique, HasRow, database
<1>2. InOrder(q, series')
  BY DEF database
<1> QED BY <1>1, <1>2, FilingStep

\* Moving on without an id or a row leaves a request in order.
LEMMA MovedInOrder ==
    ASSUME NEW q \in Request, NEW s, InOrder(q, s), NEW pc, pc \notin {"select", "value"}
    PROVE  InOrder([q EXCEPT !.pc = pc], s)
<1> DEFINE n == [q EXCEPT !.pc = pc]
<1>1. n.pc = pc /\ n.scalars = q.scalars /\ n.histos = q.histos
  BY DEF Request
<1> HIDE DEF n
<1>2. BufferOf(n) = BufferOf(q)
  BY <1>1 DEF BufferOf
<1> QED BY <1>1, <1>2 DEF InOrder, n

LEMMA IdleInOrder ==
    ASSUME NEW s, NEW b
    PROVE  InOrder(Idle, s) /\ InOrder([Idle EXCEPT !.pc = "point", !.batch = b], s)
BY DEF InOrder, BufferOf, Idle

\* So does the step to the next data point, with nothing or with one row pushed.
LEMMA RejectedInOrder ==
    ASSUME NEW q \in Request, NEW s, \A p \in BufferOf(q) : Filed(p, s)
    PROVE  InOrder([NextPoint(q) EXCEPT !.rejected = @ + 1], s)
<1> DEFINE n == [NextPoint(q) EXCEPT !.rejected = @ + 1]
<1>1. n.pc = "point" /\ n.scalars = q.scalars /\ n.histos = q.histos
  BY DEF NextPoint, Request
<1> HIDE DEF n
<1>2. BufferOf(n) = BufferOf(q)
  BY <1>1 DEF BufferOf
<1>3. InOrder(n, s)
  BY <1>1, <1>2 DEF InOrder
<1> QED BY <1>3 DEF n

LEMMA PushedInOrder ==
    ASSUME NEW q \in Request, NEW s, \A p \in BufferOf(q) : Filed(p, s), NEW row, Filed(row, s)
    PROVE  /\ InOrder([NextPoint(q) EXCEPT !.scalars = Append(@, row)], s)
           /\ InOrder([NextPoint(q) EXCEPT !.histos = Append(@, row)], s)
<1> DEFINE n == NextPoint(q)
<1>1. n \in Request /\ n.pc = "point" /\ n.scalars = q.scalars /\ n.histos = q.histos
  BY NextPointTypes DEF NextPoint, Request
<1> HIDE DEF n
<1> DEFINE a == [n EXCEPT !.scalars = Append(@, row)]
           b == [n EXCEPT !.histos = Append(@, row)]
<1>2. a.pc = "point" /\ a.scalars = Append(q.scalars, row) /\ a.histos = q.histos
  BY <1>1 DEF Request
<1>3. b.pc = "point" /\ b.scalars = q.scalars /\ b.histos = Append(q.histos, row)
  BY <1>1 DEF Request
<1> HIDE DEF a, b
<1>4. \A rows \in Seq(Row) : \A j \in DOMAIN Append(rows, row) :
         Append(rows, row)[j] = row \/ (j \in DOMAIN rows /\ Append(rows, row)[j] = rows[j])
  OBVIOUS
<1>5. q.scalars \in Seq(Row) /\ q.histos \in Seq(Row)
  BY DEF Request
<1>6. BufferOf(a) \subseteq BufferOf(q) \cup {row} /\ BufferOf(b) \subseteq BufferOf(q) \cup {row}
  BY <1>2, <1>3, <1>4, <1>5 DEF BufferOf
<1>7. InOrder(a, s) /\ InOrder(b, s)
  BY <1>2, <1>3, <1>6 DEF InOrder
<1> QED BY <1>7 DEF a, b, n

LEMMA ResolveKeepsFiling ==
    ASSUME TypeInv, FilingInv, NEW r \in Requests, Resolve(r)
    PROVE  FilingInv'
<1> DEFINE k == Current(r).key
<1>1. req[r] \in Request /\ InOrder(req[r], series)
  BY DEF TypeInv, TypeOK, FilingInv
<1>2. PICK D \in SUBSET Keys : cache \in [D -> Entry]
  BY DEF TypeInv, TypeOK
<1>3. CASE LookupHit(r)
  <2> DEFINE q == [req[r] EXCEPT !.pc = "value", !.sid = cache[k].id]
  <2>1. k \in D /\ k \in Keys /\ cache[k].id \in Ids \cup {0} /\ req[r].i \in 1..Len(req[r].batch)
    BY <1>2, <1>3, CurrentType DEF LookupHit, Entry
  <2>2. q \in Request /\ req' = [req EXCEPT ![r] = q]
    BY <1>1, <1>3, <2>1, MovedRequest DEF LookupHit, InServer, TypeInv, TypeOK
  <2>3. q.pc = "value" /\ q.sid = cache[k].id /\ q.batch[q.i] = Current(r)
        /\ q.scalars = req[r].scalars /\ q.histos = req[r].histos
    BY <1>1 DEF Request, Current
  <2> HIDE DEF q
  <2>4. cache[k].id # 0 /\ cache[k].id = series[ContentOf[k]]
    BY <1>2, <2>1 DEF FilingInv, CacheIsCanonical, HasRow
  <2>6. cache' = Touch(cache, k) /\ UNCHANGED <<series, points, hists>>
    BY <1>3 DEF LookupHit, database
  <2>5. InOrder(q, series')
    BY <1>1, <2>3, <2>4, <2>6 DEF InOrder, BufferOf
  <2>7. CacheIsCanonical' /\ IdsAreUnique' /\ Grows
    <3>1. DOMAIN cache' = D /\ \A x \in D : cache'[x].id = cache[x].id
      <4>1. DOMAIN Touch(cache, k) = D /\ \A x \in D : Touch(cache, k)[x].id = cache[x].id
        BY <1>2, <2>1, TouchIds
      <4> QED BY <2>6, <4>1
    <3> QED BY <1>2, <2>6, <3>1 DEF FilingInv, CacheIsCanonical, IdsAreUnique, Grows, HasRow
  <2> QED BY <2>2, <2>5, <2>6, <2>7, FilingStep
<1>4. CASE LookupMiss(r)
  <2> DEFINE q == [req[r] EXCEPT !.pc = "insert"]
  <2>1. q \in Request /\ InOrder(q, series)
    BY <1>1, <1>4, CurrentType, MovedRequest, MovedInOrder DEF LookupMiss, InServer
  <2>2. req' = [req EXCEPT ![r] = q]
    BY <1>4 DEF LookupMiss, TypeInv, TypeOK
  <2> HIDE DEF q
  <2> QED BY <1>4, <2>1, <2>2, FilingRequestStep DEF LookupMiss
<1>5. CASE InsertSeries(r)
  <2> DEFINE q == [req[r] EXCEPT !.pc = "select"]
             row == ContentOf[k]
  <2>1. /\ req[r].i \in 1..Len(req[r].batch) /\ row \in Contents
        /\ HashOf[k] \in Ids /\ HashOf[k] # 0
    BY <1>5, CurrentType, NoIdAssumption DEF InsertSeries
  <2>2. q \in Request /\ req' = [req EXCEPT ![r] = q]
    BY <1>1, <1>5, <2>1, MovedRequest DEF InsertSeries, InServer, TypeInv, TypeOK
  <2>3. q.pc = "select" /\ q.batch[q.i] = Current(r)
        /\ q.scalars = req[r].scalars /\ q.histos = req[r].histos
    BY <1>1 DEF Request, Current
  <2> HIDE DEF q
  <2>4. \A c \in Contents :
           series'[c] = IF c = row /\ ~HasRow(row) THEN HashOf[k] ELSE series[c]
    BY <1>5, <2>1 DEF InsertSeries, SeriesAfterInsert, TypeInv, TypeOK
  <2>5. Grows /\ series'[row] # 0
    BY <2>1, <2>4 DEF Grows, HasRow
  <2>6. IdsAreUnique'
    <3>1. HasRow(row) \/ \A c \in Contents : series[c] # HashOf[k]
      BY <1>5 DEF InsertSeries, IdTaken
    <3> QED BY <2>1, <2>4, <3>1 DEF FilingInv, IdsAreUnique, HasRow
  <2>7. CacheIsCanonical'
    <3>1. cache' = cache
      BY <1>5 DEF InsertSeries
    <3>2. \A x \in D : ContentOf[x] \in Contents
      BY KeyAssumption
    <3> QED BY <1>2, <2>5, <3>1, <3>2 DEF FilingInv, CacheIsCanonical, Grows, HasRow
  <2>8. InOrder(q, series')
    BY <1>1, <2>3, <2>5, InOrderForGood DEF InOrder, BufferOf
  <2>9. UNCHANGED <<points, hists>>
    BY <1>5 DEF InsertSeries
  <2> QED BY <2>2, <2>5, <2>6, <2>7, <2>8, <2>9, FilingStep
<1>6. CASE InsertCollides(r)
  <2> DEFINE q == [req[r] EXCEPT !.pc = "unavailable"]
  <2>1. q \in Request /\ InOrder(q, series)
    BY <1>1, MovedRequest, MovedInOrder DEF InServer
  <2>2. req' = [req EXCEPT ![r] = q]
    BY <1>6 DEF InsertCollides, TypeInv, TypeOK
  <2> HIDE DEF q
  <2> QED BY <1>6, <2>1, <2>2, FilingRequestStep DEF InsertCollides
<1>7. CASE SelectSeries(r)
  <2> DEFINE id == ResolvedId(k)
             q == [req[r] EXCEPT !.pc = "value", !.sid = id]
  <2>1. k \in Keys /\ req[r].i \in 1..Len(req[r].batch) /\ ContentOf[k] \in Contents
    BY <1>7, CurrentType DEF SelectSeries
  <2>2. id = series[ContentOf[k]] /\ id # 0 /\ id \in Ids \cup {0}
    BY <1>1, <1>7, <2>1 DEF SelectSeries, ResolvedId, InOrder, Current, TypeInv, TypeOK
  <2> HIDE DEF id
  <2>3. q \in Request /\ req' = [req EXCEPT ![r] = q]
    BY <1>1, <1>7, <2>1, <2>2, MovedRequest DEF SelectSeries, InServer, TypeInv, TypeOK, id
  <2>4. q.pc = "value" /\ q.sid = id /\ q.batch[q.i] = Current(r)
        /\ q.scalars = req[r].scalars /\ q.histos = req[r].histos
    BY <1>1 DEF Request, Current
  <2> HIDE DEF q
  <2>5. cache' = PutFresh(cache, k, id) /\ UNCHANGED <<series, points, hists>>
    BY <1>7 DEF SelectSeries, database, id
  <2>6. InOrder(q, series')
    BY <1>1, <2>2, <2>4, <2>5 DEF InOrder, BufferOf
  <2>7. CacheIsCanonical' /\ IdsAreUnique' /\ Grows
    <3>1. \A x \in DOMAIN cache' : \/ x = k /\ cache'[x].id = id
                                   \/ x \in D /\ cache'[x].id = cache[x].id
      <4>1. \A x \in DOMAIN PutFresh(cache, k, id) :
               \/ x = k /\ PutFresh(cache, k, id)[x].id = id
               \/ x \in D /\ PutFresh(cache, k, id)[x].id = cache[x].id
        BY <1>2, <2>1, PutIds
      <4> QED BY <2>5, <4>1
    <3> QED BY <1>2, <2>2, <2>5, <3>1 DEF FilingInv, CacheIsCanonical, IdsAreUnique, Grows, HasRow
  <2> QED BY <2>3, <2>5, <2>6, <2>7, FilingStep
<1> QED BY <1>3, <1>4, <1>5, <1>6, <1>7 DEF Resolve

\* A row that a handler is about to push is filed.
LEMMA RowInOrder ==
    ASSUME TypeInv, FilingInv, NEW r \in Requests, req[r].pc = "value", NEW v
    PROVE  Filed(RowOf(r, v), series)
BY DEF FilingInv, InOrder, Filed, RowOf, Current

LEMMA ConvertKeepsFiling ==
    ASSUME TypeInv, FilingInv, NEW r \in Requests, Convert(r)
    PROVE  FilingInv'
<1>1. req[r] \in Request /\ \A p \in BufferOf(req[r]) : Filed(p, series)
  BY DEF TypeInv, TypeOK, FilingInv, InOrder
<1>2. CASE Reject(r) \/ RejectValueless(r)
  <2> DEFINE q == [NextPoint(req[r]) EXCEPT !.rejected = @ + 1]
  <2>1. q \in Request /\ InOrder(q, series)
    BY <1>1, RejectedRequest, RejectedInOrder
  <2>2. req' = [req EXCEPT ![r] = q]
    BY <1>2 DEF Reject, RejectValueless
  <2> HIDE DEF q
  <2> QED BY <1>2, <2>1, <2>2, FilingRequestStep DEF Reject, RejectValueless
<1>3. CASE PushCounter(r)
  <2> DEFINE k == Current(r).key
             v == Current(r).cum
             row == RowOf(r, Delta(LastReading(cache, k), v))
             q == [NextPoint(req[r]) EXCEPT !.scalars = Append(@, row)]
  <2>1. PICK D \in SUBSET Keys : cache \in [D -> Entry]
    BY DEF TypeInv, TypeOK
  <2>2. k \in Keys /\ v \in Nat
    BY <1>3, CurrentType DEF PushCounter
  <2>3. LastReading(cache, k) \in Nat \cup {NoReading}
    BY <2>1 DEF LastReading, Entry
  <2>4. row \in Row /\ Filed(row, series)
    BY <1>3, <2>2, <2>3, DeltaType, RowType, RowInOrder DEF PushCounter
  <2>5. /\ req' = [req EXCEPT ![r] = q]
        /\ cache' = SwapReading(cache, k, v)
        /\ UNCHANGED <<series, points, hists>>
    BY <1>3 DEF PushCounter, database
  <2> HIDE DEF row
  <2>6. q \in Request /\ InOrder(q, series)
    BY <1>1, <2>4, PushedRequest, PushedInOrder
  <2> HIDE DEF q, k, v
  <2>7. InOrder(q, series')
    BY <2>5, <2>6
  <2>8. CacheIsCanonical' /\ IdsAreUnique' /\ Grows
    <3>1. /\ DOMAIN SwapReading(cache, k, v) = D
          /\ \A x \in D : SwapReading(cache, k, v)[x].id = cache[x].id
      BY <2>1, SwapIds
    <3> QED BY <2>1, <2>5, <3>1 DEF FilingInv, CacheIsCanonical, IdsAreUnique, Grows, HasRow
  <2> QED BY <2>5, <2>6, <2>7, <2>8, FilingStep
<1>4. CASE PushRaw(r)
  <2> DEFINE row == RowOf(r, Current(r).cum)
             q == [NextPoint(req[r]) EXCEPT !.scalars = Append(@, row)]
  <2>1. row \in Row /\ Filed(row, series)
    BY <1>4, CurrentType, RowType, RowInOrder DEF PushRaw
  <2>2. req' = [req EXCEPT ![r] = q]
    BY <1>4 DEF PushRaw
  <2> HIDE DEF row
  <2>3. q \in Request /\ InOrder(q, series)
    BY <1>1, <2>1, PushedRequest, PushedInOrder
  <2> HIDE DEF q
  <2> QED BY <1>4, <2>2, <2>3, FilingRequestStep DEF PushRaw
<1>5. CASE PushHistogram(r)
  <2> DEFINE v == IF Current(r).cum = NoReading THEN 0 ELSE Current(r).cum
             row == RowOf(r, v)
             q == [NextPoint(req[r]) EXCEPT !.histos = Append(@, row)]
  <2>1. v \in Nat
    BY <1>5, CurrentType DEF PushHistogram
  <2>2. row \in Row /\ Filed(row, series)
    BY <1>5, <2>1, RowType, RowInOrder DEF PushHistogram
  <2>3. req' = [req EXCEPT ![r] = q]
    BY <1>5 DEF PushHistogram
  <2> HIDE DEF row
  <2>4. q \in Request /\ InOrder(q, series)
    BY <1>1, <2>2, PushedRequest, PushedInOrder
  <2> HIDE DEF q
  <2> QED BY <1>5, <2>3, <2>4, FilingRequestStep DEF PushHistogram
<1> QED BY <1>2, <1>3, <1>4, <1>5 DEF Convert

LEMMA StoreKeepsFiling ==
    ASSUME TypeInv, FilingInv, NEW r \in Requests, Store(r)
    PROVE  FilingInv'
<1>1. req[r] \in Request /\ InOrder(req[r], series)
  BY DEF TypeInv, TypeOK, FilingInv
<1>2. /\ \A p \in Inserted(points, req[r].scalars) \ points : Filed(p, series)
      /\ \A p \in Inserted(hists, req[r].histos) \ hists : Filed(p, series)
  <2>1. /\ \A j \in DOMAIN req[r].scalars : Filed(req[r].scalars[j], series)
        /\ \A j \in DOMAIN req[r].histos : Filed(req[r].histos[j], series)
    BY <1>1 DEF InOrder, BufferOf
  <2> QED BY <2>1, InsertedRows
<1>3. CASE WriteScalars(r)
  <2> DEFINE q == [req[r] EXCEPT !.pc = "histograms"]
  <2>1. q \in Request /\ InOrder(q, series) /\ req' = [req EXCEPT ![r] = q]
    BY <1>1, <1>3, MovedRequest, MovedInOrder DEF WriteScalars, InServer, TypeInv, TypeOK
  <2> HIDE DEF q
  <2>2. UNCHANGED <<series, cache, hists>> /\ points' = Inserted(points, req[r].scalars)
    BY <1>3 DEF WriteScalars
  <2>3. Grows /\ CacheIsCanonical' /\ IdsAreUnique' /\ InOrder(q, series')
    BY <2>1, <2>2 DEF Grows, FilingInv, CacheIsCanonical, IdsAreUnique, HasRow
  <2>4. \A p \in (points \cup hists)' \ (points \cup hists) : Filed(p, series')
    BY <1>2, <2>2
  <2> QED BY <2>1, <2>3, <2>4, FilingStep
<1>4. CASE WriteHistograms(r)
  <2> DEFINE q == [req[r] EXCEPT !.pc = "ok"]
  <2>1. q \in Request /\ InOrder(q, series) /\ req' = [req EXCEPT ![r] = q]
    BY <1>1, <1>4, MovedRequest, MovedInOrder DEF WriteHistograms, InServer, TypeInv, TypeOK
  <2> HIDE DEF q
  <2>2. UNCHANGED <<series, cache, points>> /\ hists' = Inserted(hists, req[r].histos)
    BY <1>4 DEF WriteHistograms
  <2>3. Grows /\ CacheIsCanonical' /\ IdsAreUnique' /\ InOrder(q, series')
    BY <2>1, <2>2 DEF Grows, FilingInv, CacheIsCanonical, IdsAreUnique, HasRow
  <2>4. \A p \in (points \cup hists)' \ (points \cup hists) : Filed(p, series')
    BY <1>2, <2>2
  <2> QED BY <2>1, <2>3, <2>4, FilingStep
<1>5. CASE Respond(r)
  <2>1. Idle \in Request /\ InOrder(Idle, series)
    BY BatchTypes, IdleInOrder
  <2> QED BY <1>5, <2>1, FilingRequestStep DEF Respond
<1> QED BY <1>3, <1>4, <1>5 DEF Store

LEMMA ExporterKeepsFiling ==
    ASSUME TypeInv, FilingInv
    PROVE  /\ \A k \in Keys, v \in Readings : Sample(k, v) => FilingInv'
           /\ \A r \in Requests : Post(r) \/ Retry(r) \/ GiveUp(r) => FilingInv'
<1>1. ASSUME NEW k \in Keys, NEW v \in Readings, Sample(k, v) PROVE FilingInv'
  BY <1>1 DEF Sample, database, FilingInv, CacheIsCanonical, IdsAreUnique, HasRow
<1>2. ASSUME NEW r \in Requests, Post(r) PROVE FilingInv'
  <2> DEFINE q == [Idle EXCEPT !.pc = "point", !.batch = queue]
  <2>1. q \in Request /\ InOrder(q, series)
    BY BatchTypes, IdleInOrder DEF TypeInv, TypeOK
  <2>2. req' = [req EXCEPT ![r] = q]
    BY <1>2 DEF Post
  <2> HIDE DEF q
  <2> QED BY <1>2, <2>1, <2>2, FilingRequestStep DEF Post
<1>3. ASSUME NEW r \in Requests, Retry(r) PROVE FilingInv'
  <2> DEFINE q == [Idle EXCEPT !.pc = "point", !.batch = req[r].batch]
  <2>1. q \in Request /\ InOrder(q, series)
    <3>1. req[r].batch \in Seq(DataPoint)
      BY DEF TypeInv, TypeOK, Request
    <3> QED BY <3>1, BatchTypes, IdleInOrder
  <2>2. req' = [req EXCEPT ![r] = q]
    BY <1>3 DEF Retry
  <2> HIDE DEF q
  <2> QED BY <1>3, <2>1, <2>2, FilingRequestStep DEF Retry
<1>4. ASSUME NEW r \in Requests, GiveUp(r) PROVE FilingInv'
  <2>1. Idle \in Request /\ InOrder(Idle, series)
    BY BatchTypes, IdleInOrder
  <2> QED BY <1>4, <2>1, FilingRequestStep DEF GiveUp
<1> QED BY <1>1, <1>2, <1>3, <1>4

LEMMA FaultsKeepFiling ==
    ASSUME TypeInv, FilingInv
    PROVE  /\ \A r \in Requests : DbFails(r) \/ LoseReply(r) => FilingInv'
           /\ Restart => FilingInv'
<1>1. \A r \in Requests : LET q == [req[r] EXCEPT !.pc = "unavailable"] IN
                             q \in Request /\ InOrder(q, series)
  <2> SUFFICES ASSUME NEW r \in Requests
               PROVE  LET q == [req[r] EXCEPT !.pc = "unavailable"] IN
                         q \in Request /\ InOrder(q, series)
    OBVIOUS
  <2>1. req[r] \in Request /\ InOrder(req[r], series)
    BY DEF TypeInv, TypeOK, FilingInv
  <2> QED BY <2>1, MovedRequest, MovedInOrder DEF InServer
<1>2. ASSUME NEW r \in Requests, DbFails(r) \/ LoseReply(r) PROVE FilingInv'
  <2> DEFINE q == [req[r] EXCEPT !.pc = "unavailable"]
  <2>1. q \in Request /\ InOrder(q, series)
    BY <1>1
  <2>2. req' = [req EXCEPT ![r] = q] /\ UNCHANGED <<database, cache>>
    BY <1>2 DEF DbFails, LoseReply, TypeInv, TypeOK
  <2> HIDE DEF q
  <2> QED BY <2>1, <2>2, FilingRequestStep
<1>3. ASSUME Restart PROVE FilingInv'
  <2>1. \A r \in Requests : InOrder(req'[r], series)
    <3> SUFFICES ASSUME NEW r \in Requests PROVE InOrder(req'[r], series)
      OBVIOUS
    <3>1. req'[r] = [req[r] EXCEPT !.pc = "unavailable"] \/ req'[r] = req[r]
      BY <1>3 DEF Restart
    <3> QED BY <1>1, <3>1 DEF FilingInv
  <2>2. CacheIsCanonical'
    BY <1>3 DEF Restart, EmptyCache, CacheIsCanonical
  <2> QED BY <1>3, <2>1, <2>2 DEF Restart, database, FilingInv, IdsAreUnique, HasRow
<1> QED BY <1>2, <1>3

LEMMA FilingPreserved == TypeInv /\ FilingInv /\ [Next]_vars => FilingInv'
<1> SUFFICES ASSUME TypeInv, FilingInv, [Next]_vars PROVE FilingInv'
  OBVIOUS
<1>1. CASE \E k \in Keys, v \in Readings : Sample(k, v)
  BY <1>1, ExporterKeepsFiling
<1>2. ASSUME NEW r \in Requests,
             Post(r) \/ Retry(r) \/ GiveUp(r) \/ Handler(r) \/ DbFails(r) \/ LoseReply(r)
      PROVE  FilingInv'
  BY <1>2, ExporterKeepsFiling, ResolveKeepsFiling, ConvertKeepsFiling, StoreKeepsFiling,
     FaultsKeepFiling DEF Handler
<1>3. CASE Restart
  BY <1>3, FaultsKeepFiling
<1>4. CASE UNCHANGED vars
  BY <1>4 DEF vars, FilingInv, CacheIsCanonical, IdsAreUnique, HasRow
<1> QED BY <1>1, <1>2, <1>3, <1>4 DEF Next

LEMMA InitialFiling == Init => FilingInv
<1> SUFFICES ASSUME Init PROVE FilingInv
  OBVIOUS
<1>1. \A r \in Requests : InOrder(req[r], series)
  BY IdleInOrder DEF Init
<1>2. CacheIsCanonical /\ IdsAreUnique
  BY DEF Init, EmptyCache, CacheIsCanonical, IdsAreUnique, HasRow
<1> QED BY <1>1, <1>2 DEF Init, FilingInv

LEMMA FilingInvariant == Spec => [](TypeInv /\ FilingInv)
BY InitialTypes, TypesPreserved, InitialFiling, FilingPreserved, PTL DEF Spec

\* resolve "handles concurrent inserts correctly": for any number of concurrent
\* requests, any hash function and any jsonb equality, a cached series_id is that
\* of the one row with the key's content.
THEOREM CanonicalCache == Spec => []CacheIsCanonical
<1>1. TypeInv /\ FilingInv => CacheIsCanonical
  BY DEF FilingInv
<1> QED BY FilingInvariant, <1>1, PTL

\* Stored data points, and those on their way, belong to the series they were
\* sent for.
THEOREM FiledPoints == Spec => []PointsAreFiled
<1>1. TypeInv /\ FilingInv => PointsAreFiled
  BY DEF FilingInv, PointsAreFiled, InOrder, Filed, Buffered, BufferOf
<1> QED BY FilingInvariant, <1>1, PTL

-------------------------------------------------------------------------------
(* Reporting and storing.  A request is on course when its counts add up and *)
(* the tables hold what it has written so far.                               *)

Counted(q) ==
    q.pc \in InServer =>
        /\ q.rejected + Len(q.scalars) + Len(q.histos) = q.i - 1
        /\ q.i <= Len(q.batch) + 1
        /\ q.pc \in {"histograms", "ok"} => q.i = Len(q.batch) + 1

Covers(table, rows) == \A j \in DOMAIN rows : \E p \in table : SameKey(p, rows[j])

Written(q, ps, hs) ==
    /\ q.pc \in {"histograms", "ok"} => Covers(ps, q.scalars)
    /\ q.pc = "ok" => Covers(hs, q.histos)

OnCourse(q, ps, hs) == Counted(q) /\ Written(q, ps, hs)

CourseInv == \A r \in Requests : OnCourse(req[r], points, hists)

TablesGrow == points \subseteq points' /\ hists \subseteq hists'

\* A batch INSERT leaves a row of the table under the key of every row of the
\* batch: the row that was there, or the first one of the batch with that key.
LEMMA InsertCovers ==
    ASSUME NEW table, NEW rows \in Seq(Row)
    PROVE  Covers(Inserted(table, rows), rows)
<1> SUFFICES ASSUME NEW j \in DOMAIN rows
             PROVE  \E p \in Inserted(table, rows) : SameKey(p, rows[j])
  BY DEF Covers
<1>1. CASE \E p \in table : SameKey(p, rows[j])
  BY <1>1, InsertedRows
<1>2. CASE \A p \in table : ~SameKey(p, rows[j])
  <2> DEFINE T == {n \in DOMAIN rows : SameKey(rows[n], rows[j])}
  <2>1. T \in SUBSET Nat /\ j \in T
    BY DEF SameKey
  <2>2. PICK m \in T : \A n \in T : m <= n
    <3> HIDE DEF T
    <3> QED BY <2>1, LeastNatural
  <2>3. \A p \in table : ~SameKey(p, rows[m])
    BY <1>2, <2>2 DEF SameKey
  <2>4. \A n \in DOMAIN rows : n < m => ~SameKey(rows[n], rows[m])
    BY <2>1, <2>2 DEF SameKey
  <2>5. rows[m] \in Inserted(table, rows)
    BY <2>2, <2>3, <2>4 DEF Inserted
  <2> QED BY <2>2, <2>5
<1> QED BY <1>1, <1>2

\* One request moves on and the tables grow: it is enough to look at that request.
LEMMA CourseStep ==
    ASSUME TypeInv, CourseInv, NEW r \in Requests, NEW q, TablesGrow,
           req' = [req EXCEPT ![r] = q], OnCourse(q, points', hists')
    PROVE  CourseInv'
<1>1. \A x \in Requests : req'[x] = IF x = r THEN q ELSE req[x]
  BY DEF TypeInv, TypeOK
<1>2. \A x \in Requests : OnCourse(req[x], points', hists')
  BY DEF CourseInv, OnCourse, Written, Covers, TablesGrow
<1> QED BY <1>1, <1>2 DEF CourseInv

\* Moving on within a batch, and out of the server.
LEMMA MovedCourse ==
    ASSUME NEW q \in Request, NEW ps, NEW hs, Counted(q), NEW pc, NEW id,
           \/ pc \in {"idle", "unavailable"}
           \/ q.pc \in InServer /\ pc \in {"point", "insert", "select", "value"}
    PROVE  /\ OnCourse([q EXCEPT !.pc = pc], ps, hs)
           /\ OnCourse([q EXCEPT !.pc = pc, !.sid = id], ps, hs)
<1> DEFINE n == [q EXCEPT !.pc = pc]
           m == [q EXCEPT !.pc = pc, !.sid = id]
<1>1. /\ n.pc = pc /\ n.rejected = q.rejected /\ n.scalars = q.scalars
      /\ n.histos = q.histos /\ n.i = q.i /\ n.batch = q.batch
  BY DEF Request
<1>2. /\ m.pc = pc /\ m.rejected = q.rejected /\ m.scalars = q.scalars
      /\ m.histos = q.histos /\ m.i = q.i /\ m.batch = q.batch
  BY DEF Request
<1> HIDE DEF n, m
<1>3. Counted(n) /\ Written(n, ps, hs)
  BY <1>1 DEF Counted, Written, InServer
<1>4. Counted(m) /\ Written(m, ps, hs)
  BY <1>2 DEF Counted, Written, InServer
<1> QED BY <1>3, <1>4 DEF OnCourse, n, m

\* A request that waits, and one that starts.
LEMMA IdleCourse ==
    ASSUME NEW b \in Seq(DataPoint), NEW ps, NEW hs
    PROVE  OnCourse(Idle, ps, hs) /\ OnCourse([Idle EXCEPT !.pc = "point", !.batch = b], ps, hs)
<1> DEFINE n == [Idle EXCEPT !.pc = "point", !.batch = b]
<1>1. Idle.pc = "idle"
  BY DEF Idle
<1>2. /\ n.pc = "point" /\ n.batch = b /\ n.i = 1 /\ n.rejected = 0
      /\ n.scalars = <<>> /\ n.histos = <<>>
  BY DEF Idle
<1> HIDE DEF n
<1>3. Counted(n) /\ Written(n, ps, hs)
  BY <1>2 DEF Counted, Written
<1>4. Counted(Idle) /\ Written(Idle, ps, hs)
  BY <1>1 DEF Counted, Written, InServer
<1> QED BY <1>3, <1>4 DEF OnCourse, n

\* One data point done: it is counted as rejected or it is among the rows.
LEMMA NextCourse ==
    ASSUME NEW q \in Request, NEW row, NEW ps, NEW hs,
           Counted(q), q.pc \in InServer, q.i <= Len(q.batch)
    PROVE  /\ OnCourse([NextPoint(q) EXCEPT !.rejected = @ + 1], ps, hs)
           /\ OnCourse([NextPoint(q) EXCEPT !.scalars = Append(@, row)], ps, hs)
           /\ OnCourse([NextPoint(q) EXCEPT !.histos = Append(@, row)], ps, hs)
<1>1. /\ q.i \in Nat /\ q.rejected \in Nat /\ Len(q.batch) \in Nat
      /\ Len(q.scalars) \in Nat /\ Len(q.histos) \in Nat
      /\ Len(Append(q.scalars, row)) = Len(q.scalars) + 1
      /\ Len(Append(q.histos, row)) = Len(q.histos) + 1
  <2>1. q.scalars \in Seq(Row) /\ q.histos \in Seq(Row) /\ q.batch \in Seq(DataPoint)
    BY DEF Request
  <2>2. \A s \in Seq(Row) : Len(s) \in Nat /\ Len(Append(s, row)) = Len(s) + 1
    OBVIOUS
  <2>3. q.i \in Nat /\ q.rejected \in Nat
    BY DEF Request
  <2> QED BY <2>1, <2>2, <2>3
<1>2. q.rejected + Len(q.scalars) + Len(q.histos) = q.i - 1
  BY DEF Counted
<1> DEFINE n == NextPoint(q)
<1>3. /\ n \in Request /\ n.pc = "point" /\ n.i = q.i + 1 /\ n.batch = q.batch
      /\ n.rejected = q.rejected /\ n.scalars = q.scalars /\ n.histos = q.histos
  BY NextPointTypes DEF NextPoint, Request
<1> HIDE DEF n
<1> DEFINE a == [n EXCEPT !.rejected = @ + 1]
           b == [n EXCEPT !.scalars = Append(@, row)]
           c == [n EXCEPT !.histos = Append(@, row)]
<1>4. /\ a.pc = "point" /\ a.i = q.i + 1 /\ a.batch = q.batch
      /\ a.rejected = q.rejected + 1 /\ a.scalars = q.scalars /\ a.histos = q.histos
  BY <1>3 DEF Request
<1>5. /\ b.pc = "point" /\ b.i = q.i + 1 /\ b.batch = q.batch
      /\ b.rejected = q.rejected /\ b.scalars = Append(q.scalars, row) /\ b.histos = q.histos
  BY <1>3 DEF Request
<1>6. /\ c.pc = "point" /\ c.i = q.i + 1 /\ c.batch = q.batch
      /\ c.rejected = q.rejected /\ c.scalars = q.scalars /\ c.histos = Append(q.histos, row)
  BY <1>3 DEF Request
<1> HIDE DEF a, b, c
<1>7. Counted(a) /\ Counted(b) /\ Counted(c)
  <2> DEFINE x == q.rejected
             y == Len(q.scalars)
             z == Len(q.histos)
             i == q.i
             m == Len(q.batch)
  <2>1. x \in Nat /\ y \in Nat /\ z \in Nat /\ i \in Nat /\ m \in Nat /\ x + y + z = i - 1 /\ i <= m
    BY <1>1, <1>2
  <2>2. /\ (x + 1) + y + z = (i + 1) - 1
        /\ x + (y + 1) + z = (i + 1) - 1
        /\ x + y + (z + 1) = (i + 1) - 1
        /\ i + 1 <= m + 1
    <3> HIDE DEF x, y, z, i, m
    <3> QED BY <2>1
  <2>3. Counted(a)
    BY <1>4, <2>2 DEF Counted
  <2>4. Counted(b)
    BY <1>1, <1>5, <2>2 DEF Counted
  <2>5. Counted(c)
    BY <1>1, <1>6, <2>2 DEF Counted
  <2> QED BY <2>3, <2>4, <2>5
<1>8. Written(a, ps, hs) /\ Written(b, ps, hs) /\ Written(c, ps, hs)
  BY <1>4, <1>5, <1>6 DEF Written
<1> QED BY <1>7, <1>8 DEF OnCourse, a, b, c, n

LEMMA HandlerKeepsCourse ==
    ASSUME TypeInv, CourseInv, NEW r \in Requests, Resolve(r) \/ Convert(r)
    PROVE  CourseInv'
<1>1. req[r] \in Request /\ Counted(req[r])
  BY DEF TypeInv, TypeOK, CourseInv, OnCourse
<1>2. TablesGrow
  BY DEF Resolve, LookupHit, LookupMiss, InsertSeries, InsertCollides, SelectSeries, Convert, Reject,
         RejectValueless, PushCounter, PushRaw, PushHistogram, database, TablesGrow
<1>3. CASE Resolve(r)
  <2>1. PICK pc, id : /\ \/ pc \in {"idle", "unavailable"}
                         \/ req[r].pc \in InServer /\ pc \in {"point", "insert", "select", "value"}
                      /\ \/ req' = [req EXCEPT ![r] = [req[r] EXCEPT !.pc = pc]]
                         \/ req' = [req EXCEPT ![r] = [req[r] EXCEPT !.pc = pc, !.sid = id]]
    <3>1. CASE LookupHit(r)
      BY <3>1 DEF LookupHit, AtPoint, InServer, TypeInv, TypeOK
    <3>2. CASE LookupMiss(r)
      BY <3>2 DEF LookupMiss, AtPoint, InServer, TypeInv, TypeOK
    <3>3. CASE InsertSeries(r)
      BY <3>3 DEF InsertSeries, InServer, TypeInv, TypeOK
    <3>4. CASE InsertCollides(r)
      BY <3>4 DEF InsertCollides, InServer, TypeInv, TypeOK
    <3>5. CASE SelectSeries(r)
      BY <3>5 DEF SelectSeries, InServer, TypeInv, TypeOK
    <3> QED BY <1>3, <3>1, <3>2, <3>3, <3>4, <3>5 DEF Resolve
  <2> DEFINE a == [req[r] EXCEPT !.pc = pc]
             b == [req[r] EXCEPT !.pc = pc, !.sid = id]
  <2>2. OnCourse(a, points', hists') /\ OnCourse(b, points', hists')
    BY <1>1, <2>1, MovedCourse
  <2>3. req' = [req EXCEPT ![r] = a] \/ req' = [req EXCEPT ![r] = b]
    BY <2>1
  <2> HIDE DEF a, b
  <2> QED BY <1>2, <2>2, <2>3, CourseStep
<1>4. CASE Convert(r)
  <2>1. PICK row : \/ req' = [req EXCEPT ![r] = [NextPoint(req[r]) EXCEPT !.rejected = @ + 1]]
                   \/ req' = [req EXCEPT ![r] = [NextPoint(req[r]) EXCEPT !.scalars = Append(@, row)]]
                   \/ req' = [req EXCEPT ![r] = [NextPoint(req[r]) EXCEPT !.histos = Append(@, row)]]
    <3>1. CASE Reject(r) \/ RejectValueless(r)
      BY <3>1 DEF Reject, RejectValueless
    <3>2. CASE PushCounter(r)
      BY <3>2 DEF PushCounter
    <3>3. CASE PushRaw(r)
      BY <3>3 DEF PushRaw
    <3>4. CASE PushHistogram(r)
      BY <3>4 DEF PushHistogram
    <3> QED BY <1>4, <3>1, <3>2, <3>3, <3>4 DEF Convert
  <2>2. req[r].pc \in InServer /\ req[r].i <= Len(req[r].batch)
    <3>1. AtPoint(r) \/ req[r].pc = "value"
      BY <1>4 DEF Convert, Reject, RejectValueless, PushCounter, PushRaw, PushHistogram
    <3> QED BY <3>1, CurrentType DEF AtPoint, InServer
  <2> DEFINE a == [NextPoint(req[r]) EXCEPT !.rejected = @ + 1]
             b == [NextPoint(req[r]) EXCEPT !.scalars = Append(@, row)]
             c == [NextPoint(req[r]) EXCEPT !.histos = Append(@, row)]
  <2>3. OnCourse(a, points', hists') /\ OnCourse(b, points', hists') /\ OnCourse(c, points', hists')
    BY <1>1, <2>2, NextCourse
  <2>4. req' = [req EXCEPT ![r] = a] \/ req' = [req EXCEPT ![r] = b] \/ req' = [req EXCEPT ![r] = c]
    BY <2>1
  <2> HIDE DEF a, b, c
  <2> QED BY <1>2, <2>3, <2>4, CourseStep
<1> QED BY <1>3, <1>4

LEMMA StoreKeepsCourse ==
    ASSUME TypeInv, CourseInv, NEW r \in Requests, Store(r)
    PROVE  CourseInv' /\ TablesGrow
<1>1. /\ req[r] \in Request /\ Counted(req[r]) /\ Written(req[r], points, hists)
      /\ req[r].scalars \in Seq(Row) /\ req[r].histos \in Seq(Row)
  BY DEF TypeInv, TypeOK, CourseInv, OnCourse, Request
<1>2. CASE WriteScalars(r)
  <2> DEFINE q == [req[r] EXCEPT !.pc = "histograms"]
  <2>1. req' = [req EXCEPT ![r] = q] /\ points' = Inserted(points, req[r].scalars) /\ hists' = hists
    BY <1>2 DEF WriteScalars, TypeInv, TypeOK
  <2>2. req[r].pc = "point" /\ req[r].i > Len(req[r].batch)
    BY <1>2 DEF WriteScalars, BatchRead
  <2>3. /\ q.pc = "histograms" /\ q.i = req[r].i /\ q.batch = req[r].batch
        /\ q.rejected = req[r].rejected /\ q.scalars = req[r].scalars /\ q.histos = req[r].histos
    BY <1>1 DEF Request
  <2> HIDE DEF q
  <2>4. Counted(q)
    <3>1. req[r].i \in Nat /\ Len(req[r].batch) \in Nat
      BY <1>1 DEF Request
    <3> QED BY <1>1, <2>2, <2>3, <3>1 DEF Counted, InServer
  <2>5. Written(q, points', hists')
    BY <1>1, <2>1, <2>3, InsertCovers DEF Written
  <2>6. TablesGrow
    BY <2>1, InsertedRows DEF TablesGrow
  <2> QED BY <2>1, <2>4, <2>5, <2>6, CourseStep DEF OnCourse
<1>3. CASE WriteHistograms(r)
  <2> DEFINE q == [req[r] EXCEPT !.pc = "ok"]
  <2>1. req' = [req EXCEPT ![r] = q] /\ hists' = Inserted(hists, req[r].histos) /\ points' = points
    BY <1>3 DEF WriteHistograms, TypeInv, TypeOK
  <2>2. req[r].pc = "histograms"
    BY <1>3 DEF WriteHistograms
  <2>3. /\ q.pc = "ok" /\ q.i = req[r].i /\ q.batch = req[r].batch
        /\ q.rejected = req[r].rejected /\ q.scalars = req[r].scalars /\ q.histos = req[r].histos
    BY <1>1 DEF Request
  <2> HIDE DEF q
  <2>4. Counted(q)
    BY <1>1, <2>2, <2>3 DEF Counted, InServer
  <2>5. Written(q, points', hists')
    BY <1>1, <2>1, <2>2, <2>3, InsertCovers DEF Written
  <2>6. TablesGrow
    BY <2>1, InsertedRows DEF TablesGrow
  <2> QED BY <2>1, <2>4, <2>5, <2>6, CourseStep DEF OnCourse
<1>4. CASE Respond(r)
  <2>1. req' = [req EXCEPT ![r] = Idle] /\ TablesGrow
    BY <1>4 DEF Respond, database, TablesGrow
  <2>2. <<>> \in Seq(DataPoint)
    OBVIOUS
  <2>3. OnCourse(Idle, points', hists')
    BY <2>2, IdleCourse
  <2> QED BY <2>1, <2>3, CourseStep
<1> QED BY <1>2, <1>3, <1>4 DEF Store

LEMMA OthersKeepCourse ==
    ASSUME TypeInv, CourseInv
    PROVE  /\ \A k \in Keys, v \in Readings : Sample(k, v) => CourseInv'
           /\ \A r \in Requests : Post(r) \/ Retry(r) \/ GiveUp(r) => CourseInv'
           /\ \A r \in Requests : DbFails(r) \/ LoseReply(r) => CourseInv'
           /\ Restart => CourseInv'
<1>1. ASSUME NEW k \in Keys, NEW v \in Readings, Sample(k, v) PROVE CourseInv'
  BY <1>1 DEF Sample, database, CourseInv
<1>2. ASSUME NEW r \in Requests, Post(r) \/ Retry(r) \/ GiveUp(r) PROVE CourseInv'
  <2>1. PICK b \in Seq(DataPoint) :
           \/ req' = [req EXCEPT ![r] = Idle]
           \/ req' = [req EXCEPT ![r] = [Idle EXCEPT !.pc = "point", !.batch = b]]
    <3>1. queue \in Seq(DataPoint) /\ req[r].batch \in Seq(DataPoint)
      BY DEF TypeInv, TypeOK, Request
    <3> QED BY <1>2, <3>1 DEF Post, Retry, GiveUp
  <2> DEFINE a == [Idle EXCEPT !.pc = "point", !.batch = b]
  <2>2. OnCourse(Idle, points', hists') /\ OnCourse(a, points', hists')
    BY IdleCourse
  <2>3. TablesGrow
    BY <1>2 DEF Post, Retry, GiveUp, database, TablesGrow
  <2>4. req' = [req EXCEPT ![r] = Idle] \/ req' = [req EXCEPT ![r] = a]
    BY <2>1
  <2> HIDE DEF a
  <2> QED BY <2>2, <2>3, <2>4, CourseStep
<1>3. \A r \in Requests : OnCourse([req[r] EXCEPT !.pc = "unavailable"], points, hists)
  <2>1. \A r \in Requests : req[r] \in Request /\ Counted(req[r])
    BY DEF TypeInv, TypeOK, CourseInv, OnCourse
  <2> QED BY <2>1, MovedCourse
<1>4. ASSUME NEW r \in Requests, DbFails(r) \/ LoseReply(r) PROVE CourseInv'
  <2> DEFINE q == [req[r] EXCEPT !.pc = "unavailable"]
  <2>1. req' = [req EXCEPT ![r] = q] /\ points' = points /\ hists' = hists
    BY <1>4 DEF DbFails, LoseReply, database, TypeInv, TypeOK
  <2>2. OnCourse(q, points', hists')
    BY <1>3, <2>1
  <2> HIDE DEF q
  <2> QED BY <2>1, <2>2, CourseStep DEF TablesGrow
<1>5. ASSUME Restart PROVE CourseInv'
  <2>1. \A r \in Requests : req'[r] = [req[r] EXCEPT !.pc = "unavailable"] \/ req'[r] = req[r]
    BY <1>5 DEF Restart
  <2>2. points' = points /\ hists' = hists
    BY <1>5 DEF Restart, database
  <2> QED BY <1>3, <2>1, <2>2 DEF CourseInv
<1> QED BY <1>1, <1>2, <1>4, <1>5

LEMMA CoursePreserved == TypeInv /\ CourseInv /\ [Next]_vars => CourseInv'
<1> SUFFICES ASSUME TypeInv, CourseInv, [Next]_vars PROVE CourseInv'
  OBVIOUS
<1>1. CASE \E k \in Keys, v \in Readings : Sample(k, v)
  BY <1>1, OthersKeepCourse
<1>2. ASSUME NEW r \in Requests,
             Post(r) \/ Retry(r) \/ GiveUp(r) \/ Handler(r) \/ DbFails(r) \/ LoseReply(r)
      PROVE  CourseInv'
  BY <1>2, OthersKeepCourse, HandlerKeepsCourse, StoreKeepsCourse DEF Handler
<1>3. CASE Restart
  BY <1>3, OthersKeepCourse
<1>4. CASE UNCHANGED vars
  BY <1>4 DEF vars, CourseInv
<1> QED BY <1>1, <1>2, <1>3, <1>4 DEF Next

LEMMA InitialCourse == Init => CourseInv
<1> SUFFICES ASSUME Init PROVE CourseInv
  OBVIOUS
<1>1. <<>> \in Seq(DataPoint)
  OBVIOUS
<1>2. OnCourse(Idle, points, hists)
  BY <1>1, IdleCourse
<1> QED BY <1>2 DEF Init, CourseInv

LEMMA CourseInvariant == Spec => [](TypeInv /\ FilingInv /\ CourseInv)
BY InitialTypes, TypesPreserved, InitialFiling, FilingPreserved, InitialCourse, CoursePreserved,
   PTL DEF Spec

\* partial_success tells the truth: at every moment each data point a handler is
\* done with was counted as rejected or is on its way to a table.
THEOREM AllReported == Spec => []NothingUnreported
<1>1. TypeInv /\ FilingInv /\ CourseInv => NothingUnreported
  BY DEF CourseInv, OnCourse, Counted, NothingUnreported
<1> QED BY CourseInvariant, <1>1, PTL

-------------------------------------------------------------------------------
(* Acknowledgement.                                                          *)

\* What any step does to the tables and to what was acknowledged.
LEMMA StepsGrow ==
    ASSUME TypeInv, CourseInv, [Next]_vars
    PROVE  /\ Grows
           /\ TablesGrow
           /\ acked' = acked \/ \E r \in Requests : Respond(r)
<1>1. CASE \E k \in Keys, v \in Readings : Sample(k, v)
  BY <1>1 DEF Sample, database, Grows, TablesGrow
<1>2. ASSUME NEW r \in Requests,
             Post(r) \/ Retry(r) \/ GiveUp(r) \/ DbFails(r) \/ LoseReply(r)
      PROVE  series' = series /\ points' = points /\ hists' = hists /\ acked' = acked
  BY <1>2 DEF Post, Retry, GiveUp, DbFails, LoseReply, database
<1>3. ASSUME NEW r \in Requests, Resolve(r)
      PROVE  Grows /\ TablesGrow /\ acked' = acked
  <2>1. CASE InsertSeries(r)
    <3>1. ContentOf[Current(r).key] \in Contents
      BY <2>1, CurrentType DEF InsertSeries
    <3>2. Grows
      BY <2>1, <3>1 DEF InsertSeries, SeriesAfterInsert, Grows, HasRow, TypeInv, TypeOK
    <3> QED BY <2>1, <3>2 DEF InsertSeries, TablesGrow
  <2>2. CASE LookupHit(r) \/ LookupMiss(r) \/ InsertCollides(r) \/ SelectSeries(r)
    BY <2>2 DEF LookupHit, LookupMiss, InsertCollides, SelectSeries, database, Grows, TablesGrow
  <2> QED BY <1>3, <2>1, <2>2 DEF Resolve
<1>4. ASSUME NEW r \in Requests, Convert(r)
      PROVE  series' = series /\ points' = points /\ hists' = hists /\ acked' = acked
  BY <1>4 DEF Convert, Reject, RejectValueless, PushCounter, PushRaw, PushHistogram, database
<1>5. ASSUME NEW r \in Requests, Store(r)
      PROVE  Grows /\ TablesGrow /\ (acked' = acked \/ Respond(r))
  <2>1. series' = series /\ (acked' = acked \/ Respond(r))
    BY <1>5 DEF Store, WriteScalars, WriteHistograms, Respond, database
  <2> QED BY <1>5, <2>1, StoreKeepsCourse DEF Grows
<1>6. CASE Restart
  BY <1>6 DEF Restart, database, Grows, TablesGrow
<1>7. CASE UNCHANGED vars
  BY <1>7 DEF vars, Grows, TablesGrow
<1> QED BY <1>1, <1>2, <1>3, <1>4, <1>5, <1>6, <1>7 DEF Next, Handler, Grows, TablesGrow

\* The tables hold data point a, a being acknowledged or about to be.
Holds(a) == \E p \in points \cup hists : p.sid = series[ContentOf[a.key]] /\ p.ts = a.ts

\* What is stored stays stored, under the same series.
LEMMA HoldsForGood ==
    ASSUME TypeInv, FilingInv, Grows, TablesGrow, NEW a, a.key \in Keys, Holds(a)
    PROVE  Holds(a)'
<1>1. PICK p \in points \cup hists : p.sid = series[ContentOf[a.key]] /\ p.ts = a.ts
  BY DEF Holds
<1>2. ContentOf[a.key] \in Contents /\ series[ContentOf[a.key]] # 0
  BY <1>1, KeyAssumption DEF FilingInv, Filed
<1>3. series'[ContentOf[a.key]] = series[ContentOf[a.key]]
  BY <1>2 DEF Grows, HasRow
<1>4. p \in points' \cup hists'
  BY <1>1 DEF TablesGrow
<1> QED BY <1>1, <1>3, <1>4 DEF Holds

\* When a request is about to be answered, what the answer accepts is stored.
LEMMA AnsweredIsStored ==
    ASSUME TypeInv, FilingInv, CourseInv, NEW r \in Requests, req[r].pc = "ok",
           NEW a \in AcceptedBy(req[r])
    PROVE  Holds(a)
<1> DEFINE q == req[r]
<1>1. PICK row \in BufferOf(q) : a = [key |-> row.src, ts |-> row.ts]
  BY DEF AcceptedBy, BufferOf
<1>2. Filed(row, series)
  BY <1>1 DEF FilingInv, InOrder
<1>3. Covers(points, q.scalars) /\ Covers(hists, q.histos)
  BY DEF CourseInv, OnCourse, Written
<1>4. PICK p \in points \cup hists : SameKey(p, row)
  BY <1>1, <1>3 DEF BufferOf, Covers
<1> QED BY <1>1, <1>2, <1>4 DEF Holds, Filed, SameKey

LEMMA AcknowledgedPreserved ==
    TypeInv /\ FilingInv /\ CourseInv /\ AckedIsStored /\ [Next]_vars => AckedIsStored'
<1> SUFFICES ASSUME TypeInv, FilingInv, CourseInv, AckedIsStored, [Next]_vars, NEW a \in acked'
             PROVE  Holds(a)'
  BY DEF AckedIsStored, Holds
<1>1. Grows /\ TablesGrow /\ (acked' = acked \/ \E r \in Requests : Respond(r))
  BY StepsGrow
<1>2. CASE a \in acked
  <2>1. a.key \in Keys /\ Holds(a)
    BY <1>2 DEF AckedIsStored, Holds, TypeInv, TypeOK
  <2> QED BY <1>1, <2>1, HoldsForGood
<1>3. CASE a \notin acked
  <2>1. PICK r \in Requests : Respond(r)
    BY <1>1, <1>3
  <2>2. req[r].pc = "ok" /\ a \in AcceptedBy(req[r])
    BY <1>3, <2>1 DEF Respond
  <2>3. a.key \in Keys
    <3>1. PICK row \in BufferOf(req[r]) : a = [key |-> row.src, ts |-> row.ts]
      BY <2>2 DEF AcceptedBy, BufferOf
    <3>2. row \in Row
      BY <3>1, BufferTypes DEF TypeInv, TypeOK
    <3> QED BY <3>1, <3>2 DEF Row
  <2>4. Holds(a)
    BY <2>2, AnsweredIsStored
  <2> QED BY <1>1, <2>3, <2>4, HoldsForGood
<1> QED BY <1>2, <1>3

\* A 200 is kept: once the exporter was told that a data point is accepted, its
\* series has a row at its timestamp, after any number of failures and restarts
\* and whatever the other requests do.
THEOREM Acknowledged == Spec => []AckedIsStored
<1>1. Init => AckedIsStored
  BY DEF Init, AckedIsStored
<1> QED BY InitialTypes, TypesPreserved, InitialFiling, FilingPreserved, InitialCourse,
           CoursePreserved, <1>1, AcknowledgedPreserved, PTL DEF Spec

==============================================================================
