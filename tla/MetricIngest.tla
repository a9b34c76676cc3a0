----------------------------- MODULE MetricIngest -----------------------------
(***************************************************************************)
(* POST /v1/metrics (src/ingest/otlp_http.rs, ingest_metrics) with the     *)
(* series cache (src/store/series.rs) and the two metric tables            *)
(* (src/store/write.rs).  Handlers of several requests interleave at every *)
(* .await and at every release of the cache's mutex; database calls fail;  *)
(* responses get lost; the process restarts and loses its cache; the       *)
(* exporter retries what was not acknowledged.                             *)
(***************************************************************************)
EXTENDS SeriesLru, Integers, Sequences, FiniteSetsExt

CONSTANTS Keys,             \* SeriesKeys: (name, kind, canonical resource, attributes)
          Kind,             \* of a key: "gauge", "counter", "updown", "histogram", "unsupported"
          Contents,         \* what the unique index uq_metric_series_key tells apart
          ContentOf,        \* two keys may share one: jsonb equates 1 and 1.0, the key does not
          Ids, HashOf,      \* hash_series_key: 64 bits, so two keys may collide
          Requests,         \* one request of the exporter that may be in flight
          Readings,         \* what an instrument may report (may include NoReading)
          Skews,            \* source clock minus server clock
          IngestWindow, FutureTolerance,
          MaxPerBatch, MaxPerSeries,       \* data points of a request; of one series in it
          MaxTime, MaxFaults, MaxRestarts  \* bounds of the checked instance

Kinds == {"gauge", "counter", "updown", "histogram", "unsupported"}

ASSUME KeyAssumption ==
    /\ Kind \in [Keys -> Kinds]
    /\ ContentOf \in [Keys -> Contents]
    /\ HashOf \in [Keys -> Ids]
ASSUME ReadingAssumption == Readings \subseteq Nat \cup {NoReading}
ASSUME SkewAssumption == Skews \subseteq Int
ASSUME WindowAssumption == IngestWindow \in Nat /\ FutureTolerance \in Nat
ASSUME BoundAssumption ==
    /\ MaxPerBatch \in Nat /\ MaxPerSeries \in Nat
    /\ MaxTime \in Nat /\ MaxFaults \in Nat /\ MaxRestarts \in Nat
ASSUME NoIdAssumption == 0 \notin Ids

VARIABLES series,   \* metric_series: Contents -> Ids \cup {0}, 0 where there is no row
          points,   \* metric_point rows; "src" is the key the point came from
          hists,    \* metric_histogram_point rows
          cache,    \* SeriesCache::inner
          req,      \* per request: the handler's locals, or the exporter waiting
          now,      \* Utc::now()
          queue,    \* readings the exporter took and has not sent yet
          seen,     \* last reading of each instrument
          total,    \* what each counter counted, by its own readings
          acked,    \* data points the exporter was told are accepted
          faults, restarts

vars == <<series, points, hists, cache, req, now, queue, seen, total, acked, faults, restarts>>
database == <<series, points, hists>>
exporter == <<now, queue, seen, total>>
counters == <<faults, restarts>>

Idle == [pc |-> "idle", batch |-> <<>>, i |-> 1, sid |-> 0, rejected |-> 0,
         scalars |-> <<>>, histos |-> <<>>]

InServer == {"point", "insert", "select", "value", "histograms", "ok"}

DataPoint == [key : Keys, ts : Int, cum : Readings]
Row == [src : Keys, sid : Ids \cup {0}, ts : Int, val : Nat]
Request == [pc : InServer \cup {"idle", "unavailable"}, batch : Seq(DataPoint),
            i : Nat \ {0}, sid : Ids \cup {0}, rejected : Nat,
            scalars : Seq(Row), histos : Seq(Row)]
Entry == [id : Ids \cup {0}, last : Nat \cup {NoReading}, age : Nat]

TypeOK ==
    /\ series \in [Contents -> Ids \cup {0}]
    /\ points \subseteq Row
    /\ hists \subseteq Row
    /\ \E cached \in SUBSET Keys : cache \in [cached -> Entry]
    /\ req \in [Requests -> Request]
    /\ now \in Nat
    /\ queue \in Seq(DataPoint)
    /\ seen \in [Keys -> Nat]
    /\ total \in [Keys -> Nat]
    /\ acked \subseteq [key : Keys, ts : Int]
    /\ faults \in Nat
    /\ restarts \in Nat

Init ==
    /\ series = [c \in Contents |-> 0]
    /\ points = {}
    /\ hists = {}
    /\ cache = EmptyCache
    /\ req = [r \in Requests |-> Idle]
    /\ now = 0
    /\ queue = <<>>
    /\ seen = [k \in Keys |-> 0]
    /\ total = [k \in Keys |-> 0]
    /\ acked = {}
    /\ faults = 0
    /\ restarts = 0

-------------------------------------------------------------------------------
(* The exporter (external): it samples cumulative instruments as time passes, *)
(* posts what it has sampled, and posts a batch again until it gets a 200.    *)

\* The cumulative instrument of k reads v: it counted v more if it was reset
\* since the last reading, v - seen[k] more if it was not.
Increase(k, v) == IF v >= seen[k] THEN v - seen[k] ELSE v

Sample(k, v) ==
    /\ now < MaxTime
    /\ Len(queue) < MaxPerBatch
    /\ Cardinality({j \in DOMAIN queue : queue[j].key = k}) < MaxPerSeries
    /\ now' = now + 1
    /\ \E skew \in Skews :
          queue' = Append(queue, [key |-> k, ts |-> now + skew, cum |-> v])
    /\ IF Kind[k] = "counter" /\ v # NoReading
       THEN /\ total' = [total EXCEPT ![k] = @ + Increase(k, v)]
            /\ seen' = [seen EXCEPT ![k] = v]
       ELSE UNCHANGED <<total, seen>>
    /\ UNCHANGED <<database, cache, req, acked, counters>>

Post(r) ==
    /\ req[r].pc = "idle"
    /\ queue # <<>>
    /\ req' = [req EXCEPT ![r] = [Idle EXCEPT !.pc = "point", !.batch = queue]]
    /\ queue' = <<>>
    /\ UNCHANGED <<database, cache, now, seen, total, acked, counters>>

Retry(r) ==
    /\ req[r].pc = "unavailable"
    /\ req' = [req EXCEPT ![r] = [Idle EXCEPT !.pc = "point", !.batch = req[r].batch]]
    /\ UNCHANGED <<database, cache, exporter, acked, counters>>

GiveUp(r) ==
    /\ req[r].pc = "unavailable"
    /\ req' = [req EXCEPT ![r] = Idle]
    /\ UNCHANGED <<database, cache, exporter, acked, counters>>

-------------------------------------------------------------------------------
(* The handler, one data point after the other.                              *)

Current(r) == req[r].batch[req[r].i]
AtPoint(r) == req[r].pc = "point" /\ req[r].i <= Len(req[r].batch)

InWindow(ts) == now - IngestWindow <= ts /\ ts <= now + FutureTolerance

\* The next data point, the one before having added to the handler's locals.
NextPoint(q) == [q EXCEPT !.pc = "point", !.i = @ + 1]

Acceptable(dp) == Kind[dp.key] # "unsupported" /\ InWindow(dp.ts)

\* (Altered for a check of NothingUnreported: skipped and not counted.)
RejectSilently(r) ==
    /\ AtPoint(r)
    /\ ~Acceptable(Current(r))
    /\ req' = [req EXCEPT ![r] = NextPoint(req[r])]
    /\ UNCHANGED <<database, cache, exporter, acked, counters>>

\* Delta temporality, unsupported types and timestamps outside the window.
Reject(r) ==
    /\ AtPoint(r)
    /\ ~Acceptable(Current(r))
    /\ req' = [req EXCEPT ![r] = [NextPoint(req[r]) EXCEPT !.rejected = @ + 1]]
    /\ UNCHANGED <<database, cache, exporter, acked, counters>>

\* SeriesCache::resolve, first critical section.
LookupHit(r) ==
    LET k == Current(r).key IN
    /\ AtPoint(r)
    /\ Acceptable(Current(r))
    /\ k \in DOMAIN cache
    /\ cache' = Touch(cache, k)
    /\ req' = [req EXCEPT ![r].pc = "value", ![r].sid = cache[k].id]
    /\ UNCHANGED <<database, exporter, acked, counters>>

LookupMiss(r) ==
    /\ AtPoint(r)
    /\ Acceptable(Current(r))
    /\ Current(r).key \notin DOMAIN cache
    /\ req' = [req EXCEPT ![r].pc = "insert"]
    /\ UNCHANGED <<database, cache, exporter, acked, counters>>

HasRow(c) == series[c] # 0

IdTaken(id) == \E c \in Contents : series[c] = id

\* (Altered for a check of PointsAreFiled: DO UPDATE SET series_id.)
SeriesUpserted(k) == [series EXCEPT ![ContentOf[k]] = HashOf[k]]

\* INSERT ... ON CONFLICT (name, kind, resource, attributes) DO NOTHING: the
\* row's id is the hash of the key that came first.
SeriesAfterInsert(k) ==
    IF HasRow(ContentOf[k]) THEN series ELSE [series EXCEPT ![ContentOf[k]] = HashOf[k]]

\* (Altered for a check of Delivered: no ON CONFLICT clause, an existing row is an error.)
InsertPlainly(r) ==
    LET k == Current(r).key IN
    /\ req[r].pc = "insert"
    /\ series' = SeriesAfterInsert(k)
    /\ req' = [req EXCEPT ![r].pc = IF HasRow(ContentOf[k]) THEN "unavailable" ELSE "select"]
    /\ UNCHANGED <<points, hists, cache, exporter, acked, counters>>

InsertSeries(r) ==
    LET k == Current(r).key IN
    /\ req[r].pc = "insert"
    /\ HasRow(ContentOf[k]) \/ ~IdTaken(HashOf[k])
    /\ series' = SeriesAfterInsert(k)
    /\ req' = [req EXCEPT ![r].pc = "select"]
    /\ UNCHANGED <<points, hists, cache, exporter, acked, counters>>

\* The primary key is not the conflict target: a hash collision is an error,
\* and the handler answers 503.
InsertCollides(r) ==
    LET k == Current(r).key IN
    /\ req[r].pc = "insert"
    /\ ~HasRow(ContentOf[k])
    /\ IdTaken(HashOf[k])
    /\ req' = [req EXCEPT ![r].pc = "unavailable"]
    /\ UNCHANGED <<database, cache, exporter, acked, counters>>

\* (Altered for a check of CacheIsCanonical: the hash, without looking who won.)
HashedId(k) == HashOf[k]

\* The id the re-SELECT returns.
ResolvedId(k) == series[ContentOf[k]]

\* The re-SELECT (rows of metric_series are never changed or deleted, so it may
\* run together with what follows it) and resolve's second critical section.
SelectSeries(r) ==
    LET k == Current(r).key IN
    /\ req[r].pc = "select"
    /\ cache' = PutFresh(cache, k, ResolvedId(k))
    /\ req' = [req EXCEPT ![r].pc = "value", ![r].sid = ResolvedId(k)]
    /\ UNCHANGED <<database, exporter, acked, counters>>

\* (Altered for a check of TypeOK: a reset gives a negative delta.)
SignedDelta(prev, v) == IF prev # NoReading THEN v - prev ELSE v

\* Cumulative to delta: the first reading and a reading after a reset count whole.
Delta(prev, v) == IF prev # NoReading /\ v >= prev THEN v - prev ELSE v

RowOf(r, v) == [src |-> Current(r).key, sid |-> req[r].sid, ts |-> Current(r).ts, val |-> v]

RejectValueless(r) ==
    /\ req[r].pc = "value"
    /\ Kind[Current(r).key] # "histogram"
    /\ Current(r).cum = NoReading
    /\ req' = [req EXCEPT ![r] = [NextPoint(req[r]) EXCEPT !.rejected = @ + 1]]
    /\ UNCHANGED <<database, cache, exporter, acked, counters>>

\* swap_cumulative under the mutex, and the delta pushed to metric_points.
PushCounter(r) ==
    LET k == Current(r).key
        v == Current(r).cum
    IN
    /\ req[r].pc = "value"
    /\ Kind[k] = "counter"
    /\ v # NoReading
    /\ cache' = SwapReading(cache, k, v)
    /\ req' = [req EXCEPT ![r] =
                  [NextPoint(req[r]) EXCEPT !.scalars =
                      Append(@, RowOf(r, Delta(LastReading(cache, k), v)))]]
    /\ UNCHANGED <<database, exporter, acked, counters>>

\* Gauges and non-monotonic sums are stored as they are.
PushRaw(r) ==
    /\ req[r].pc = "value"
    /\ Kind[Current(r).key] \in {"gauge", "updown"}
    /\ Current(r).cum # NoReading
    /\ req' = [req EXCEPT ![r] =
                  [NextPoint(req[r]) EXCEPT !.scalars = Append(@, RowOf(r, Current(r).cum))]]
    /\ UNCHANGED <<database, cache, exporter, acked, counters>>

\* Histograms are stored as they are too, an absent sum as well (0 here).
PushHistogram(r) ==
    LET v == IF Current(r).cum = NoReading THEN 0 ELSE Current(r).cum IN
    /\ req[r].pc = "value"
    /\ Kind[Current(r).key] = "histogram"
    /\ req' = [req EXCEPT ![r] = [NextPoint(req[r]) EXCEPT !.histos = Append(@, RowOf(r, v))]]
    /\ UNCHANGED <<database, cache, exporter, acked, counters>>

-------------------------------------------------------------------------------
(* The batch writes: one INSERT each, so all of a batch or nothing of it.    *)

SameKey(a, b) == a.sid = b.sid /\ a.ts = b.ts

\* INSERT ... ON CONFLICT (series_id, ts) DO NOTHING: the first row of a primary
\* key wins, be it in the table already or earlier in the batch.
Inserted(table, rows) ==
    table \cup {rows[j] : j \in {n \in DOMAIN rows :
                    /\ \A p \in table : ~SameKey(p, rows[n])
                    /\ \A m \in DOMAIN rows : m < n => ~SameKey(rows[m], rows[n])}}

BatchRead(r) == req[r].pc = "point" /\ req[r].i > Len(req[r].batch)

WriteScalars(r) ==
    /\ BatchRead(r)
    /\ points' = Inserted(points, req[r].scalars)
    /\ req' = [req EXCEPT ![r].pc = "histograms"]
    /\ UNCHANGED <<series, hists, cache, exporter, acked, counters>>

WriteHistograms(r) ==
    /\ req[r].pc = "histograms"
    /\ hists' = Inserted(hists, req[r].histos)
    /\ req' = [req EXCEPT ![r].pc = "ok"]
    /\ UNCHANGED <<series, points, cache, exporter, acked, counters>>

\* What the 200 (with partial_success when something was rejected) promises.
AcceptedBy(q) ==
    {[key |-> row.src, ts |-> row.ts] :
        row \in {q.scalars[j] : j \in DOMAIN q.scalars} \cup {q.histos[j] : j \in DOMAIN q.histos}}

Respond(r) ==
    /\ req[r].pc = "ok"
    /\ acked' = acked \cup AcceptedBy(req[r])
    /\ req' = [req EXCEPT ![r] = Idle]
    /\ UNCHANGED <<database, cache, exporter, counters>>

-------------------------------------------------------------------------------
(* What goes wrong.                                                          *)

Fault == faults < MaxFaults /\ faults' = faults + 1 /\ UNCHANGED restarts

\* (Altered for a check of AckedIsStored: a failed histogram write is only logged.)
DbFailsQuietly(r) ==
    /\ Fault
    /\ req[r].pc = "histograms" /\ req[r].histos # <<>>
    /\ req' = [req EXCEPT ![r].pc = "ok"]
    /\ UNCHANGED <<database, cache, exporter, acked>>

\* A database call of the handler fails (pool acquire timeout, statement timeout,
\* connection loss, no partition for the timestamp): the handler answers 503.
DbFails(r) ==
    /\ Fault
    /\ \/ req[r].pc \in {"insert", "select"}
       \/ BatchRead(r) /\ req[r].scalars # <<>>
       \/ req[r].pc = "histograms" /\ req[r].histos # <<>>
    /\ req' = [req EXCEPT ![r].pc = "unavailable"]
    /\ UNCHANGED <<database, cache, exporter, acked>>

\* The answer does not reach the exporter, or it stopped waiting for it.
LoseReply(r) ==
    /\ Fault
    /\ req[r].pc = "ok"
    /\ req' = [req EXCEPT ![r].pc = "unavailable"]
    /\ UNCHANGED <<database, cache, exporter, acked>>

\* The cache is in memory only, and so is every request being handled.
Restart ==
    /\ restarts < MaxRestarts
    /\ restarts' = restarts + 1
    /\ cache' = EmptyCache
    /\ req' = [r \in Requests |->
                  IF req[r].pc \in InServer THEN [req[r] EXCEPT !.pc = "unavailable"] ELSE req[r]]
    /\ UNCHANGED <<database, exporter, acked, faults>>

-------------------------------------------------------------------------------
Resolve(r) == LookupHit(r) \/ LookupMiss(r) \/ InsertSeries(r) \/ InsertCollides(r) \/ SelectSeries(r)
Convert(r) == Reject(r) \/ RejectValueless(r) \/ PushCounter(r) \/ PushRaw(r) \/ PushHistogram(r)
Store(r)   == WriteScalars(r) \/ WriteHistograms(r) \/ Respond(r)
Handler(r) == Resolve(r) \/ Convert(r) \/ Store(r)

Next ==
    \/ \E k \in Keys, v \in Readings : Sample(k, v)
    \/ \E r \in Requests :
          Post(r) \/ Retry(r) \/ GiveUp(r) \/ Handler(r) \/ DbFails(r) \/ LoseReply(r)
    \/ Restart

Spec == Init /\ [][Next]_vars

\* The runtime polls every handler to its end; an exporter that has not given up
\* on a batch posts it again.  Sampling, faults and restarts owe nothing.
FairSpec == Spec /\ \A r \in Requests : WF_vars(Handler(r)) /\ WF_vars(Retry(r))

-------------------------------------------------------------------------------
(* Properties.                                                               *)

\* Whatever request resolved it and whichever concurrent INSERT won, a cached
\* series_id is the id of the one row of metric_series with the key's content
\* (series.rs resolve: "handles concurrent inserts correctly").
CacheIsCanonical ==
    \A k \in DOMAIN cache : HasRow(ContentOf[k]) /\ cache[k].id = series[ContentOf[k]]

Buffered(r) == {req[r].scalars[j] : j \in DOMAIN req[r].scalars}
               \cup {req[r].histos[j] : j \in DOMAIN req[r].histos}

\* Every stored data point, and every one a handler is about to store, is filed
\* under the series it was sent for: never a dangling foreign key, never the
\* series of a colliding hash.
PointsAreFiled ==
    \A p \in points \cup hists \cup UNION {Buffered(r) : r \in Requests} :
        p.sid # 0 /\ p.sid = series[ContentOf[p.src]]

\* A data point the exporter was told is accepted is in the database: its series
\* has a row at its timestamp, across restarts and whatever the others do.
AckedIsStored ==
    \A a \in acked : \E p \in points \cup hists :
        p.sid = series[ContentOf[a.key]] /\ p.ts = a.ts

\* What is not stored is reported: each data point the handler is done with is
\* either on its way to a table or in rejected_data_points.
NothingUnreported ==
    \A r \in Requests : req[r].pc \in InServer =>
        /\ req[r].rejected + Len(req[r].scalars) + Len(req[r].histos) = req[r].i - 1
        /\ req[r].pc \in {"histograms", "ok"} => req[r].i = Len(req[r].batch) + 1

StoredTotal(k) == MapThenSumSet(LAMBDA p : p.val, {p \in points : p.src = k})
CounterKeys == {k \in Keys : Kind[k] = "counter"}
AllDelivered == queue = <<>> /\ \A r \in Requests : req[r].pc = "idle"

\* The deltas of a counter add up to what its instrument counted, resets
\* included, once everything sampled was delivered and nothing went wrong.
DeltasTelescope ==
    AllDelivered /\ faults = 0 /\ restarts = 0 =>
        \A k \in CounterKeys : StoredTotal(k) = total[k]

\* Database failures, lost answers and retries never make a counter count more
\* than its instrument did (one batch at a time, one data point per series in it).
NeverOvercounts == \A k \in CounterKeys : StoredTotal(k) <= total[k]

\* Every request is eventually answered for good: no data point can hold up the
\* loop, and a retried batch gets through once the faults are over.
Delivered == \A r \in Requests : req[r].pc # "idle" ~> req[r].pc = "idle"

\* swap_cumulative: "None if not cached or first time seen".  An entry that stays
\* in the cache never goes from a reading back to none.
NeverForgets ==
    [][\A k \in DOMAIN cache \cap DOMAIN cache' :
          cache[k].last # NoReading => cache'[k].last # NoReading]_vars

\* write_metric_points: "safe for at-least-once ingest".  Once every reading taken
\* was acknowledged, however often it had to be posted, the deltas add up.
AtLeastOnceIsSafe ==
    AllDelivered /\ Cardinality(acked) = now /\ restarts = 0 =>
        \A k \in CounterKeys : StoredTotal(k) = total[k]
===============================================================================
