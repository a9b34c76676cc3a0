---------------------------- MODULE TelemetryIngest ----------------------------
(***************************************************************************)
(* POST /v1/logs and POST /v1/traces (src/ingest/otlp_http.rs,             *)
(* src/store/write.rs) on top of the partitions their rows go to.  The     *)
(* loop of such a handler never awaits, and it ends with one INSERT; what  *)
(* interleaves is that INSERT with the partition manager, the clock, the   *)
(* other handlers and everything that fails.                               *)
(***************************************************************************)
EXTENDS Partitions

CONSTANTS Requests,  \* one request of an exporter that may be in flight
          Keyed,     \* tables with a natural key (spans)
          Undated,   \* tables whose records may come without a timestamp (logs)
          MaxBatch, MaxPosts  \* bounds of the checked instance

NoTime == -9

ASSUME KeyedAssumption == Keyed \subseteq Tables /\ Undated \subseteq Tables
ASSUME BatchAssumption == MaxBatch \in Nat /\ MaxPosts \in Nat

VARIABLES req,    \* per request: what the exporter sent, and the handler's locals
          acked,  \* records the exporter was told are accepted
          posts

vars == <<now, parts, rows, mgr, faults, req, acked, posts>>

Record == [ts : Int, payload : Payloads]
Idle == [pc |-> "idle", table |-> TableOrder[1], batch |-> {}, accepted |-> {}, rejected |-> 0]
InServer == {"posted", "checked", "written"}
Request == [pc : InServer \cup {"idle", "unavailable"}, table : Tables,
            batch : SUBSET Record, accepted : SUBSET Record, rejected : 0..MaxBatch]

TypeOK ==
    /\ StoreOK
    /\ req \in [Requests -> Request]
    /\ \A a \in acked : a.table \in Tables /\ a.ts \in Int
    /\ posts \in 0..MaxPosts

Init ==
    /\ StoreInit
    /\ req = [r \in Requests |-> Idle]
    /\ acked = {}
    /\ posts = 0

-------------------------------------------------------------------------------
(* The exporter (external).                                                  *)

Stamps == (now - IngestWindow - 1)..(now + FutureTolerance + 1) \cup {NoTime}

Batches == {{x, y} : x, y \in [ts : Stamps, payload : Payloads]}

Post(r, t, batch) ==
    /\ Cardinality(batch) <= MaxBatch
    /\ Up
    /\ req[r].pc = "idle"
    /\ posts < MaxPosts
    /\ posts' = posts + 1
    /\ req' = [req EXCEPT ![r] = [Idle EXCEPT !.pc = "posted", !.table = t, !.batch = batch]]
    /\ UNCHANGED <<store, acked>>

Retry(r) ==
    /\ Up
    /\ req[r].pc = "unavailable"
    /\ req' = [req EXCEPT ![r] = [Idle EXCEPT !.pc = "posted", !.table = req[r].table,
                                              !.batch = req[r].batch]]
    /\ UNCHANGED <<store, acked, posts>>

GiveUp(r) ==
    /\ req[r].pc = "unavailable"
    /\ req' = [req EXCEPT ![r] = Idle]
    /\ UNCHANGED <<store, acked, posts>>

-------------------------------------------------------------------------------
(* The handler.                                                              *)

\* A log record without a timestamp gets the current time.  NoTime in a keyed table
\* is a span the loop has no use for: no start time, a zero trace or span id.
Stamped(t, x) == IF x.ts = NoTime /\ t \in Undated THEN [x EXCEPT !.ts = now] ELSE x

\* What the loop pushes to log_records or span_records.
AcceptedOf(t, batch) ==
    {x \in {Stamped(t, y) : y \in batch} : x.ts # NoTime /\ InWindow(x.ts)}

Check(r) ==
    LET t == req[r].table IN
    /\ req[r].pc = "posted"
    /\ req' = [req EXCEPT ![r].pc = "checked",
                          ![r].accepted = AcceptedOf(t, req[r].batch),
                          ![r].rejected = Cardinality({x \in req[r].batch : AcceptedOf(t, {x}) = {}})]
    /\ UNCHANGED <<store, acked, posts>>

\* A span has its key; a log record gets an id of its own each time it is written.
RowsOf(t, batch) ==
    {[ts |-> x.ts, payload |-> x.payload,
      copy |-> IF t \in Keyed THEN 0
               ELSE Cardinality({y \in rows[t] : y.ts = x.ts /\ y.payload = x.payload})] :
        x \in batch}

HavePartitions(r) == \A x \in req[r].accepted : Month(x.ts) \in parts[req[r].table]

\* One INSERT of the whole batch; none at all when there is nothing to write.
Insert(r) ==
    /\ req[r].pc = "checked"
    /\ HavePartitions(r)
    /\ rows' = [rows EXCEPT ![req[r].table] = @ \cup RowsOf(req[r].table, req[r].accepted)]

Write(r) ==
    /\ Insert(r)
    /\ req' = [req EXCEPT ![r].pc = "written"]
    /\ UNCHANGED <<now, parts, mgr, faults, acked, posts>>

\* "no partition of relation found for row": nothing is written, and a 503.
NoPartition(r) ==
    /\ req[r].pc = "checked"
    /\ ~HavePartitions(r)
    /\ req' = [req EXCEPT ![r].pc = "unavailable"]
    /\ UNCHANGED <<store, acked, posts>>

Respond(r) ==
    /\ req[r].pc = "written"
    /\ acked' = acked \cup {[table |-> req[r].table, ts |-> x.ts, payload |-> x.payload] :
                               x \in req[r].accepted}
    /\ req' = [req EXCEPT ![r] = Idle]
    /\ UNCHANGED <<store, posts>>

-------------------------------------------------------------------------------
(* What goes wrong.                                                          *)

\* Pool or statement timeout, connection loss.
WriteFails(r) ==
    /\ Fault
    /\ req[r].pc = "checked"
    /\ req[r].accepted # {}
    /\ req' = [req EXCEPT ![r].pc = "unavailable"]
    /\ UNCHANGED <<now, parts, rows, mgr, acked, posts>>

\* The rows are committed, or even the answer is given, and nobody hears of it.
Unanswered(r) ==
    /\ Fault
    /\ \/ Insert(r) /\ req[r].accepted # {}
       \/ req[r].pc = "written" /\ UNCHANGED rows
    /\ req' = [req EXCEPT ![r].pc = "unavailable"]
    /\ UNCHANGED <<now, parts, mgr, acked, posts>>

\* The process takes its handlers along.
CrashAll ==
    /\ Crash
    /\ req' = [r \in Requests |->
                  IF req[r].pc \in InServer THEN [req[r] EXCEPT !.pc = "unavailable"] ELSE req[r]]
    /\ UNCHANGED <<acked, posts>>

-------------------------------------------------------------------------------
Next ==
    \/ (Boot \/ RunOnce \/ Tick) /\ UNCHANGED <<req, acked, posts>>
    \/ CrashAll
    \/ \E r \in Requests :
          \/ \E t \in Tables, batch \in Batches : Post(r, t, batch)
          \/ Retry(r) \/ GiveUp(r)
          \/ Check(r) \/ Write(r) \/ NoPartition(r) \/ Respond(r)
          \/ WriteFails(r) \/ Unanswered(r)

Spec == Init /\ [][Next]_vars

-------------------------------------------------------------------------------
(* Properties.                                                               *)

\* What the exporter was told is accepted is in its table until the retention of
\* the table is over, whatever the partition manager dropped and whenever the
\* handler got around to its INSERT.
AckedUntilExpired ==
    \A a \in acked : a.ts >= now - Retention[a.table] =>
        \E x \in rows[a.table] : x.ts = a.ts /\ x.payload = a.payload

\* And it does not stay: unless something fails, a row is gone a month, a cycle
\* and two stalls after its retention is over.
ExpiredDataGoes ==
    faults = 0 /\ Up =>
        \A t \in Tables, x \in UNION {rows[u] : u \in Tables} :
            x \in rows[t] => now - x.ts <= Retention[t] + MonthLength + Period + 2 * MaxStall
===============================================================================
