------------------------------ MODULE Partitions ------------------------------
(***************************************************************************)
(* The partition manager (src/store/partition.rs) and the way main.rs      *)
(* starts it: monthly partitions of the telemetry tables are created ahead *)
(* and dropped when they expire, one SQL statement after the other, while  *)
(* time passes, statements fail and the process restarts.                  *)
(***************************************************************************)
EXTENDS Integers, Sequences, FiniteSets

CONSTANTS TableOrder,        \* PARTITIONED_TABLES, in the order the loops take
          Retention,         \* *_RETENTION_DAYS of each table
          MonthLength, Period,   \* a month, and the six hours between two cycles
          IngestWindow, FutureTolerance,
          Installs,          \* when the process may be started for the first time
          Payloads,          \* what tells two records of one timestamp apart
          MaxStall,          \* how long a cycle may take
          MaxTime, MaxFaults \* bounds of the checked instance

Tables == {TableOrder[k] : k \in DOMAIN TableOrder}

ASSUME TableAssumption == TableOrder \in Seq(STRING) /\ TableOrder # <<>>
ASSUME RetentionAssumption == Retention \in [Tables -> Nat]
ASSUME TimeAssumption ==
    /\ MonthLength \in Nat \ {0} /\ Period \in Nat \ {0}
    /\ IngestWindow \in Nat /\ FutureTolerance \in Nat
    /\ MaxStall \in Nat /\ MaxFaults \in Nat
    /\ MaxTime \in Nat /\ Installs \subseteq 0..MaxTime
\* What "enough lead time" takes: the cycles that may fail, and the one that
\* makes up for them, fit into a month less the future tolerance.
ASSUME LeadAssumption ==
    (MaxFaults + 1) * (Period + MaxStall) + MaxStall + FutureTolerance <= MonthLength

VARIABLES now,     \* Utc::now()
          parts,   \* per table: the months it has a partition for
          rows,    \* per table: its rows
          mgr,     \* run_partition_manager, "off" while the process is down
          faults

store == <<now, parts, rows, mgr, faults>>

Month(t) == t \div MonthLength
MonthEnd(m) == (m + 1) * MonthLength
Months == 0..(Month(MaxTime) + 1)

Row == [ts : Int, payload : Payloads, copy : Nat]

\* "first" is the month in which the first cycle that created everything began.
Off == [pc |-> "off", step |-> 1, at |-> 0, names |-> {}, wake |-> 0, stall |-> 0, first |-> -1]

Manager == [pc : {"off", "ensure", "list", "drop", "asleep"}, step : Nat \ {0}, at : Nat,
            names : SUBSET Months, wake : Nat, stall : 0..MaxStall, first : Months \cup {-1}]

StoreOK ==
    /\ now \in 0..MaxTime
    /\ parts \in [Tables -> SUBSET Months]
    /\ rows \in [Tables -> SUBSET Row]
    /\ mgr \in Manager
    /\ faults \in 0..MaxFaults

StoreInit ==
    /\ now \in Installs
    /\ parts = [t \in Tables |-> {}]
    /\ rows = [t \in Tables |-> {}]
    /\ mgr = Off
    /\ faults = 0

Up == mgr.pc # "off"
Cycle == {"ensure", "list", "drop"}

\* (Altered for a check of PartitionsAhead: the current month only, twice.)
CurrentMonthOnly(at, step) == Month(at)

\* (Altered for a check of TypeOK: the months run on from table to table.)
MonthsRunOn(at, step) == Month(at) + step - 1

\* ensure_partitions: the current month, then the next one.
MonthToEnsure(at, step) == IF step % 2 = 1 THEN Month(at) ELSE Month(at) + 1

\* ... of one table after the other.
TableToEnsure == TableOrder[(mgr.step + 1) \div 2]

\* main spawns the manager and serves at once: nobody waits for the first cycle.
Boot ==
    /\ mgr.pc = "off"
    /\ mgr' = [Off EXCEPT !.pc = "ensure", !.at = now]
    /\ UNCHANGED <<now, parts, rows, faults>>

Wake ==
    /\ mgr.pc = "asleep"
    /\ now >= mgr.wake
    /\ mgr' = [Off EXCEPT !.pc = "ensure", !.at = now, !.first = mgr.first]
    /\ UNCHANGED <<now, parts, rows, faults>>

\* CREATE TABLE IF NOT EXISTS ... PARTITION OF.
CreatePartition ==
    LET last == mgr.step = 2 * Len(TableOrder) IN
    /\ mgr.pc = "ensure"
    /\ parts' = [parts EXCEPT ![TableToEnsure] = @ \cup {MonthToEnsure(mgr.at, mgr.step)}]
    /\ mgr' = IF ~last THEN [mgr EXCEPT !.step = @ + 1]
              ELSE [mgr EXCEPT !.pc = "list", !.step = 1,
                               !.first = IF @ = -1 THEN Month(mgr.at) ELSE @]
    /\ UNCHANGED <<now, rows, faults>>

\* (Altered for a check of AckedUntilExpired: expired once its first day is.)
ExpiredFromStart(t, m) == m * MonthLength <= now - Retention[t]

\* (Altered for a check of ExpiredDataGoes: the retention of the first table, for all.)
ExpiredByFirst(t, m) == MonthEnd(m) <= now - Retention[TableOrder[1]]

\* The whole range of the partition is before the cutoff.
Expired(t, m) == MonthEnd(m) <= now - Retention[t]

TableToClear == TableOrder[mgr.step]

\* drop_old_partitions takes the cutoff and the names of the partitions.
ListPartitions ==
    /\ mgr.pc = "list"
    /\ mgr' = [mgr EXCEPT !.pc = "drop",
                          !.names = {m \in parts[TableToClear] : Expired(TableToClear, m)}]
    /\ UNCHANGED <<now, parts, rows, faults>>

\* DROP TABLE IF EXISTS, with all its rows.
DropPartition(m) ==
    /\ mgr.pc = "drop"
    /\ m \in mgr.names
    /\ parts' = [parts EXCEPT ![TableToClear] = @ \ {m}]
    /\ rows' = [rows EXCEPT ![TableToClear] = {x \in @ : Month(x.ts) # m}]
    /\ mgr' = [mgr EXCEPT !.names = @ \ {m}]
    /\ UNCHANGED <<now, faults>>

\* On to the next table, or to sleep after the last one.
TableCleared ==
    IF mgr.step < Len(TableOrder)
    THEN [mgr EXCEPT !.pc = "list", !.step = @ + 1, !.names = {}]
    ELSE [Off EXCEPT !.pc = "asleep", !.wake = now + Period, !.first = mgr.first]

EndDrops ==
    /\ mgr.pc = "drop"
    /\ mgr.names = {}
    /\ mgr' = TableCleared
    /\ UNCHANGED <<now, parts, rows, faults>>

Fault == faults < MaxFaults /\ faults' = faults + 1

\* ensure_partitions gives up at the first statement that fails; the drops still run.
CreateFails ==
    /\ Fault
    /\ mgr.pc = "ensure"
    /\ mgr' = [mgr EXCEPT !.pc = "list", !.step = 1]
    /\ UNCHANGED <<now, parts, rows>>

\* drop_old_partitions cannot read the catalog: the other tables have their turn.
ListFails ==
    /\ Fault
    /\ mgr.pc = "list"
    /\ mgr' = TableCleared
    /\ UNCHANGED <<now, parts, rows>>

\* A failed DROP is logged: "a failed drop should not prevent other housekeeping".
DropFails(m) ==
    /\ Fault
    /\ mgr.pc = "drop"
    /\ m \in mgr.names
    /\ mgr' = [mgr EXCEPT !.names = @ \ {m}]
    /\ UNCHANGED <<now, parts, rows>>

\* The process goes down, for as long as it takes.
Crash ==
    /\ Fault
    /\ Up
    /\ mgr' = Off
    /\ UNCHANGED <<now, parts, rows>>

\* The sleep ends in time, and a cycle takes at most MaxStall.
Tick ==
    /\ now < MaxTime
    /\ now' = now + 1
    /\ \/ mgr.pc = "off" /\ UNCHANGED mgr
       \/ mgr.pc = "asleep" /\ now < mgr.wake /\ UNCHANGED mgr
       \/ mgr.pc \in Cycle /\ mgr.stall < MaxStall /\ mgr' = [mgr EXCEPT !.stall = @ + 1]
    /\ UNCHANGED <<parts, rows, faults>>

RunOnce ==
    \/ Wake \/ CreatePartition \/ CreateFails
    \/ ListPartitions \/ ListFails \/ EndDrops
    \/ \E m \in mgr.names : DropPartition(m) \/ DropFails(m)

StoreNext == Boot \/ RunOnce \/ Crash \/ Tick

StoreSpec == StoreInit /\ [][StoreNext]_store

-------------------------------------------------------------------------------
(* Properties.                                                               *)

\* Timestamps that ts_in_window lets through.
InWindow(ts) == now - IngestWindow <= ts /\ ts <= now + FutureTolerance
Acceptable == {ts \in (now - IngestWindow)..(now + FutureTolerance) : InWindow(ts)}

\* "The create-ahead task must run with enough lead time to guarantee the
\* partition exists": once a cycle of this process created everything, every
\* timestamp that ingest lets through has a partition in every table, from the
\* month of that cycle on, although MaxFaults statements fail.
PartitionsAhead ==
    mgr.first # -1 =>
        \A t \in Tables, ts \in Acceptable :
            Month(ts) >= mgr.first => Month(ts) \in parts[t]

\* "The next partition must exist before the first data point with a timestamp
\* in that range is written.  A missing partition at the boundary is an ingest
\* outage": the same of every month that a timestamp may fall into.
NoIngestOutage ==
    mgr.first # -1 =>
        \A t \in Tables, ts \in Acceptable : Month(ts) \in parts[t]
===============================================================================
