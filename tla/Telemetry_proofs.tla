---------------------------- MODULE Telemetry_proofs ----------------------------
(***************************************************************************)
(* Proofs about the partition manager, for any tables, retentions, lengths *)
(* of a month and of a cycle, and any number of faults the lead time has   *)
(* room for: the types, and that partitions are there ahead of time; and   *)
(* about the ingest of logs and spans on top of them, for any batches and  *)
(* any number of requests and faults.                                      *)
(***************************************************************************)
EXTENDS TelemetryIngest, TLAPS, FiniteSetTheorems

(* Months.                                                                   *)

LEMMA Multiples ==
    ASSUME NEW L \in Nat \ {0}, NEW m \in Int, NEW n \in Int, m <= n
    PROVE  m * L <= n * L
  OBVIOUS

LEMMA MonthBounds ==
    ASSUME NEW t \in Int
    PROVE  Month(t) \in Int /\ Month(t) * MonthLength <= t /\ t < MonthEnd(Month(t))
<1>1. ASSUME NEW L \in Nat \ {0}
      PROVE  t \div L \in Int /\ (t \div L) * L <= t /\ t < ((t \div L) + 1) * L
  OBVIOUS
<1> QED BY <1>1, TimeAssumption DEF Month, MonthEnd

LEMMA MonthEndIncreases ==
    ASSUME NEW m \in Int, NEW n \in Int, m <= n
    PROVE  MonthEnd(m) \in Int /\ MonthEnd(n) \in Int /\ MonthEnd(m) <= MonthEnd(n)
  BY Multiples, TimeAssumption DEF MonthEnd

\* A month later it is the next month at most.
LEMMA NextMonth ==
    ASSUME NEW t \in Int, NEW u \in Int, u <= t + MonthLength
    PROVE  Month(u) <= Month(t) + 1
<1> DEFINE m == Month(t)
           n == Month(u)
<1>1. /\ m \in Int /\ t < (m + 1) * MonthLength
      /\ n \in Int /\ n * MonthLength <= u
  BY MonthBounds DEF MonthEnd
<1> HIDE DEF m, n
<1>2. (m + 1) * MonthLength + MonthLength = (m + 2) * MonthLength
  BY <1>1, TimeAssumption
<1>3. SUFFICES ASSUME n >= m + 2 PROVE FALSE
  BY <1>1 DEF m, n
<1>4. (m + 2) * MonthLength <= n * MonthLength
  BY <1>1, <1>3, Multiples, TimeAssumption
<1> DEFINE a == (m + 1) * MonthLength
           b == (m + 2) * MonthLength
           c == n * MonthLength
<1>5. a \in Int /\ b \in Int /\ c \in Int
  BY <1>1, TimeAssumption
<1>6. t < a /\ c <= u /\ a + MonthLength = b /\ b <= c
  BY <1>1, <1>2, <1>4
<1> HIDE DEF a, b, c
<1> QED BY <1>5, <1>6, TimeAssumption

LEMMA MonthsIncrease ==
    ASSUME NEW t \in Int, NEW u \in Int, t <= u
    PROVE  Month(t) <= Month(u)
<1> DEFINE m == Month(t)
           n == Month(u)
<1>1. m \in Int /\ m * MonthLength <= t /\ n \in Int /\ u < (n + 1) * MonthLength
  BY MonthBounds DEF MonthEnd
<1> HIDE DEF m, n
<1>2. SUFFICES ASSUME n + 1 <= m PROVE FALSE
  BY <1>1 DEF m, n
<1>3. (n + 1) * MonthLength <= m * MonthLength
  BY <1>1, <1>2, Multiples, TimeAssumption
<1> DEFINE a == (n + 1) * MonthLength
           b == m * MonthLength
<1>4. a \in Int /\ b \in Int /\ b <= t /\ u < a /\ a <= b
  BY <1>1, <1>3, TimeAssumption
<1> HIDE DEF a, b
<1> QED BY <1>4

LEMMA MonthNotNegative ==
    ASSUME NEW t \in Nat
    PROVE  Month(t) \in Nat
<1>1. Month(0) = 0
  BY TimeAssumption DEF Month
<1> QED BY <1>1, MonthsIncrease, MonthBounds

-------------------------------------------------------------------------------
(* Types, and where a cycle of the manager is.                               *)

Steps == 2 * Len(TableOrder)

\* The statements of ensure_partitions up to a step have been executed.
Ensured(k) == MonthToEnsure(mgr.at, k) \in parts[TableOrder[(k + 1) \div 2]]

CycleInv ==
    /\ mgr.at \in 0..MaxTime
    /\ mgr.pc = "ensure" => mgr.step <= Steps /\ \A k \in 1..(mgr.step - 1) : Ensured(k)
    /\ mgr.pc \in {"list", "drop"} => mgr.step <= Len(TableOrder)
    /\ mgr.pc \in Cycle => now = mgr.at + mgr.stall
    /\ mgr.pc = "asleep" => now <= mgr.wake
    /\ mgr.pc # "drop" => mgr.names = {}
    /\ mgr.pc = "drop" => \A m \in mgr.names : Expired(TableToClear, m)

StoreInv == StoreOK /\ CycleInv

LEMMA TableFacts ==
    /\ Len(TableOrder) \in Nat \ {0}
    /\ \A k \in 1..Len(TableOrder) : TableOrder[k] \in Tables
    /\ \A t \in Tables : \E k \in 1..Len(TableOrder) : t = TableOrder[k]
<1>1. Len(TableOrder) \in Nat /\ DOMAIN TableOrder = 1..Len(TableOrder)
  BY TableAssumption
<1>2. Len(TableOrder) # 0
  BY TableAssumption
<1> QED BY <1>1, <1>2 DEF Tables

LEMMA TableOfStep ==
    ASSUME StoreInv
    PROVE  /\ mgr.pc = "ensure" => TableToEnsure \in Tables
           /\ mgr.pc \in {"list", "drop"} => TableToClear \in Tables
<1>1. mgr.step \in Nat \ {0}
  BY DEF StoreInv, StoreOK, Manager
<1>2. mgr.pc = "ensure" => (mgr.step + 1) \div 2 \in 1..Len(TableOrder)
  BY <1>1, TableFacts DEF StoreInv, CycleInv, Steps
<1>3. mgr.pc \in {"list", "drop"} => mgr.step \in 1..Len(TableOrder)
  BY <1>1, TableFacts DEF StoreInv, CycleInv
<1> QED BY <1>2, <1>3, TableFacts DEF TableToEnsure, TableToClear

LEMMA EnsuredMonth ==
    ASSUME NEW a \in 0..MaxTime, NEW k
    PROVE  MonthToEnsure(a, k) \in Months /\ Month(a) \in Months
<1>1. Month(a) \in Nat /\ Month(MaxTime) \in Nat /\ Month(a) <= Month(MaxTime)
  BY MonthsIncrease, MonthNotNegative, TimeAssumption
<1> QED BY <1>1 DEF MonthToEnsure, Months

LEMMA OffFields ==
    /\ Off \in Manager
    /\ Off.pc = "off" /\ Off.step = 1 /\ Off.at = 0 /\ Off.names = {} /\ Off.wake = 0
    /\ Off.stall = 0 /\ Off.first = -1
  BY TimeAssumption DEF Off, Manager

Locals(pc, step, at, names, wake, stall, first) ==
    [pc |-> pc, step |-> step, at |-> at, names |-> names, wake |-> wake, stall |-> stall,
     first |-> first]

LEMMA LocalsTyped ==
    ASSUME NEW pc \in {"off", "ensure", "list", "drop", "asleep"}, NEW step \in Nat \ {0},
           NEW at \in Nat, NEW names \in SUBSET Months, NEW wake \in Nat,
           NEW stall \in 0..MaxStall, NEW first \in Months \cup {-1}
    PROVE  Locals(pc, step, at, names, wake, stall, first) \in Manager
  BY DEF Locals, Manager

LEMMA ManagerFields ==
    ASSUME NEW x \in Manager
    PROVE  /\ x = Locals(x.pc, x.step, x.at, x.names, x.wake, x.stall, x.first)
           /\ x.step \in Nat \ {0} /\ x.at \in Nat /\ x.names \in SUBSET Months /\ x.wake \in Nat
           /\ x.stall \in 0..MaxStall /\ x.first \in Months \cup {-1}
  BY DEF Locals, Manager

\* Expired partitions stay expired.
LEMMA StillExpired ==
    ASSUME NEW t \in Tables, NEW m \in Int, Expired(t, m), now \in Nat, now' \in Nat, now <= now'
    PROVE  Expired(t, m)'
<1>1. MonthEnd(m) \in Int /\ Retention[t] \in Nat
  BY MonthEndIncreases, RetentionAssumption
<1> QED BY <1>1 DEF Expired

LEMMA InitialStore == StoreInit => StoreInv
<1> SUFFICES ASSUME StoreInit PROVE StoreInv
  OBVIOUS
<1>1. now \in 0..MaxTime
  BY TimeAssumption DEF StoreInit
<1>2. mgr = Off /\ mgr \in Manager
  BY OffFields DEF StoreInit
<1> QED BY <1>1, <1>2, OffFields, TimeAssumption DEF StoreInit, StoreInv, StoreOK, CycleInv, Cycle

\* A cycle begins.
LEMMA BeginTypes ==
    ASSUME StoreInv, Boot \/ Wake
    PROVE  StoreInv'
<1>1. UNCHANGED <<now, parts, rows, faults>> /\ mgr \in Manager
  BY DEF Boot, Wake, StoreInv, StoreOK
<1>2. now \in 0..MaxTime /\ now \in Nat
  BY TimeAssumption DEF StoreInv, StoreOK
<1>3. PICK f \in Months \cup {-1} : mgr' = Locals("ensure", 1, now, {}, 0, 0, f)
  <2>1. CASE Boot
    BY <2>1 DEF Boot, Off, Locals
  <2>2. CASE Wake
    BY <1>1, <2>2, ManagerFields DEF Wake, Off, Locals
  <2> QED BY <2>1, <2>2
<1>4. /\ mgr' \in Manager
      /\ mgr'.pc = "ensure" /\ mgr'.step = 1 /\ mgr'.at = now /\ mgr'.stall = 0 /\ mgr'.names = {}
  <2>1. mgr' \in Manager
    BY <1>2, <1>3, LocalsTyped, TimeAssumption
  <2> QED BY <1>3, <2>1 DEF Locals
<1>5. 1 <= Steps
  BY TableFacts DEF Steps
<1>6. CycleInv'
  BY <1>1, <1>2, <1>4, <1>5 DEF CycleInv, Cycle, Steps
<1> QED BY <1>1, <1>4, <1>6 DEF StoreInv, StoreOK

LEMMA CreateTypes ==
    ASSUME StoreInv, CreatePartition
    PROVE  StoreInv'
<1> DEFINE m == MonthToEnsure(mgr.at, mgr.step)
           t == TableToEnsure
<1>e. mgr \in Manager /\ mgr.pc = "ensure" /\ mgr.names = {} /\ mgr.at \in 0..MaxTime
      /\ mgr.step \in Nat \ {0} /\ mgr.step <= Steps
  BY DEF CreatePartition, StoreInv, StoreOK, CycleInv, Manager
<1>1. t \in Tables /\ m \in Months /\ Month(mgr.at) \in Months
  BY <1>e, TableOfStep, EnsuredMonth
<1>2. parts' = [parts EXCEPT ![t] = @ \cup {m}]
  BY DEF CreatePartition
<1>3. parts' \in [Tables -> SUBSET Months]
  BY <1>1, <1>2 DEF StoreInv, StoreOK
<1>4. m \in parts'[t] /\ \A u \in Tables : parts[u] \subseteq parts'[u]
  BY <1>1, <1>2 DEF StoreInv, StoreOK
<1>5. CASE mgr.step # Steps
  <2>1. mgr' = [mgr EXCEPT !.step = @ + 1]
    BY <1>5 DEF CreatePartition, Steps
  <2>2. /\ mgr' \in Manager /\ mgr'.pc = "ensure" /\ mgr'.step = mgr.step + 1 /\ mgr'.at = mgr.at
        /\ mgr'.names = {} /\ mgr'.stall = mgr.stall
    BY <1>e, <2>1 DEF Manager
  <2>3. mgr'.step <= Steps
    BY <1>e, <1>5, <2>2, TableFacts DEF Steps
  <2>4. ASSUME NEW k \in 1..(mgr'.step - 1) PROVE Ensured(k)'
    <3>1. CASE k = mgr.step
      BY <1>4, <2>2, <3>1 DEF Ensured, TableToEnsure
    <3>2. CASE k # mgr.step
      <4>1. k \in 1..(mgr.step - 1)
        BY <1>e, <2>2, <2>4, <3>2
      <4>2. Ensured(k)
        BY <1>e, <4>1 DEF StoreInv, CycleInv
      <4>3. (k + 1) \div 2 \in 1..Len(TableOrder)
        BY <1>e, <4>1, TableFacts DEF Steps
      <4>4. TableOrder[(k + 1) \div 2] \in Tables
        BY <4>3, TableFacts
      <4> QED BY <1>4, <2>2, <4>2, <4>4 DEF Ensured
    <3> QED BY <3>1, <3>2
  <2>5. CycleInv'
    BY <1>e, <2>2, <2>3, <2>4 DEF CreatePartition, StoreInv, CycleInv, Cycle, Steps
  <2> QED BY <1>3, <2>2, <2>5 DEF CreatePartition, StoreInv, StoreOK
<1>6. CASE mgr.step = Steps
  <2>0. mgr = Locals(mgr.pc, mgr.step, mgr.at, mgr.names, mgr.wake, mgr.stall, mgr.first)
    BY <1>e, ManagerFields
  <2>1. PICK f \in Months \cup {-1} :
           mgr' = Locals("list", 1, mgr.at, mgr.names, mgr.wake, mgr.stall, f)
    <3> DEFINE f == IF mgr.first = -1 THEN Month(mgr.at) ELSE mgr.first
    <3>1. f \in Months \cup {-1}
      BY <1>e, <1>1, ManagerFields
    <3>2. mgr' = [mgr EXCEPT !.pc = "list", !.step = 1, !.first = f]
      BY <1>6 DEF CreatePartition, Steps
    <3> HIDE DEF f
    <3>3. mgr' = Locals("list", 1, mgr.at, mgr.names, mgr.wake, mgr.stall, f)
      BY <2>0, <3>2 DEF Locals
    <3> QED BY <3>1, <3>3
  <2>2. /\ mgr' \in Manager /\ mgr'.pc = "list" /\ mgr'.step = 1 /\ mgr'.at = mgr.at
        /\ mgr'.names = {} /\ mgr'.stall = mgr.stall
    <3>1. mgr' \in Manager
      BY <1>e, <2>1, ManagerFields, LocalsTyped
    <3> QED BY <1>e, <2>1, <3>1 DEF Locals
  <2>3. 1 <= Len(TableOrder)
    BY TableFacts
  <2>4. CycleInv'
    BY <1>e, <2>2, <2>3 DEF CreatePartition, StoreInv, CycleInv, Cycle
  <2> QED BY <1>3, <2>2, <2>4 DEF CreatePartition, StoreInv, StoreOK
<1> QED BY <1>5, <1>6

LEMMA CreateFailsTypes ==
    ASSUME StoreInv, CreateFails
    PROVE  StoreInv'
<1>e. mgr \in Manager /\ mgr.pc = "ensure" /\ mgr.names = {} /\ faults \in 0..MaxFaults
  BY DEF CreateFails, StoreInv, StoreOK, CycleInv
<1>1. faults' \in 0..MaxFaults
  BY <1>e, TimeAssumption DEF CreateFails, Fault
<1>2. /\ mgr' \in Manager /\ mgr'.pc = "list" /\ mgr'.step = 1 /\ mgr'.at = mgr.at
      /\ mgr'.names = {} /\ mgr'.stall = mgr.stall
  <2>1. mgr = Locals(mgr.pc, mgr.step, mgr.at, mgr.names, mgr.wake, mgr.stall, mgr.first)
    BY <1>e, ManagerFields
  <2>2. mgr' = Locals("list", 1, mgr.at, mgr.names, mgr.wake, mgr.stall, mgr.first)
    BY <2>1 DEF CreateFails, Locals
  <2>3. mgr' \in Manager
    BY <1>e, <2>2, ManagerFields, LocalsTyped
  <2> QED BY <1>e, <2>2, <2>3 DEF Locals
<1>3. 1 <= Len(TableOrder)
  BY TableFacts
<1>4. CycleInv'
  BY <1>e, <1>2, <1>3 DEF CreateFails, StoreInv, CycleInv, Cycle
<1> QED BY <1>1, <1>2, <1>4 DEF CreateFails, StoreInv, StoreOK

LEMMA ListTypes ==
    ASSUME StoreInv, ListPartitions
    PROVE  StoreInv'
<1> DEFINE names == {m \in parts[TableToClear] : Expired(TableToClear, m)}
<1>e. mgr \in Manager /\ mgr.pc = "list"
  BY DEF ListPartitions, StoreInv, StoreOK
<1>1. names \in SUBSET Months
  <2>1. TableToClear \in Tables
    BY <1>e, TableOfStep
  <2> QED BY <2>1 DEF StoreInv, StoreOK
<1>2. /\ mgr' \in Manager /\ mgr'.pc = "drop" /\ mgr'.step = mgr.step /\ mgr'.at = mgr.at
      /\ mgr'.names = names /\ mgr'.stall = mgr.stall
  <2>1. mgr' = [mgr EXCEPT !.pc = "drop", !.names = names]
    BY DEF ListPartitions
  <2> HIDE DEF names
  <2> QED BY <1>e, <1>1, <2>1 DEF Manager
<1>3. UNCHANGED <<now, TableToClear>>
  BY <1>2 DEF ListPartitions, TableToClear
<1>4. \A m \in mgr'.names : Expired(TableToClear, m)'
  BY <1>2, <1>3 DEF Expired
<1>5. CycleInv'
  BY <1>e, <1>2, <1>4 DEF ListPartitions, StoreInv, CycleInv, Cycle
<1> QED BY <1>2, <1>5 DEF ListPartitions, StoreInv, StoreOK

LEMMA DropTypes ==
    ASSUME StoreInv, NEW m, DropPartition(m) \/ DropFails(m)
    PROVE  StoreInv'
<1>e. mgr \in Manager /\ mgr.pc = "drop" /\ faults \in 0..MaxFaults
  BY DEF DropPartition, DropFails, StoreInv, StoreOK
<1>1. TableToClear \in Tables
  BY <1>e, TableOfStep
<1>2. parts' \in [Tables -> SUBSET Months] /\ rows' \in [Tables -> SUBSET Row]
  BY <1>1 DEF DropPartition, DropFails, StoreInv, StoreOK
<1>3. /\ mgr' \in Manager /\ mgr'.pc = "drop" /\ mgr'.step = mgr.step /\ mgr'.at = mgr.at
      /\ mgr'.names = mgr.names \ {m} /\ mgr'.stall = mgr.stall
  BY <1>e DEF DropPartition, DropFails, Manager
<1>4. faults' \in 0..MaxFaults /\ UNCHANGED now
  BY <1>e, TimeAssumption DEF DropPartition, DropFails, Fault
<1>5. UNCHANGED TableToClear
  BY <1>3 DEF TableToClear
<1>6. \A k \in mgr'.names : Expired(TableToClear, k)'
  BY <1>e, <1>3, <1>4, <1>5 DEF StoreInv, CycleInv, Expired
<1>7. CycleInv'
  BY <1>e, <1>3, <1>4, <1>6 DEF StoreInv, CycleInv, Cycle
<1> QED BY <1>2, <1>3, <1>4, <1>7 DEF StoreInv, StoreOK

LEMMA ClearedTypes ==
    ASSUME StoreInv, EndDrops \/ ListFails
    PROVE  StoreInv'
<1>e. mgr \in Manager /\ mgr.pc \in {"list", "drop"} /\ faults \in 0..MaxFaults /\ now \in Nat
  BY DEF EndDrops, ListFails, StoreInv, StoreOK
<1>1. faults' \in 0..MaxFaults /\ UNCHANGED <<now, parts, rows>> /\ mgr' = TableCleared
  BY <1>e, TimeAssumption DEF EndDrops, ListFails, Fault
<1>2. CASE mgr.step < Len(TableOrder)
  <2>0. mgr = Locals(mgr.pc, mgr.step, mgr.at, mgr.names, mgr.wake, mgr.stall, mgr.first)
    BY <1>e, ManagerFields
  <2>1. mgr' = Locals("list", mgr.step + 1, mgr.at, {}, mgr.wake, mgr.stall, mgr.first)
    BY <1>1, <1>2, <2>0 DEF TableCleared, Locals
  <2>2. /\ mgr' \in Manager /\ mgr'.pc = "list" /\ mgr'.step = mgr.step + 1 /\ mgr'.at = mgr.at
        /\ mgr'.names = {} /\ mgr'.stall = mgr.stall
    <3>1. mgr' \in Manager
      BY <1>e, <2>1, ManagerFields, LocalsTyped
    <3> QED BY <2>1, <3>1 DEF Locals
  <2>3. mgr'.step <= Len(TableOrder)
    BY <1>e, <1>2, <2>2, TableFacts DEF Manager
  <2>4. CycleInv'
    BY <1>e, <1>1, <2>2, <2>3 DEF StoreInv, CycleInv, Cycle
  <2> QED BY <1>1, <2>2, <2>4 DEF StoreInv, StoreOK
<1>3. CASE ~ (mgr.step < Len(TableOrder))
  <2>1. mgr' = Locals("asleep", 1, 0, {}, now + Period, 0, mgr.first)
    BY <1>1, <1>3 DEF TableCleared, Off, Locals
  <2>2. mgr' \in Manager /\ mgr'.pc = "asleep" /\ mgr'.wake = now + Period
        /\ mgr'.at = 0 /\ mgr'.names = {}
    <3>1. mgr' \in Manager
      BY <1>e, <2>1, ManagerFields, LocalsTyped, TimeAssumption
    <3> QED BY <2>1, <3>1 DEF Locals
  <2>3. CycleInv'
    BY <1>e, <1>1, <2>2, TimeAssumption DEF CycleInv, Cycle
  <2> QED BY <1>1, <2>2, <2>3 DEF StoreInv, StoreOK
<1> QED BY <1>2, <1>3

LEMMA CrashTypes ==
    ASSUME StoreInv, Crash
    PROVE  StoreInv'
<1>1. faults' \in 0..MaxFaults
  BY TimeAssumption DEF Crash, Fault, StoreInv, StoreOK
<1> QED BY <1>1, OffFields, TimeAssumption DEF Crash, StoreInv, StoreOK, CycleInv, Cycle

LEMMA TickTypes ==
    ASSUME StoreInv, Tick
    PROVE  StoreInv'
<1>e. mgr \in Manager /\ now \in Nat
  BY TimeAssumption DEF StoreInv, StoreOK
<1>1. now' \in 0..MaxTime /\ now' = now + 1 /\ UNCHANGED <<parts, rows, faults>>
  BY TimeAssumption DEF Tick, StoreInv, StoreOK
<1>2. CASE mgr' = mgr /\ mgr.pc \in {"off", "asleep"}
  <2>1. mgr.pc = "asleep" => now' <= mgr.wake
    BY <1>e, <1>1, <1>2 DEF Tick, Cycle, Manager
  <2> QED BY <1>1, <1>2, <2>1 DEF StoreInv, StoreOK, CycleInv, Cycle
<1>3. CASE mgr.pc \in Cycle /\ mgr.stall < MaxStall /\ mgr' = [mgr EXCEPT !.stall = @ + 1]
  <2>1. /\ mgr' \in Manager /\ mgr'.pc = mgr.pc /\ mgr'.step = mgr.step /\ mgr'.at = mgr.at
        /\ mgr'.names = mgr.names /\ mgr'.stall = mgr.stall + 1
    BY <1>e, <1>3, TimeAssumption DEF Manager
  <2>2. mgr.pc = "drop" => \A m \in mgr'.names : Expired(TableToClear, m)'
    <3> SUFFICES ASSUME mgr.pc = "drop", NEW m \in mgr.names PROVE Expired(TableToClear, m)'
      BY <2>1
    <3>1. PICK t \in Tables : t = TableToClear
      BY TableOfStep
    <3>2. m \in Int /\ Expired(t, m)
      BY <1>e, <3>1 DEF StoreInv, CycleInv, Manager, Months
    <3>3. Expired(t, m)'
      BY <1>e, <1>1, <3>2, StillExpired
    <3>4. t = TableToClear'
      BY <2>1, <3>1 DEF TableToClear
    <3> QED BY <3>3, <3>4 DEF Expired
  <2>3. now' = mgr'.at + mgr'.stall
    BY <1>e, <1>1, <1>3, <2>1 DEF StoreInv, CycleInv, Manager
  <2>4. mgr'.pc = "ensure" => \A k \in 1..(mgr'.step - 1) : Ensured(k)'
    BY <1>1, <2>1 DEF StoreInv, CycleInv, Ensured
  <2>5. CycleInv'
    BY <1>3, <2>1, <2>2, <2>3, <2>4 DEF StoreInv, CycleInv, Cycle
  <2> QED BY <1>1, <2>1, <2>5 DEF StoreInv, StoreOK
<1> QED BY <1>2, <1>3 DEF Tick

LEMMA StoreStep ==
    ASSUME StoreInv, StoreNext
    PROVE  StoreInv'
BY BeginTypes, CreateTypes, CreateFailsTypes, ListTypes, DropTypes, ClearedTypes, CrashTypes,
   TickTypes DEF StoreNext, RunOnce

-------------------------------------------------------------------------------
(* Ahead of time.  In a process that once created everything, let a be when  *)
(* its last cycle to do so began, and f the cycles that failed since.        *)

CycleTime == Period + MaxStall

\* a, and n cycles that take all the time they may.
Due(a, n) == a + n * CycleTime

Covered(a) ==
    \A t \in Tables, m \in mgr.first..(Month(a) + 1) : m \in parts[t] \/ Expired(t, m)

Lead(a, f) ==
    /\ Covered(a)
    /\ mgr.pc = "ensure" => mgr.at <= Due(a, f + 1)
    /\ mgr.pc \in {"list", "drop"} => mgr.at <= Due(a, f)
    /\ mgr.pc = "asleep" => mgr.wake <= Due(a, f + 1)

LeadInv == mgr.first # -1 => mgr.pc # "off" /\ \E a \in Nat, f \in 0..faults : Lead(a, f)

LEMMA CycleTimePositive == CycleTime \in Nat \ {0} /\ CycleTime = Period + MaxStall
  BY TimeAssumption DEF CycleTime

LEMMA DueNext ==
    ASSUME NEW a \in Nat, NEW n \in Nat
    PROVE  Due(a, n) \in Nat /\ Due(a, n + 1) \in Nat /\ Due(a, n + 1) = Due(a, n) + CycleTime
<1>1. ASSUME NEW C \in Nat
      PROVE  a + n * C \in Nat /\ a + (n + 1) * C = a + n * C + C
  OBVIOUS
<1> QED BY <1>1, CycleTimePositive DEF Due

\* What LeadAssumption is for.
LEMMA DueInTime ==
    ASSUME NEW a \in Nat, NEW n \in 0..(MaxFaults + 1)
    PROVE  Due(a, n) + MaxStall + FutureTolerance <= a + MonthLength
<1> DEFINE all == (MaxFaults + 1) * CycleTime
           some == n * CycleTime
<1>2. MaxFaults + 1 \in Nat /\ n \in Nat /\ n <= MaxFaults + 1
  BY TimeAssumption
<1>3. some <= all
  BY <1>2, Multiples, CycleTimePositive
<1>4. some \in Nat /\ all \in Nat
  BY <1>2, CycleTimePositive
<1>5. all + MaxStall + FutureTolerance <= MonthLength
  BY LeadAssumption DEF CycleTime
<1>6. Due(a, n) = a + some
  BY DEF Due
<1> HIDE DEF all, some
<1> QED BY <1>3, <1>4, <1>5, <1>6, TimeAssumption

\* Nothing of what is covered goes before it expires.
LEMMA CoverKept ==
    ASSUME StoreInv, StoreInv', NEW a \in Nat, Covered(a),
           mgr'.first = mgr.first, mgr.first \in Nat, now <= now',
           \A t \in Tables, m \in Int :
               m \in parts[t] => m \in parts'[t] \/ Expired(t, m)
    PROVE  Covered(a)'
<1>1. now \in Nat /\ now' \in Nat
  BY DEF StoreInv, StoreOK
<1>2. SUFFICES ASSUME NEW t \in Tables, NEW m \in mgr.first..(Month(a) + 1)
               PROVE  m \in parts'[t] \/ Expired(t, m)'
  BY DEF Covered
<1>3. m \in Int
  OBVIOUS
<1>4. m \in parts'[t] \/ Expired(t, m)
  BY <1>3 DEF Covered
<1> QED BY <1>1, <1>3, <1>4, StillExpired

\* The locals of the manager after each of its steps.
LEMMA LeadBegins ==
    ASSUME StoreInv, LeadInv, StoreInv', Boot \/ Wake
    PROVE  LeadInv'
<1>1. CASE Boot
  <2>1. mgr'.first = -1
    BY <1>1, OffFields DEF Boot, Off
  <2> QED BY <2>1 DEF LeadInv
<1>2. CASE Wake
  <2>1. /\ mgr'.pc = "ensure" /\ mgr'.at = now /\ mgr'.first = mgr.first
        /\ UNCHANGED <<now, parts, faults>>
    BY <1>2 DEF Wake, Off
  <2>2. SUFFICES ASSUME mgr.first # -1 PROVE \E a \in Nat, f \in 0..faults' : Lead(a, f)'
    BY <2>1 DEF LeadInv
  <2>3. PICK a \in Nat, f \in 0..faults : Lead(a, f)
    BY <2>2 DEF LeadInv
  <2>4. now <= mgr.wake /\ mgr.wake <= Due(a, f + 1) /\ mgr.wake \in Nat /\ now \in Nat
    BY <1>2, <2>3 DEF Wake, Lead, StoreInv, StoreOK, CycleInv, Manager
  <2>5. Due(a, f + 1) \in Nat
    BY <2>3, DueNext
  <2>6. now <= Due(a, f + 1)
    BY <2>4, <2>5
  <2>7. Covered(a)'
    BY <2>1, <2>3 DEF Lead, Covered, Expired
  <2>8. Lead(a, f)'
    BY <2>1, <2>6, <2>7 DEF Lead, Due
  <2> QED BY <2>1, <2>3, <2>8
<1> QED BY <1>1, <1>2

LEMMA LeadCreates ==
    ASSUME StoreInv, LeadInv, StoreInv', CreatePartition
    PROVE  LeadInv'
<1> DEFINE t0 == TableToEnsure
           m0 == MonthToEnsure(mgr.at, mgr.step)
<1>0. PICK at \in Nat : at = mgr.at
  BY DEF StoreInv, CycleInv
<1>e. /\ mgr \in Manager /\ mgr.pc = "ensure" /\ mgr.step \in Nat \ {0}
      /\ mgr.step <= Steps /\ mgr.first \in Months \cup {-1}
      /\ UNCHANGED <<now, faults>> /\ faults \in Nat
  BY DEF CreatePartition, StoreInv, StoreOK, CycleInv, Manager
<1>1. t0 \in Tables
  BY <1>e, TableOfStep
<1>2. m0 \in parts'[t0] /\ \A u \in Tables : parts[u] \subseteq parts'[u]
  BY <1>1 DEF CreatePartition, StoreInv, StoreOK
<1>3. CASE mgr.step # Steps
  <2>1. mgr'.pc = "ensure" /\ mgr'.at = mgr.at /\ mgr'.first = mgr.first
    BY <1>e, <1>3 DEF CreatePartition, Steps, Manager
  <2>2. SUFFICES ASSUME mgr.first # -1 PROVE \E a \in Nat, f \in 0..faults' : Lead(a, f)'
    BY <2>1 DEF LeadInv
  <2>3. PICK a \in Nat, f \in 0..faults : Lead(a, f)
    BY <2>2 DEF LeadInv
  <2>4. Covered(a)'
    BY <1>e, <1>2, <2>1, <2>3 DEF Lead, Covered, Expired
  <2>5. Lead(a, f)'
    BY <1>e, <2>1, <2>3, <2>4 DEF Lead, Due
  <2> QED BY <1>e, <2>5
<1>4. CASE mgr.step = Steps
  <2>1. /\ mgr'.pc = "list" /\ mgr'.at = at /\ mgr' \in Manager
        /\ mgr'.first = IF mgr.first = -1 THEN Month(at) ELSE mgr.first
    <3> DEFINE g == IF mgr.first = -1 THEN Month(mgr.at) ELSE mgr.first
    <3>1. mgr' = [mgr EXCEPT !.pc = "list", !.step = 1, !.first = g]
      BY <1>4 DEF CreatePartition, Steps
    <3>2. mgr = Locals(mgr.pc, mgr.step, mgr.at, mgr.names, mgr.wake, mgr.stall, mgr.first)
      BY <1>e, ManagerFields
    <3> HIDE DEF g
    <3>3. mgr' = Locals("list", 1, mgr.at, mgr.names, mgr.wake, mgr.stall, g)
      BY <3>1, <3>2 DEF Locals
    <3>4. mgr'.pc = "list" /\ mgr'.at = mgr.at /\ mgr'.first = g
      BY <3>3 DEF Locals
    <3> QED BY <1>0, <3>4 DEF g, StoreInv, StoreOK
  \* Each table has both months.
  <2>2. ASSUME NEW t \in Tables PROVE Month(at) \in parts'[t] /\ Month(at) + 1 \in parts'[t]
    <3>1. PICK k \in 1..Len(TableOrder) : t = TableOrder[k]
      BY TableFacts
    <3>2. ASSUME NEW j \in 1..Steps PROVE MonthToEnsure(at, j) \in parts'[TableOrder[(j + 1) \div 2]]
      <4>1. CASE j = mgr.step
        BY <1>0, <1>2, <4>1 DEF TableToEnsure
      <4>2. CASE j # mgr.step
        <5>1. j \in 1..(mgr.step - 1)
          BY <1>e, <1>4, <4>2, TableFacts DEF Steps
        <5>2. Ensured(j)
          BY <1>e, <5>1 DEF StoreInv, CycleInv
        <5>3. (j + 1) \div 2 \in 1..Len(TableOrder)
          BY TableFacts DEF Steps
        <5>4. TableOrder[(j + 1) \div 2] \in Tables
          BY <5>3, TableFacts
        <5> QED BY <1>0, <1>2, <5>2, <5>4 DEF Ensured
      <4> QED BY <4>1, <4>2
    <3>3. /\ 2 * k - 1 \in 1..Steps /\ (2 * k - 1 + 1) \div 2 = k /\ (2 * k - 1) % 2 = 1
          /\ 2 * k \in 1..Steps /\ (2 * k + 1) \div 2 = k /\ (2 * k) % 2 = 0
      BY TableFacts DEF Steps
    <3>4. MonthToEnsure(at, 2 * k - 1) = Month(at) /\ MonthToEnsure(at, 2 * k) = Month(at) + 1
      BY <3>3 DEF MonthToEnsure
    <3>5. Month(at) \in parts'[TableOrder[(2 * k - 1 + 1) \div 2]]
      BY <3>2, <3>3, <3>4
    <3>6. Month(at) + 1 \in parts'[TableOrder[(2 * k + 1) \div 2]]
      BY <3>2, <3>3, <3>4
    <3> QED BY <3>1, <3>3, <3>5, <3>6
  <2>3. Month(at) \in Int
    BY <1>e, MonthBounds
  <2>4. Covered(at)'
    <3> SUFFICES ASSUME NEW t \in Tables, NEW m \in mgr'.first..(Month(at) + 1),
                        m < Month(at), mgr.first # -1
                 PROVE  m \in parts'[t] \/ Expired(t, m)'
      <4>1. mgr'.first \in Int
        BY <1>e, <2>1, <2>3 DEF Months
      <4>2. mgr.first = -1 => ~ \E m \in mgr'.first..(Month(at) + 1) : m < Month(at)
        BY <2>1, <2>3, <4>1
      <4>3. \A m \in mgr'.first..(Month(at) + 1) :
               m < Month(at) \/ m = Month(at) \/ m = Month(at) + 1
        BY <2>3, <4>1
      <4>4. SUFFICES ASSUME NEW t \in Tables, NEW m \in mgr'.first..(Month(at) + 1)
                     PROVE  m \in parts'[t] \/ Expired(t, m)'
        BY DEF Covered
      <4> QED BY <2>2, <4>2, <4>3
    <3>1. PICK a \in Nat, f \in 0..faults : Lead(a, f)
      BY DEF LeadInv
    <3>2. at <= a + MonthLength
      <4>1. f + 1 \in 0..(MaxFaults + 1)
        BY TimeAssumption DEF StoreInv, StoreOK
      <4>2. Due(a, f + 1) + MaxStall + FutureTolerance <= a + MonthLength
        BY <4>1, DueInTime
      <4>3. at <= Due(a, f + 1)
        BY <1>0, <1>e, <3>1 DEF Lead
      <4>4. Due(a, f + 1) \in Nat
        <5>1. f \in Nat
          BY <1>e
        <5> QED BY <5>1, DueNext
      <4> QED BY <1>e, <4>2, <4>3, <4>4, TimeAssumption
    <3>3. Month(at) <= Month(a) + 1 /\ Month(a) \in Int
      BY <1>e, <3>2, NextMonth, MonthBounds
    <3>4. mgr'.first = mgr.first /\ mgr.first \in Int
      BY <1>e, <2>1 DEF Months
    <3>5. m \in mgr.first..(Month(a) + 1)
      BY <2>3, <3>3, <3>4
    <3>6. m \in parts[t] \/ Expired(t, m)
      BY <3>1, <3>5 DEF Lead, Covered
    <3> QED BY <1>e, <1>2, <3>6 DEF Expired
  <2>5. Due(at, 0) = at
    BY CycleTimePositive DEF Due
  <2>6. Lead(at, 0)'
    BY <2>1, <2>4, <2>5 DEF Lead, Due
  <2> QED BY <1>e, <2>1, <2>6 DEF LeadInv
<1> QED BY <1>3, <1>4

LEMMA LeadCreateFails ==
    ASSUME StoreInv, LeadInv, StoreInv', CreateFails
    PROVE  LeadInv'
<1>1. mgr \in Manager /\ mgr.pc = "ensure" /\ faults \in Nat
  BY DEF CreateFails, StoreInv, StoreOK
<1>2. /\ mgr'.pc = "list" /\ mgr'.at = mgr.at /\ mgr'.first = mgr.first
      /\ faults' = faults + 1 /\ UNCHANGED <<now, parts>>
  BY <1>1 DEF CreateFails, Fault, Manager
<1>3. SUFFICES ASSUME mgr.first # -1 PROVE \E a \in Nat, f \in 0..faults' : Lead(a, f)'
  BY <1>2 DEF LeadInv
<1>4. PICK a \in Nat, f \in 0..faults : Lead(a, f)
  BY <1>3 DEF LeadInv
<1>5. Covered(a)'
  BY <1>2, <1>4 DEF Lead, Covered, Expired
<1>6. Lead(a, f + 1)'
  BY <1>1, <1>2, <1>4, <1>5 DEF Lead, Due
<1> QED BY <1>1, <1>2, <1>4, <1>6

\* The statements of drop_old_partitions.
LEMMA LeadDrops ==
    ASSUME StoreInv, LeadInv, StoreInv',
           ListPartitions \/ \E m \in mgr.names : DropPartition(m) \/ DropFails(m)
    PROVE  LeadInv'
<1>1. mgr \in Manager /\ mgr.pc \in {"list", "drop"} /\ faults \in Nat
  BY DEF ListPartitions, DropPartition, DropFails, StoreInv, StoreOK
<1>2. mgr'.pc = "drop" /\ mgr'.at = mgr.at /\ mgr'.first = mgr.first
  <2>1. CASE ListPartitions
    <3> DEFINE names == {m \in parts[TableToClear] : Expired(TableToClear, m)}
    <3>1. mgr' = [mgr EXCEPT !.pc = "drop", !.names = names]
      BY <2>1 DEF ListPartitions
    <3> HIDE DEF names
    <3> QED BY <1>1, <3>1 DEF Manager
  <2>2. CASE \E m \in mgr.names : DropPartition(m) \/ DropFails(m)
    BY <1>1, <2>2 DEF DropPartition, DropFails, Manager
  <2> QED BY <2>1, <2>2
<1>3. UNCHANGED now /\ faults' \in {faults, faults + 1}
  BY DEF ListPartitions, DropPartition, DropFails, Fault
<1>4. ASSUME NEW t \in Tables, NEW m \in Int, m \in parts[t]
      PROVE  m \in parts'[t] \/ Expired(t, m)
  <2>1. CASE UNCHANGED parts
    BY <1>4, <2>1
  <2>2. CASE \E k \in mgr.names : DropPartition(k)
    <3>1. PICK k \in mgr.names : DropPartition(k)
      BY <2>2
    <3>2. TableToClear \in Tables /\ Expired(TableToClear, k)
      BY <3>1, TableOfStep DEF DropPartition, StoreInv, CycleInv
    <3>3. parts' = [parts EXCEPT ![TableToClear] = @ \ {k}]
      BY <3>1 DEF DropPartition
    <3>4. m \in parts'[t] \/ (t = TableToClear /\ m = k)
      BY <1>4, <3>2, <3>3 DEF StoreInv, StoreOK
    <3> QED BY <3>2, <3>4
  <2> QED BY <2>1, <2>2 DEF ListPartitions, DropFails
<1>5. SUFFICES ASSUME mgr.first # -1 PROVE \E a \in Nat, f \in 0..faults' : Lead(a, f)'
  BY <1>2 DEF LeadInv
<1>6. PICK a \in Nat, f \in 0..faults : Lead(a, f)
  BY <1>5 DEF LeadInv
<1>7. Covered(a)'
  <2>1. mgr.first \in Nat /\ now <= now'
    <3>1. \A m \in Months : m \in Nat
      BY DEF Months
    <3> QED BY <1>1, <1>3, <1>5, <3>1 DEF Manager, StoreInv, StoreOK
  <2>2. Covered(a)
    BY <1>6 DEF Lead
  <2> QED BY <1>2, <1>4, <2>1, <2>2, CoverKept
<1>8. Lead(a, f)'
  BY <1>1, <1>2, <1>6, <1>7 DEF Lead, Due
<1>9. f \in 0..faults'
  BY <1>1, <1>3, <1>6
<1> QED BY <1>8, <1>9

LEMMA LeadCleared ==
    ASSUME StoreInv, LeadInv, StoreInv', EndDrops \/ ListFails
    PROVE  LeadInv'
<1>1. /\ mgr \in Manager /\ mgr.pc \in {"list", "drop"} /\ faults \in Nat /\ now \in Nat
      /\ mgr.at \in Nat /\ mgr.stall \in 0..MaxStall /\ now = mgr.at + mgr.stall
  BY DEF EndDrops, ListFails, StoreInv, StoreOK, CycleInv, Cycle, Manager
<1>2. mgr' = TableCleared /\ UNCHANGED <<now, parts>> /\ faults' \in {faults, faults + 1}
  BY DEF EndDrops, ListFails, Fault
<1>3. \/ mgr'.pc = "list" /\ mgr'.at = mgr.at /\ mgr'.first = mgr.first
      \/ mgr'.pc = "asleep" /\ mgr'.wake = now + Period /\ mgr'.first = mgr.first
  <2>1. CASE mgr.step < Len(TableOrder)
    <3>0. mgr = Locals(mgr.pc, mgr.step, mgr.at, mgr.names, mgr.wake, mgr.stall, mgr.first)
      BY <1>1, ManagerFields
    <3>1. mgr' = Locals("list", mgr.step + 1, mgr.at, {}, mgr.wake, mgr.stall, mgr.first)
      BY <1>2, <2>1, <3>0 DEF TableCleared, Locals
    <3> QED BY <3>1 DEF Locals
  <2>2. CASE ~ (mgr.step < Len(TableOrder))
    <3>1. mgr' = Locals("asleep", 1, 0, {}, now + Period, 0, mgr.first)
      BY <1>2, <2>2 DEF TableCleared, Off, Locals
    <3> QED BY <3>1 DEF Locals
  <2> QED BY <2>1, <2>2
<1>4. SUFFICES ASSUME mgr.first # -1 PROVE \E a \in Nat, f \in 0..faults' : Lead(a, f)'
  BY <1>3 DEF LeadInv
<1>5. PICK a \in Nat, f \in 0..faults : Lead(a, f)
  BY <1>4 DEF LeadInv
<1>6. Covered(a)'
  BY <1>2, <1>3, <1>5 DEF Lead, Covered, Expired
<1>7. Due(a, f) \in Nat /\ Due(a, f + 1) = Due(a, f) + CycleTime /\ mgr.at <= Due(a, f)
  <2>1. f \in Nat
    BY <1>1, <1>5
  <2> QED BY <1>1, <1>5, <2>1, DueNext DEF Lead
<1>8. now + Period <= Due(a, f + 1)
  <2> DEFINE d == Due(a, f)
             e == Due(a, f + 1)
  <2>1. d \in Nat /\ e = d + CycleTime /\ mgr.at <= d
    BY <1>7
  <2> HIDE DEF d, e
  <2>2. now + Period <= e
    BY <1>1, <2>1, CycleTimePositive, TimeAssumption
  <2> QED BY <2>2 DEF e
<1>9. Lead(a, f)'
  BY <1>3, <1>6, <1>7, <1>8 DEF Lead, Due
<1>10. f \in 0..faults'
  BY <1>1, <1>2, <1>5
<1> QED BY <1>9, <1>10

LEMMA LeadTick ==
    ASSUME StoreInv, LeadInv, StoreInv', Tick
    PROVE  LeadInv'
<1>1. mgr \in Manager /\ now \in Nat /\ now' = now + 1 /\ UNCHANGED <<parts, faults>>
  BY DEF Tick, StoreInv, StoreOK
<1>2. mgr'.pc = mgr.pc /\ mgr'.at = mgr.at /\ mgr'.wake = mgr.wake /\ mgr'.first = mgr.first
  BY <1>1 DEF Tick, Manager
<1>3. SUFFICES ASSUME mgr.first # -1 PROVE \E a \in Nat, f \in 0..faults' : Lead(a, f)'
  BY <1>2 DEF LeadInv
<1>4. PICK a \in Nat, f \in 0..faults : Lead(a, f)
  BY <1>3 DEF LeadInv
<1>5. Covered(a)'
  <2>1. mgr.first \in Nat
    <3>1. \A m \in Months : m \in Nat
      BY DEF Months
    <3> QED BY <1>1, <1>3, <3>1 DEF Manager
  <2>2. Covered(a) /\ now <= now'
    BY <1>1, <1>4 DEF Lead
  <2> QED BY <1>1, <1>2, <2>1, <2>2, CoverKept
<1>6. Lead(a, f)'
  BY <1>2, <1>4, <1>5 DEF Lead, Due
<1> QED BY <1>1, <1>4, <1>6

LEMMA LeadStep ==
    ASSUME StoreInv, LeadInv, StoreNext
    PROVE  LeadInv'
<1>1. StoreInv'
  BY StoreStep
<1>2. CASE Crash
  <2>1. mgr'.first = -1
    BY <1>2, OffFields DEF Crash
  <2> QED BY <2>1 DEF LeadInv
<1> QED
  BY <1>1, <1>2, LeadBegins, LeadCreates, LeadCreateFails, LeadDrops, LeadCleared, LeadTick
  DEF StoreNext, RunOnce

\* The lead time is never used up.
LEMMA LeadAhead ==
    ASSUME StoreInv, LeadInv, \A t \in Tables : IngestWindow <= Retention[t]
    PROVE  PartitionsAhead
<1>1. SUFFICES ASSUME mgr.first # -1, NEW t \in Tables, NEW ts \in Acceptable,
                      Month(ts) >= mgr.first
               PROVE  Month(ts) \in parts[t]
  BY DEF PartitionsAhead
<1>2. PICK a \in Nat, f \in 0..faults : Lead(a, f)
  BY <1>1 DEF LeadInv
<1>3. /\ now \in Nat /\ mgr \in Manager /\ mgr.pc # "off" /\ mgr.at \in Nat /\ mgr.wake \in Nat
      /\ mgr.stall \in 0..MaxStall /\ mgr.first \in Int
  BY <1>1 DEF StoreInv, StoreOK, LeadInv, Manager, Months
<1>4. f \in Nat /\ f \in 0..(MaxFaults + 1) /\ f + 1 \in 0..(MaxFaults + 1)
  BY TimeAssumption DEF StoreInv, StoreOK
<1>5. now <= Due(a, f + 1) + MaxStall
  <2>1. Due(a, f) \in Nat /\ Due(a, f + 1) \in Nat /\ Due(a, f) <= Due(a, f + 1)
    <3>1. Due(a, f) \in Nat /\ Due(a, f + 1) \in Nat /\ Due(a, f + 1) = Due(a, f) + CycleTime
      BY <1>4, DueNext
    <3> QED BY <3>1, CycleTimePositive
  <2>2. CASE mgr.pc \in Cycle
    <3>1. now = mgr.at + mgr.stall
      BY <2>2 DEF StoreInv, CycleInv
    <3>2. mgr.at <= Due(a, f + 1)
      <4>1. mgr.at <= Due(a, f) \/ mgr.at <= Due(a, f + 1)
        BY <1>2, <2>2 DEF Lead, Cycle
      <4> QED BY <1>3, <2>1, <4>1
    <3> QED BY <1>3, <2>1, <3>1, <3>2, TimeAssumption
  <2>3. CASE mgr.pc = "asleep"
    <3>1. now <= mgr.wake /\ mgr.wake <= Due(a, f + 1)
      BY <1>2, <2>3 DEF StoreInv, CycleInv, Lead
    <3> QED BY <1>3, <2>1, <3>1, TimeAssumption
  <2> QED BY <1>3, <2>2, <2>3 DEF Manager, Cycle
<1>6. ts \in Int /\ now - IngestWindow <= ts /\ ts <= now + FutureTolerance
  BY <1>3, TimeAssumption DEF Acceptable
<1>7. ts <= a + MonthLength
  <2>1. Due(a, f + 1) + MaxStall + FutureTolerance <= a + MonthLength
    BY <1>4, DueInTime
  <2>2. Due(a, f + 1) \in Nat
    BY <1>4, DueNext
  <2> QED BY <1>3, <1>5, <1>6, <2>1, <2>2, TimeAssumption
<1>8. Month(ts) \in mgr.first..(Month(a) + 1)
  <2>1. Month(ts) \in Int /\ Month(a) \in Int /\ Month(ts) <= Month(a) + 1
    BY <1>6, <1>7, NextMonth, MonthBounds
  <2> QED BY <1>1, <1>3, <2>1
<1>9. Month(ts) \in parts[t] \/ Expired(t, Month(ts))
  BY <1>2, <1>8 DEF Lead, Covered
<1>10. ~ Expired(t, Month(ts))
  <2>1. ts < MonthEnd(Month(ts)) /\ MonthEnd(Month(ts)) \in Int
    BY <1>6, MonthBounds, MonthEndIncreases
  <2>2. IngestWindow <= Retention[t] /\ Retention[t] \in Nat
    BY RetentionAssumption
  <2> QED BY <1>3, <1>6, <2>1, <2>2, TimeAssumption DEF Expired
<1> QED BY <1>9, <1>10

LEMMA InitialLead == StoreInit => LeadInv
  BY OffFields DEF StoreInit, LeadInv

\* The manager by itself: if no retention is shorter than the ingest window, there is
\* a partition for every timestamp that ingest lets through, from the month of the
\* first complete cycle on, whatever MaxFaults statements fail and whenever a cycle of
\* run_partition_manager stalls.
THEOREM ManagerLeads ==
    ASSUME \A t \in Tables : IngestWindow <= Retention[t]
    PROVE  StoreSpec => []PartitionsAhead
<1>1. StoreInit => StoreInv /\ LeadInv
  BY InitialStore, InitialLead
<1>2. StoreInv /\ LeadInv /\ [StoreNext]_store => (StoreInv /\ LeadInv)'
  <2>1. CASE UNCHANGED store
    BY <2>1 DEF store, StoreInv, StoreOK, CycleInv, Ensured, TableToClear, Expired, LeadInv, Lead, Covered
  <2> QED BY <2>1, StoreStep, LeadStep
<1>3. StoreInv /\ LeadInv => PartitionsAhead
  BY LeadAhead
<1> QED BY <1>1, <1>2, <1>3, PTL DEF StoreSpec
-------------------------------------------------------------------------------
(* How long a partition is kept.                                             *)

\* The cycle in progress is through with the partitions of t.
Cleared(t) ==
    mgr.pc \in {"list", "drop"} /\ \E k \in 1..(mgr.step - 1) : t = TableOrder[k]

\* A time before which the partitions of t were not listed for the last time.
ListedAfter(t) ==
    IF mgr.pc = "asleep" THEN mgr.wake - Period - MaxStall
    ELSE IF Cleared(t) THEN mgr.at ELSE mgr.at - Period - MaxStall

\* As of that time, or if the partition is among those of the table in turn that are
\* not to be dropped, as of the start of the cycle, it was not expired.
Fresh(t, m) ==
    /\ ListedAfter(t) < MonthEnd(m) + Retention[t]
    /\ mgr.pc = "drop" /\ t = TableToClear /\ m \notin mgr.names =>
          mgr.at < MonthEnd(m) + Retention[t]

\* As long as nothing has failed.
AgeInv ==
    faults = 0 =>
        /\ mgr.pc = "off" => \A t \in Tables : parts[t] = {}
        /\ mgr.pc # "off" => \A t \in Tables : \A m \in parts[t] : Fresh(t, m)

LEMMA PartFacts ==
    ASSUME StoreInv, NEW t \in Tables, NEW m \in parts[t]
    PROVE  m \in Nat /\ MonthEnd(m) \in Int /\ Retention[t] \in Nat
<1>1. m \in Months
  BY DEF StoreInv, StoreOK
<1>2. m \in Nat
  BY <1>1 DEF Months
<1> QED BY <1>2, MonthEndIncreases, RetentionAssumption

LEMMA InitialAge == StoreInit => AgeInv
  BY OffFields DEF StoreInit, AgeInv

LEMMA AgeBegins ==
    ASSUME StoreInv, AgeInv, Boot \/ Wake
    PROVE  AgeInv'
<1>1. UNCHANGED <<now, parts, faults>> /\ now \in Nat /\ mgr \in Manager
  BY DEF Boot, Wake, StoreInv, StoreOK
<1>2. mgr'.pc = "ensure" /\ mgr'.at = now
  BY OffFields DEF Boot, Wake, Off
<1>3. SUFFICES ASSUME faults = 0, NEW t \in Tables, NEW m \in parts[t]
               PROVE  Fresh(t, m)'
  BY <1>1, <1>2 DEF AgeInv
<1>4. mgr.pc = "asleep" /\ now = mgr.wake
  <2>1. ~ Boot
    BY <1>3 DEF Boot, AgeInv
  <2> QED BY <1>1, <2>1 DEF Wake, StoreInv, CycleInv, Manager
<1>5. ListedAfter(t)' = now - Period - MaxStall
  BY <1>2 DEF ListedAfter, Cleared
<1>6. ListedAfter(t) = now - Period - MaxStall /\ Fresh(t, m)
  BY <1>3, <1>4 DEF ListedAfter, AgeInv
<1> QED BY <1>2, <1>5, <1>6 DEF Fresh

LEMMA AgeCreates ==
    ASSUME StoreInv, AgeInv, CreatePartition
    PROVE  AgeInv'
<1> DEFINE new == MonthToEnsure(mgr.at, mgr.step)
<1>1. mgr \in Manager /\ mgr.pc = "ensure" /\ mgr.at \in Nat /\ UNCHANGED <<now, faults>>
  BY DEF CreatePartition, StoreInv, StoreOK, Manager
<1>2. mgr'.at = mgr.at /\ mgr'.pc \in {"ensure", "list"} /\ (mgr'.pc = "list" => mgr'.step = 1)
  <2>1. CASE mgr.step # Steps
    BY <1>1, <2>1 DEF CreatePartition, Steps, Manager
  <2>2. CASE mgr.step = Steps
    <3> DEFINE f == IF mgr.first = -1 THEN Month(mgr.at) ELSE mgr.first
    <3>1. mgr' = [mgr EXCEPT !.pc = "list", !.step = 1, !.first = f]
      BY <2>2 DEF CreatePartition, Steps
    <3>2. mgr = Locals(mgr.pc, mgr.step, mgr.at, mgr.names, mgr.wake, mgr.stall, mgr.first)
      BY <1>1, ManagerFields
    <3> HIDE DEF f
    <3>3. mgr' = Locals("list", 1, mgr.at, mgr.names, mgr.wake, mgr.stall, f)
      BY <3>1, <3>2 DEF Locals
    <3> QED BY <3>3 DEF Locals
  <2> QED BY <2>1, <2>2
<1>3. SUFFICES ASSUME faults = 0, NEW t \in Tables, NEW m \in parts'[t]
               PROVE  mgr.at - Period - MaxStall < MonthEnd(m) + Retention[t]
  <2>1. ASSUME NEW t \in Tables, NEW m, mgr.at - Period - MaxStall < MonthEnd(m) + Retention[t]
        PROVE  Fresh(t, m)'
    BY <1>2, <2>1 DEF Fresh, ListedAfter, Cleared
  <2> QED BY <1>1, <1>2, <2>1 DEF AgeInv
<1>4. CASE m \in parts[t]
  BY <1>1, <1>3, <1>4 DEF AgeInv, Fresh, ListedAfter, Cleared
<1>5. CASE m \notin parts[t]
  <2>1. m = new
    BY <1>1, <1>5, TableOfStep DEF CreatePartition, StoreInv, StoreOK
  <2>2. Month(mgr.at) \in Int /\ mgr.at < MonthEnd(Month(mgr.at))
    BY <1>1, MonthBounds
  <2>3. m \in Int /\ Month(mgr.at) <= m
    BY <2>1, <2>2 DEF MonthToEnsure
  <2>4. mgr.at < MonthEnd(m) /\ MonthEnd(m) \in Int
    BY <1>1, <2>2, <2>3, MonthEndIncreases
  <2> QED BY <1>1, <2>4, RetentionAssumption, TimeAssumption
<1> QED BY <1>4, <1>5

LEMMA AgeLists ==
    ASSUME StoreInv, AgeInv, ListPartitions
    PROVE  AgeInv'
<1> DEFINE names == {m \in parts[TableToClear] : Expired(TableToClear, m)}
<1>1. /\ mgr \in Manager /\ mgr.pc = "list" /\ UNCHANGED <<now, parts, faults>>
      /\ now \in Nat /\ mgr.at \in Nat /\ mgr.stall \in Nat /\ now = mgr.at + mgr.stall
  BY TimeAssumption DEF ListPartitions, StoreInv, StoreOK, CycleInv, Cycle, Manager
<1>2. mgr'.pc = "drop" /\ mgr'.step = mgr.step /\ mgr'.at = mgr.at /\ mgr'.names = names
  <2>1. mgr' = [mgr EXCEPT !.pc = "drop", !.names = names]
    BY DEF ListPartitions
  <2> HIDE DEF names
  <2> QED BY <1>1, <2>1 DEF Manager
<1>3. SUFFICES ASSUME faults = 0, NEW t \in Tables, NEW m \in parts[t]
               PROVE  Fresh(t, m)'
  BY <1>1, <1>2 DEF AgeInv
<1>4. ListedAfter(t)' = ListedAfter(t) /\ TableToClear' = TableToClear
  BY <1>1, <1>2 DEF ListedAfter, Cleared, TableToClear
<1>5. Fresh(t, m)
  BY <1>1, <1>3 DEF AgeInv
<1>6. ASSUME t = TableToClear, m \notin names PROVE mgr.at < MonthEnd(m) + Retention[t]
  <2>1. ~ Expired(t, m)
    BY <1>6
  <2> QED BY <1>1, <2>1, PartFacts DEF Expired
<1> HIDE DEF names
<1> QED BY <1>2, <1>4, <1>5, <1>6 DEF Fresh

LEMMA AgeDrops ==
    ASSUME StoreInv, AgeInv, NEW n, DropPartition(n)
    PROVE  AgeInv'
<1>1. mgr \in Manager /\ mgr.pc = "drop" /\ UNCHANGED <<now, faults>> /\ TableToClear \in Tables
  BY TableOfStep DEF DropPartition, StoreInv, StoreOK
<1>2. /\ mgr'.pc = "drop" /\ mgr'.step = mgr.step /\ mgr'.at = mgr.at
      /\ mgr'.names = mgr.names \ {n}
  BY <1>1 DEF DropPartition, Manager
<1>3. SUFFICES ASSUME faults = 0, NEW t \in Tables, NEW m \in parts'[t]
               PROVE  Fresh(t, m)'
  BY <1>1, <1>2 DEF AgeInv
<1>4. m \in parts[t] /\ (t = TableToClear => m # n)
  BY <1>1, <1>3 DEF DropPartition, StoreInv, StoreOK
<1>5. ListedAfter(t)' = ListedAfter(t) /\ TableToClear' = TableToClear
  BY <1>1, <1>2 DEF ListedAfter, Cleared, TableToClear
<1>6. Fresh(t, m)
  BY <1>1, <1>3, <1>4 DEF AgeInv
<1> QED BY <1>1, <1>2, <1>4, <1>5, <1>6 DEF Fresh

\* The table in turn joins those that are cleared; after the last one it is all of them.
LEMMA AgeCleared ==
    ASSUME StoreInv, AgeInv, EndDrops
    PROVE  AgeInv'
<1>1. /\ mgr \in Manager /\ mgr.pc = "drop" /\ mgr.names = {} /\ mgr.step \in Nat \ {0}
      /\ now \in Nat /\ mgr.at \in Nat /\ mgr.stall \in 0..MaxStall /\ now = mgr.at + mgr.stall
      /\ mgr.step <= Len(TableOrder)
      /\ mgr' = TableCleared /\ UNCHANGED <<now, parts, faults>>
  BY DEF EndDrops, StoreInv, StoreOK, CycleInv, Cycle, Manager
<1>2. ASSUME faults = 0, NEW k \in 1..mgr.step, TableOrder[k] \in Tables,
             NEW m \in parts[TableOrder[k]]
      PROVE  mgr.at < MonthEnd(m) + Retention[TableOrder[k]]
  <2>1. Fresh(TableOrder[k], m)
    BY <1>1, <1>2 DEF AgeInv
  <2>2. CASE k = mgr.step
    BY <1>1, <2>1, <2>2 DEF Fresh, TableToClear
  <2>3. CASE k # mgr.step
    <3>1. Cleared(TableOrder[k])
      BY <1>1, <2>3 DEF Cleared
    <3> QED BY <1>1, <2>1, <3>1 DEF Fresh, ListedAfter
  <2> QED BY <2>2, <2>3
<1>3. CASE mgr.step < Len(TableOrder)
  <2>0. mgr = Locals(mgr.pc, mgr.step, mgr.at, mgr.names, mgr.wake, mgr.stall, mgr.first)
    BY <1>1, ManagerFields
  <2>1. mgr' = Locals("list", mgr.step + 1, mgr.at, {}, mgr.wake, mgr.stall, mgr.first)
    BY <1>1, <1>3, <2>0 DEF TableCleared, Locals
  <2>2. mgr'.pc = "list" /\ mgr'.step = mgr.step + 1 /\ mgr'.at = mgr.at
    BY <2>1 DEF Locals
  <2>3. SUFFICES ASSUME faults = 0, NEW t \in Tables, NEW m \in parts[t]
                 PROVE  ListedAfter(t)' < MonthEnd(m) + Retention[t]
    BY <1>1, <2>2 DEF AgeInv, Fresh
  <2>4. CASE \E k \in 1..mgr.step : t = TableOrder[k]
    <3>1. ListedAfter(t)' = mgr.at
      BY <1>1, <2>2, <2>4 DEF ListedAfter, Cleared
    <3> QED BY <1>2, <2>3, <2>4, <3>1
  <2>5. CASE ~ \E k \in 1..mgr.step : t = TableOrder[k]
    <3>1. ~ Cleared(t) /\ ~ Cleared(t)'
      BY <1>1, <2>2, <2>5 DEF Cleared
    <3>2. ListedAfter(t)' = ListedAfter(t)
      BY <1>1, <2>2, <3>1 DEF ListedAfter
    <3> QED BY <1>1, <2>3, <3>2 DEF AgeInv, Fresh
  <2> QED BY <2>4, <2>5
<1>4. CASE ~ (mgr.step < Len(TableOrder))
  <2>1. mgr' = Locals("asleep", 1, 0, {}, now + Period, 0, mgr.first)
    BY <1>1, <1>4 DEF TableCleared, Off, Locals
  <2>2. mgr'.pc = "asleep" /\ mgr'.wake = now + Period
    BY <2>1 DEF Locals
  <2>3. SUFFICES ASSUME faults = 0, NEW t \in Tables, NEW m \in parts[t]
                 PROVE  ListedAfter(t)' < MonthEnd(m) + Retention[t]
    BY <1>1, <2>2 DEF AgeInv, Fresh
  <2>4. ListedAfter(t)' = mgr'.wake - Period - MaxStall
    BY <2>2 DEF ListedAfter
  <2>5. mgr.step = Len(TableOrder)
    BY <1>1, <1>4, TableFacts
  <2>6. mgr.at < MonthEnd(m) + Retention[t]
    BY <1>2, <2>3, <2>5, TableFacts
  <2>7. MonthEnd(m) \in Int /\ Retention[t] \in Nat
    BY <2>3, PartFacts
  <2> DEFINE due == MonthEnd(m) + Retention[t]
  <2>8. due \in Int /\ mgr.at < due
    BY <2>6, <2>7
  <2> HIDE DEF due
  <2>9. ListedAfter(t)' < due
    BY <1>1, <2>2, <2>4, <2>8, TimeAssumption
  <2> QED BY <2>9 DEF due
<1> QED BY <1>3, <1>4

LEMMA AgeTick ==
    ASSUME StoreInv, AgeInv, Tick
    PROVE  AgeInv'
<1>1. mgr \in Manager /\ UNCHANGED <<parts, faults>>
  BY DEF Tick, StoreInv, StoreOK
<1>2. /\ mgr'.pc = mgr.pc /\ mgr'.at = mgr.at /\ mgr'.wake = mgr.wake /\ mgr'.step = mgr.step
      /\ mgr'.names = mgr.names
  BY <1>1 DEF Tick, Manager
<1> QED BY <1>1, <1>2 DEF AgeInv, Fresh, ListedAfter, Cleared, TableToClear

LEMMA AgeStep ==
    ASSUME StoreInv, AgeInv, StoreNext
    PROVE  AgeInv'
<1>1. CASE Fault
  <2>1. faults' # 0
    BY <1>1 DEF Fault, StoreInv, StoreOK
  <2> QED BY <2>1 DEF AgeInv
<1> QED
  BY <1>1, AgeBegins, AgeCreates, AgeLists, AgeDrops, AgeCleared, AgeTick
  DEF StoreNext, RunOnce, CreateFails, ListFails, DropFails, Crash

\* No partition outlives its retention by more than a cycle and two stalls.
LEMMA AgeBound ==
    ASSUME StoreInv, AgeInv, faults = 0, Up, NEW t \in Tables, NEW m \in parts[t]
    PROVE  now < MonthEnd(m) + Retention[t] + Period + 2 * MaxStall
<1>1. mgr \in Manager /\ now \in Nat /\ mgr.at \in Nat /\ mgr.wake \in Nat /\ mgr.stall \in 0..MaxStall
  BY DEF StoreInv, StoreOK, Manager
<1>2. ListedAfter(t) < MonthEnd(m) + Retention[t]
  BY DEF AgeInv, Fresh, Up
<1>3. now <= ListedAfter(t) + Period + 2 * MaxStall /\ ListedAfter(t) \in Int
  <2>1. CASE mgr.pc = "asleep"
    BY <1>1, <2>1, TimeAssumption DEF ListedAfter, StoreInv, CycleInv
  <2>2. CASE mgr.pc # "asleep"
    <3>1. now = mgr.at + mgr.stall
      BY <1>1, <2>2 DEF StoreInv, CycleInv, Cycle, Up, Manager
    <3>2. ListedAfter(t) \in {mgr.at, mgr.at - Period - MaxStall}
      BY <2>2 DEF ListedAfter
    <3> QED BY <1>1, <3>1, <3>2, TimeAssumption
  <2> QED BY <2>1, <2>2
<1> QED BY <1>1, <1>2, <1>3, PartFacts, TimeAssumption

-------------------------------------------------------------------------------
(* Finite sets.                                                              *)

LEMMA ImageFinite ==
    ASSUME NEW S, IsFiniteSet(S), NEW g, DOMAIN g = S
    PROVE  IsFiniteSet({g[x] : x \in S})
<1> DEFINE T == {g[x] : x \in S}
           h == [x \in S |-> g[x]]
<1>1. h \in [S -> T] /\ \A t \in T : \E x \in S : h[x] = t
  OBVIOUS
<1>2. h \in Surjection(S, T)
  BY <1>1 DEF Surjection
<1> QED BY <1>2, FS_Surjection

LEMMA BatchFinite == \A batch \in Batches : IsFiniteSet(batch)
<1> TAKE batch \in Batches
<1>1. PICK x, y : batch = {x, y}
  BY DEF Batches
<1>2. batch = {x} \cup {y}
  BY <1>1
<1> QED BY <1>2, FS_Singleton, FS_Union

-------------------------------------------------------------------------------
(* The invariant.                                                            *)

\* The locals of a handler fit together.
BatchInv ==
    /\ \A r \in Requests : /\ IsFiniteSet(req[r].batch) /\ Cardinality(req[r].batch) <= MaxBatch
                           /\ IsFiniteSet(req[r].accepted)
    /\ \A t \in Tables : IsFiniteSet(rows[t])

\* What AckedUntilExpired says of one record.
Stored(t, ts, payload) ==
    ts >= now - Retention[t] => \E y \in rows[t] : y.ts = ts /\ y.payload = payload

\* It holds from the INSERT on, answer or no answer.
KeptInv ==
    /\ \A a \in acked : Stored(a.table, a.ts, a.payload)
    /\ \A r \in Requests : req[r].pc = "written" =>
          \A x \in req[r].accepted : Stored(req[r].table, x.ts, x.payload)

IngestInv == StoreInv /\ TypeOK /\ BatchInv

LEMMA FirstTable == TableOrder[1] \in Tables
  BY TableFacts

Handler(pc, table, batch, accepted, rejected) ==
    [pc |-> pc, table |-> table, batch |-> batch, accepted |-> accepted, rejected |-> rejected]

LEMMA HandlerTyped ==
    ASSUME NEW pc \in InServer \cup {"idle", "unavailable"}, NEW table \in Tables,
           NEW batch \in SUBSET Record, NEW accepted \in SUBSET Record, NEW rejected \in 0..MaxBatch
    PROVE  Handler(pc, table, batch, accepted, rejected) \in Request
  BY DEF Handler, Request

LEMMA HandlerFields ==
    ASSUME NEW x \in Request
    PROVE  /\ x = Handler(x.pc, x.table, x.batch, x.accepted, x.rejected)
           /\ x.pc \in InServer \cup {"idle", "unavailable"} /\ x.table \in Tables
           /\ x.batch \in SUBSET Record /\ x.accepted \in SUBSET Record /\ x.rejected \in 0..MaxBatch
  BY DEF Handler, Request

LEMMA IdleFields ==
    /\ Idle = Handler("idle", TableOrder[1], {}, {}, 0)
    /\ Idle \in Request
    /\ Idle.pc = "idle" /\ Idle.batch = {} /\ Idle.accepted = {}
<1>1. Idle = Handler("idle", TableOrder[1], {}, {}, 0)
  BY DEF Idle, Handler
<1>2. 0 \in 0..MaxBatch
  BY BatchAssumption
<1>3. Idle \in Request
  BY <1>1, <1>2, FirstTable, HandlerTyped
<1> QED BY <1>1, <1>3 DEF Idle

-------------------------------------------------------------------------------
(* What one step does to one request, and to the rest.                       *)

\* The locals x of one handler take the place of the old ones.
LEMMA OneHandler ==
    ASSUME IngestInv, NEW r \in Requests, NEW x \in Request,
           IsFiniteSet(x.batch), Cardinality(x.batch) <= MaxBatch, IsFiniteSet(x.accepted),
           req' = [req EXCEPT ![r] = x]
    PROVE  /\ req' \in [Requests -> Request]
           /\ \A s \in Requests : /\ IsFiniteSet(req'[s].batch) /\ Cardinality(req'[s].batch) <= MaxBatch
                                  /\ IsFiniteSet(req'[s].accepted)
<1>1. req \in [Requests -> Request]
  BY DEF IngestInv, TypeOK
<1>2. \A s \in Requests : req'[s] = IF s = r THEN x ELSE req[s]
  BY <1>1
<1> QED BY <1>1, <1>2 DEF IngestInv, BatchInv

\* Handlers leave the partitions and the manager alone, and only add rows.
LEMMA HandlerStore ==
    ASSUME IngestInv, UNCHANGED <<now, parts, mgr>>, rows' \in [Tables -> SUBSET Row],
           faults' \in 0..MaxFaults
    PROVE  StoreInv'
BY DEF IngestInv, StoreInv, StoreOK, CycleInv, Ensured, Expired, TableToClear

LEMMA OneMoreFault == IngestInv /\ Fault => faults' \in 0..MaxFaults
  BY TimeAssumption DEF IngestInv, StoreInv, StoreOK, Fault

\* A handler's step that writes nothing.
LEMMA LocalStep ==
    ASSUME IngestInv, NEW r \in Requests, NEW x \in Request,
           IsFiniteSet(x.batch), Cardinality(x.batch) <= MaxBatch, IsFiniteSet(x.accepted),
           req' = [req EXCEPT ![r] = x],
           UNCHANGED <<now, parts, rows, mgr, acked>>,
           faults' \in 0..MaxFaults, posts' \in 0..MaxPosts
    PROVE  IngestInv'
<1>1. StoreInv'
  BY HandlerStore DEF IngestInv, StoreInv, StoreOK
<1>2. TypeOK'
  BY <1>1, OneHandler DEF IngestInv, StoreInv, TypeOK
<1>3. BatchInv'
  BY OneHandler DEF IngestInv, BatchInv
<1> QED BY <1>1, <1>2, <1>3 DEF IngestInv

LEMMA EmptySets ==
    /\ IsFiniteSet({}) /\ Cardinality({}) = 0 /\ 0 <= MaxBatch /\ 0 \in 0..MaxBatch
    /\ {} \in SUBSET Record
  BY FS_EmptySet, BatchAssumption

\* Requests at the exporter.
LEMMA ExporterTypes ==
    ASSUME IngestInv, NEW r \in Requests,
           \/ \E t \in Tables, batch \in Batches : Post(r, t, batch)
           \/ Retry(r) \/ GiveUp(r)
    PROVE  IngestInv'
<1>e. /\ req \in [Requests -> Request] /\ req[r] \in Request /\ posts \in 0..MaxPosts
      /\ faults \in 0..MaxFaults
      /\ IsFiniteSet(req[r].batch) /\ Cardinality(req[r].batch) <= MaxBatch
  BY DEF IngestInv, TypeOK, BatchInv, StoreInv, StoreOK
<1>1. CASE \E t \in Tables, batch \in Batches : Post(r, t, batch)
  <2>1. PICK t \in Tables, batch \in Batches : Post(r, t, batch)
    BY <1>1
  <2> DEFINE x == Handler("posted", t, batch, {}, 0)
  <2>2. req' = [req EXCEPT ![r] = x]
    <3>1. PICK y : y = [Idle EXCEPT !.pc = "posted", !.table = t, !.batch = batch]
      OBVIOUS
    <3>2. y = x
      BY <3>1, IdleFields DEF Handler
    <3> QED BY <2>1, <3>1, <3>2 DEF Post
  <2>3. batch \in SUBSET Record
    <3>1. Stamps \subseteq Int
      <4>1. now \in Int /\ -9 \in Int
        BY DEF IngestInv, StoreInv, StoreOK
      <4> QED BY <4>1, TimeAssumption DEF Stamps, NoTime
    <3>2. PICK u \in [ts : Stamps, payload : Payloads], v \in [ts : Stamps, payload : Payloads] :
             batch = {u, v}
      BY DEF Batches
    <3>3. u \in Record /\ v \in Record
      BY <3>1 DEF Record
    <3> QED BY <3>2, <3>3
  <2>4. x \in Request /\ x.batch = batch /\ x.accepted = {}
    <3>1. x \in Request
      BY <2>3, EmptySets, HandlerTyped DEF InServer
    <3> QED BY <3>1 DEF Handler
  <2>5. posts' \in 0..MaxPosts
    <3>1. posts < MaxPosts /\ posts' = posts + 1
      BY <2>1 DEF Post
    <3> QED BY <1>e, <3>1, BatchAssumption
  <2>6. UNCHANGED <<now, parts, rows, mgr, faults, acked>> /\ Cardinality(batch) <= MaxBatch
    BY <2>1 DEF Post, store
  <2> HIDE DEF x
  <2> QED BY <1>e, <2>2, <2>4, <2>5, <2>6, BatchFinite, EmptySets, LocalStep
<1>2. CASE Retry(r)
  <2> DEFINE x == Handler("posted", req[r].table, req[r].batch, {}, 0)
  <2>1. req' = [req EXCEPT ![r] = x]
    <3>1. PICK y : y = [Idle EXCEPT !.pc = "posted", !.table = req[r].table, !.batch = req[r].batch]
      OBVIOUS
    <3>2. y = x
      BY <3>1, IdleFields DEF Handler
    <3> QED BY <1>2, <3>1, <3>2 DEF Retry
  <2>2. x \in Request /\ x.batch = req[r].batch /\ x.accepted = {}
    <3>1. x \in Request
      BY <1>e, HandlerFields, EmptySets, HandlerTyped DEF InServer
    <3> QED BY <3>1 DEF Handler
  <2>3. UNCHANGED <<now, parts, rows, mgr, faults, acked, posts>>
    BY <1>2 DEF Retry, store
  <2> HIDE DEF x
  <2> QED BY <1>e, <2>1, <2>2, <2>3, EmptySets, LocalStep
<1>3. CASE GiveUp(r)
  <2>1. UNCHANGED <<now, parts, rows, mgr, faults, acked, posts>> /\ req' = [req EXCEPT ![r] = Idle]
    BY <1>3 DEF GiveUp, store
  <2> QED BY <1>e, <2>1, IdleFields, EmptySets, LocalStep
<1> QED BY <1>1, <1>2, <1>3

\* The loop of the handler.
LEMMA AcceptedTyped ==
    ASSUME now \in Nat, NEW t \in Tables, NEW batch \in SUBSET Record, IsFiniteSet(batch)
    PROVE  AcceptedOf(t, batch) \in SUBSET Record /\ IsFiniteSet(AcceptedOf(t, batch))
<1> DEFINE g == [y \in batch |-> Stamped(t, y)]
           all == {Stamped(t, y) : y \in batch}
<1>1. \A y \in batch : Stamped(t, y) \in Record
  BY DEF Stamped, Record
<1>2. all = {g[y] : y \in batch} /\ DOMAIN g = batch
  OBVIOUS
<1>3. IsFiniteSet(all)
  <2>1. IsFiniteSet({g[y] : y \in batch})
    <3> HIDE DEF g
    <3> QED BY <1>2, ImageFinite
  <2> QED BY <1>2, <2>1
<1>4. AcceptedOf(t, batch) \subseteq all
  BY DEF AcceptedOf
<1>5. AcceptedOf(t, batch) \in SUBSET Record
  BY <1>1, <1>4
<1> QED BY <1>3, <1>4, <1>5, FS_Subset

LEMMA CheckTypes ==
    ASSUME IngestInv, NEW r \in Requests, Check(r)
    PROVE  IngestInv'
<1>e. /\ req \in [Requests -> Request] /\ req[r] \in Request /\ posts \in 0..MaxPosts
      /\ faults \in 0..MaxFaults /\ now \in Nat
      /\ IsFiniteSet(req[r].batch) /\ Cardinality(req[r].batch) <= MaxBatch
  BY DEF IngestInv, TypeOK, BatchInv, StoreInv, StoreOK
<1> DEFINE t == req[r].table
           b == req[r].batch
           acc == AcceptedOf(t, b)
           left == {y \in b : AcceptedOf(t, {y}) = {}}
           rej == Cardinality(left)
           x == Handler("checked", t, b, acc, rej)
<1>1. t \in Tables /\ b \in SUBSET Record
  BY <1>e, HandlerFields
<1>2. acc \in SUBSET Record /\ IsFiniteSet(acc)
  BY <1>e, <1>1, AcceptedTyped
<1>3. rej \in 0..MaxBatch
  <2>1. left \in SUBSET b
    OBVIOUS
  <2> HIDE DEF left
  <2>2. IsFiniteSet(left) /\ Cardinality(left) <= Cardinality(b)
    BY <1>e, <2>1, FS_Subset
  <2>3. Cardinality(left) \in Nat /\ Cardinality(b) \in Nat
    BY <1>e, <2>2, FS_CardinalityType
  <2> QED BY <1>e, <2>2, <2>3, BatchAssumption
<1>4. req' = [req EXCEPT ![r] = x]
  <2>1. req' = [req EXCEPT ![r].pc = "checked", ![r].accepted = acc, ![r].rejected = rej]
    BY DEF Check
  <2> HIDE DEF acc, rej
  <2>2. req[r] = Handler(req[r].pc, t, b, req[r].accepted, req[r].rejected)
    BY <1>e, HandlerFields
  <2>3. req' = [req EXCEPT ![r] = [req[r] EXCEPT !.pc = "checked", !.accepted = acc, !.rejected = rej]]
    BY <1>e, <2>1
  <2>4. PICK y : y = [req[r] EXCEPT !.pc = "checked", !.accepted = acc, !.rejected = rej]
    OBVIOUS
  <2>5. y = x
    BY <2>2, <2>4 DEF Handler
  <2> QED BY <2>3, <2>4, <2>5
<1> HIDE DEF acc, rej
<1>5. x \in Request /\ x.batch = b /\ x.accepted = acc
  <2>1. x \in Request
    BY <1>1, <1>2, <1>3, HandlerTyped DEF InServer
  <2> QED BY <2>1 DEF Handler
<1>6. UNCHANGED <<now, parts, rows, mgr, faults, acked, posts>>
  BY DEF Check, store
<1> HIDE DEF x
<1> QED BY <1>e, <1>2, <1>4, <1>5, <1>6, LocalStep

LEMMA RowsTyped ==
    ASSUME IngestInv, NEW t \in Tables, NEW batch \in SUBSET Record, IsFiniteSet(batch)
    PROVE  RowsOf(t, batch) \in SUBSET Row /\ IsFiniteSet(RowsOf(t, batch))
<1> DEFINE copy(x) == IF t \in Keyed THEN 0
                      ELSE Cardinality({y \in rows[t] : y.ts = x.ts /\ y.payload = x.payload})
           row(x) == [ts |-> x.ts, payload |-> x.payload, copy |-> copy(x)]
           g == [x \in batch |-> row(x)]
<1>1. ASSUME NEW x \in batch PROVE copy(x) \in Nat
  <2> DEFINE same == {y \in rows[t] : y.ts = x.ts /\ y.payload = x.payload}
  <2>1. same \in SUBSET rows[t] /\ IsFiniteSet(rows[t])
    BY DEF IngestInv, BatchInv
  <2>2. Cardinality(same) \in Nat
    <3> HIDE DEF same
    <3> QED BY <2>1, FS_Subset, FS_CardinalityType
  <2> QED BY <2>2
<1>2. \A x \in batch : row(x) \in Row
  <2> HIDE DEF copy
  <2> QED BY <1>1 DEF Row, Record
<1>3. RowsOf(t, batch) = {row(x) : x \in batch}
  BY DEF RowsOf
<1>4. RowsOf(t, batch) = {g[x] : x \in batch} /\ DOMAIN g = batch
  <2> HIDE DEF row
  <2> QED BY <1>3
<1>5. IsFiniteSet({g[x] : x \in batch})
  <2> HIDE DEF g
  <2> QED BY <1>4, ImageFinite
<1>6. RowsOf(t, batch) \subseteq Row
  <2> HIDE DEF row
  <2> QED BY <1>2, <1>3
<1> QED BY <1>4, <1>5, <1>6

\* The rows after an INSERT.
LEMMA InsertTyped ==
    ASSUME IngestInv, NEW r \in Requests, Insert(r)
    PROVE  /\ rows' \in [Tables -> SUBSET Row]
           /\ \A t \in Tables : IsFiniteSet(rows'[t]) /\ rows[t] \subseteq rows'[t]
           /\ RowsOf(req[r].table, req[r].accepted) \subseteq rows'[req[r].table]
<1> DEFINE t == req[r].table
           new == RowsOf(t, req[r].accepted)
<1>1. rows \in [Tables -> SUBSET Row] /\ req[r] \in Request /\ IsFiniteSet(req[r].accepted)
  BY DEF IngestInv, BatchInv, TypeOK, StoreInv, StoreOK
<1>2. t \in Tables /\ req[r].accepted \in SUBSET Record
  BY <1>1, HandlerFields
<1>3. new \in SUBSET Row /\ IsFiniteSet(new)
  BY <1>1, <1>2, RowsTyped
<1>4. rows' = [rows EXCEPT ![t] = rows[t] \cup new]
  BY DEF Insert
<1> HIDE DEF new
<1>5. IsFiniteSet(rows[t] \cup new)
  BY <1>2, <1>3, FS_Union DEF IngestInv, BatchInv
<1>6. \A u \in Tables : IsFiniteSet(rows'[u]) /\ rows[u] \subseteq rows'[u]
  BY <1>1, <1>2, <1>4, <1>5 DEF IngestInv, BatchInv
<1>7. rows' \in [Tables -> SUBSET Row] /\ new \subseteq rows'[t]
  BY <1>1, <1>2, <1>3, <1>4
<1> QED BY <1>6, <1>7 DEF new

\* The same locals, elsewhere in the handler.
LEMMA MovedTo ==
    ASSUME IngestInv, NEW r \in Requests, NEW pc \in InServer \cup {"idle", "unavailable"},
           req' = [req EXCEPT ![r].pc = pc]
    PROVE  \E x \in Request : /\ req' = [req EXCEPT ![r] = x]
                              /\ x.pc = pc /\ x.table = req[r].table
                              /\ x.batch = req[r].batch /\ x.accepted = req[r].accepted
                              /\ IsFiniteSet(x.batch) /\ Cardinality(x.batch) <= MaxBatch
                              /\ IsFiniteSet(x.accepted)
<1>1. req \in [Requests -> Request] /\ req[r] \in Request
  BY DEF IngestInv, TypeOK
<1>2. PICK x : x = [req[r] EXCEPT !.pc = pc]
  OBVIOUS
<1>3. /\ x \in Request /\ x.pc = pc /\ x.table = req[r].table
      /\ x.batch = req[r].batch /\ x.accepted = req[r].accepted
  BY <1>1, <1>2 DEF Request
<1>4. req' = [req EXCEPT ![r] = x]
  BY <1>1, <1>2
<1> QED BY <1>3, <1>4 DEF IngestInv, BatchInv

\* A step that moves a handler on, with or without its INSERT.
LEMMA MoveTypes ==
    ASSUME IngestInv, NEW r \in Requests, NEW pc \in InServer \cup {"idle", "unavailable"},
           req' = [req EXCEPT ![r].pc = pc],
           Insert(r) \/ UNCHANGED rows,
           UNCHANGED <<now, parts, mgr, acked, posts>>, faults' \in 0..MaxFaults
    PROVE  IngestInv'
<1>1. PICK x \in Request :
         /\ req' = [req EXCEPT ![r] = x]
         /\ IsFiniteSet(x.batch) /\ Cardinality(x.batch) <= MaxBatch /\ IsFiniteSet(x.accepted)
  BY MovedTo
<1>2. rows' \in [Tables -> SUBSET Row] /\ \A t \in Tables : IsFiniteSet(rows'[t])
  BY InsertTyped DEF IngestInv, BatchInv, StoreInv, StoreOK
<1>3. StoreInv'
  BY <1>2, HandlerStore
<1>4. TypeOK' /\ BatchInv'
  BY <1>1, <1>2, <1>3, OneHandler DEF IngestInv, StoreInv, TypeOK, BatchInv
<1> QED BY <1>3, <1>4 DEF IngestInv

LEMMA HandlerTypes ==
    ASSUME IngestInv, NEW r \in Requests,
           Write(r) \/ NoPartition(r) \/ WriteFails(r) \/ Unanswered(r)
    PROVE  IngestInv'
<1>1. /\ req' = [req EXCEPT ![r].pc = "written"] \/ req' = [req EXCEPT ![r].pc = "unavailable"]
      /\ Insert(r) \/ UNCHANGED rows
      /\ UNCHANGED <<now, parts, mgr, acked, posts>>
  BY DEF Write, NoPartition, WriteFails, Unanswered, store
<1>2. faults' \in 0..MaxFaults
  BY OneMoreFault DEF Write, NoPartition, WriteFails, Unanswered, store, IngestInv, StoreInv, StoreOK
<1>3. "written" \in InServer
  BY DEF InServer
<1> QED BY <1>1, <1>2, <1>3, MoveTypes

LEMMA RespondTypes ==
    ASSUME IngestInv, NEW r \in Requests, Respond(r)
    PROVE  IngestInv'
<1>1. UNCHANGED <<now, parts, rows, mgr, faults, posts>> /\ req' = [req EXCEPT ![r] = Idle]
  BY DEF Respond, store
<1>2. StoreInv'
  BY <1>1, HandlerStore DEF IngestInv, StoreInv, StoreOK
<1>3. \A a \in acked' : a.table \in Tables /\ a.ts \in Int
  <2>1. req[r] \in Request
    BY DEF IngestInv, TypeOK
  <2>2. req[r].table \in Tables /\ req[r].accepted \in SUBSET Record
    BY <2>1, HandlerFields
  <2>3. ASSUME NEW a \in acked', a \notin acked PROVE a.table \in Tables /\ a.ts \in Int
    <3>1. PICK x \in req[r].accepted : a = [table |-> req[r].table, ts |-> x.ts, payload |-> x.payload]
      BY <2>3 DEF Respond
    <3>2. x \in Record
      BY <2>2
    <3> QED BY <2>2, <3>1, <3>2 DEF Record
  <2> QED BY <2>3 DEF IngestInv, TypeOK
<1>4. /\ req' \in [Requests -> Request]
      /\ \A s \in Requests : /\ IsFiniteSet(req'[s].batch) /\ Cardinality(req'[s].batch) <= MaxBatch
                             /\ IsFiniteSet(req'[s].accepted)
  BY <1>1, IdleFields, EmptySets, OneHandler
<1> QED BY <1>1, <1>2, <1>3, <1>4 DEF IngestInv, StoreInv, TypeOK, BatchInv

\* Rows only go: the partition manager, the clock, a crash.
LEMMA ManagerRows ==
    ASSUME IngestInv, StoreNext
    PROVE  \A t \in Tables : rows'[t] \subseteq rows[t]
<1>1. CASE UNCHANGED rows
  BY <1>1
<1>2. CASE \E m \in mgr.names : DropPartition(m)
  <2>1. PICK m : mgr.pc = "drop" /\ rows' = [rows EXCEPT ![TableToClear] = {x \in @ : Month(x.ts) # m}]
    BY <1>2 DEF DropPartition
  <2>2. TableToClear \in Tables
    BY <2>1, TableOfStep DEF IngestInv
  <2> QED BY <2>1, <2>2 DEF IngestInv, StoreInv, StoreOK
<1> QED
  BY <1>1, <1>2 DEF StoreNext, RunOnce, Boot, Wake, CreatePartition, CreateFails, ListPartitions,
                    ListFails, EndDrops, DropFails, Crash, Tick

LEMMA ManagerTypes ==
    ASSUME IngestInv, (Boot \/ RunOnce \/ Tick) /\ UNCHANGED <<req, acked, posts>>
    PROVE  IngestInv'
<1>1. StoreNext
  BY DEF StoreNext
<1>2. StoreInv'
  BY <1>1, StoreStep DEF IngestInv
<1>3. \A t \in Tables : IsFiniteSet(rows'[t])
  <2> TAKE t \in Tables
  <2>1. rows'[t] \in SUBSET rows[t] /\ IsFiniteSet(rows[t])
    BY <1>1, ManagerRows DEF IngestInv, BatchInv
  <2> QED BY <2>1, FS_Subset
<1> QED BY <1>2, <1>3 DEF IngestInv, StoreInv, TypeOK, BatchInv

LEMMA CrashAllTypes ==
    ASSUME IngestInv, CrashAll
    PROVE  IngestInv'
<1>1. StoreNext /\ UNCHANGED <<rows, acked, posts>>
  BY DEF CrashAll, StoreNext, Crash
<1>2. StoreInv'
  BY <1>1, StoreStep DEF IngestInv
<1>3. req \in [Requests -> Request]
  BY DEF IngestInv, TypeOK
<1>4. \A r \in Requests : /\ req'[r] \in Request
                          /\ req'[r].batch = req[r].batch /\ req'[r].accepted = req[r].accepted
  <2> TAKE r \in Requests
  <2>1. CASE req[r].pc \in InServer
    <3>1. req'[r] = [req[r] EXCEPT !.pc = "unavailable"]
      BY <2>1 DEF CrashAll
    <3> QED BY <1>3, <3>1 DEF Request
  <2>2. CASE req[r].pc \notin InServer
    <3>1. req'[r] = req[r]
      BY <2>2 DEF CrashAll
    <3> QED BY <1>3, <3>1
  <2> QED BY <2>1, <2>2
<1>5. req' \in [Requests -> Request]
  <2>1. DOMAIN req' = Requests /\ req' = [r \in Requests |-> req'[r]]
    BY DEF CrashAll
  <2> QED BY <1>4, <2>1
<1> QED BY <1>1, <1>2, <1>4, <1>5 DEF IngestInv, StoreInv, TypeOK, BatchInv

LEMMA InitialIngest == Init => IngestInv
<1> SUFFICES ASSUME Init PROVE IngestInv
  OBVIOUS
<1>1. StoreInv
  BY InitialStore DEF Init
<1>2. req \in [Requests -> Request] /\ \A r \in Requests : req[r] = Idle
  BY IdleFields DEF Init
<1>3. TypeOK
  BY <1>1, <1>2, BatchAssumption DEF Init, TypeOK, StoreInv
<1>4. BatchInv
  BY <1>2, IdleFields, EmptySets DEF Init, StoreInit, BatchInv
<1> QED BY <1>1, <1>3, <1>4 DEF IngestInv

LEMMA IngestStep ==
    ASSUME IngestInv, Next
    PROVE  IngestInv'
  BY ManagerTypes, CrashAllTypes, ExporterTypes, CheckTypes, HandlerTypes, RespondTypes DEF Next

LEMMA IngestStutter == IngestInv /\ UNCHANGED vars => IngestInv'
  BY DEF vars, IngestInv, StoreInv, StoreOK, CycleInv, Ensured, TableToClear, Expired, TypeOK, BatchInv

LEMMA IngestAlways == Spec => []IngestInv
<1>1. IngestInv /\ [Next]_vars => IngestInv'
  BY IngestStep, IngestStutter
<1> QED BY InitialIngest, <1>1, PTL DEF Spec

\* The clock, the partitions, the rows, the manager and the handlers have the values the
\* store and the ingest loops give them: no batch counts more rejected records than it has,
\* no partition is outside the months of the calendar.
THEOREM TypeCorrect == Spec => []TypeOK
<1>1. IngestInv => TypeOK
  BY DEF IngestInv
<1> QED BY IngestAlways, <1>1, PTL

-------------------------------------------------------------------------------
(* The lead time, with handlers at work.                                     *)

LEMMA HandlersLeave ==
    ASSUME IngestInv, Next
    PROVE  StoreNext \/ (UNCHANGED <<now, parts, mgr>> /\ faults' \in {faults, faults + 1})
BY DEF Next, StoreNext, CrashAll, Post, Retry, GiveUp, Check, Write, NoPartition, Respond,
       WriteFails, Unanswered, Fault, store

LEMMA LeadLeft ==
    ASSUME IngestInv, LeadInv, UNCHANGED <<now, parts, mgr>>, faults' \in {faults, faults + 1}
    PROVE  LeadInv'
<1>1. faults \in Nat
  BY DEF IngestInv, StoreInv, StoreOK
<1>2. SUFFICES ASSUME mgr.first # -1
               PROVE  mgr.pc # "off" /\ \E a \in Nat, f \in 0..faults' : Lead(a, f)'
  BY DEF LeadInv
<1>3. PICK a \in Nat, f \in 0..faults : Lead(a, f) /\ mgr.pc # "off"
  BY <1>2 DEF LeadInv
<1>4. Lead(a, f)'
  BY <1>3 DEF Lead, Covered, Expired, Due
<1> QED BY <1>1, <1>3, <1>4

\* If no retention is shorter than the ingest window, then whatever the handlers do,
\* whatever MaxFaults failures hit the statements of the manager, the inserts of the
\* handlers or the process, and however its cycles stall, every timestamp that
\* ts_in_window lets through has its partition in every table, from the month of the
\* first complete cycle on.
THEOREM PartitionsLead ==
    ASSUME \A t \in Tables : IngestWindow <= Retention[t]
    PROVE  Spec => []PartitionsAhead
<1>1. Init => LeadInv
  BY InitialLead DEF Init
<1>2. IngestInv /\ LeadInv /\ [Next]_vars => LeadInv'
  <2> SUFFICES ASSUME IngestInv, LeadInv, [Next]_vars PROVE LeadInv'
    OBVIOUS
  <2>1. CASE StoreNext
    BY <2>1, LeadStep DEF IngestInv
  <2>2. CASE UNCHANGED vars
    BY <2>2, LeadLeft DEF vars
  <2>3. CASE Next
    BY <2>1, <2>3, HandlersLeave, LeadLeft
  <2> QED BY <2>2, <2>3
<1>3. IngestInv /\ LeadInv => PartitionsAhead
  BY LeadAhead DEF IngestInv
<1> QED BY IngestAlways, <1>1, <1>2, <1>3, PTL DEF Spec

-------------------------------------------------------------------------------
(* What is acknowledged is kept.                                             *)

\* A row that goes had its retention.
LEMMA RowsGoExpired ==
    ASSUME IngestInv, Next, NEW t \in Tables, NEW y \in rows[t]
    PROVE  y \in rows'[t] \/ y.ts < now - Retention[t]
<1>1. CASE UNCHANGED rows
  BY <1>1
<1>2. CASE \E r \in Requests : Insert(r)
  BY <1>2, InsertTyped
<1>3. CASE \E m \in mgr.names : DropPartition(m)
  <2>1. PICK m \in mgr.names : DropPartition(m)
    BY <1>3
  <2>2. /\ TableToClear \in Tables /\ Expired(TableToClear, m)
        /\ rows' = [rows EXCEPT ![TableToClear] = {x \in @ : Month(x.ts) # m}]
    BY <2>1, TableOfStep DEF DropPartition, IngestInv, StoreInv, CycleInv
  <2>3. y \in rows'[t] \/ (t = TableToClear /\ Month(y.ts) = m)
    BY <2>2 DEF IngestInv, StoreInv, StoreOK
  <2>4. y.ts \in Int
    BY DEF IngestInv, StoreInv, StoreOK, Row
  <2>5. ASSUME Month(y.ts) = m, t = TableToClear PROVE y.ts < now - Retention[t]
    <3>1. y.ts < MonthEnd(m) /\ MonthEnd(m) \in Int
      <4>1. m \in Int /\ y.ts < MonthEnd(m)
        BY <2>4, <2>5, MonthBounds
      <4> QED BY <4>1, MonthEndIncreases
    <3>2. MonthEnd(m) <= now - Retention[t]
      BY <2>2, <2>5 DEF Expired
    <3>3. now \in Nat /\ Retention[t] \in Nat
      BY RetentionAssumption DEF IngestInv, StoreInv, StoreOK
    <3> QED BY <2>4, <3>1, <3>2, <3>3
  <2> QED BY <2>3, <2>5
<1> QED
  BY <1>1, <1>2, <1>3
  DEF Next, RunOnce, Boot, Wake, CreatePartition, CreateFails, ListPartitions, ListFails, EndDrops,
      DropFails, Crash, Tick, CrashAll, Post, Retry, GiveUp, Check, Write, NoPartition, Respond,
      WriteFails, Unanswered, store

LEMMA TimePasses ==
    ASSUME IngestInv, Next
    PROVE  now \in Nat /\ now' \in Nat /\ now <= now'
<1>1. now \in Nat /\ now' \in {now, now + 1}
  <2>1. CASE StoreNext
    BY <2>1 DEF StoreNext, RunOnce, Boot, Wake, CreatePartition, CreateFails, ListPartitions,
                ListFails, EndDrops, DropPartition, DropFails, Crash, Tick, IngestInv, StoreInv, StoreOK
  <2>2. CASE UNCHANGED now
    BY <2>2 DEF IngestInv, StoreInv, StoreOK
  <2> QED BY <2>1, <2>2, HandlersLeave
<1> QED BY <1>1

LEMMA StaysStored ==
    ASSUME IngestInv, Next, NEW t \in Tables, NEW ts \in Int, NEW payload, Stored(t, ts, payload)
    PROVE  Stored(t, ts, payload)'
<1>1. SUFFICES ASSUME ts >= now' - Retention[t]
               PROVE  \E y \in rows'[t] : y.ts = ts /\ y.payload = payload
  BY DEF Stored
<1>2. ts >= now - Retention[t]
  BY <1>1, TimePasses, RetentionAssumption
<1>3. PICK y \in rows[t] : y.ts = ts /\ y.payload = payload
  BY <1>2 DEF Stored
<1>4. ~ (ts < now - Retention[t])
  BY <1>2, TimePasses, RetentionAssumption
<1> QED BY <1>3, <1>4, RowsGoExpired

LEMMA InsertStores ==
    ASSUME IngestInv, NEW r \in Requests, Insert(r), NEW t, t = req[r].table,
           NEW x \in req[r].accepted
    PROVE  Stored(t, x.ts, x.payload)'
<1> DEFINE copy == IF t \in Keyed THEN 0
                   ELSE Cardinality({y \in rows[t] : y.ts = x.ts /\ y.payload = x.payload})
           y0 == [ts |-> x.ts, payload |-> x.payload, copy |-> copy]
<1>1. y0 \in RowsOf(t, req[r].accepted)
  BY DEF RowsOf
<1>2. y0.ts = x.ts /\ y0.payload = x.payload
  <2> HIDE DEF copy
  <2> QED OBVIOUS
<1>3. y0 \in rows'[t]
  BY <1>1, InsertTyped
<1> HIDE DEF y0
<1> QED BY <1>2, <1>3 DEF Stored

\* Steps of other requests, and of the rest, leave a handler where it is.
LEMMA OnlyWriteWrites ==
    ASSUME IngestInv, Next, NEW r \in Requests, req'[r].pc = "written", req'[r] # req[r]
    PROVE  Write(r)
<1>0. req \in [Requests -> Request]
  BY DEF IngestInv, TypeOK
<1>1. ASSUME NEW s \in Requests, NEW y, req' = [req EXCEPT ![s] = y] PROVE s = r /\ y.pc = "written"
  BY <1>0, <1>1
<1>2. CASE UNCHANGED req
  BY <1>2
<1>3. CASE CrashAll
  <2>1. CASE req[r].pc \in InServer
    <3>1. req'[r] = [req[r] EXCEPT !.pc = "unavailable"]
      BY <1>3, <2>1 DEF CrashAll
    <3> QED BY <1>0, <3>1 DEF Request
  <2>2. CASE req[r].pc \notin InServer
    BY <1>3, <2>2 DEF CrashAll
  <2> QED BY <2>1, <2>2
<1>4. ASSUME NEW s \in Requests, NEW pc \in {"unavailable", "written"}, req' = [req EXCEPT ![s].pc = pc]
      PROVE  s = r /\ pc = "written"
  <2>1. PICK y : y = [req[s] EXCEPT !.pc = pc]
    OBVIOUS
  <2>2. req' = [req EXCEPT ![s] = y] /\ y.pc = pc
    BY <1>0, <1>4, <2>1 DEF Request
  <2> QED BY <1>1, <2>2
<1>5. ASSUME NEW s \in Requests, NoPartition(s) \/ WriteFails(s) \/ Unanswered(s) PROVE FALSE
  BY <1>4, <1>5 DEF NoPartition, WriteFails, Unanswered
<1>6. ASSUME NEW s \in Requests, Write(s) PROVE s = r
  BY <1>4, <1>6 DEF Write
<1>7. ASSUME NEW s \in Requests, NEW t \in Tables, NEW batch \in Batches, Post(s, t, batch) PROVE FALSE
  <2>1. PICK y : y = [Idle EXCEPT !.pc = "posted", !.table = t, !.batch = batch]
    OBVIOUS
  <2>2. y.pc = "posted"
    BY <2>1, IdleFields DEF Request
  <2> QED BY <1>1, <1>7, <2>1, <2>2 DEF Post
<1>8. ASSUME NEW s \in Requests, Retry(s) PROVE FALSE
  <2>1. PICK y : y = [Idle EXCEPT !.pc = "posted", !.table = req[s].table, !.batch = req[s].batch]
    OBVIOUS
  <2>2. y.pc = "posted"
    BY <2>1, IdleFields DEF Request
  <2> QED BY <1>1, <1>8, <2>1, <2>2 DEF Retry
<1>9. ASSUME NEW s \in Requests, GiveUp(s) \/ Respond(s) PROVE FALSE
  BY <1>1, <1>9, IdleFields DEF GiveUp, Respond
<1>10. ASSUME NEW s \in Requests, Check(s) PROVE FALSE
  <2>1. PICK y : y = req'[s]
    OBVIOUS
  <2>2. y.pc = "checked" /\ \A q \in Requests : q # s => req'[q] = req[q]
    BY <1>0, <1>10, <2>1 DEF Check, Request
  <2> QED BY <2>1, <2>2
<1> QED BY <1>2, <1>3, <1>5, <1>6, <1>7, <1>8, <1>9, <1>10 DEF Next

LEMMA KeptStep ==
    ASSUME IngestInv, KeptInv, Next
    PROVE  KeptInv'
<1>1. ASSUME NEW a \in acked' PROVE Stored(a.table, a.ts, a.payload)'
  <2>1. CASE a \in acked
    BY <2>1, StaysStored DEF KeptInv, IngestInv, TypeOK
  <2>2. CASE a \notin acked
    <3>1. PICK r \in Requests : Respond(r)
      BY <1>1, <2>2 DEF Next, RunOnce, Boot, Wake, CreatePartition, CreateFails, ListPartitions,
            ListFails, EndDrops, DropPartition, DropFails, Crash, Tick, CrashAll, Post, Retry, GiveUp,
            Check, Write, NoPartition, WriteFails, Unanswered, store
    <3>2. PICK x \in req[r].accepted : a = [table |-> req[r].table, ts |-> x.ts, payload |-> x.payload]
      BY <1>1, <2>2, <3>1 DEF Respond
    <3>3. req[r].table \in Tables /\ x.ts \in Int
      <4>1. req[r] \in Request
        BY DEF IngestInv, TypeOK
      <4>2. x \in Record
        BY <4>1, HandlerFields
      <4> QED BY <4>1, <4>2, HandlerFields DEF Record
    <3>4. Stored(req[r].table, x.ts, x.payload)
      BY <3>1 DEF Respond, KeptInv
    <3>5. a.table = req[r].table /\ a.ts = x.ts /\ a.payload = x.payload
      BY <3>2
    <3> QED BY <3>3, <3>4, <3>5, StaysStored
  <2> QED BY <2>1, <2>2
<1>2. ASSUME NEW r \in Requests, req'[r].pc = "written", NEW x \in req'[r].accepted
      PROVE  Stored(req[r].table, x.ts, x.payload)'
  <2>0. req \in [Requests -> Request] /\ req[r] \in Request
    BY DEF IngestInv, TypeOK
  <2>1. CASE req'[r] = req[r]
    <3>1. req[r].table \in Tables /\ x.ts \in Int
      <4>1. x \in Record
        BY <1>2, <2>0, <2>1, HandlerFields
      <4> QED BY <2>0, <4>1, HandlerFields DEF Record
    <3>2. Stored(req[r].table, x.ts, x.payload)
      BY <1>2, <2>1 DEF KeptInv
    <3>3. PICK t \in Tables : t = req[r].table
      BY <3>1
    <3>4. Stored(t, x.ts, x.payload)'
      BY <3>1, <3>2, <3>3, StaysStored
    <3> QED BY <2>1, <3>3, <3>4 DEF Stored
  <2>2. CASE req'[r] # req[r]
    <3>1. Write(r)
      BY <1>2, <2>2, OnlyWriteWrites
    <3>2. PICK y \in Request : /\ req' = [req EXCEPT ![r] = y]
                               /\ y.table = req[r].table /\ y.accepted = req[r].accepted
      BY <3>1, MovedTo DEF Write, InServer
    <3>3. req'[r] = y
      BY <2>0, <3>2
    <3>4. PICK t \in Tables : t = req[r].table
      BY <2>0, HandlerFields
    <3>5. Stored(t, x.ts, x.payload)'
      BY <1>2, <3>1, <3>2, <3>3, <3>4, InsertStores DEF Write
    <3> QED BY <3>2, <3>3, <3>4, <3>5 DEF Stored
  <2> QED BY <2>1, <2>2
<1> QED BY <1>1, <1>2 DEF KeptInv

\* What an exporter was told is accepted is in its table until the retention of the table
\* is over, for any number of handlers: whatever drop_old_partitions removed, whenever a
\* handler got around to its INSERT, and however often it was retried or cut off.
THEOREM KeptUntilExpired == Spec => []AckedUntilExpired
<1>1. Init => KeptInv
  BY IdleFields DEF Init, KeptInv
<1>2. IngestInv /\ KeptInv /\ [Next]_vars => KeptInv'
  <2>1. IngestInv /\ KeptInv /\ UNCHANGED vars => KeptInv'
    BY DEF vars, KeptInv, Stored
  <2> QED BY <2>1, KeptStep
<1>3. KeptInv => AckedUntilExpired
  BY DEF KeptInv, Stored, AckedUntilExpired
<1> QED BY IngestAlways, <1>1, <1>2, <1>3, PTL DEF Spec

-------------------------------------------------------------------------------
(* What is expired goes.                                                     *)

\* A row is in one of the partitions of its table.
RowsInv == \A t \in Tables : \A x \in rows[t] : Month(x.ts) \in parts[t]

LEMMA InsertInParts ==
    ASSUME IngestInv, RowsInv, NEW r \in Requests, Insert(r), UNCHANGED parts
    PROVE  RowsInv'
<1> DEFINE t == req[r].table
           new == RowsOf(t, req[r].accepted)
<1>1. /\ req[r] \in Request /\ t \in Tables /\ rows \in [Tables -> SUBSET Row]
      /\ rows' = [rows EXCEPT ![t] = rows[t] \cup new]
  BY HandlerFields DEF Insert, IngestInv, TypeOK, StoreInv, StoreOK
<1>2. ASSUME NEW x \in new PROVE Month(x.ts) \in parts[t]
  <2>1. PICK y \in req[r].accepted : x.ts = y.ts
    <3> DEFINE copy(y) == IF t \in Keyed THEN 0
                          ELSE Cardinality({z \in rows[t] : z.ts = y.ts /\ z.payload = y.payload})
    <3>1. PICK y \in req[r].accepted : x = [ts |-> y.ts, payload |-> y.payload, copy |-> copy(y)]
      BY <1>2 DEF RowsOf
    <3> HIDE DEF copy
    <3> QED BY <3>1
  <2> QED BY <2>1 DEF Insert, HavePartitions
<1> HIDE DEF new, t
<1> QED BY <1>1, <1>2 DEF RowsInv

LEMMA StoreInParts ==
    ASSUME IngestInv, RowsInv, StoreNext
    PROVE  RowsInv'
<1>1. rows \in [Tables -> SUBSET Row] /\ parts \in [Tables -> SUBSET Months]
  BY DEF IngestInv, StoreInv, StoreOK
<1>2. CASE \E m \in mgr.names : DropPartition(m)
  <2>1. PICK m \in mgr.names : DropPartition(m)
    BY <1>2
  <2>2. /\ parts' = [parts EXCEPT ![TableToClear] = @ \ {m}]
        /\ rows' = [rows EXCEPT ![TableToClear] = {x \in @ : Month(x.ts) # m}]
    BY <2>1 DEF DropPartition
  <2> QED BY <1>1, <2>2 DEF RowsInv
<1>3. CASE CreatePartition
  <2>1. UNCHANGED rows /\ \A t \in Tables : parts[t] \subseteq parts'[t]
    BY <1>1, <1>3, TableOfStep DEF CreatePartition, IngestInv
  <2> QED BY <2>1 DEF RowsInv
<1>4. CASE UNCHANGED <<rows, parts>>
  BY <1>4 DEF RowsInv
<1> QED
  BY <1>2, <1>3, <1>4 DEF StoreNext, RunOnce, Boot, Wake, CreateFails, ListPartitions, ListFails,
                          EndDrops, DropFails, Crash, Tick

LEMMA RowsStep ==
    ASSUME IngestInv, RowsInv, Next
    PROVE  RowsInv'
<1>1. CASE StoreNext
  BY <1>1, StoreInParts
<1>2. CASE UNCHANGED <<rows, parts>>
  BY <1>2 DEF RowsInv
<1>3. CASE UNCHANGED parts /\ \E r \in Requests : Insert(r)
  BY <1>3, InsertInParts
<1> QED
  BY <1>1, <1>2, <1>3 DEF Next, StoreNext, CrashAll, Post, Retry, GiveUp, Check, Write, NoPartition,
                          Respond, WriteFails, Unanswered, store

LEMMA AgeLeft ==
    ASSUME IngestInv, AgeInv, UNCHANGED <<now, parts, mgr>>, faults' \in {faults, faults + 1}
    PROVE  AgeInv'
<1>1. faults' = 0 => faults = 0
  BY DEF IngestInv, StoreInv, StoreOK
<1> QED BY <1>1 DEF AgeInv, Fresh, ListedAfter, Cleared, TableToClear

\* Retention is a promise to forget as well: as long as nothing has failed and the process
\* runs, no row of any table is older than the retention of that table by more than a
\* month, a cycle of run_partition_manager and two stalls, and that although a handler may
\* take its time between ts_in_window and its INSERT.
THEOREM ExpiredGoes == Spec => []ExpiredDataGoes
<1>1. Init => AgeInv /\ RowsInv
  BY InitialAge DEF Init, StoreInit, RowsInv
<1>2. IngestInv /\ AgeInv /\ RowsInv /\ [Next]_vars => (AgeInv /\ RowsInv)'
  <2> SUFFICES ASSUME IngestInv, AgeInv, RowsInv, [Next]_vars PROVE AgeInv' /\ RowsInv'
    OBVIOUS
  <2>1. CASE UNCHANGED vars
    BY <2>1, AgeLeft DEF vars, RowsInv
  <2>2. CASE Next
    <3>1. AgeInv'
      BY <2>2, HandlersLeave, AgeStep, AgeLeft DEF IngestInv
    <3> QED BY <2>2, <3>1, RowsStep
  <2> QED BY <2>1, <2>2
<1>3. IngestInv /\ AgeInv /\ RowsInv => ExpiredDataGoes
  <2> SUFFICES ASSUME IngestInv, AgeInv, RowsInv, faults = 0, Up, NEW t \in Tables, NEW x \in rows[t]
               PROVE  now - x.ts <= Retention[t] + MonthLength + Period + 2 * MaxStall
    BY DEF ExpiredDataGoes
  <2> DEFINE m == Month(x.ts)
             a == m * MonthLength
  <2>1. m \in parts[t] /\ x.ts \in Int /\ now \in Nat /\ Retention[t] \in Nat
    BY RetentionAssumption DEF RowsInv, IngestInv, StoreInv, StoreOK, Row
  <2>2. m \in Int /\ a <= x.ts
    BY <2>1, MonthBounds
  <2>3. now < MonthEnd(m) + Retention[t] + Period + 2 * MaxStall
    <3> HIDE DEF m
    <3> QED BY <2>1, AgeBound DEF IngestInv
  <2>4. MonthEnd(m) = a + MonthLength /\ a \in Int
    <3> HIDE DEF m
    <3> QED BY <2>2, TimeAssumption DEF MonthEnd
  <2> HIDE DEF m, a
  <2> QED BY <2>1, <2>2, <2>3, <2>4, TimeAssumption
<1> QED BY IngestAlways, <1>1, <1>2, <1>3, PTL DEF Spec
===============================================================================
