----------------------------- MODULE Alerts_proofs -----------------------------
(***************************************************************************)
(* What the alert evaluator does, proved for any set of rules and configs  *)
(* and any number of faults, edits and restarts: the tables stay together, *)
(* and a single evaluator implements AlertLifecycle, announces only what   *)
(* happened and fires a rule only when it is due.                          *)
(***************************************************************************)
EXTENDS Alerts, WellFoundedInduction, TLAPS

-------------------------------------------------------------------------------
(* Tables and the snapshots of them.                                         *)

LEMMA TableElements ==
    ASSUME NEW R, NEW f
    PROVE  f \in Table(R) <=>
              /\ f = [i \in DOMAIN f |-> f[i]]
              /\ DOMAIN f \subseteq Ids
              /\ \A i \in DOMAIN f : f[i] \in R
  BY DEF Table

LEMMA WithInTable ==
    ASSUME NEW R, NEW f \in Table(R), NEW i \in Ids, NEW v \in R
    PROVE  With(f, i, v) \in Table(R)
<1>1. DOMAIN f \subseteq Ids /\ \A j \in DOMAIN f : f[j] \in R
  BY TableElements
<1>2. DOMAIN With(f, i, v) = DOMAIN f \cup {i}
  BY DEF With
<1>3. \A j \in DOMAIN With(f, i, v) : With(f, i, v)[j] \in R
  BY <1>1 DEF With
<1>4. With(f, i, v) = [j \in DOMAIN With(f, i, v) |-> With(f, i, v)[j]]
  BY DEF With
<1> QED BY <1>1, <1>2, <1>3, <1>4, TableElements

LEMMA WithoutInTable ==
    ASSUME NEW R, NEW f \in Table(R), NEW i
    PROVE  Without(f, i) \in Table(R)
<1>1. DOMAIN f \subseteq Ids /\ \A j \in DOMAIN f : f[j] \in R
  BY TableElements
<1>2. DOMAIN Without(f, i) = DOMAIN f \ {i}
  BY DEF Without
<1>3. \A j \in DOMAIN Without(f, i) : Without(f, i)[j] \in R
  BY <1>1 DEF Without
<1>4. Without(f, i) = [j \in DOMAIN Without(f, i) |-> Without(f, i)[j]]
  BY DEF Without
<1> QED BY <1>1, <1>2, <1>3, <1>4, TableElements

LEMMA NothingInTable ==
    ASSUME NEW R
    PROVE  NothingTodo \in Table(R)
<1>1. DOMAIN NothingTodo = {}
  BY DEF NothingTodo
<1>2. NothingTodo = [i \in DOMAIN NothingTodo |-> NothingTodo[i]]
  BY DEF NothingTodo
<1> QED BY <1>1, <1>2, TableElements

\* The ids are natural numbers, so that a snapshot has a first one.
LEMMA FirstId ==
    ASSUME NEW S \in SUBSET Ids, S # {}
    PROVE  Min(S) \in S
<1>1. S \subseteq Nat
  BY IdsAssumption
<1>2. PICK x \in S : \A y \in S : ~ (<<y, x>> \in OpToRel(<, Nat))
  BY <1>1, NatLessThanWellFounded, WFMin
<1>3. OpToRel(<, Nat) = {p \in Nat \X Nat : p[1] < p[2]}
  BY DEF OpToRel
<1>4. \A y \in S : ~ (y < x)
  BY <1>1, <1>2, <1>3
<1>5. \A y \in S : x <= y
  <2>1. x \in Nat /\ \A y \in S : y \in Nat
    BY <1>1
  <2>2. \A m, n \in Nat : ~ (m < n) => n <= m
    OBVIOUS
  <2> QED BY <1>4, <2>1, <2>2, Zenon
<1> QED BY <1>5 DEF Min

-------------------------------------------------------------------------------
(* Types.  An evaluator that is in the middle of a rule has one in its       *)
(* snapshot.                                                                 *)

Busy == Timed \cup {"notify", "mark"}

Located(x) == x \in Evaluator /\ (x.pc \in Busy => DOMAIN x.todo # {})

EvInv == ev \in [Evaluators -> Evaluator] /\ \A e \in Evaluators : Located(ev[e])

TypeInv == TypeOK /\ EvInv

LEMMA Moved ==
    ASSUME EvInv, NEW e \in Evaluators, NEW x, Located(x), ev' = [ev EXCEPT ![e] = x]
    PROVE  EvInv'
  BY DEF EvInv, Located

LEMMA AsleepLocated == Located(Asleep)
<1>1. NothingTodo \in Table(Rule)
  BY NothingInTable
<1>2. NothingRead \in [state : States, age : Ages]
  BY AgeAssumption DEF NothingRead, States, Ages
<1>3. 0 \in 0..MaxLag
  BY AgeAssumption
<1> QED BY <1>1, <1>2, <1>3 DEF Asleep, Located, Evaluator, Busy, Timed

LEMMA CurrentOne ==
    ASSUME EvInv, NEW e \in Evaluators, ev[e].pc \in Busy
    PROVE  /\ CurrentId(e) \in DOMAIN ev[e].todo
           /\ CurrentId(e) \in Ids
           /\ RuleOf(e) \in Rule
<1>1. ev[e].todo \in Table(Rule) /\ DOMAIN ev[e].todo # {}
  BY DEF EvInv, Located, Evaluator
<1>2. DOMAIN ev[e].todo \subseteq Ids /\ \A i \in DOMAIN ev[e].todo : ev[e].todo[i] \in Rule
  BY <1>1, TableElements
<1>3. CurrentId(e) \in DOMAIN ev[e].todo
  BY <1>1, <1>2, FirstId DEF CurrentId
<1> QED BY <1>2, <1>3 DEF RuleOf

LEMMA DoneLocated ==
    ASSUME EvInv, NEW e \in Evaluators
    PROVE  Located(Done(e))
<1>1. Without(ev[e].todo, CurrentId(e)) \in Table(Rule)
  BY WithoutInTable DEF EvInv, Evaluator
<1> DEFINE t == Without(ev[e].todo, CurrentId(e))
<1>2. Done(e) = [Asleep EXCEPT !.pc = "next", !.todo = t]
  BY DEF Done
<1> HIDE DEF t
<1> QED BY <1>1, <1>2, AsleepLocated DEF t, Asleep, Located, Evaluator, Busy, Timed

LEMMA InitialTypes == Init => TypeInv
<1> SUFFICES ASSUME Init PROVE TypeInv
  OBVIOUS
<1>1. \A e \in Evaluators : ev[e] = Asleep
  BY DEF Init
<1>2. EvInv
  BY <1>1, AsleepLocated DEF Init, EvInv, Located
<1>3. rules \in Table(Rule) /\ state \in Table(Row)
  BY NothingInTable DEF Init
<1> QED BY <1>2, <1>3, EditAssumption DEF Init, TypeInv, TypeOK, EvInv

\* The handlers of the rules API.
LEMMA ApiTypes ==
    ASSUME TypeInv,
           (\E r \in Rule : CreateRule(r)) \/ (\E i \in Ids, r \in Rule : UpdateRule(i, r))
              \/ (\E i \in Ids : DeleteRule(i))
    PROVE  TypeInv'
<1>1. CASE \E r \in Rule : CreateRule(r)
  <2> PICK r \in Rule : CreateRule(r)
    BY <1>1
  <2>1. rules' \in Table(Rule)
    BY WithInTable DEF CreateRule, TypeInv, TypeOK
  <2> QED BY <2>1 DEF CreateRule, TypeInv, TypeOK, EvInv, ghosts, world
<1>2. CASE \E i \in Ids, r \in Rule : UpdateRule(i, r)
  <2> PICK i \in Ids, r \in Rule : UpdateRule(i, r)
    BY <1>2
  <2>1. rules' \in Table(Rule)
    BY WithInTable DEF UpdateRule, TypeInv, TypeOK
  <2>2. edits' \in 0..MaxEdits
    BY EditAssumption DEF UpdateRule, TypeInv, TypeOK
  <2> QED BY <2>1, <2>2 DEF UpdateRule, TypeInv, TypeOK, EvInv, ghosts
<1>3. CASE \E i \in Ids : DeleteRule(i)
  <2> PICK i \in Ids : DeleteRule(i)
    BY <1>3
  <2>1. rules' \in Table(Rule) /\ state' \in Table(Row)
    BY WithoutInTable DEF DeleteRule, StateWithoutRule, TypeInv, TypeOK
  <2>2. streak' \in [Ids -> Ages \cup {-1}]
    BY DEF DeleteRule, TypeInv, TypeOK
  <2> QED BY <2>1, <2>2 DEF DeleteRule, TypeInv, TypeOK, EvInv, world
<1> QED BY <1>1, <1>2, <1>3

\* Steps that only move one evaluator on (and count a fault).
LEMMA MoveTypes ==
    ASSUME TypeInv, NEW e \in Evaluators, NEW x, Located(x),
           ev' = [ev EXCEPT ![e] = x], UNCHANGED <<tables, ghosts, world>>,
           Fault \/ UNCHANGED faults
    PROVE  TypeInv'
<1>1. EvInv'
  BY Moved DEF TypeInv
<1>2. faults' \in 0..MaxFaults
  BY EditAssumption DEF Fault, TypeInv, TypeOK
<1> QED BY <1>1, <1>2 DEF TypeInv, TypeOK, EvInv, tables, ghosts, world

LEMMA QuietTypes ==
    ASSUME TypeInv, NEW e \in Evaluators,
           \/ LoadRules(e) \/ EndPass(e) \/ StartRule(e) \/ Evaluate(e) \/ CountFails(e)
           \/ ReadState(e) \/ RuleIsGone(e) \/ CallFails(e) \/ Restart(e)
    PROVE  TypeInv'
<1> USE DEF TypeInv
<1>e. ev \in [Evaluators -> Evaluator] /\ Located(ev[e])
  BY DEF EvInv
<1>1. CASE LoadRules(e)
  <2> DEFINE enabled == {i \in DOMAIN rules : rules[i].enabled}
             t == [i \in enabled |-> rules[i]]
             x == [ev[e] EXCEPT !.pc = "next", !.todo = t]
  <2>1. t \in Table(Rule)
    <3>1. DOMAIN rules \subseteq Ids /\ \A i \in DOMAIN rules : rules[i] \in Rule
      BY TableElements DEF TypeOK
    <3>2. DOMAIN t \subseteq Ids /\ \A i \in DOMAIN t : t[i] \in Rule
      BY <3>1
    <3>3. t = [i \in DOMAIN t |-> t[i]]
      OBVIOUS
    <3> HIDE DEF t
    <3> QED BY <3>2, <3>3, TableElements
  <2>2. ev' = [ev EXCEPT ![e] = x]
    BY <1>1, <1>e DEF LoadRules
  <2> HIDE DEF t
  <2>3. Located(x)
    BY <1>e, <2>1 DEF Located, Evaluator, Busy, Timed
  <2> HIDE DEF x
  <2> QED BY <1>1, <2>2, <2>3, MoveTypes DEF LoadRules
<1>2. CASE EndPass(e)
  BY <1>2, AsleepLocated, MoveTypes DEF EndPass
<1>3. CASE StartRule(e)
  <2> DEFINE x == [ev[e] EXCEPT !.pc = "evaluate"]
  <2>1. ev' = [ev EXCEPT ![e] = x]
    BY <1>3, <1>e DEF StartRule
  <2>2. Located(x)
    BY <1>3, <1>e DEF StartRule, Located, Evaluator, Busy, Timed
  <2> HIDE DEF x
  <2> QED BY <1>3, <2>1, <2>2, MoveTypes DEF StartRule
<1>4. CASE Evaluate(e)
  <2> DEFINE x == [ev[e] EXCEPT !.pc = "read", !.met = holds[RuleOf(e).config]]
  <2>1. ev' = [ev EXCEPT ![e] = x]
    BY <1>4, <1>e DEF Evaluate
  <2>2. RuleOf(e) \in Rule
    BY <1>4, CurrentOne DEF Evaluate, Busy, Timed
  <2>3. holds[RuleOf(e).config] \in BOOLEAN
    BY <2>2 DEF TypeOK, Rule
  <2>4. Located(x)
    BY <1>4, <1>e, <2>3 DEF Evaluate, Located, Evaluator, Busy, Timed
  <2> HIDE DEF x
  <2> QED BY <1>4, <2>1, <2>4, MoveTypes DEF Evaluate
<1>5. CASE CountFails(e)
  BY <1>5, DoneLocated, MoveTypes DEF CountFails
<1>6. CASE ReadState(e)
  <2> DEFINE i == CurrentId(e)
             d == IF i \in DOMAIN state
                  THEN [state |-> state[i].state, age |-> state[i].age]
                  ELSE [NothingRead EXCEPT !.age = ev[e].lag]
             x == [ev[e] EXCEPT !.pc = "upsert", !.read = d]
  <2>1. ev' = [ev EXCEPT ![e] = x]
    BY <1>6, <1>e DEF ReadState
  <2>2. d \in [state : States, age : Ages]
    <3>1. \A j \in DOMAIN state : state[j] \in Row
      BY TableElements DEF TypeOK
    <3>2. ev[e].lag \in Ages
      BY <1>e, AgeAssumption DEF Located, Evaluator, Ages
    <3> HIDE DEF i
    <3> QED BY <3>1, <3>2 DEF Row, NothingRead, States
  <2> HIDE DEF d
  <2>3. Located(x)
    BY <1>6, <1>e, <2>2 DEF ReadState, Located, Evaluator, Busy, Timed
  <2> HIDE DEF x
  <2> QED BY <1>6, <2>1, <2>3, MoveTypes DEF ReadState
<1>7. CASE RuleIsGone(e)
  BY <1>7, DoneLocated, MoveTypes DEF RuleIsGone
<1>8. CASE CallFails(e)
  BY <1>8, DoneLocated, MoveTypes DEF CallFails
<1>9. CASE Restart(e)
  BY <1>9, AsleepLocated, MoveTypes DEF Restart
<1> QED BY <1>1, <1>2, <1>3, <1>4, <1>5, <1>6, <1>7, <1>8, <1>9

\* An evaluation ends in one of the three states.
LEMMA EvaluatedState ==
    ASSUME TypeInv, NEW e \in Evaluators
    PROVE  Evaluated(e) \in States
<1>1. ev[e].read.state \in States /\ ev[e].met \in BOOLEAN
  BY DEF TypeInv, EvInv, Evaluator
<1> QED BY <1>1 DEF Evaluated, NewState, States

LEMMA StoreTypes ==
    ASSUME TypeInv, NEW e \in Evaluators, StoreRow(e)
    PROVE  /\ CurrentId(e) \in Ids
           /\ state' \in Table(Row)
           /\ owed' \in [Ids -> {"none", "firing", "resolved"}]
           /\ streak' \in [Ids -> Ages \cup {-1}]
<1> DEFINE i == CurrentId(e)
           told == i \in DOMAIN state /\ state[i].notified
           row == [state |-> Evaluated(e), age |-> Since(ev[e], Evaluated(e)), notified |-> told]
<1>1. ev[e] \in Evaluator /\ i \in Ids
  BY CurrentOne DEF StoreRow, TypeInv, EvInv, Busy, Timed
<1>2. ev[e].lag \in Ages /\ ev[e].read.age \in Ages
  BY <1>1, AgeAssumption DEF Evaluator, Ages
<1>3. Since(ev[e], Evaluated(e)) \in Ages
  BY <1>2 DEF Since
<1>4. told \in BOOLEAN
  <2>1. \A j \in DOMAIN state : state[j] \in Row
    BY TableElements DEF TypeInv, TypeOK
  <2> QED BY <2>1 DEF Row
<1>5. row \in Row
  <2> HIDE DEF told
  <2> QED BY <1>3, <1>4, EvaluatedState DEF Row
<1>6. state' = With(state, i, row)
  BY DEF StoreRow
<1>7. state' \in Table(Row)
  <2> HIDE DEF row, i
  <2> QED BY <1>1, <1>5, <1>6, WithInTable DEF TypeInv, TypeOK
<1>8. RowNews(i, Evaluated(e), RuleOf(e).hook) \in {"none", "firing", "resolved"}
  BY <1>1 DEF RowNews, TypeInv, TypeOK
<1>9. owed' \in [Ids -> {"none", "firing", "resolved"}]
  <2>1. owed' = [owed EXCEPT ![i] = RowNews(i, Evaluated(e), RuleOf(e).hook)]
    BY DEF StoreRow
  <2> QED BY <1>8, <2>1 DEF TypeInv, TypeOK
<1>10. streak' \in [Ids -> Ages \cup {-1}]
  BY <1>1, <1>2 DEF StoreRow, TypeInv, TypeOK
<1> QED BY <1>1, <1>7, <1>9, <1>10

LEMMA UpsertTypes ==
    ASSUME TypeInv, NEW e \in Evaluators, Upsert(e) \/ UpsertUnanswered(e)
    PROVE  TypeInv'
<1>1. StoreRow(e) /\ EvInv /\ Located(ev[e]) /\ ev[e].pc \in Busy
  BY DEF Upsert, UpsertUnanswered, StoreRow, TypeInv, EvInv, Busy, Timed
<1>2. \E x : Located(x) /\ ev' = [ev EXCEPT ![e] = x]
  <2>1. CASE UpsertUnanswered(e)
    BY <1>1, <2>1, DoneLocated DEF UpsertUnanswered
  <2>2. CASE Upsert(e)
    <3> DEFINE news == News(ev[e].read.state, Evaluated(e))
               x == [Asleep EXCEPT !.pc = "notify", !.todo = ev[e].todo, !.news = news]
    <3>1. news \in {"none", "firing", "resolved"}
      BY DEF News
    <3> HIDE DEF news
    <3>2. Located(x)
      BY <1>1, <3>1, AsleepLocated DEF Located, Evaluator, Asleep, Busy, Timed
    <3>3. ev' = [ev EXCEPT ![e] = x] \/ ev' = [ev EXCEPT ![e] = Done(e)]
      BY <2>2 DEF Upsert, news
    <3> HIDE DEF x
    <3> QED BY <1>1, <3>2, <3>3, DoneLocated
  <2> QED BY <2>1, <2>2
<1>3. EvInv'
  BY <1>1, <1>2, Moved
<1>4. faults' \in 0..MaxFaults
  BY EditAssumption DEF Upsert, UpsertUnanswered, Fault, TypeInv, TypeOK
<1>5. UNCHANGED <<rules, nextId, world>>
  BY DEF Upsert, UpsertUnanswered
<1> QED BY <1>1, <1>3, <1>4, <1>5, StoreTypes DEF TypeInv, TypeOK, EvInv, world

LEMMA NotifyTypes ==
    ASSUME TypeInv, NEW e \in Evaluators, SendWebhook(e) \/ MarkNotified(e)
    PROVE  TypeInv'
<1>e. EvInv /\ ev \in [Evaluators -> Evaluator] /\ Located(ev[e])
  BY DEF TypeInv, EvInv
<1>1. CASE SendWebhook(e)
  <2> DEFINE x == [ev[e] EXCEPT !.pc = "mark"]
  <2>1. ev' = [ev EXCEPT ![e] = x]
    BY <1>1, <1>e DEF SendWebhook
  <2>2. Located(x)
    BY <1>1, <1>e DEF SendWebhook, Located, Evaluator, Busy, Timed
  <2> HIDE DEF x
  <2>3. EvInv'
    BY <1>e, <2>1, <2>2, Moved
  <2> QED BY <1>1, <2>3 DEF SendWebhook, tables, world, TypeInv, TypeOK, EvInv
<1>2. CASE MarkNotified(e)
  <2> DEFINE i == CurrentId(e)
             rows == [j \in DOMAIN state |-> IF j = i THEN [state[j] EXCEPT !.notified = TRUE]
                                                     ELSE state[j]]
  <2>1. EvInv'
    BY <1>2, <1>e, DoneLocated, Moved DEF MarkNotified
  <2>2. rows \in Table(Row)
    <3>1. DOMAIN state \subseteq Ids /\ \A j \in DOMAIN state : state[j] \in Row
      BY TableElements DEF TypeInv, TypeOK
    <3>2. DOMAIN rows \subseteq Ids /\ \A j \in DOMAIN rows : rows[j] \in Row
      BY <3>1 DEF Row
    <3>3. rows = [j \in DOMAIN rows |-> rows[j]]
      OBVIOUS
    <3> HIDE DEF rows
    <3> QED BY <3>2, <3>3, TableElements
  <2> QED BY <1>2, <2>1, <2>2 DEF MarkNotified, ghosts, world, TypeInv, TypeOK, EvInv
<1> QED BY <1>1, <1>2

LEMMA OlderInAges ==
    ASSUME NEW a \in Ages
    PROVE  Older(a) \in Ages
  BY AgeAssumption DEF Older, Ages

LEMMA TickTypes ==
    ASSUME TypeInv, Tick
    PROVE  TypeInv'
<1>1. state' \in Table(Row)
  <2> DEFINE rows == [i \in DOMAIN state |-> [state[i] EXCEPT !.age = Older(@)]]
  <2>1. DOMAIN state \subseteq Ids /\ \A j \in DOMAIN state : state[j] \in Row
    BY TableElements DEF TypeInv, TypeOK
  <2>2. \A j \in DOMAIN state : Older(state[j].age) \in Ages
    BY <2>1, OlderInAges DEF Row
  <2>3. DOMAIN rows \subseteq Ids /\ \A j \in DOMAIN rows : rows[j] \in Row
    BY <2>1, <2>2 DEF Row
  <2>4. rows = [j \in DOMAIN rows |-> rows[j]]
    OBVIOUS
  <2>5. state' = rows
    BY DEF Tick
  <2> HIDE DEF rows
  <2> QED BY <2>3, <2>4, <2>5, TableElements
<1>2. \A e \in Evaluators : Located(ev'[e])
  <2> TAKE e \in Evaluators
  <2>1. Located(ev[e]) /\ ev[e] \in Evaluator
    BY DEF TypeInv, EvInv
  <2>2. CASE ev[e].pc = "upsert"
    <3>1. ev[e].lag + 1 \in 0..MaxLag
      <4>1. ev[e].lag < MaxLag
        BY <2>2 DEF Tick, Timed
      <4>2. ev[e].lag \in 0..MaxLag
        BY <2>1 DEF Evaluator
      <4> QED BY <4>1, <4>2, AgeAssumption
    <3>2. Older(ev[e].read.age) \in Ages
      BY <2>1, OlderInAges DEF Evaluator
    <3>3. ev'[e] = [ev[e] EXCEPT !.lag = @ + 1, !.read.age = Older(@)]
      BY <2>2 DEF Tick
    <3>4. [ev[e].read EXCEPT !.age = Older(@)] \in [state : States, age : Ages]
      BY <2>1, <3>2 DEF Evaluator
    <3> DEFINE d == [ev[e].read EXCEPT !.age = Older(@)]
    <3>5. ev'[e] = [ev[e] EXCEPT !.lag = @ + 1, !.read = d]
      BY <2>1, <3>3 DEF Evaluator
    <3> HIDE DEF d
    <3> QED BY <2>1, <3>1, <3>4, <3>5 DEF Located, Evaluator, d
  <2>3. CASE ev[e].pc \in Timed \ {"upsert"}
    <3>1. ev[e].lag + 1 \in 0..MaxLag
      <4>1. ev[e].lag < MaxLag
        BY <2>3 DEF Tick
      <4>2. ev[e].lag \in 0..MaxLag
        BY <2>1 DEF Evaluator
      <4> QED BY <4>1, <4>2, AgeAssumption
    <3>2. ev'[e] = [ev[e] EXCEPT !.lag = @ + 1]
      BY <2>3 DEF Tick, Timed
    <3> QED BY <2>1, <3>1, <3>2 DEF Located, Evaluator
  <2>4. CASE ev[e].pc \notin Timed
    BY <2>1, <2>4 DEF Tick, Timed
  <2> QED BY <2>2, <2>3, <2>4 DEF Timed
<1>3. ev' \in [Evaluators -> Evaluator]
  <2>1. ev' = [e \in Evaluators |-> ev'[e]]
    BY DEF Tick
  <2> QED BY <1>2, <2>1 DEF Located
<1>4. streak' \in [Ids -> Ages \cup {-1}]
  <2>1. \A i \in Ids : streak[i] # -1 => Older(streak[i]) \in Ages
    BY OlderInAges DEF TypeInv, TypeOK
  <2> QED BY <2>1 DEF Tick
<1> QED BY <1>1, <1>2, <1>3, <1>4 DEF Tick, world, TypeInv, TypeOK, EvInv

LEMMA TypesPreserved == TypeInv /\ [Next]_vars => TypeInv'
<1> SUFFICES ASSUME TypeInv, [Next]_vars PROVE TypeInv'
  OBVIOUS
<1>1. ASSUME NEW e \in Evaluators, Step(e) PROVE TypeInv'
  BY <1>1, QuietTypes, UpsertTypes, NotifyTypes DEF Step
<1>2. ASSUME NEW e \in Evaluators, CallFails(e) \/ UpsertUnanswered(e) \/ Restart(e)
      PROVE  TypeInv'
  BY <1>2, QuietTypes, UpsertTypes
<1>3. ASSUME NEW c \in Configs, Flip(c) PROVE TypeInv'
  BY <1>3 DEF Flip, tables, ghosts, TypeInv, TypeOK, EvInv
<1>4. CASE UNCHANGED vars
  BY <1>4 DEF vars, TypeInv, TypeOK, EvInv
<1> QED BY <1>1, <1>2, <1>3, <1>4, ApiTypes, TickTypes DEF Next

\* Every variable keeps its type, for any set of rules and configs: an evaluation
\* takes a rule to one of the three states, and has a rule while it is about it.
THEOREM TypeCorrect == Spec => []TypeOK
<1>1. TypeInv => TypeOK
  BY DEF TypeInv
<1> QED BY InitialTypes, TypesPreserved, <1>1, PTL DEF Spec

-------------------------------------------------------------------------------
(* The identity sequence and the foreign key, for any number of evaluators.  *)

IdsInv ==
    /\ \A i \in DOMAIN rules : i < nextId
    /\ \A e \in Evaluators : \A i \in DOMAIN ev[e].todo : i < nextId

LEMMA DoneFields ==
    ASSUME NEW e
    PROVE  /\ Done(e).pc = "next"
           /\ DOMAIN Done(e).todo \subseteq DOMAIN ev[e].todo
  BY DEF Done, Asleep, Without

LEMMA AsleepFields == Asleep.pc = "sleeping" /\ DOMAIN Asleep.todo = {}
  BY DEF Asleep, NothingTodo

\* A step of an evaluator never adds an id to a snapshot but when it loads one.
LEMMA SnapshotShrinks ==
    ASSUME TypeInv, NEW e \in Evaluators,
           \/ Step(e) \/ CallFails(e) \/ UpsertUnanswered(e) \/ Restart(e)
    PROVE  /\ \A f \in Evaluators : DOMAIN ev'[f].todo \subseteq DOMAIN ev[f].todo \cup DOMAIN rules
           /\ \A f \in Evaluators : f # e => ev'[f] = ev[f]
           /\ UNCHANGED <<rules, nextId>>
<1> USE DEF TypeInv, EvInv
<1>1. CASE LoadRules(e)
  BY <1>1 DEF LoadRules, tables, Evaluator
<1>2. CASE EndPass(e) \/ Restart(e)
  BY <1>2, AsleepFields DEF EndPass, Restart, tables
<1>3. CASE StartRule(e) \/ Evaluate(e) \/ ReadState(e) \/ SendWebhook(e)
  BY <1>3 DEF StartRule, Evaluate, ReadState, SendWebhook, tables, Evaluator
<1>4. CASE CountFails(e) \/ RuleIsGone(e) \/ CallFails(e) \/ UpsertUnanswered(e) \/ MarkNotified(e)
  BY <1>4, DoneFields DEF CountFails, RuleIsGone, CallFails, UpsertUnanswered, MarkNotified, tables
<1>5. CASE Upsert(e)
  BY <1>5, DoneFields DEF Upsert, Asleep
<1> QED BY <1>1, <1>2, <1>3, <1>4, <1>5 DEF Step

LEMMA IdsPreserved ==
    ASSUME TypeInv, IdsInv, [Next]_vars
    PROVE  IdsInv'
<1>t. nextId \in Nat
  BY DEF TypeInv, TypeOK
<1>n. \A i \in DOMAIN rules : i \in Nat
  BY TableElements, IdsAssumption DEF TypeInv, TypeOK
<1>s. \A e \in Evaluators : \A i \in DOMAIN ev[e].todo : i \in Nat
  <2> TAKE e \in Evaluators
  <2>1. ev[e].todo \in Table(Rule)
    BY DEF TypeInv, EvInv, Evaluator
  <2> QED BY <2>1, TableElements, IdsAssumption
<1>1. ASSUME NEW r \in Rule, CreateRule(r) PROVE IdsInv'
  <2>1. DOMAIN rules' = DOMAIN rules \cup {nextId} /\ nextId' = nextId + 1 /\ ev' = ev
    BY <1>1 DEF CreateRule, With
  <2> QED BY <1>t, <1>n, <1>s, <2>1 DEF IdsInv
<1>2. ASSUME NEW i \in Ids, NEW r \in Rule, UpdateRule(i, r) PROVE IdsInv'
  BY <1>2 DEF UpdateRule, With, IdsInv
<1>3. ASSUME NEW i \in Ids, DeleteRule(i) PROVE IdsInv'
  BY <1>3 DEF DeleteRule, Without, IdsInv
<1>4. ASSUME NEW e \in Evaluators,
             Step(e) \/ CallFails(e) \/ UpsertUnanswered(e) \/ Restart(e)
      PROVE  IdsInv'
  BY <1>4, SnapshotShrinks DEF IdsInv
<1>5. CASE Tick
  <2>1. \A e \in Evaluators : ev'[e].todo = ev[e].todo
    BY <1>5 DEF Tick, TypeInv, EvInv, Evaluator, Timed
  <2> QED BY <1>5, <2>1 DEF Tick, IdsInv
<1>6. ASSUME NEW c \in Configs, Flip(c) PROVE IdsInv'
  BY <1>6 DEF Flip, tables, IdsInv
<1>7. CASE UNCHANGED vars
  BY <1>7 DEF vars, IdsInv
<1> QED BY <1>1, <1>2, <1>3, <1>4, <1>5, <1>6, <1>7 DEF Next

-------------------------------------------------------------------------------
(* A single evaluator.  What it read is still what the row says, unless the  *)
(* rule is gone for good; what it is about to announce is owed; and a        *)
(* pending row is not older than the run of true evaluations behind it.      *)

Alone(e) == Evaluators = {e}

Fresh(e) ==
    IF CurrentId(e) \in DOMAIN state
    THEN ev[e].read.state = state[CurrentId(e)].state /\ ev[e].read.age = state[CurrentId(e)].age
    ELSE ev[e].read.state = "ok"

EvaluationInv ==
    \A e \in Evaluators :
        /\ ev[e].pc = "upsert" /\ CurrentId(e) \in DOMAIN rules => Fresh(e)
        /\ ev[e].pc = "notify" => ev[e].news # "none" /\ owed[CurrentId(e)] = ev[e].news

RowInv ==
    \A i \in Ids :
        /\ Phase(i) = "ok" => streak[i] = -1
        /\ Phase(i) = "pending" => state[i].age <= streak[i]

SoleInv == IdsInv /\ EvaluationInv /\ RowInv

\* The decisions of evaluate_rule that matter.
LEMMA Decisions ==
    ASSUME TypeInv, NEW e \in Evaluators
    PROVE  LET new == Evaluated(e)
               prev == ev[e].read.state IN
           /\ ~ ev[e].met <=> new = "ok"
           /\ prev = "firing" => new # "pending"
           /\ prev = "ok" /\ new = "firing" => RuleOf(e).for = 0
           /\ prev = "pending" /\ new = "firing" => ev[e].read.age - ev[e].lag >= RuleOf(e).for
<1>1. ev[e].read.state \in States /\ ev[e].met \in BOOLEAN
  BY DEF TypeInv, EvInv, Evaluator
<1> QED BY <1>1 DEF Evaluated, NewState, States

\* What an upsert makes of the row of its rule, and that it leaves the others.
LEMMA StoredRow ==
    ASSUME TypeInv, NEW e \in Evaluators, StoreRow(e), NEW i, i = CurrentId(e)
    PROVE  /\ i \in Ids
           /\ i \in DOMAIN state'
           /\ Phase(i)' = Evaluated(e)
           /\ state'[i].age = Since(ev[e], Evaluated(e))
           /\ owed'[i] = RowNews(i, Evaluated(e), RuleOf(e).hook)
           /\ streak'[i] = IF ~ev[e].met THEN -1 ELSE IF streak[i] = -1 THEN ev[e].lag ELSE streak[i]
<1>1. i \in Ids
  BY CurrentOne DEF StoreRow, TypeInv, Busy, Timed
<1>2. i \in DOMAIN state'
  BY DEF StoreRow, With
<1>3. state'[i].state = Evaluated(e) /\ state'[i].age = Since(ev[e], Evaluated(e))
  BY DEF StoreRow, With
<1>4. Phase(i)' = Evaluated(e)
  BY <1>2, <1>3 DEF Phase
<1>5. owed'[i] = RowNews(i, Evaluated(e), RuleOf(e).hook)
  BY <1>1 DEF StoreRow, TypeInv, TypeOK
<1>6. streak'[i] = IF ~ev[e].met THEN -1 ELSE IF streak[i] = -1 THEN ev[e].lag ELSE streak[i]
  BY <1>1 DEF StoreRow, TypeInv, TypeOK
<1> QED BY <1>1, <1>2, <1>3, <1>4, <1>5, <1>6

LEMMA OtherRows ==
    ASSUME TypeInv, NEW e \in Evaluators, StoreRow(e), NEW j \in Ids, j # CurrentId(e)
    PROVE  /\ j \in DOMAIN state' <=> j \in DOMAIN state
           /\ j \in DOMAIN state => state'[j] = state[j]
           /\ Phase(j)' = Phase(j)
           /\ owed'[j] = owed[j] /\ streak'[j] = streak[j]
<1>1. /\ j \in DOMAIN state' <=> j \in DOMAIN state
      /\ j \in DOMAIN state => state'[j] = state[j]
  BY DEF StoreRow, With
<1>2. owed'[j] = owed[j] /\ streak'[j] = streak[j]
  BY DEF StoreRow, TypeInv, TypeOK
<1> QED BY <1>1, <1>2 DEF Phase

LEMMA PhaseInStates ==
    ASSUME TypeInv, NEW i
    PROVE  Phase(i) \in States
<1>1. \A j \in DOMAIN state : state[j] \in Row
  BY TableElements DEF TypeInv, TypeOK
<1> QED BY <1>1 DEF Phase, Row, States

LEMMA RowsTyped ==
    ASSUME TypeInv, NEW i \in DOMAIN state
    PROVE  state[i] \in Row /\ i \in Ids
  BY TableElements DEF TypeInv, TypeOK

-------------------------------------------------------------------------------
(* Every step keeps the invariant of a single evaluator.                     *)

LEMMA InitialSole == Init => SoleInv
<1> SUFFICES ASSUME Init PROVE SoleInv
  OBVIOUS
<1>1. DOMAIN rules = {} /\ DOMAIN state = {}
  BY DEF Init, NothingTodo
<1>2. \A e \in Evaluators : ev[e] = Asleep
  BY DEF Init
<1>3. \A i \in Ids : Phase(i) = "ok" /\ streak[i] = -1
  BY <1>1 DEF Init, Phase
<1> QED BY <1>1, <1>2, <1>3, AsleepFields DEF SoleInv, IdsInv, EvaluationInv, RowInv

\* Steps of the evaluator that touch no row and end neither before an upsert nor
\* before a webhook.
LEMMA QuietSole ==
    ASSUME TypeInv, SoleInv, NEW e, Alone(e),
           \/ LoadRules(e) \/ EndPass(e) \/ StartRule(e) \/ Evaluate(e) \/ CountFails(e)
           \/ RuleIsGone(e) \/ CallFails(e) \/ Restart(e)
    PROVE  EvaluationInv' /\ RowInv'
<1>1. UNCHANGED <<tables, ghosts>>
  BY DEF LoadRules, EndPass, StartRule, Evaluate, CountFails, RuleIsGone, CallFails, Restart
<1>2. ev'[e].pc \notin {"upsert", "notify"}
  BY DoneFields, AsleepFields
     DEF LoadRules, EndPass, StartRule, Evaluate, CountFails, RuleIsGone, CallFails, Restart,
         TypeInv, EvInv, Evaluator, Alone
<1>3. RowInv'
  BY <1>1 DEF tables, ghosts, SoleInv, RowInv, Phase
<1> QED BY <1>2, <1>3 DEF EvaluationInv, Alone

LEMMA ReadSole ==
    ASSUME TypeInv, SoleInv, NEW e, Alone(e), ReadState(e)
    PROVE  EvaluationInv' /\ RowInv'
<1>1. UNCHANGED <<tables, ghosts>> /\ ev'[e].pc = "upsert" /\ ev'[e].todo = ev[e].todo
  BY DEF ReadState, TypeInv, EvInv, Evaluator, Alone
<1>2. CurrentId(e)' = CurrentId(e)
  BY <1>1 DEF CurrentId
<1>3. ev'[e].read = IF CurrentId(e) \in DOMAIN state
                    THEN [state |-> state[CurrentId(e)].state, age |-> state[CurrentId(e)].age]
                    ELSE [NothingRead EXCEPT !.age = ev[e].lag]
  BY DEF ReadState, TypeInv, EvInv, Evaluator, Alone
<1>4. Fresh(e)'
  BY <1>1, <1>2, <1>3 DEF Fresh, NothingRead, tables
<1>5. RowInv'
  BY <1>1 DEF tables, ghosts, SoleInv, RowInv, Phase
<1> QED BY <1>1, <1>4, <1>5 DEF EvaluationInv, Alone

LEMMA StoreSole ==
    ASSUME TypeInv, SoleInv, NEW e, Alone(e), StoreRow(e)
    PROVE  Phase(CurrentId(e)) = ev[e].read.state /\ RowInv'
<1> DEFINE i == CurrentId(e)
<1>e. e \in Evaluators /\ ev[e] \in Evaluator
  BY DEF Alone, TypeInv, EvInv
<1>1. Fresh(e)
  BY <1>e DEF StoreRow, SoleInv, EvaluationInv
<1>2. Phase(i) = ev[e].read.state
  BY <1>1 DEF Fresh, Phase
<1>3. /\ i \in Ids
      /\ streak[i] \in Ages \cup {-1}
      /\ ev[e].lag \in Nat
  BY <1>e, StoredRow, AgeAssumption DEF TypeInv, TypeOK, Evaluator
<1>4. ASSUME NEW j \in Ids
      PROVE  /\ (Phase(j) = "ok")' => streak'[j] = -1
             /\ (Phase(j) = "pending")' => state'[j].age <= streak'[j]
  <2>1. CASE j = i
    <3> DEFINE new == Evaluated(e)
    <3>1. /\ Phase(j)' = new
          /\ state'[j].age = Since(ev[e], new)
          /\ streak'[j] = IF ~ev[e].met THEN -1 ELSE IF streak[j] = -1 THEN ev[e].lag ELSE streak[j]
      BY <1>e, <2>1, StoredRow
    <3>2. ~ ev[e].met <=> new = "ok"
      BY <1>e, Decisions
    <3>3. CASE new = "pending" /\ ev[e].read.state = "pending"
      <4>1. i \in DOMAIN state /\ state[i].age = ev[e].read.age /\ state[i].age <= streak[i]
        BY <1>1, <1>2, <1>3, <3>3 DEF Fresh, SoleInv, RowInv
      <4>2. state[i].age # -1 /\ state[i].age \in Nat
        BY <4>1, RowsTyped, AgeAssumption DEF Row, Ages
      <4>3. streak[i] # -1
        BY <1>3, <4>1, <4>2, AgeAssumption DEF Ages
      <4>4. state'[j].age = ev[e].read.age /\ streak'[j] = streak[j]
        BY <2>1, <3>1, <3>2, <3>3, <4>3 DEF Since
      <4> QED BY <2>1, <3>1, <3>2, <3>3, <4>1, <4>4
    <3>4. CASE new = "pending" /\ ev[e].read.state # "pending"
      <4>1. ev[e].read.state = "ok"
        BY <1>e, <3>4, Decisions DEF Evaluator, States
      <4>2. streak[i] = -1
        BY <1>2, <1>3, <4>1 DEF SoleInv, RowInv
      <4>3. state'[j].age = ev[e].lag /\ streak'[j] = ev[e].lag
        BY <2>1, <3>1, <3>2, <3>4, <4>2 DEF Since
      <4> QED BY <1>3, <3>1, <3>2, <3>4, <4>3
    <3> HIDE DEF new
    <3> QED BY <3>1, <3>2, <3>3, <3>4
  <2>2. CASE j # i
    <3>1. /\ j \in DOMAIN state' <=> j \in DOMAIN state
          /\ j \in DOMAIN state => state'[j] = state[j]
          /\ Phase(j)' = Phase(j)
          /\ streak'[j] = streak[j]
      BY <1>e, <2>2, OtherRows
    <3> QED BY <3>1 DEF SoleInv, RowInv, Phase
  <2> QED BY <2>1, <2>2
<1>5. RowInv'
  BY <1>4 DEF RowInv
<1> QED BY <1>2, <1>5

\* What the evaluator is about to announce after an upsert is what the row owes.
LEMMA UpsertSole ==
    ASSUME TypeInv, SoleInv, NEW e, Alone(e), Upsert(e) \/ UpsertUnanswered(e)
    PROVE  EvaluationInv' /\ RowInv'
<1> DEFINE i == CurrentId(e)
           news == News(ev[e].read.state, Evaluated(e))
<1>e. e \in Evaluators /\ ev \in [Evaluators -> Evaluator]
  BY DEF Alone, TypeInv, EvInv
<1>1. StoreRow(e)
  BY DEF Upsert, UpsertUnanswered
<1>2. Phase(i) = ev[e].read.state /\ RowInv'
  BY <1>1, StoreSole
<1>3. CASE UpsertUnanswered(e) \/ ~ (news # "none" /\ RuleOf(e).hook)
  <2>1. ev'[e] = Done(e)
    BY <1>e, <1>3 DEF Upsert, UpsertUnanswered
  <2> QED BY <1>2, <2>1, DoneFields DEF EvaluationInv, Alone
<1>4. CASE Upsert(e) /\ news # "none" /\ RuleOf(e).hook
  <2>1. ev'[e] = [Asleep EXCEPT !.pc = "notify", !.todo = ev[e].todo, !.news = news]
    BY <1>e, <1>4 DEF Upsert
  <2>2. ev'[e].pc = "notify" /\ ev'[e].todo = ev[e].todo /\ ev'[e].news = news
    BY <2>1 DEF Asleep
  <2>3. CurrentId(e)' = i
    BY <2>2 DEF CurrentId
  <2>4. owed'[i] = RowNews(i, Evaluated(e), RuleOf(e).hook)
    BY <1>e, <1>1, StoredRow
  <2>5. owed'[i] = news
    BY <1>2, <1>4, <2>4 DEF RowNews, News
  <2> QED BY <1>2, <1>4, <2>2, <2>3, <2>5 DEF EvaluationInv, Alone
<1> QED BY <1>3, <1>4

LEMMA NotifySole ==
    ASSUME TypeInv, SoleInv, NEW e, Alone(e), SendWebhook(e) \/ MarkNotified(e)
    PROVE  EvaluationInv' /\ RowInv'
<1>1. CASE SendWebhook(e)
  <2>1. ev'[e].pc = "mark" /\ UNCHANGED <<tables, streak>>
    BY <1>1 DEF SendWebhook, Alone, TypeInv, EvInv, Evaluator
  <2> QED BY <2>1 DEF tables, SoleInv, RowInv, Phase, EvaluationInv, Alone
<1>2. CASE MarkNotified(e)
  <2>1. ev'[e].pc = "next"
    BY <1>2, DoneFields DEF MarkNotified, Alone, TypeInv, EvInv
  <2>2. /\ DOMAIN state' = DOMAIN state /\ streak' = streak
        /\ \A j \in DOMAIN state : state'[j].state = state[j].state /\ state'[j].age = state[j].age
    <3>1. \A j \in DOMAIN state : state[j] \in Row
      BY RowsTyped
    <3> QED BY <1>2, <3>1 DEF MarkNotified, ghosts, Row
  <2>3. RowInv'
    BY <2>2 DEF SoleInv, RowInv, Phase
  <2> QED BY <2>1, <2>3 DEF EvaluationInv, Alone
<1> QED BY <1>1, <1>2

\* An id is never used again: a rule that was read before it was deleted stays away.
LEMMA ApiSole ==
    ASSUME TypeInv, SoleInv, NEW e, Alone(e),
           (\E r \in Rule : CreateRule(r)) \/ (\E i \in Ids, r \in Rule : UpdateRule(i, r))
              \/ (\E i \in Ids : DeleteRule(i))
    PROVE  EvaluationInv' /\ RowInv'
<1>e. e \in Evaluators /\ EvInv
  BY DEF Alone, TypeInv
<1>1. CASE (\E r \in Rule : CreateRule(r)) \/ (\E i \in Ids, r \in Rule : UpdateRule(i, r))
  <2>1. /\ UNCHANGED <<state, ev, ghosts>>
        /\ DOMAIN rules' \subseteq DOMAIN rules \cup {nextId}
    BY <1>1 DEF CreateRule, UpdateRule, With
  <2>2. ev[e].pc = "upsert" /\ CurrentId(e) \in DOMAIN rules' => CurrentId(e) \in DOMAIN rules
    <3> SUFFICES ASSUME ev[e].pc = "upsert" PROVE CurrentId(e) # nextId
      BY <2>1
    <3>1. CurrentId(e) \in DOMAIN ev[e].todo /\ CurrentId(e) \in Nat
      BY <1>e, CurrentOne, IdsAssumption DEF Busy, Timed
    <3>2. CurrentId(e) < nextId
      BY <1>e, <3>1 DEF SoleInv, IdsInv
    <3> QED BY <3>1, <3>2 DEF TypeInv, TypeOK
  <2>3. RowInv'
    BY <2>1 DEF ghosts, SoleInv, RowInv, Phase
  <2>4. EvaluationInv'
    BY <1>e, <2>1, <2>2 DEF ghosts, SoleInv, EvaluationInv, Fresh, CurrentId, Alone
  <2> QED BY <2>3, <2>4
<1>2. CASE \E i \in Ids : DeleteRule(i)
  <2> PICK i \in Ids : DeleteRule(i)
    BY <1>2
  <2>1. /\ DOMAIN rules' = DOMAIN rules \ {i} /\ DOMAIN state' = DOMAIN state \ {i}
        /\ \A j \in DOMAIN state \ {i} : state'[j] = state[j]
        /\ UNCHANGED <<ev, owed>>
    BY DEF DeleteRule, StateWithoutRule, Without
  <2>2. streak'[i] = -1 /\ \A j \in Ids \ {i} : streak'[j] = streak[j]
    BY DEF DeleteRule, TypeInv, TypeOK
  <2>3. ASSUME NEW j \in Ids
        PROVE  /\ (Phase(j) = "ok")' => streak'[j] = -1
               /\ (Phase(j) = "pending")' => state'[j].age <= streak'[j]
    <3>1. CASE j = i
      BY <2>1, <2>2, <3>1 DEF Phase
    <3>2. CASE j # i
      BY <2>1, <2>2, <3>2 DEF Phase, SoleInv, RowInv
    <3> QED BY <3>1, <3>2
  <2>4. RowInv'
    BY <2>3 DEF RowInv
  <2>5. EvaluationInv'
    BY <2>1 DEF SoleInv, EvaluationInv, Fresh, CurrentId, Alone
  <2> QED BY <2>4, <2>5
<1> QED BY <1>1, <1>2

\* A row and what was read of it grow old together, a run at least as much.
LEMMA TickSole ==
    ASSUME TypeInv, SoleInv, NEW e, Alone(e), Tick
    PROVE  EvaluationInv' /\ RowInv'
<1>e. e \in Evaluators /\ ev[e] \in Evaluator
  BY DEF Alone, TypeInv, EvInv
<1>1. /\ DOMAIN state' = DOMAIN state
      /\ \A j \in DOMAIN state :
            state'[j].state = state[j].state /\ state'[j].age = Older(state[j].age)
  <2>1. \A j \in DOMAIN state : state[j] \in Row
    BY RowsTyped
  <2> QED BY <2>1 DEF Tick, Row
<1>2. RowInv'
  <2>1. ASSUME NEW j \in Ids
        PROVE  /\ (Phase(j) = "ok")' => streak'[j] = -1
               /\ (Phase(j) = "pending")' => state'[j].age <= streak'[j]
    <3>1. streak[j] \in Ages \cup {-1} /\ streak'[j] = IF streak[j] = -1 THEN -1 ELSE Older(streak[j])
      BY DEF Tick, TypeInv, TypeOK
    <3>2. Phase(j)' = Phase(j)
      BY <1>1 DEF Phase
    <3>3. CASE Phase(j) = "pending"
      <4>1. j \in DOMAIN state /\ state[j].age <= streak[j]
        BY <3>3 DEF Phase, SoleInv, RowInv
      <4>2. state[j].age \in Ages
        BY <4>1, RowsTyped DEF Row
      <4>3. Older(state[j].age) <= Older(streak[j]) /\ streak[j] # -1
        BY <3>1, <4>1, <4>2, AgeAssumption DEF Older, Ages
      <4> QED BY <1>1, <3>1, <3>2, <3>3, <4>1, <4>3
    <3>4. CASE Phase(j) # "pending"
      BY <3>1, <3>2, <3>4 DEF SoleInv, RowInv
    <3> QED BY <3>3, <3>4
  <2> QED BY <2>1 DEF RowInv
<1>3. /\ ev'[e].pc = ev[e].pc /\ ev'[e].todo = ev[e].todo /\ ev'[e].news = ev[e].news
      /\ ev[e].pc = "upsert" => /\ ev'[e].read.state = ev[e].read.state
                                /\ ev'[e].read.age = Older(ev[e].read.age)
  BY <1>e DEF Tick, Evaluator, Timed
<1>4. CurrentId(e)' = CurrentId(e)
  BY <1>3 DEF CurrentId
<1>5. ev[e].pc = "upsert" /\ Fresh(e) => Fresh(e)'
  BY <1>1, <1>3, <1>4 DEF Fresh
<1>6. EvaluationInv'
  <2>1. UNCHANGED <<rules, owed>>
    BY DEF Tick
  <2> QED BY <1>e, <1>3, <1>4, <1>5, <2>1 DEF SoleInv, EvaluationInv, Alone
<1> QED BY <1>2, <1>6

LEMMA SolePreserved ==
    ASSUME TypeInv, SoleInv, NEW e, Alone(e), [Next]_vars
    PROVE  SoleInv'
<1>i. IdsInv'
  BY IdsPreserved DEF SoleInv
<1>1. CASE \E f \in Evaluators :
              Step(f) \/ CallFails(f) \/ UpsertUnanswered(f) \/ Restart(f)
  <2>1. Step(e) \/ CallFails(e) \/ UpsertUnanswered(e) \/ Restart(e)
    BY <1>1 DEF Alone
  <2> QED BY <1>i, <2>1, QuietSole, ReadSole, UpsertSole, NotifySole DEF Step, SoleInv
<1>2. CASE Tick
  BY <1>i, <1>2, TickSole DEF SoleInv
<1>3. CASE (\E c \in Configs : Flip(c)) \/ UNCHANGED vars
  <2>1. UNCHANGED <<tables, ev, ghosts>>
    BY <1>3 DEF Flip, vars, tables, ghosts
  <2> QED BY <1>i, <2>1
          DEF tables, ghosts, SoleInv, EvaluationInv, RowInv, Fresh, Phase, CurrentId
<1> QED BY <1>i, <1>1, <1>2, <1>3, ApiSole DEF Next, SoleInv

LEMMA SoleInvariant ==
    ASSUME NEW e, Alone(e)
    PROVE  Spec => [](TypeInv /\ SoleInv)
<1>1. Init => TypeInv /\ SoleInv
  BY InitialTypes, InitialSole
<1>2. TypeInv /\ SoleInv /\ [Next]_vars => (TypeInv /\ SoleInv)'
  BY TypesPreserved, SolePreserved
<1> QED BY <1>1, <1>2, PTL DEF Spec

\* A single evaluator announces only what happened, and only once, whatever calls
\* fail, whenever the process restarts and the rules are edited or deleted.
THEOREM TrueNews ==
    ASSUME NEW e, Alone(e)
    PROVE  Spec => []NewsIsTrue
<1>1. TypeInv /\ SoleInv => NewsIsTrue
  BY DEF SoleInv, EvaluationInv, NewsIsTrue
<1>2. Spec => [](TypeInv /\ SoleInv)
  BY SoleInvariant
<1> QED BY <1>1, <1>2, PTL

-------------------------------------------------------------------------------
(* Which steps change the phase of a rule, and how.                          *)

LEMMA PhaseKept ==
    ASSUME TypeInv, SoleInv, NEW e, Alone(e), [Next]_vars, NEW i \in Ids,
           ~ (Upsert(e) \/ UpsertUnanswered(e)), ~ DeleteRule(i)
    PROVE  Phase(i)' = Phase(i)
<1>1. CASE MarkNotified(e)
  <2>1. DOMAIN state' = DOMAIN state /\ \A j \in DOMAIN state : state'[j].state = state[j].state
    <3>1. \A j \in DOMAIN state : state[j] \in Row
      BY RowsTyped
    <3> QED BY <1>1, <3>1 DEF MarkNotified, Row
  <2> QED BY <2>1 DEF Phase
<1>2. CASE Tick
  <2>1. DOMAIN state' = DOMAIN state /\ \A j \in DOMAIN state : state'[j].state = state[j].state
    <3>1. \A j \in DOMAIN state : state[j] \in Row
      BY RowsTyped
    <3> QED BY <1>2, <3>1 DEF Tick, Row
  <2> QED BY <2>1 DEF Phase
<1>3. CASE \E j \in Ids : DeleteRule(j)
  <2> PICK j \in Ids : DeleteRule(j)
    BY <1>3
  <2>1. j # i
    OBVIOUS
  <2>2. state' = Without(state, j)
    BY DEF DeleteRule, StateWithoutRule
  <2> QED BY <2>1, <2>2 DEF Without, Phase
<1>4. CASE UNCHANGED state
  BY <1>4 DEF Phase
<1>5. \/ MarkNotified(e) \/ Tick \/ (\E j \in Ids : DeleteRule(j)) \/ UNCHANGED state
  BY DEF Next, Alone, Step, LoadRules, EndPass, StartRule, Evaluate, CountFails, ReadState,
         RuleIsGone, SendWebhook, CallFails, Restart, CreateRule, UpdateRule, Flip, tables, vars
<1> QED BY <1>1, <1>2, <1>3, <1>4, <1>5

LEMMA PhaseOfDeleted ==
    ASSUME NEW i \in Ids, DeleteRule(i)
    PROVE  Phase(i)' = "ok"
  BY DEF DeleteRule, StateWithoutRule, Without, Phase

\* A single evaluator fires a rule only when it is due: for_secs is 0, or the first
\* of an unbroken run of true evaluations is at least for_secs ago.
THEOREM FiresOnlyWhenDue ==
    ASSUME NEW s, Alone(s)
    PROVE  Spec => FiresWhenDue
<1> DEFINE Due == \A i \in Ids : Phase(i) # "firing" /\ Phase(i)' = "firing" =>
                     \E e \in Evaluators :
                        /\ ev[e].pc = "upsert" /\ CurrentId(e) = i
                        /\ RuleOf(e).for = 0 \/ streak'[i] - ev[e].lag >= RuleOf(e).for
<1>1. ASSUME TypeInv, SoleInv, [Next]_vars PROVE Due
  <2> SUFFICES ASSUME NEW i \in Ids, Phase(i) # "firing", Phase(i)' = "firing"
               PROVE  /\ ev[s].pc = "upsert" /\ CurrentId(s) = i
                      /\ RuleOf(s).for = 0 \/ streak'[i] - ev[s].lag >= RuleOf(s).for
    BY DEF Alone
  <2>e. s \in Evaluators /\ ev[s] \in Evaluator
    BY <1>1 DEF Alone, TypeInv, EvInv
  <2>1. StoreRow(s)
    BY <1>1, PhaseKept, PhaseOfDeleted DEF Upsert, UpsertUnanswered
  <2>2. CurrentId(s) = i
    BY <1>1, <2>e, <2>1, OtherRows
  <2>3. Phase(i) = ev[s].read.state
    BY <1>1, <2>1, <2>2, StoreSole
  <2>4. /\ Evaluated(s) = "firing"
        /\ streak'[i] = IF ~ev[s].met THEN -1 ELSE IF streak[i] = -1 THEN ev[s].lag ELSE streak[i]
    BY <1>1, <2>e, <2>1, <2>2, StoredRow
  <2>5. ev[s].pc = "upsert" /\ Fresh(s)
    BY <1>1, <2>e, <2>1 DEF StoreRow, SoleInv, EvaluationInv
  <2>6. CASE Phase(i) = "ok"
    BY <1>1, <2>e, <2>2, <2>3, <2>4, <2>5, <2>6, Decisions
  <2>7. CASE Phase(i) = "pending"
    <3>1. i \in DOMAIN state /\ state[i].age = ev[s].read.age /\ state[i].age <= streak[i]
      BY <1>1, <2>2, <2>5, <2>7 DEF Fresh, Phase, SoleInv, RowInv
    <3>2. ev[s].read.age \in Nat /\ ev[s].lag \in Nat /\ streak[i] \in Nat \cup {-1}
      BY <1>1, <2>e, AgeAssumption DEF Evaluator, Ages, TypeInv, TypeOK
    <3>3. ev[s].met /\ streak[i] # -1
      BY <1>1, <2>e, <2>4, <3>1, <3>2, Decisions
    <3>4. streak'[i] = streak[i]
      BY <2>4, <3>3
    <3>5. ev[s].read.age - ev[s].lag >= RuleOf(s).for
      BY <1>1, <2>e, <2>3, <2>4, <2>7, Decisions
    <3>6. RuleOf(s).for \in Int
      <4>1. RuleOf(s) \in Rule
        BY <1>1, <2>e, <2>5, CurrentOne DEF TypeInv, Busy, Timed
      <4> QED BY <4>1, AgeAssumption DEF Rule
    <3> QED BY <2>2, <2>5, <3>1, <3>2, <3>4, <3>5, <3>6
  <2> QED BY <1>1, <2>6, <2>7, PhaseInStates DEF States
<1>2. TypeInv /\ SoleInv /\ [Next]_vars => [Due]_vars
  BY <1>1
<1>3. Spec => [](TypeInv /\ SoleInv)
  BY SoleInvariant
<1> QED BY <1>2, <1>3, PTL DEF Spec, FiresWhenDue

-------------------------------------------------------------------------------
(* A single evaluator implements AlertLifecycle.                             *)

phases == [i \in Ids |-> Phase(i)]

\* The lifecycle moves on when a row is stored in another state.
LEMMA StoreIsMove ==
    ASSUME TypeInv, SoleInv, NEW s, Alone(s), StoreRow(s)
    PROVE  (\E i \in Ids, to \in States : Life!Move(i, to)) \/ UNCHANGED <<phases, owed>>
<1>e. s \in Evaluators /\ ev[s] \in Evaluator
  BY DEF Alone, TypeInv, EvInv
<1>i. PICK i \in Ids : i = CurrentId(s)
  BY <1>e, StoredRow
<1>p. PICK prev \in States : prev = Phase(i)
  BY PhaseInStates
<1>n. PICK new \in States : new = Evaluated(s)
  BY <1>e, EvaluatedState
<1>h. PICK hook \in BOOLEAN : hook = RuleOf(s).hook
  <2>1. RuleOf(s) \in Rule
    BY <1>e, CurrentOne DEF StoreRow, TypeInv, Busy, Timed
  <2> QED BY <2>1, RuleAssumption DEF Rule
<1>1. phases' = [phases EXCEPT ![i] = new]
  <2>1. Phase(i)' = new /\ \A j \in Ids \ {i} : Phase(j)' = Phase(j)
    BY <1>e, <1>i, <1>n, StoredRow, OtherRows
  <2> QED BY <2>1 DEF phases
<1>2. owed' = [owed EXCEPT ![i] = RowNews(i, new, hook)]
  BY <1>i, <1>n, <1>h DEF StoreRow
<1>3. prev = "firing" => new # "pending"
  BY <1>e, <1>i, <1>p, <1>n, StoreSole, Decisions
<1>4. phases[i] = prev /\ owed \in [Ids -> {"none", "firing", "resolved"}]
  BY <1>p DEF phases, TypeInv, TypeOK
<1>5. CASE prev = new
  <2>1. RowNews(i, new, hook) = owed[i]
    BY <1>p, <1>5 DEF RowNews
  <2>2. owed' = owed
    BY <1>2, <1>4, <2>1
  <2>3. phases' = phases
    BY <1>1, <1>4, <1>5 DEF phases
  <2> QED BY <2>2, <2>3
<1>6. CASE prev # new
  <2>1. <<prev, new>> \in Life!Diagram
    BY <1>3, <1>6 DEF States, Life!Diagram
  <2>2. RowNews(i, new, hook) \in {Life!NewsOf(i, new), "none"}
    BY <1>p, <1>3, <1>4, <1>6 DEF RowNews, Life!NewsOf, States, phases
  <2>3. Life!Move(i, new)
    BY <1>1, <1>2, <1>4, <2>1, <2>2 DEF Life!Move, phases
  <2> QED BY <2>3
<1> QED BY <1>5, <1>6

\* Every step of the tables and the evaluator is a step of the lifecycle, or none.
LEMMA StepIsLife ==
    ASSUME TypeInv, SoleInv, NEW s, Alone(s), [Next]_vars
    PROVE  [Life!Next]_(Life!lifecycle)
<1>e. s \in Evaluators /\ EvInv
  BY DEF Alone, TypeInv
<1>1. CASE Upsert(s) \/ UpsertUnanswered(s)
  <2>1. StoreRow(s)
    BY <1>1 DEF Upsert, UpsertUnanswered
  <2> QED BY <2>1, StoreIsMove DEF Life!Next, Life!lifecycle, States, phases
<1>2. CASE \E i \in Ids : DeleteRule(i)
  <2> PICK i \in Ids : DeleteRule(i)
    BY <1>2
  <2>1. Phase(i)' = "ok"
    BY PhaseOfDeleted
  <2>2. \A j \in Ids \ {i} : Phase(j)' = Phase(j)
    BY DEF DeleteRule, StateWithoutRule, Without, Phase
  <2>3. phases' = [phases EXCEPT ![i] = "ok"] /\ UNCHANGED owed
    BY <2>1, <2>2 DEF phases, DeleteRule
  <2>4. Life!Forget(i)
    BY <2>3 DEF Life!Forget, phases
  <2> QED BY <2>4 DEF Life!Next
<1>3. CASE ~ (Upsert(s) \/ UpsertUnanswered(s)) /\ ~ (\E i \in Ids : DeleteRule(i))
  <2>1. phases' = phases
    BY <1>3, PhaseKept DEF phases
  <2>2. CASE SendWebhook(s)
    <3>1. PICK i \in Ids : i = CurrentId(s)
      BY <1>e, <2>2, CurrentOne DEF SendWebhook, Busy
    <3>2. owed[i] # "none" /\ owed' = [owed EXCEPT ![i] = "none"]
      BY <1>e, <2>2, <3>1 DEF SendWebhook, SoleInv, EvaluationInv
    <3>3. Life!Tell(i)
      BY <2>1, <3>2 DEF Life!Tell, phases
    <3> QED BY <3>3 DEF Life!Next
  <2>3. CASE ~ SendWebhook(s)
    <3>1. UNCHANGED owed
      BY <1>3, <2>3
         DEF Next, Alone, Step, LoadRules, EndPass, StartRule, Evaluate, CountFails, ReadState,
             RuleIsGone, MarkNotified, CallFails, Restart, CreateRule, UpdateRule, Tick, Flip,
             ghosts, vars
    <3> QED BY <2>1, <3>1 DEF Life!lifecycle, phases
  <2> QED BY <2>2, <2>3
<1> QED BY <1>1, <1>2, <1>3

\* With a single evaluator the rows of alert_state and the webhooks implement the
\* diagram and the notification rule of the module header, for any set of rules,
\* whatever fails, restarts, is edited or deleted in between.
THEOREM LifecycleImplemented ==
    ASSUME NEW s, Alone(s)
    PROVE  Spec => LifecycleKept
<1>1. Init => Life!Init
  <2> SUFFICES ASSUME Init PROVE Life!Init
    OBVIOUS
  <2>1. \A i \in Ids : Phase(i) = "ok"
    BY DEF Init, NothingTodo, Phase
  <2> QED BY <2>1 DEF Init, Life!Init
<1>2. TypeInv /\ SoleInv /\ [Next]_vars => [Life!Next]_(Life!lifecycle)
  BY StepIsLife
<1>3. Spec => [](TypeInv /\ SoleInv)
  BY SoleInvariant
<1> QED BY <1>1, <1>2, <1>3, PTL DEF Spec, LifecycleKept, Life!Spec
================================================================================
