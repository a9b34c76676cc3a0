-------------------------------- MODULE Alerts --------------------------------
(***************************************************************************)
(* The alert evaluator (src/alerts/eval.rs, notify.rs) and the rules API   *)
(* (src/alerts/mod.rs) over the tables alert_rules and alert_state.        *)
(*                                                                         *)
(* Time is kept as ages: "age" is how long ago a timestamp was, capped at  *)
(* MaxAge, and "lag" how long ago an evaluation read its clock.  The code  *)
(* compares timestamps only with for_secs, so nothing is lost by the cap.  *)
(***************************************************************************)
EXTENDS Integers, FiniteSetsExt

CONSTANTS Evaluators,  \* run_alert_evaluator tasks, one per running process
          Ids,         \* alert_rules.id, GENERATED ALWAYS AS IDENTITY: never reused
          Configs,     \* rule configs that pass validate_rule
          Counting,    \* those of metric rules with agg "count"
          Durations,   \* for_secs
          Hooks,       \* whether a webhook_url is set: a subset of BOOLEAN
          MaxAge, MaxLag,       \* caps of ages and of the time an evaluation takes
          MaxEdits, MaxFaults   \* bounds of the checked instance

ASSUME IdsAssumption == Ids \subseteq Nat \ {0}
ASSUME RuleAssumption == Counting \subseteq Configs /\ Hooks \subseteq BOOLEAN
ASSUME AgeAssumption ==
    /\ MaxLag \in Nat /\ MaxAge \in Nat
    /\ Durations \subseteq Int
    /\ \A d \in Durations \cup {0} : d + MaxLag <= MaxAge
ASSUME EditAssumption == MaxEdits \in Nat /\ MaxFaults \in Nat

VARIABLES rules,   \* alert_rules: existing ids -> Rule
          nextId,  \* the identity sequence
          state,   \* alert_state: evaluated ids -> Row
          holds,   \* whether the data satisfies a config right now
          ev,      \* per evaluator: its snapshot of the rules and its locals
          owed,    \* news of a transition whose webhook was not called yet
          streak,  \* age of the first evaluation of the unbroken run of true ones, or -1
          edits, faults

vars == <<rules, nextId, state, holds, ev, owed, streak, edits, faults>>
tables == <<rules, nextId, state>>
world == <<holds, edits>>
ghosts == <<owed, streak>>

States == {"ok", "pending", "firing"}
Ages == 0..MaxAge

\* name, severity and kind only shape the payload and the query.
Rule == [enabled : BOOLEAN, for : Durations, hook : Hooks, config : Configs]
Row == [state : States, age : Ages, notified : BOOLEAN]

NothingTodo == [i \in {} |-> {}]
NothingRead == [state |-> "ok", age |-> 0]
Asleep == [pc |-> "sleeping", todo |-> NothingTodo, lag |-> 0, met |-> FALSE,
           read |-> NothingRead, news |-> "none"]

Timed == {"evaluate", "read", "upsert"}   \* what still refers to the time taken

\* Functions from some of the ids.
Table(R) == UNION {[S -> R] : S \in SUBSET Ids}

Evaluator == [pc : Timed \cup {"sleeping", "next", "notify", "mark"}, todo : Table(Rule),
              lag : 0..MaxLag, met : BOOLEAN, read : [state : States, age : Ages],
              news : {"none", "firing", "resolved"}]

TypeOK ==
    /\ rules \in Table(Rule)
    /\ nextId \in Nat \ {0}
    /\ state \in Table(Row)
    /\ holds \in [Configs -> BOOLEAN]
    /\ ev \in [Evaluators -> Evaluator]
    /\ owed \in [Ids -> {"none", "firing", "resolved"}]
    /\ streak \in [Ids -> Ages \cup {-1}]
    /\ edits \in 0..MaxEdits
    /\ faults \in 0..MaxFaults

Init ==
    /\ rules = NothingTodo
    /\ nextId = 1
    /\ state = NothingTodo
    /\ holds = [c \in Configs |-> FALSE]
    /\ ev = [e \in Evaluators |-> Asleep]
    /\ owed = [i \in Ids |-> "none"]
    /\ streak = [i \in Ids |-> -1]
    /\ edits = 0
    /\ faults = 0

With(f, i, v) == [j \in DOMAIN f \cup {i} |-> IF j = i THEN v ELSE f[j]]
Without(f, i) == [j \in DOMAIN f \ {i} |-> f[j]]

-------------------------------------------------------------------------------
(* The rules API.  The load before an UPDATE and the one after a write decide *)
(* only the answer: what validate_rule needs of a rule, its kind, is fixed.   *)

CreateRule(r) ==
    /\ nextId \in Ids
    /\ rules' = With(rules, nextId, r)
    /\ nextId' = nextId + 1
    /\ UNCHANGED <<state, ev, ghosts, world, faults>>

\* UPDATE ... COALESCE: any of the fields may change; alert_state stays as it is.
UpdateRule(i, r) ==
    /\ i \in DOMAIN rules
    /\ edits < MaxEdits
    /\ edits' = edits + 1
    /\ rules' = With(rules, i, r)
    /\ UNCHANGED <<nextId, state, ev, ghosts, holds, faults>>

\* ON DELETE CASCADE.
StateWithoutRule(i) == Without(state, i)

DeleteRule(i) ==
    /\ i \in DOMAIN rules
    /\ rules' = Without(rules, i)
    /\ state' = StateWithoutRule(i)
    /\ streak' = [streak EXCEPT ![i] = -1]
    /\ UNCHANGED <<nextId, ev, owed, world, faults>>

-------------------------------------------------------------------------------
(* The evaluator.  It works through its snapshot in the order of the ids.     *)

CurrentId(e) == Min(DOMAIN ev[e].todo)
RuleOf(e) == ev[e].todo[CurrentId(e)]

\* The rule is done with, one way or another.
Done(e) == [Asleep EXCEPT !.pc = "next", !.todo = Without(ev[e].todo, CurrentId(e))]

\* evaluate_once: SELECT ... WHERE enabled = true ORDER BY id.
LoadRules(e) ==
    /\ ev[e].pc = "sleeping"
    /\ LET enabled == {i \in DOMAIN rules : rules[i].enabled} IN
       ev' = [ev EXCEPT ![e].pc = "next", ![e].todo = [i \in enabled |-> rules[i]]]
    /\ UNCHANGED <<tables, ghosts, world, faults>>

EndPass(e) ==
    /\ ev[e].pc = "next"
    /\ DOMAIN ev[e].todo = {}
    /\ ev' = [ev EXCEPT ![e] = Asleep]
    /\ UNCHANGED <<tables, ghosts, world, faults>>

\* evaluate_rule takes the time.
StartRule(e) ==
    /\ ev[e].pc = "next"
    /\ DOMAIN ev[e].todo # {}
    /\ ev' = [ev EXCEPT ![e].pc = "evaluate"]
    /\ UNCHANGED <<tables, ghosts, world, faults>>

\* eval_metric and eval_log: the config of the snapshot, the data of the moment.
Evaluate(e) ==
    /\ ev[e].pc = "evaluate"
    /\ RuleOf(e).config \notin Counting
    /\ ev' = [ev EXCEPT ![e].pc = "read", ![e].met = holds[RuleOf(e).config]]
    /\ UNCHANGED <<tables, ghosts, world, faults>>

\* COUNT(value) is a bigint, which does not decode into Option<f64>.
CountFails(e) ==
    /\ ev[e].pc = "evaluate"
    /\ RuleOf(e).config \in Counting
    /\ ev' = [ev EXCEPT ![e] = Done(e)]
    /\ UNCHANGED <<tables, ghosts, world, faults>>

\* The row, or the defaults of one that is not there: "ok", since now.
ReadState(e) ==
    LET i == CurrentId(e) IN
    /\ ev[e].pc = "read"
    /\ ev' = [ev EXCEPT ![e].pc = "upsert",
                        ![e].read = IF i \in DOMAIN state
                                    THEN [state |-> state[i].state, age |-> state[i].age]
                                    ELSE [NothingRead EXCEPT !.age = ev[e].lag]]
    /\ UNCHANGED <<tables, ghosts, world, faults>>

\* (Altered for a check of TypeOK: the state takes the word of the payload.)
NewStateResolved(prev, met, for, elapsed) ==
    IF prev = "firing" /\ ~met THEN "resolved" ELSE IF met THEN "firing" ELSE "ok"

\* (Altered for a check of LifecycleKept: a firing rule has to wait again.)
NewStateRepeated(prev, met, for, elapsed) ==
    CASE ~met                    -> "ok"
      [] met /\ prev = "ok"      -> IF for = 0 THEN "firing" ELSE "pending"
      [] met /\ prev # "ok"      -> IF elapsed >= for THEN "firing" ELSE "pending"

NewState(prev, met, for, elapsed) ==
    CASE ~met                    -> "ok"
      [] met /\ prev = "ok"      -> IF for = 0 THEN "firing" ELSE "pending"
      [] met /\ prev = "pending" -> IF elapsed >= for THEN "firing" ELSE "pending"
      [] met /\ prev = "firing"  -> "firing"

\* (Altered for a check of Settles: every evaluation starts the wait again.)
SinceNow(q, new) == q.lag

\* (Altered for a check of FiresWhenDue: since is never reset.)
SinceEver(q, new) == q.read.age

\* since is kept as long as the state is.
Since(q, new) == IF new = q.read.state THEN q.read.age ELSE q.lag

\* (Altered for a check of NewsIsTrue: the previous state does not matter.)
NewsWhileFiring(prev, new) ==
    IF new = "firing" THEN "firing" ELSE IF prev = "firing" /\ new = "ok" THEN "resolved" ELSE "none"

\* (Altered for a check of Told: nobody is told that an alert was resolved.)
NewsOfFiring(prev, new) == IF prev # "firing" /\ new = "firing" THEN "firing" ELSE "none"

\* should_notify and notif_state.
News(prev, new) ==
    IF prev # "firing" /\ new = "firing" THEN "firing"
    ELSE IF prev = "firing" /\ new = "ok" THEN "resolved" ELSE "none"

Evaluated(e) ==
    NewState(ev[e].read.state, ev[e].met, RuleOf(e).for, ev[e].read.age - ev[e].lag)

Phase(i) == IF i \in DOMAIN state THEN state[i].state ELSE "ok"

\* What a step of the row itself makes known (for owed).
RowNews(i, new, hook) ==
    IF Phase(i) # "firing" /\ new = "firing" THEN IF hook THEN "firing" ELSE "none"
    ELSE IF Phase(i) = "firing" /\ new = "ok" THEN IF hook THEN "resolved" ELSE "none"
    ELSE owed[i]

\* INSERT ... ON CONFLICT (rule_id) DO UPDATE, which leaves last_notified alone.
\* The foreign key refuses it once the rule is deleted.
StoreRow(e) ==
    LET i == CurrentId(e)
        new == Evaluated(e)
        told == i \in DOMAIN state /\ state[i].notified
    IN
    /\ ev[e].pc = "upsert"
    /\ i \in DOMAIN rules
    /\ state' = With(state, i, [state |-> new, age |-> Since(ev[e], new), notified |-> told])
    /\ owed' = [owed EXCEPT ![i] = RowNews(i, new, RuleOf(e).hook)]
    /\ streak' = [streak EXCEPT ![i] = IF ~ev[e].met THEN -1 ELSE IF @ = -1 THEN ev[e].lag ELSE @]

Upsert(e) ==
    LET news == News(ev[e].read.state, Evaluated(e)) IN
    /\ StoreRow(e)
    /\ ev' = [ev EXCEPT ![e] = IF news # "none" /\ RuleOf(e).hook
                               THEN [Asleep EXCEPT !.pc = "notify", !.todo = ev[e].todo, !.news = news]
                               ELSE Done(e)]
    /\ UNCHANGED <<rules, nextId, world, faults>>

RuleIsGone(e) ==
    /\ ev[e].pc = "upsert"
    /\ CurrentId(e) \notin DOMAIN rules
    /\ ev' = [ev EXCEPT ![e] = Done(e)]
    /\ UNCHANGED <<tables, ghosts, world, faults>>

\* send_webhook to the URL of the snapshot: what becomes of the POST is only logged.
SendWebhook(e) ==
    /\ ev[e].pc = "notify"
    /\ owed' = [owed EXCEPT ![CurrentId(e)] = "none"]
    /\ ev' = [ev EXCEPT ![e].pc = "mark"]
    /\ UNCHANGED <<tables, streak, world, faults>>

\* UPDATE ... SET last_notified, of no row at all once the rule is deleted.
MarkNotified(e) ==
    LET i == CurrentId(e) IN
    /\ ev[e].pc = "mark"
    /\ state' = [j \in DOMAIN state |-> IF j = i THEN [state[j] EXCEPT !.notified = TRUE]
                                                 ELSE state[j]]
    /\ ev' = [ev EXCEPT ![e] = Done(e)]
    /\ UNCHANGED <<rules, nextId, ghosts, world, faults>>

-------------------------------------------------------------------------------
(* What goes wrong, and what goes on meanwhile.                               *)

Fault == faults < MaxFaults /\ faults' = faults + 1

\* A database call fails: the rule is left for the next pass.
CallFails(e) ==
    /\ Fault
    /\ ev[e].pc \in {"evaluate", "read", "upsert", "mark"}
    /\ ev' = [ev EXCEPT ![e] = Done(e)]
    /\ UNCHANGED <<tables, ghosts, world>>

\* The upsert is committed and its answer lost: an error to the evaluator.
UpsertUnanswered(e) ==
    /\ Fault
    /\ StoreRow(e)
    /\ ev' = [ev EXCEPT ![e] = Done(e)]
    /\ UNCHANGED <<rules, nextId, world>>

\* The process dies and comes back, and begins with a pass.
Restart(e) ==
    /\ Fault
    /\ ev[e].pc # "sleeping"
    /\ ev' = [ev EXCEPT ![e] = Asleep]
    /\ UNCHANGED <<tables, ghosts, world>>

Older(a) == IF a < MaxAge THEN a + 1 ELSE a

Tick ==
    /\ \A e \in Evaluators : ev[e].pc \in Timed => ev[e].lag < MaxLag
    /\ state' = [i \in DOMAIN state |-> [state[i] EXCEPT !.age = Older(@)]]
    /\ ev' = [e \in Evaluators |->
                 CASE ev[e].pc = "upsert" ->
                        [ev[e] EXCEPT !.lag = @ + 1, !.read.age = Older(@)]
                   [] ev[e].pc \in Timed \ {"upsert"} -> [ev[e] EXCEPT !.lag = @ + 1]
                   [] OTHER -> ev[e]]
    /\ streak' = [i \in Ids |-> IF streak[i] = -1 THEN -1 ELSE Older(streak[i])]
    /\ UNCHANGED <<rules, nextId, owed, world, faults>>

\* Data arrives, or leaves the window of a rule.
Flip(c) ==
    /\ holds' = [holds EXCEPT ![c] = ~@]
    /\ UNCHANGED <<tables, ev, ghosts, edits, faults>>

-------------------------------------------------------------------------------
Step(e) ==
    \/ LoadRules(e) \/ EndPass(e) \/ StartRule(e)
    \/ Evaluate(e) \/ CountFails(e) \/ ReadState(e)
    \/ Upsert(e) \/ RuleIsGone(e) \/ SendWebhook(e) \/ MarkNotified(e)

Next ==
    \/ \E r \in Rule : CreateRule(r)
    \/ \E i \in Ids, r \in Rule : UpdateRule(i, r)
    \/ \E i \in Ids : DeleteRule(i)
    \/ \E e \in Evaluators :
          Step(e) \/ CallFails(e) \/ UpsertUnanswered(e) \/ Restart(e)
    \/ Tick
    \/ \E c \in Configs : Flip(c)

Spec == Init /\ [][Next]_vars

\* Every evaluator goes on to its next step (sleeping ends, calls time out), and
\* time passes.
FairSpec == Spec /\ WF_vars(Tick) /\ \A e \in Evaluators : WF_vars(Step(e))

-------------------------------------------------------------------------------
(* Properties.                                                               *)

\* "Notifications fire only on state transitions INTO firing or INTO ok FROM
\* firing": what an evaluator is about to announce has happened, and nobody has
\* announced it yet, across failed calls, restarts, edits and deletions (a rule
\* deleted before its upsert included: a state that was not stored is no news).
NewsIsTrue ==
    \A e \in Evaluators : ev[e].pc = "notify" => owed[CurrentId(e)] = ev[e].news

\* A rule enters firing only when the evaluations found its condition true for
\* for_secs without one in between that did not ("cond true AND since+for_secs
\* elapsed"), whatever was edited, restarted or lost meanwhile.
FiresWhenDue ==
    [][\A i \in Ids : Phase(i) # "firing" /\ Phase(i)' = "firing" =>
          \E e \in Evaluators :
             /\ ev[e].pc = "upsert" /\ CurrentId(e) = i
             /\ RuleOf(e).for = 0 \/ streak'[i] - ev[e].lag >= RuleOf(e).for]_vars

\* One evaluator at a time implements the diagram, and tells what it has to tell.
Life == INSTANCE AlertLifecycle WITH phase <- [i \in Ids |-> Phase(i)]
LifecycleKept == Life!Spec

\* As long as no call fails and nothing restarts, the webhook of a rule is called
\* for every transition that makes news.
Told == [](faults = 0) => \A i \in Ids : owed[i] # "none" ~> owed[i] = "none"

Triggered(i) == i \in DOMAIN rules /\ rules[i].enabled /\ holds[rules[i].config]
Calm(i) == i \in DOMAIN rules /\ rules[i].enabled /\ ~holds[rules[i].config]
Counts(i) == i \in DOMAIN rules /\ rules[i].config \in Counting

\* An enabled rule ends up firing if its condition comes to hold for good, and ok
\* if it comes to an end for good: no failure, no restart, no stale snapshot, not
\* even a second evaluator that overwrites the first one's rows, keeps it away.
Settles ==
    \A i \in Ids :
        /\ <>[](Triggered(i) /\ ~Counts(i)) => <>[](Phase(i) = "firing")
        /\ <>[](Calm(i) /\ ~Counts(i)) => <>[](Phase(i) = "ok")

\* The same of every rule that create_rule accepts, "count" ones included: "metric
\* config 'agg' must be avg|sum|min|max|count".
EveryRuleSettles ==
    \A i \in Ids : <>[]Triggered(i) => <>[](Phase(i) = "firing")
===============================================================================
