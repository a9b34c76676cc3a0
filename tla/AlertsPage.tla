------------------------------ MODULE AlertsPage ------------------------------
(***************************************************************************)
(* The alerts page (dashboard/src/pages/alerts.rs) and the handlers it     *)
(* calls (src/alerts/mod.rs), with the checks they make of a rule.  When   *)
(* rules fire is the subject of Alerts: here the set of active alerts      *)
(* changes on its own.                                                     *)
(*                                                                         *)
(* A config is its shape (the fields of which kind it has), its comparator *)
(* ("gt" standing for gt and gte, "lt" for lt and lte) and agg, where      *)
(* "avg" stands for all but count and for the default.  Id 0 is no rule.   *)
(* A form has the fields of both kinds, and of each the rule that they     *)
(* were loaded from.  The name, severity, for_secs, webhook and the error  *)
(* banners are left out.                                                   *)
(***************************************************************************)
EXTENDS Browser, FiniteSets

CONSTANT MaxRules   \* bound of the checked instance: ids of rules

ASSUME RuleBound == MaxRules \in Nat

VARIABLES ruleTable,  \* table alert_rules: existing ids -> rules
          nextRule,
          alarms,     \* rules that are pending or firing
          desk        \* the signals of the page

alertVars == <<ruleTable, nextRule, alarms, desk>>

RuleIds == 1..MaxRules
Kinds == {"metric", "log"}
RuleConfig == [shape : Kinds, cmp : {"gt", "lt"}, agg : {"avg", "count"}]
AlertRule == [kind : Kinds, config : RuleConfig]

RuleTables == UNION {[S -> AlertRule] : S \in SUBSET RuleIds}

AlertsTypeOK ==
    /\ ruleTable \in RuleTables
    /\ nextRule \in 1..MaxRules + 1
    /\ DOMAIN ruleTable \subseteq 1..nextRule - 1
    /\ alarms \subseteq DOMAIN ruleTable
    /\ desk \in [rules : RuleTables, active : SUBSET RuleIds, loading : BOOLEAN,
                 dialog : {"none", "form", "delete"},
                 form : [Kinds -> RuleIds \cup {0}],   \* whose fields of a kind the form holds
                 editId : RuleIds \cup {0}, submitting : BOOLEAN,
                 deleteId : RuleIds \cup {0}, deleting : BOOLEAN]

-----------------------------------------------------------------------------
(* validate_metric_config reads a metric_name and takes each of the five     *)
(* aggs; validate_log_config reads neither.                                  *)

validate_rule(kind, config) ==
    CASE kind = "metric" -> config.shape = "metric"
      [] kind = "log"    -> config.cmp = "gt"

\* What a form that is filled in for a rule of some kind sends; form.validate lets
\* nothing less pass.
build_config(kind, cmp, agg) == [shape |-> kind, cmp |-> cmp, agg |-> agg]
to_create_body(kind, cmp, agg, form) ==
    [id |-> 0, kind |-> kind, config |-> build_config(kind, cmp, agg), form |-> form[kind]]

\* PUT has no field for the kind.
to_update_body(id, kind, cmp, agg, form) ==
    [id |-> id, config |-> build_config(kind, cmp, agg), form |-> form[kind]]

-----------------------------------------------------------------------------
EmptyForm == [k \in Kinds |-> 0]
NewDesk == [rules |-> <<>>, active |-> {}, loading |-> TRUE, dialog |-> "none", form |-> EmptyForm,
            editId |-> 0, submitting |-> FALSE, deleteId |-> 0, deleting |-> FALSE]

\* Of the tables the page may find, those whose rules are alike and all active.
AlertsInit ==
    /\ \E r \in AlertRule, k \in 0..MaxRules :
          /\ validate_rule(r.kind, r.config)
          /\ ruleTable = [i \in 1..k |-> r]
          /\ nextRule = k + 1
          /\ alarms = 1..k
    /\ desk = NewDesk

(* What the user does.                                                       *)

ListRules == GetJson("rules", Nothing)
Reloading(d) == [d EXCEPT !.loading = TRUE]
DeskOnly(d) == desk' = d /\ UNCHANGED <<ruleTable, nextRule, alarms>>

AlertsToken ==
    /\ desk.dialog = "none" /\ CanSend
    /\ Send(<<ListRules>>)
    /\ DeskOnly(Reloading(desk))

\* (Altered for a check of EditsReachTheirRule: edit_id stays.)
open_new_only_form ==
    /\ desk.dialog = "none"
    /\ Local
    /\ DeskOnly([desk EXCEPT !.dialog = "form", !.form = EmptyForm])

open_new ==
    /\ desk.dialog = "none"
    /\ Local
    /\ DeskOnly([desk EXCEPT !.dialog = "form", !.form = EmptyForm, !.editId = 0])

\* load fills the fields of the rule's own kind: those of the other kind stay as
\* an earlier rule, or whoever typed there, left them.
load(form, i, kind) == [form EXCEPT ![kind] = i]

open_edit(i) ==
    /\ desk.dialog = "none" /\ ~desk.loading /\ i \in DOMAIN desk.rules
    /\ Local
    /\ DeskOnly([desk EXCEPT !.dialog = "form", !.editId = i,
                             !.form = load(desk.form, i, desk.rules[i].kind)])

open_delete(i) ==
    /\ desk.dialog = "none" /\ ~desk.loading /\ i \in DOMAIN desk.rules
    /\ Local
    /\ DeskOnly([desk EXCEPT !.dialog = "delete", !.deleteId = i])

CloseDialog ==
    /\ desk.dialog # "none"
    /\ Local
    /\ DeskOnly([desk EXCEPT !.dialog = "none"])

\* Bound of the checked instance: an id is left for every create under way.
RuleIdLeft == nextRule + Cardinality({n \in DOMAIN calls : At(n, "create_rule", "sent")}) <= MaxRules

\* Every field of the form is open until it is sent, the kind of an existing rule
\* included; the fields that show are those of the kind.  Nothing here relies on
\* the buttons being disabled meanwhile: whether the dialog draws them again when
\* submitting or deleting changes is up to the component library.
on_submit(kind, cmp, agg) ==
    /\ desk.dialog = "form" /\ CanSend
    /\ kind = "log" => cmp = "gt" /\ agg = "avg"
    /\ desk.editId = 0 => RuleIdLeft
    /\ Send(<<IF desk.editId = 0 THEN SendJson("create_rule", to_create_body(kind, cmp, agg, desk.form))
              ELSE SendJson("update_rule", to_update_body(desk.editId, kind, cmp, agg, desk.form))>>)
    /\ DeskOnly([desk EXCEPT !.submitting = TRUE])

do_delete ==
    /\ desk.dialog = "delete" /\ CanSend
    /\ Send(<<DeleteReq("delete_rule", desk.deleteId)>>)
    /\ DeskOnly([desk EXCEPT !.deleting = TRUE])

-----------------------------------------------------------------------------
(* What the server does, a statement at a time.                              *)

list_rules(n) ==
    /\ At(n, "rules", "sent")
    /\ Answer(n, ruleTable)
    /\ UNCHANGED alertVars

list_active_alerts(n) ==
    /\ At(n, "active", "sent")
    /\ Answer(n, alarms)
    /\ UNCHANGED alertVars

InsertRule(r) ==
    /\ ruleTable' = With(ruleTable, nextRule, r)
    /\ nextRule' = nextRule + 1
    /\ UNCHANGED <<alarms, desk>>

create_rule(n) ==
    /\ At(n, "create_rule", "sent")
    /\ LET b == calls[n].body IN
       IF validate_rule(b.kind, b.config)
       THEN /\ InsertRule([kind |-> b.kind, config |-> b.config])
            /\ GoOn(n, "read", [b EXCEPT !.id = nextRule])
       ELSE Refuse(n) /\ UNCHANGED alertVars

\* (Altered for a check of ConfigsFitTheirKind: the config is stored as it comes.)
update_rule_unchecked(n) ==
    /\ At(n, "update_rule", "sent")
    /\ IF calls[n].body.id \in DOMAIN ruleTable THEN GoOn(n, "write", calls[n].body) ELSE Refuse(n)
    /\ UNCHANGED alertVars

\* load_rule, then the check of the config against the kind the rule has.
update_rule(n) ==
    /\ At(n, "update_rule", "sent")
    /\ LET b == calls[n].body IN
       IF b.id \in DOMAIN ruleTable /\ validate_rule(ruleTable[b.id].kind, b.config)
       THEN GoOn(n, "write", b)
       ELSE Refuse(n)
    /\ UNCHANGED alertVars

UpdateRow(n) ==
    /\ At(n, "update_rule", "write")
    /\ LET b == calls[n].body IN
       IF b.id \in DOMAIN ruleTable
       THEN /\ ruleTable' = With(ruleTable, b.id, [ruleTable[b.id] EXCEPT !.config = b.config])
            /\ GoOn(n, "read", b)
            /\ UNCHANGED <<nextRule, alarms, desk>>
       ELSE Refuse(n) /\ UNCHANGED alertVars

load_rule(n) ==
    /\ At(n, "create_rule", "read") \/ At(n, "update_rule", "read")
    /\ IF calls[n].body.id \in DOMAIN ruleTable THEN Answer(n, Nothing) ELSE Refuse(n)
    /\ UNCHANGED alertVars

\* (Altered for a check of TypeOK: the state of the rule stays behind.)
DeleteRowOnly(i) ==
    /\ ruleTable' = Without(ruleTable, i)
    /\ UNCHANGED <<nextRule, alarms, desk>>

\* alert_state goes along, ON DELETE CASCADE.
DeleteRow(i) ==
    /\ ruleTable' = Without(ruleTable, i)
    /\ alarms' = alarms \ {i}
    /\ UNCHANGED <<nextRule, desk>>

delete_rule(n) ==
    /\ At(n, "delete_rule", "sent")
    /\ DeleteRow(calls[n].body)
    /\ IF calls[n].body \in DOMAIN ruleTable THEN Answer(n, Nothing) ELSE Refuse(n)

\* The evaluator, or another client.
SomebodyTouchesARule(i) ==
    /\ SomebodyElse
    /\ i \in DOMAIN ruleTable
    /\ \/ alarms' = (alarms \ {i}) \cup ({i} \ alarms) /\ UNCHANGED <<ruleTable, nextRule, desk>>
       \/ DeleteRow(i)

-----------------------------------------------------------------------------
(* The answers.                                                              *)

\* (Altered for a check of RulesSettle: only the rules are loaded.)
GotRulesOnly(n) ==
    /\ At(n, "rules", "done")
    /\ Receive(n, <<>>)
    /\ DeskOnly([desk EXCEPT !.rules = IF calls[n].ok THEN calls[n].got[1] ELSE @, !.loading = FALSE])

\* load asks for the active alerts next, whether the rules came or not.
GotRules(n) ==
    /\ At(n, "rules", "done")
    /\ Receive(n, <<GetJson("active", Nothing)>>)
    /\ DeskOnly([desk EXCEPT !.rules = IF calls[n].ok THEN calls[n].got[1] ELSE @])

GotActive(n) ==
    /\ At(n, "active", "done")
    /\ Receive(n, <<>>)
    /\ DeskOnly([desk EXCEPT !.loading = FALSE,
                             !.active = IF calls[n].ok THEN calls[n].got[1] ELSE @])

\* The answer closes the form, whichever rule it is open for by now.
GotSubmitted(n) ==
    /\ At(n, "create_rule", "done") \/ At(n, "update_rule", "done")
    /\ IF calls[n].ok
       THEN /\ Receive(n, <<ListRules>>)
            /\ DeskOnly([Reloading(desk) EXCEPT !.submitting = FALSE,
                                                !.dialog = IF @ = "form" THEN "none" ELSE @])
       ELSE /\ Receive(n, <<>>)
            /\ DeskOnly([desk EXCEPT !.submitting = FALSE])

GotRuleDeleted(n) ==
    /\ At(n, "delete_rule", "done")
    /\ IF calls[n].ok
       THEN /\ Receive(n, <<ListRules>>)
            /\ DeskOnly([Reloading(desk) EXCEPT !.deleting = FALSE,
                                                !.dialog = IF @ = "delete" THEN "none" ELSE @])
       ELSE /\ Receive(n, <<>>)
            /\ DeskOnly([desk EXCEPT !.deleting = FALSE])

AlertsServes(n) ==
    \/ list_rules(n) \/ list_active_alerts(n) \/ create_rule(n) \/ update_rule(n)
    \/ UpdateRow(n) \/ load_rule(n) \/ delete_rule(n)
AlertsHears(n) == GotRules(n) \/ GotActive(n) \/ GotSubmitted(n) \/ GotRuleDeleted(n)

AlertsUser ==
    \/ AlertsToken \/ open_new \/ CloseDialog \/ do_delete
    \/ \E i \in RuleIds : open_edit(i) \/ open_delete(i) \/ SomebodyTouchesARule(i)
    \/ \E kind \in Kinds, cmp \in {"gt", "lt"}, agg \in {"avg", "count"} : on_submit(kind, cmp, agg)

-----------------------------------------------------------------------------
DeskIdle == ~desk.loading /\ ~desk.submitting /\ ~desk.deleting

\* When everything was answered in order, the page shows the rules and the active
\* alerts there are: a save, and a delete with its cascade, are followed by both
\* reloads.
RulesSettle ==
    page = "alerts" /\ Settled => DeskIdle /\ desk.rules = ruleTable /\ desk.active = alarms

\* What the evaluator needs to get a value: eval_metric asks for a metric_name, and
\* reads what it selects as a float, which a COUNT is not; eval_log asks for nothing.
Evaluates(rule) ==
    rule.kind = "metric" => rule.config.shape = "metric" /\ rule.config.agg # "count"

Counts(rule) == rule.kind = "metric" /\ rule.config.shape = "metric" /\ rule.config.agg = "count"

\* The kind of a rule never changes, but the form lets it be switched, and
\* update_rule checks, writes and reads in three statements.  Still, every stored
\* metric rule has a metric to look at, and every stored log rule waits for many
\* records rather than few.  This is all that validate_rule is good for: a metric
\* rule that counts is stored and never evaluated (run alert_count), and a log rule
\* may end up with the fields of a metric, all of its own conditions dropped.
ConfigsFitTheirKind ==
    \A i \in DOMAIN ruleTable :
        LET rule == ruleTable[i] IN
        /\ Evaluates(rule) \/ Counts(rule)
        /\ rule.kind = "log" => rule.config.cmp = "gt"

\* What the user filled in goes to the rule it was shown for: a request to update
\* a rule carries the fields of that rule, and one to create a rule fields that were
\* loaded from none.  This is not so when the kind of an existing rule is switched
\* in the form: then the other fields are what an earlier rule left there.
EditsReachTheirRule ==
    page = "alerts" =>
      \A n \in DOMAIN calls :
        LET b == calls[n].body IN
        /\ At(n, "create_rule", "sent") => b.form = 0
        /\ (/\ calls[n].to = "update_rule"
            /\ b.id \in DOMAIN ruleTable
            /\ b.config.shape = ruleTable[b.id].kind) => b.form = b.id
==============================================================================
