---------------------------- MODULE Console_proofs ----------------------------
(***************************************************************************)
(* What the pages of the console may rely on, proved for any number of     *)
(* requests in flight, handled and answered in any order, of failures and  *)
(* of changes by others.                                                   *)
(***************************************************************************)
EXTENDS Console, Sums_proofs

-----------------------------------------------------------------------------
(* The requests in flight after a step of the network.                       *)

\* What is in flight after a send was in flight before, or is one of rs.
LEMMA SendAdds ==
    ASSUME NEW rs, Send(rs), sent \in Int, DOMAIN rs \subseteq Int
    PROVE  /\ DOMAIN calls \subseteq DOMAIN calls'
           /\ \A n \in DOMAIN calls : calls'[n] = calls[n]
           /\ \A n \in DOMAIN calls' : n \in DOMAIN calls \/ \E i \in DOMAIN rs : calls'[n] = rs[i]
<1>1. calls' = Plus(calls, rs)
  BY DEF Send
<1>2. \A i \in DOMAIN rs : (sent + i) - sent = i
  OBVIOUS
<1> QED
  BY <1>1, <1>2 DEF Plus

\* The same of the answer to request m, which is not in flight any more.
LEMMA ReceiveAdds ==
    ASSUME NEW m, NEW rs, Receive(m, rs), sent \in Int, DOMAIN rs \subseteq Int
    PROVE  /\ DOMAIN calls \ {m} \subseteq DOMAIN calls'
           /\ \A n \in DOMAIN calls \ {m} : calls'[n] = calls[n]
           /\ \A n \in DOMAIN calls' :
                 n \in DOMAIN calls \ {m} \/ \E i \in DOMAIN rs : calls'[n] = rs[i]
<1> DEFINE rest == Without(calls, m)
<1>1. calls' = Plus(rest, rs)
  BY DEF Receive
<1>2. \A i \in DOMAIN rs : (sent + i) - sent = i
  OBVIOUS
<1>3. DOMAIN rest = DOMAIN calls \ {m} /\ \A n \in DOMAIN calls \ {m} : rest[n] = calls[n]
  BY DEF Without
<1> HIDE DEF rest
<1> QED
  BY <1>1, <1>2, <1>3 DEF Plus

IsCall(c) == c = [to |-> c.to, body |-> c.body, at |-> c.at, ok |-> c.ok, got |-> c.got]

Fresh(c) == IsCall(c) /\ c.at = "sent" /\ c.ok = FALSE

\* What Answer and GoOn make of a request.
Answered(c, got) == [c EXCEPT !.at = "done", !.ok = TRUE, !.got = <<got>>]
Continued(c, step, body) == [c EXCEPT !.at = step, !.body = body]

LEMMA CallAnswered ==
    ASSUME NEW c, IsCall(c), NEW got
    PROVE  LET d == Answered(c, got) IN
           IsCall(d) /\ d.to = c.to /\ d.body = c.body /\ d.at = "done" /\ d.ok = TRUE /\ d.got = <<got>>
<1> PICK d : d = Answered(c, got)
  OBVIOUS
<1>1. DOMAIN c = {"to", "body", "at", "ok", "got"}
  BY DEF IsCall
<1>2. d = [to |-> c.to, body |-> c.body, at |-> "done", ok |-> TRUE, got |-> <<got>>]
  BY <1>1 DEF Answered
<1> QED
  BY <1>2 DEF IsCall

LEMMA CallContinued ==
    ASSUME NEW c, IsCall(c), NEW step, NEW body
    PROVE  LET d == Continued(c, step, body) IN
           /\ IsCall(d) /\ d.to = c.to /\ d.body = body /\ d.at = step
           /\ d.ok = c.ok /\ d.got = c.got
<1> PICK d : d = Continued(c, step, body)
  OBVIOUS
<1>1. DOMAIN c = {"to", "body", "at", "ok", "got"}
  BY DEF IsCall
<1>2. d = [to |-> c.to, body |-> body, at |-> step, ok |-> c.ok, got |-> c.got]
  BY <1>1 DEF Continued
<1> QED
  BY <1>2 DEF IsCall

LEMMA GetJsonIsFresh ==
    ASSUME NEW to, NEW query
    PROVE  /\ Fresh(GetJson(to, query))
           /\ GetJson(to, query).to = to /\ GetJson(to, query).body = query
BY DEF GetJson, Fresh, IsCall

\* Request m is now c, and it is the only one that changed.
OnlyCall(m, c) ==
    /\ DOMAIN calls' = DOMAIN calls
    /\ calls'[m] = c
    /\ \A n \in DOMAIN calls \ {m} : calls'[n] = calls[n]

\* A statement of a handler changes its own request only.
LEMMA HandleKeeps ==
    ASSUME NEW m \in DOMAIN calls, NEW c, Handle(m, c)
    PROVE  OnlyCall(m, c) /\ sent' = sent
BY DEF Handle, OnlyCall

\* The request is over: nothing but what became of it has changed.
Over(m) ==
    \E c : /\ OnlyCall(m, c) /\ sent' = sent
           /\ IsCall(c) /\ c.to = calls[m].to /\ c.body = calls[m].body /\ c.at = "done"

LEMMA AnswerEnds ==
    ASSUME NEW m \in DOMAIN calls, IsCall(calls[m]), NEW got, Answer(m, got)
    PROVE  Over(m) /\ calls'[m].ok = TRUE /\ calls'[m].got = <<got>>
<1> DEFINE c == Answered(calls[m], got)
<1>1. Handle(m, c)
  BY DEF Answer, Answered
<1>2. IsCall(c) /\ c.to = calls[m].to /\ c.body = calls[m].body /\ c.at = "done"
      /\ c.ok = TRUE /\ c.got = <<got>>
  BY CallAnswered
<1> HIDE DEF c
<1>3. OnlyCall(m, c) /\ sent' = sent
  BY <1>1, HandleKeeps
<1> QED
  BY <1>2, <1>3 DEF Over, OnlyCall

LEMMA RefuseEnds ==
    ASSUME NEW m \in DOMAIN calls, IsCall(calls[m]), Refuse(m)
    PROVE  Over(m)
<1> DEFINE c == [calls[m] EXCEPT !.at = "done"]
<1>1. OnlyCall(m, c) /\ sent' = sent
  BY HandleKeeps DEF Refuse
<1>2. IsCall(c) /\ c.to = calls[m].to /\ c.body = calls[m].body /\ c.at = "done"
  BY DEF IsCall
<1> QED
  BY <1>1, <1>2 DEF Over

LEMMA FailEnds ==
    ASSUME NEW m \in DOMAIN calls, IsCall(calls[m]), Fail(m)
    PROVE  Over(m)
<1> DEFINE c == [calls[m] EXCEPT !.at = "done"]
<1>1. OnlyCall(m, c) /\ sent' = sent
  BY DEF Fail, OnlyCall
<1>2. IsCall(c) /\ c.to = calls[m].to /\ c.body = calls[m].body /\ c.at = "done"
  BY DEF IsCall
<1> QED
  BY <1>1, <1>2 DEF Over

LEMMA GoOnKeeps ==
    ASSUME NEW m \in DOMAIN calls, IsCall(calls[m]), NEW step, NEW body, GoOn(m, step, body)
    PROVE  \E c : /\ OnlyCall(m, c) /\ sent' = sent
                  /\ IsCall(c) /\ c.to = calls[m].to /\ c.body = body /\ c.at = step
                  /\ c.ok = calls[m].ok
<1> DEFINE c == Continued(calls[m], step, body)
<1>1. Handle(m, c)
  BY DEF GoOn, Continued
<1>2. IsCall(c) /\ c.to = calls[m].to /\ c.body = body /\ c.at = step /\ c.ok = calls[m].ok
  BY CallContinued
<1> HIDE DEF c
<1>3. OnlyCall(m, c) /\ sent' = sent
  BY <1>1, HandleKeeps
<1> QED
  BY <1>2, <1>3

-----------------------------------------------------------------------------
\* The page that is open stays open.
LEMMA PageStays ==
    ASSUME [Next]_vars
    PROVE  page' = page
<1>1. ASSUME DashUser PROVE page' = page
  BY <1>1 DEF DashUser, DashToken, CreateNew, Save, AskDelete, ConfirmDelete, CancelDash,
     OpenDashboard, SomebodyChangesADashboard, AddPanel, RemovePanel, Send, Local, net, SomebodyElse
<1>2. ASSUME AlertsUser PROVE page' = page
  BY <1>2 DEF AlertsUser, AlertsToken, open_new, CloseDialog, do_delete, open_edit, open_delete,
     SomebodyTouchesARule, on_submit, Send, Local, net, SomebodyElse
<1>3. ASSUME QueriesUser PROVE page' = page
  BY <1>3 DEF QueriesUser, TypeToken, SelectName, FollowToLogs, load_spans, RunMetrics, RunLogs,
     ClearFilter, RunMap, RunTraces, Ask, Send, Local, net
<1>4. ASSUME NEW n, DashServes(n) \/ DashHears(n) PROVE page' = page
  BY <1>4 DEF DashServes, list_dashboards, get_dashboard, create_dashboard, update_dashboard,
     delete_dashboard, DashHears, GotList, GotDashboard, GotCreated, GotSaved, GotDeleted,
     Answer, Refuse, GoOn, Handle, Receive
<1>5. ASSUME NEW n, AlertsServes(n) \/ AlertsHears(n) PROVE page' = page
  BY <1>5 DEF AlertsServes, list_rules, list_active_alerts, create_rule, update_rule, UpdateRow,
     load_rule, delete_rule, AlertsHears, GotRules, GotActive, GotSubmitted, GotRuleDeleted,
     Answer, Refuse, GoOn, Handle, Receive
<1>6. ASSUME NEW n, QueriesServe(n) \/ QueriesHear(n) PROVE page' = page
  BY <1>6 DEF QueriesServe, Serve, QueriesHear, GotHealth, GotBox, Answer, Refuse, Handle, Receive
<1>7. ASSUME Breaks PROVE page' = page
  BY <1>7 DEF Breaks, Fail
<1>8. ASSUME UNCHANGED vars PROVE page' = page
  BY <1>8 DEF vars, net
<1> QED
  BY <1>1, <1>2, <1>3, <1>4, <1>5, <1>6, <1>7, <1>8
     DEF Next, Network, OnDashboards, OnAlerts, OnQueries

-----------------------------------------------------------------------------
(* A dashboard that was deleted does not come back.                          *)

IdsGrow == nextDash \in Int

\* The statements that write the table, one by one.
LEMMA TableSteps ==
    ASSUME [Next]_vars
    PROVE  \/ UNCHANGED <<stored, nextDash>>
           \/ \E p : InsertDashboard(p)
           \/ \E i, p : UpdateDashboard(i, p)
           \/ \E i : DeleteDashboard(i)
<1> DEFINE Goal == \/ UNCHANGED <<stored, nextDash>>
                   \/ \E p : InsertDashboard(p)
                   \/ \E i, p : UpdateDashboard(i, p)
                   \/ \E i : DeleteDashboard(i)
<1>1. ASSUME DashUser PROVE Goal
  BY <1>1 DEF DashUser, DashToken, CreateNew, Save, AskDelete, ConfirmDelete, CancelDash,
     OpenDashboard, SomebodyChangesADashboard, AddPanel, RemovePanel, DashOnly, dashVars
<1>2. ASSUME NEW n, DashServes(n) \/ DashHears(n) PROVE Goal
  BY <1>2 DEF DashServes, list_dashboards, get_dashboard, create_dashboard, update_dashboard,
     delete_dashboard, TableUnchanged, dashVars, DashHears, GotList, GotDashboard, GotCreated,
     GotSaved, GotDeleted, DashOnly
<1>3. CASE UNCHANGED dashVars
  BY <1>3 DEF dashVars
<1> QED
  BY <1>1, <1>2, <1>3 DEF Next, Network, Breaks, OnDashboards, OnAlerts, OnQueries, vars

LEMMA IdsGrowInit ==
    ASSUME Init
    PROVE  IdsGrow
<1>1. ASSUME DashInit PROVE IdsGrow
  BY <1>1, DashBounds DEF DashInit, IdsGrow
<1>2. ASSUME NoDashboards PROVE IdsGrow
  BY <1>2 DEF NoDashboards, IdsGrow
<1> QED
  BY <1>1, <1>2 DEF Init

LEMMA IdsGrowStep ==
    ASSUME IdsGrow, [Next]_vars
    PROVE  IdsGrow'
BY TableSteps DEF IdsGrow, InsertDashboard, UpdateDashboard, DeleteDashboard

\* An id below nextDash that is not there is not there after the step either.
LEMMA NothingReturns ==
    ASSUME IdsGrow, [Next]_vars
    PROVE  \A i \in 1..nextDash - 1 : i \notin DOMAIN stored => i \notin DOMAIN stored'
<1> SUFFICES ASSUME NEW i \in 1..nextDash - 1, i \notin DOMAIN stored
             PROVE  i \notin DOMAIN stored'
  OBVIOUS
<1>1. ASSUME NEW p, InsertDashboard(p) PROVE i \notin DOMAIN stored'
  <2>1. DOMAIN stored' = DOMAIN stored \cup {nextDash}
    BY <1>1 DEF InsertDashboard, With
  <2> QED
    BY <2>1 DEF IdsGrow
<1>2. ASSUME NEW j, NEW p, UpdateDashboard(j, p) PROVE i \notin DOMAIN stored'
  <2>1. DOMAIN stored' = DOMAIN stored
    BY <1>2 DEF UpdateDashboard, With
  <2> QED
    BY <2>1
<1>3. ASSUME NEW j, DeleteDashboard(j) PROVE i \notin DOMAIN stored'
  BY <1>3 DEF DeleteDashboard, Without
<1> QED
  BY TableSteps, <1>1, <1>2, <1>3

\* No sequence of creates, saves and deletes, by any number of users in any order
\* of their requests, brings a deleted dashboard back: update_dashboard is an UPDATE
\* and the ids come from an identity column.
THEOREM DeletedStaysDeleted == Spec => NoResurrection
<1>1. Init => IdsGrow
  BY IdsGrowInit
<1>2. IdsGrow /\ [Next]_vars => IdsGrow'
  BY IdsGrowStep
<1>3. IdsGrow /\ [Next]_vars =>
        [\A i \in 1..nextDash - 1 : i \notin DOMAIN stored => i \notin DOMAIN stored']_<<stored, nextDash>>
  BY NothingReturns
<1> QED
  BY <1>1, <1>2, <1>3, PTL DEF Spec, NoResurrection

-----------------------------------------------------------------------------
(* Rules.                                                                    *)

IsRule(r) == r = [kind |-> r.kind, config |-> r.config]

\* Every stored rule passes the check for its kind.
RulesPass == \A i \in DOMAIN ruleTable : validate_rule(ruleTable[i].kind, ruleTable[i].config)

\* What an update that load_rule and the check let through may rely on when it is
\* written: if the rule is still there, it is of the kind that was checked.
Checked(c) ==
    c.to = "update_rule" /\ c.at = "write" =>
        /\ c.body.id \in Int /\ c.body.id < nextRule
        /\ c.body.id \in DOMAIN ruleTable => validate_rule(ruleTable[c.body.id].kind, c.body.config)

RulesInv ==
    /\ nextRule \in Int
    /\ \A i \in DOMAIN ruleTable : i \in Int /\ i < nextRule /\ IsRule(ruleTable[i])
    /\ RulesPass
    /\ page = "alerts" => sent \in Int /\ \A n \in DOMAIN calls : IsCall(calls[n]) /\ Checked(calls[n])

LEMMA RulesInit ==
    ASSUME Init
    PROVE  RulesInv
<1>1. ASSUME AlertsInit PROVE nextRule \in Int /\ RulesPass
        /\ \A i \in DOMAIN ruleTable : i \in Int /\ i < nextRule /\ IsRule(ruleTable[i])
  <2> PICK r \in AlertRule, k \in 0..MaxRules :
         validate_rule(r.kind, r.config) /\ ruleTable = [i \in 1..k |-> r] /\ nextRule = k + 1
    BY <1>1 DEF AlertsInit
  <2> QED
    BY RuleBound DEF RulesPass, IsRule, AlertRule
<1>2. ASSUME NoRules PROVE nextRule \in Int /\ DOMAIN ruleTable = {}
  BY <1>2 DEF NoRules
<1>3. ASSUME BrowserInit(<<ListRules>>)
      PROVE  sent \in Int /\ \A n \in DOMAIN calls : IsCall(calls[n]) /\ Checked(calls[n])
  <2>1. Fresh(ListRules) /\ ListRules.to = "rules"
    BY GetJsonIsFresh DEF ListRules
  <2>2. sent = 1 /\ DOMAIN calls = {1} /\ calls[1] = ListRules
    BY <1>3 DEF BrowserInit
  <2> QED
    BY <2>1, <2>2 DEF Fresh, Checked
<1> QED
  BY <1>1, <1>2, <1>3 DEF Init, RulesInv, RulesPass, Asking

\* No id is used again, a rule stays of its kind and can be run.
RulesKept ==
    /\ nextRule' \in Int /\ nextRule <= nextRule'
    /\ \A i \in DOMAIN ruleTable' :
          /\ i \in Int /\ i < nextRule' /\ IsRule(ruleTable'[i])
          /\ validate_rule(ruleTable'[i].kind, ruleTable'[i].config)
          /\ i < nextRule => i \in DOMAIN ruleTable /\ ruleTable'[i].kind = ruleTable[i].kind

\* Every request was in flight before, is not about to be written, or was checked.
CallsKept ==
    /\ sent' \in Int
    /\ \A n \in DOMAIN calls' :
          /\ IsCall(calls'[n])
          /\ \/ n \in DOMAIN calls /\ calls'[n] = calls[n]
             \/ calls'[n].at # "write"
             \/ Checked(calls'[n])

LEMMA RulesStay ==
    ASSUME RulesInv, UNCHANGED <<ruleTable, nextRule>>
    PROVE  RulesKept
BY DEF RulesInv, RulesKept, RulesPass

LEMMA KeptKeeps ==
    ASSUME RulesInv, page = "alerts", RulesKept, CallsKept
    PROVE  RulesInv'
<1>1. ASSUME NEW n \in DOMAIN calls' PROVE (IsCall(calls[n]) /\ Checked(calls[n]))'
  <2> PICK c : c = calls'[n]
    OBVIOUS
  <2>1. IsCall(c) /\ (c.at # "write" \/ Checked(c))
    BY <1>1 DEF CallsKept, RulesInv
  <2>2. ASSUME c.to = "update_rule", c.at = "write"
        PROVE  /\ c.body.id \in Int /\ c.body.id < nextRule'
               /\ c.body.id \in DOMAIN ruleTable' =>
                     validate_rule(ruleTable'[c.body.id].kind, c.body.config)
    BY <2>1, <2>2 DEF Checked, RulesKept, RulesInv
  <2> QED
    BY <2>1, <2>2 DEF Checked
<1> QED
  BY <1>1 DEF RulesKept, CallsKept, RulesInv, RulesPass

\* The page sends one request, or none, and hears the answer to another one.
LEMMA SendKeeps ==
    ASSUME RulesInv, page = "alerts", NEW r, Fresh(r), Send(<<r>>)
    PROVE  CallsKept
<1>1. sent \in Int /\ \A n \in DOMAIN calls : IsCall(calls[n])
  BY DEF RulesInv
<1> DEFINE rs == <<r>>
<1>2. DOMAIN rs = {1} /\ rs[1] = r /\ Len(rs) = 1
  OBVIOUS
<1>3. Send(rs)
  OBVIOUS
<1> HIDE DEF rs
<1>4. sent' \in Int
  BY <1>1, <1>2, <1>3 DEF Send
<1>5. \A n \in DOMAIN calls' : (n \in DOMAIN calls /\ calls'[n] = calls[n]) \/ calls'[n] = r
  BY <1>1, <1>2, <1>3, SendAdds
<1> QED
  BY <1>1, <1>4, <1>5 DEF CallsKept, Fresh

LEMMA ReceiveKeeps ==
    ASSUME RulesInv, page = "alerts", NEW m, NEW rs, Receive(m, rs),
           rs = <<>> \/ \E r : Fresh(r) /\ rs = <<r>>
    PROVE  CallsKept
<1>1. sent \in Int /\ \A n \in DOMAIN calls : IsCall(calls[n])
  BY DEF RulesInv
<1>2. DOMAIN rs \subseteq Int /\ Len(rs) \in Int /\ \A i \in DOMAIN rs : Fresh(rs[i])
  OBVIOUS
<1>3. sent' \in Int
  BY <1>1, <1>2 DEF Receive
<1>4. \A n \in DOMAIN calls' :
         (n \in DOMAIN calls /\ calls'[n] = calls[n]) \/ \E i \in DOMAIN rs : calls'[n] = rs[i]
  BY <1>1, <1>2, ReceiveAdds
<1> QED
  BY <1>1, <1>2, <1>3, <1>4 DEF CallsKept, Fresh

LEMMA LocalKeeps ==
    ASSUME RulesInv, page = "alerts", UNCHANGED <<calls, sent>>
    PROVE  CallsKept
BY DEF RulesInv, CallsKept

LEMMA OverKeeps ==
    ASSUME RulesInv, page = "alerts", NEW m \in DOMAIN calls, Over(m)
    PROVE  CallsKept
BY DEF RulesInv, CallsKept, Over, OnlyCall

\* A request goes on to a step other than "write", or was checked.
LEMMA GoOnKept ==
    ASSUME RulesInv, page = "alerts", NEW m \in DOMAIN calls, NEW step, NEW body,
           GoOn(m, step, body),
           step # "write" \/ (/\ body.id \in DOMAIN ruleTable
                              /\ validate_rule(ruleTable[body.id].kind, body.config))
    PROVE  CallsKept
<1>1. sent \in Int /\ \A n \in DOMAIN calls : IsCall(calls[n])
  BY DEF RulesInv
<1> PICK c : /\ OnlyCall(m, c) /\ sent' = sent
             /\ IsCall(c) /\ c.to = calls[m].to /\ c.body = body /\ c.at = step
  BY <1>1, GoOnKeeps
<1>2. c.at # "write" \/ Checked(c)
  BY DEF Checked, RulesInv
<1> QED
  BY <1>1, <1>2 DEF CallsKept, OnlyCall

-----------------------------------------------------------------------------
LEMMA AlertsUserKeeps ==
    ASSUME RulesInv, page = "alerts", AlertsUser
    PROVE  RulesKept /\ CallsKept
<1>1. CASE AlertsToken
  <2>1. CallsKept
    BY <1>1, SendKeeps, GetJsonIsFresh DEF AlertsToken, ListRules
  <2> QED
    BY <1>1, <2>1, RulesStay DEF AlertsToken, DeskOnly
<1>2. CASE open_new \/ CloseDialog
  BY <1>2, LocalKeeps, RulesStay DEF open_new, CloseDialog, Local, net, DeskOnly
<1>3. CASE do_delete
  <2>1. CallsKept
    BY <1>3, SendKeeps, GetJsonIsFresh DEF do_delete, DeleteReq
  <2> QED
    BY <1>3, <2>1, RulesStay DEF do_delete, DeskOnly
<1>4. ASSUME NEW i \in RuleIds, open_edit(i) \/ open_delete(i) PROVE RulesKept /\ CallsKept
  BY <1>4, LocalKeeps, RulesStay DEF open_edit, open_delete, Local, net, DeskOnly
<1>5. ASSUME NEW i \in RuleIds, SomebodyTouchesARule(i) PROVE RulesKept /\ CallsKept
  <2>1. CallsKept
    BY <1>5, LocalKeeps DEF SomebodyTouchesARule, SomebodyElse
  <2>2. CASE UNCHANGED <<ruleTable, nextRule, desk>>
    BY <2>1, <2>2, RulesStay
  <2>3. CASE DeleteRow(i)
    BY <2>1, <2>3 DEF DeleteRow, Without, RulesInv, RulesKept, RulesPass
  <2> QED
    BY <1>5, <2>2, <2>3 DEF SomebodyTouchesARule
<1>6. ASSUME NEW kind \in Kinds, NEW cmp, NEW agg, on_submit(kind, cmp, agg) PROVE RulesKept /\ CallsKept
  <2>1. \E r : Fresh(r) /\ Send(<<r>>)
    BY <1>6, GetJsonIsFresh DEF on_submit, SendJson
  <2> QED
    BY <1>6, <2>1, SendKeeps, RulesStay DEF on_submit, DeskOnly
<1> QED
  BY <1>1, <1>2, <1>3, <1>4, <1>5, <1>6 DEF AlertsUser

LEMMA AlertsHearsKeeps ==
    ASSUME RulesInv, page = "alerts", NEW n, AlertsHears(n)
    PROVE  RulesKept /\ CallsKept
<1>1. \E rs : Receive(n, rs) /\ (rs = <<>> \/ \E r : Fresh(r) /\ rs = <<r>>)
  BY GetJsonIsFresh DEF AlertsHears, GotRules, GotActive, GotSubmitted, GotRuleDeleted, ListRules
<1>2. UNCHANGED <<ruleTable, nextRule>>
  BY DEF AlertsHears, GotRules, GotActive, GotSubmitted, GotRuleDeleted, DeskOnly
<1> QED
  BY <1>1, <1>2, ReceiveKeeps, RulesStay

LEMMA AlertsServesKeeps ==
    ASSUME RulesInv, page = "alerts", NEW n, AlertsServes(n)
    PROVE  RulesKept /\ CallsKept
<1>1. n \in DOMAIN calls /\ IsCall(calls[n])
  BY DEF AlertsServes, list_rules, list_active_alerts, create_rule, update_rule, UpdateRow,
     load_rule, delete_rule, At, RulesInv
<1>2. ASSUME Refuse(n) \/ \E got : Answer(n, got) PROVE CallsKept
  BY <1>1, <1>2, RefuseEnds, AnswerEnds, OverKeeps
<1>3. CASE list_rules(n) \/ list_active_alerts(n) \/ load_rule(n)
  BY <1>2, <1>3, RulesStay DEF list_rules, list_active_alerts, load_rule, alertVars
<1>4. CASE create_rule(n)
  <2> DEFINE b == calls[n].body
             r == [kind |-> b.kind, config |-> b.config]
  <2>1. CASE validate_rule(b.kind, b.config)
    <3>1. CallsKept
      BY <1>1, <1>4, <2>1, GoOnKept DEF create_rule
    <3>2. ruleTable' = With(ruleTable, nextRule, r) /\ nextRule' = nextRule + 1
      BY <1>4, <2>1 DEF create_rule, InsertRule
    <3>3. IsRule(r) /\ r.kind = b.kind /\ r.config = b.config
      BY DEF IsRule
    <3> HIDE DEF r
    <3> QED
      BY <2>1, <3>1, <3>2, <3>3 DEF With, RulesInv, RulesKept, RulesPass
  <2>2. CASE ~validate_rule(b.kind, b.config)
    BY <1>2, <1>4, <2>2, RulesStay DEF create_rule, alertVars
  <2> QED
    BY <2>1, <2>2
<1>5. CASE update_rule(n)
  <2>1. CallsKept
    BY <1>1, <1>2, <1>5, GoOnKept DEF update_rule
  <2> QED
    BY <1>5, <2>1, RulesStay DEF update_rule, alertVars
<1>6. CASE UpdateRow(n)
  <2> DEFINE b == calls[n].body
  <2>1. CASE b.id \in DOMAIN ruleTable
    <3>1. CallsKept
      BY <1>1, <1>6, <2>1, GoOnKept DEF UpdateRow
    <3> PICK r : r = [ruleTable[b.id] EXCEPT !.config = b.config]
      OBVIOUS
    <3>2. IsRule(r) /\ r.kind = ruleTable[b.id].kind /\ r.config = b.config
      BY <2>1 DEF RulesInv, IsRule
    <3>3. ruleTable' = With(ruleTable, b.id, r) /\ nextRule' = nextRule
      BY <1>6, <2>1 DEF UpdateRow
    <3>4. validate_rule(r.kind, r.config)
      BY <1>6, <2>1, <3>2 DEF UpdateRow, At, RulesInv, Checked
    <3> QED
      BY <2>1, <3>1, <3>2, <3>3, <3>4 DEF With, RulesInv, RulesKept, RulesPass
  <2>2. CASE b.id \notin DOMAIN ruleTable
    BY <1>2, <1>6, <2>2, RulesStay DEF UpdateRow, alertVars
  <2> QED
    BY <2>1, <2>2
<1>7. CASE delete_rule(n)
  <2>1. CallsKept
    BY <1>2, <1>7 DEF delete_rule
  <2> QED
    BY <1>7, <2>1 DEF delete_rule, DeleteRow, Without, RulesInv, RulesKept, RulesPass
<1> QED
  BY <1>3, <1>4, <1>5, <1>6, <1>7 DEF AlertsServes

LEMMA RulesStep ==
    ASSUME RulesInv, [Next]_vars
    PROVE  RulesInv'
<1>1. page' = page
  BY PageStays
<1>2. CASE page # "alerts"
  <2>1. UNCHANGED <<ruleTable, nextRule>>
    BY <1>2 DEF Next, OnDashboards, OnAlerts, OnQueries, Network, Breaks, alertVars, vars
  <2> QED
    BY <1>1, <1>2, <2>1 DEF RulesInv, RulesPass
<1>3. CASE page = "alerts"
  <2>1. CASE AlertsUser
    BY <1>3, <2>1, AlertsUserKeeps, KeptKeeps
  <2>2. ASSUME NEW n, AlertsServes(n) \/ AlertsHears(n) PROVE RulesInv'
    BY <1>3, <2>2, AlertsServesKeeps, AlertsHearsKeeps, KeptKeeps
  <2>3. CASE Breaks
    <3> PICK n \in DOMAIN calls : Fail(n)
      BY <2>3 DEF Breaks
    <3>1. CallsKept
      BY <1>3, FailEnds, OverKeeps DEF RulesInv
    <3> QED
      BY <1>3, <2>3, <3>1, RulesStay, KeptKeeps DEF Breaks, alertVars
  <2>4. CASE UNCHANGED vars
    BY <1>3, <2>4, LocalKeeps, RulesStay, KeptKeeps DEF vars, net, alertVars
  <2> QED
    BY <1>3, <2>1, <2>2, <2>3, <2>4 DEF Next, OnDashboards, OnAlerts, OnQueries, Network, Asking
<1> QED
  BY <1>2, <1>3

\* However the edits, creates and deletes of any number of users interleave between
\* the statements of the handlers, every stored metric rule can be evaluated or is
\* one that counts, and every stored log rule compares upwards: the kind that
\* update_rule checked is still the kind of that id when the UPDATE runs.
THEOREM StoredConfigsFit == Spec => []ConfigsFitTheirKind
<1>1. Init => RulesInv
  BY RulesInit
<1>2. RulesInv /\ [Next]_vars => RulesInv'
  BY RulesStep
<1>3. RulesInv => ConfigsFitTheirKind
  BY DEF RulesInv, RulesPass, ConfigsFitTheirKind, Evaluates, Counts, validate_rule
<1> QED
  BY <1>1, <1>2, <1>3, PTL DEF Spec

-----------------------------------------------------------------------------
(* Forms.                                                                    *)

\* Rule i, if it is in table t, is of kind k, and will be: ids below m are in use
\* or were.
Known(i, k, t, m) == i \in Int /\ i < m /\ (i \in DOMAIN t => t[i].kind = k)

\* Rules as list_rules answered them.
Listed(rules, t, m) == \A i \in DOMAIN rules : Known(i, rules[i].kind, t, m)

\* An update carries the fields of its rule, if they are of the kind of the rule.
Carries(b, t, m) == \E k : Known(b.id, k, t, m) /\ (b.config.shape = k => b.form = b.id)

Filed(c, t, m) ==
    /\ (c.to = "create_rule" /\ c.at = "sent") => c.body.form = 0
    /\ c.to = "update_rule" => Carries(c.body, t, m)
    /\ (c.to = "rules" /\ c.ok = TRUE) => Listed(c.got[1], t, m)

\* A form for a new rule is empty; that for rule i has the fields of rule i where
\* the rule has its kind.
LoadedFrom(form, i, t, m) ==
    /\ DOMAIN form = Kinds
    /\ i = 0 => \A k \in Kinds : form[k] = 0
    /\ i # 0 => \E k : Known(i, k, t, m) /\ (k \in Kinds => form[k] = i)

HoldsForm(d, t, m) ==
    /\ {"form", "editId", "rules"} \subseteq DOMAIN d
    /\ Listed(d.rules, t, m)
    /\ LoadedFrom(d.form, d.editId, t, m)

FormsInv ==
    page = "alerts" =>
        /\ sent \in Int
        /\ \A n \in DOMAIN calls : IsCall(calls[n]) /\ Filed(calls[n], ruleTable, nextRule)
        /\ HoldsForm(desk, ruleTable, nextRule)

\* The same after a step, of the table as it was before.
FormKept == HoldsForm(desk', ruleTable, nextRule)
CallsFiled ==
    /\ sent' \in Int
    /\ \A n \in DOMAIN calls' : IsCall(calls'[n]) /\ Filed(calls'[n], ruleTable, nextRule)

\* What is known of rules stays known, as no id is used again and no kind changes.
Outgrows(u, o, t, m) ==
    /\ m \in Int /\ o \in Int /\ m <= o
    /\ \A i \in DOMAIN u : i < m => i \in DOMAIN t /\ u[i].kind = t[i].kind

LEMMA KnownStays ==
    ASSUME NEW t, NEW m, NEW u, NEW o, Outgrows(u, o, t, m), NEW i, NEW k, Known(i, k, t, m)
    PROVE  Known(i, k, u, o)
BY DEF Known, Outgrows

LEMMA FiledStays ==
    ASSUME NEW t, NEW m, NEW u, NEW o, Outgrows(u, o, t, m)
    PROVE  /\ \A c : Filed(c, t, m) => Filed(c, u, o)
           /\ \A d : HoldsForm(d, t, m) => HoldsForm(d, u, o)
<1>1. ASSUME NEW rules, Listed(rules, t, m) PROVE Listed(rules, u, o)
  BY <1>1, KnownStays DEF Listed
<1>2. ASSUME NEW b, Carries(b, t, m) PROVE Carries(b, u, o)
  BY <1>2, KnownStays DEF Carries
<1>3. ASSUME NEW form, NEW i, LoadedFrom(form, i, t, m) PROVE LoadedFrom(form, i, u, o)
  BY <1>3, KnownStays DEF LoadedFrom
<1> QED
  BY <1>1, <1>2, <1>3 DEF Filed, HoldsForm

LEMMA FormsKeptKeeps ==
    ASSUME RulesInv, page = "alerts", page' = page, RulesKept, FormKept, CallsFiled
    PROVE  FormsInv'
<1> PICK t, m, u, o : t = ruleTable /\ m = nextRule /\ u = ruleTable' /\ o = nextRule'
  OBVIOUS
<1>1. Outgrows(u, o, t, m)
  BY DEF Outgrows, RulesKept, RulesInv
<1>2. HoldsForm(desk', u, o)
  BY <1>1, FiledStays DEF FormKept
<1>3. ASSUME NEW n \in DOMAIN calls' PROVE IsCall(calls'[n]) /\ Filed(calls'[n], u, o)
  BY <1>1, <1>3, FiledStays DEF CallsFiled
<1> QED
  BY <1>2, <1>3 DEF FormsInv, CallsFiled

LEMMA FreshFiles ==
    ASSUME NEW c, Fresh(c), NEW t, NEW m,
           c.to = "create_rule" => c.body.form = 0, c.to = "update_rule" => Carries(c.body, t, m)
    PROVE  Filed(c, t, m)
BY DEF Fresh, Filed

LEMMA FormsInit ==
    ASSUME Init
    PROVE  FormsInv
<1> SUFFICES ASSUME page = "alerts" PROVE FormsInv
  BY DEF FormsInv
<1>1. desk = NewDesk /\ BrowserInit(<<ListRules>>)
  BY DEF Init, AlertsInit, Asking
<1>2. Fresh(ListRules) /\ Filed(ListRules, ruleTable, nextRule)
  BY GetJsonIsFresh, FreshFiles DEF ListRules
<1>3. sent = 1 /\ DOMAIN calls = {1} /\ calls[1] = ListRules
  BY <1>1 DEF BrowserInit
<1>4. HoldsForm(desk, ruleTable, nextRule)
  <2>1. desk.rules = <<>> /\ desk.editId = 0 /\ desk.form = EmptyForm
        /\ {"form", "editId", "rules"} \subseteq DOMAIN desk
    BY <1>1 DEF NewDesk
  <2>2. DOMAIN desk.rules = {}
    BY <2>1
  <2> QED
    BY <2>1, <2>2 DEF HoldsForm, Listed, LoadedFrom, EmptyForm
<1> QED
  BY <1>2, <1>3, <1>4 DEF FormsInv, Fresh

LEMMA SendFiles ==
    ASSUME FormsInv, page = "alerts", NEW r, Fresh(r), Filed(r, ruleTable, nextRule), Send(<<r>>)
    PROVE  CallsFiled
<1>1. sent \in Int /\ \A n \in DOMAIN calls : IsCall(calls[n]) /\ Filed(calls[n], ruleTable, nextRule)
  BY DEF FormsInv
<1> DEFINE rs == <<r>>
<1>2. DOMAIN rs = {1} /\ rs[1] = r /\ Len(rs) = 1
  OBVIOUS
<1>3. Send(rs)
  OBVIOUS
<1> HIDE DEF rs
<1>4. sent' \in Int
  BY <1>1, <1>2, <1>3 DEF Send
<1>5. \A n \in DOMAIN calls' : (n \in DOMAIN calls /\ calls'[n] = calls[n]) \/ calls'[n] = r
  BY <1>1, <1>2, <1>3, SendAdds
<1> QED
  BY <1>1, <1>4, <1>5 DEF CallsFiled, Fresh

LEMMA ReceiveFiles ==
    ASSUME FormsInv, page = "alerts", NEW m, NEW rs, Receive(m, rs),
           rs = <<>> \/ \E r : Fresh(r) /\ Filed(r, ruleTable, nextRule) /\ rs = <<r>>
    PROVE  CallsFiled
<1>1. sent \in Int /\ \A n \in DOMAIN calls : IsCall(calls[n]) /\ Filed(calls[n], ruleTable, nextRule)
  BY DEF FormsInv
<1>2. /\ DOMAIN rs \subseteq Int /\ Len(rs) \in Int
      /\ \A i \in DOMAIN rs : Fresh(rs[i]) /\ Filed(rs[i], ruleTable, nextRule)
  OBVIOUS
<1>3. sent' \in Int
  BY <1>1, <1>2 DEF Receive
<1>4. \A n \in DOMAIN calls' :
         (n \in DOMAIN calls /\ calls'[n] = calls[n]) \/ \E i \in DOMAIN rs : calls'[n] = rs[i]
  BY <1>1, <1>2, ReceiveAdds
<1> QED
  BY <1>1, <1>2, <1>3, <1>4 DEF CallsFiled, Fresh

LEMMA LocalFiles ==
    ASSUME FormsInv, page = "alerts", UNCHANGED <<calls, sent>>
    PROVE  CallsFiled
BY DEF FormsInv, CallsFiled

\* Of the answers only the rules matter here, of the failures nothing.
LEMMA AnswerFiles ==
    ASSUME FormsInv, page = "alerts", NEW m \in DOMAIN calls, NEW got, Answer(m, got),
           calls[m].to = "rules" => Listed(got, ruleTable, nextRule)
    PROVE  CallsFiled
<1>1. Over(m) /\ calls'[m].got = <<got>>
  BY AnswerEnds DEF FormsInv
<1> PICK c : /\ OnlyCall(m, c) /\ sent' = sent
             /\ IsCall(c) /\ c.to = calls[m].to /\ c.body = calls[m].body /\ c.at = "done"
  BY <1>1 DEF Over
<1>2. c.got[1] = got
  BY <1>1 DEF OnlyCall
<1>3. Filed(c, ruleTable, nextRule)
  BY <1>2 DEF FormsInv, Filed
<1> QED
  BY <1>3 DEF CallsFiled, OnlyCall, FormsInv

LEMMA BreakFiles ==
    ASSUME FormsInv, page = "alerts", NEW m \in DOMAIN calls, Refuse(m) \/ Fail(m)
    PROVE  CallsFiled
<1> PICK c : c = [calls[m] EXCEPT !.at = "done"]
  OBVIOUS
<1>1. IsCall(calls[m]) /\ Filed(calls[m], ruleTable, nextRule)
  BY DEF FormsInv
<1>2. /\ IsCall(c) /\ c.to = calls[m].to /\ c.body = calls[m].body /\ c.at = "done"
      /\ c.ok = calls[m].ok /\ c.got = calls[m].got
  BY <1>1 DEF IsCall
<1>3. OnlyCall(m, c) /\ sent' = sent
  BY HandleKeeps DEF Refuse, Fail, OnlyCall
<1>4. Filed(c, ruleTable, nextRule)
  BY <1>1, <1>2 DEF Filed
<1> QED
  BY <1>2, <1>3, <1>4 DEF CallsFiled, OnlyCall, FormsInv

\* A handler goes on with the body it has, or has created its rule.
LEMMA GoOnFiles ==
    ASSUME FormsInv, page = "alerts", NEW m \in DOMAIN calls, NEW step, NEW body,
           GoOn(m, step, body), step # "sent",
           calls[m].to = "create_rule" \/ (calls[m].to = "update_rule" /\ body = calls[m].body)
    PROVE  CallsFiled
<1>1. sent \in Int /\ \A n \in DOMAIN calls : IsCall(calls[n]) /\ Filed(calls[n], ruleTable, nextRule)
  BY DEF FormsInv
<1> PICK c : /\ OnlyCall(m, c) /\ sent' = sent
             /\ IsCall(c) /\ c.to = calls[m].to /\ c.body = body /\ c.at = step
  BY <1>1, GoOnKeeps
<1>2. Filed(c, ruleTable, nextRule)
  BY <1>1 DEF Filed
<1> QED
  BY <1>1, <1>2 DEF CallsFiled, OnlyCall

\* The form and the rules of a page stay, whatever else of it changes.
LEMMA FormStays ==
    ASSUME FormsInv, page = "alerts", DOMAIN desk' = DOMAIN desk,
           desk'.form = desk.form, desk'.editId = desk.editId, desk'.rules = desk.rules
    PROVE  FormKept
BY DEF FormsInv, FormKept, HoldsForm

LEMMA FormsUser ==
    ASSUME FormsInv, page = "alerts", AlertsUser
    PROVE  FormKept /\ CallsFiled
<1>0. HoldsForm(desk, ruleTable, nextRule)
  BY DEF FormsInv
<1>1. CASE AlertsToken
  <2>1. CallsFiled
    BY <1>1, SendFiles, GetJsonIsFresh, FreshFiles DEF AlertsToken, ListRules
  <2> QED
    BY <1>1, <2>1, FormStays DEF AlertsToken, DeskOnly, Reloading
<1>2. CASE CloseDialog
  BY <1>2, LocalFiles, FormStays DEF CloseDialog, Local, net, DeskOnly
<1>3. CASE open_new
  <2>1. desk' = [desk EXCEPT !.dialog = "form", !.form = EmptyForm, !.editId = 0]
    BY <1>3 DEF open_new, DeskOnly
  <2>2. desk'.form = EmptyForm /\ desk'.editId = 0 /\ desk'.rules = desk.rules /\ DOMAIN desk' = DOMAIN desk
    BY <1>0, <2>1 DEF HoldsForm
  <2>3. LoadedFrom(desk'.form, desk'.editId, ruleTable, nextRule)
    BY <2>2 DEF LoadedFrom, EmptyForm
  <2> QED
    BY <1>0, <1>3, <2>2, <2>3, LocalFiles DEF FormKept, HoldsForm, open_new, Local, net
<1>4. CASE do_delete
  <2>1. CallsFiled
    BY <1>4, SendFiles, GetJsonIsFresh, FreshFiles DEF do_delete, DeleteReq
  <2> QED
    BY <1>4, <2>1, FormStays DEF do_delete, DeskOnly
<1>5. ASSUME NEW i \in RuleIds, open_edit(i) PROVE FormKept /\ CallsFiled
  <2> PICK k : k = desk.rules[i].kind
    OBVIOUS
  <2>1. desk' = [desk EXCEPT !.dialog = "form", !.editId = i, !.form = load(desk.form, i, k)]
    BY <1>5 DEF open_edit, DeskOnly
  <2>2. /\ desk'.form = load(desk.form, i, k) /\ desk'.editId = i
        /\ desk'.rules = desk.rules /\ DOMAIN desk' = DOMAIN desk
    BY <1>0, <2>1 DEF HoldsForm
  <2>3. Known(i, k, ruleTable, nextRule)
    BY <1>0, <1>5 DEF open_edit, HoldsForm, Listed
  <2>4. i # 0
    BY RuleBound DEF RuleIds
  <2>5. LoadedFrom(desk'.form, desk'.editId, ruleTable, nextRule)
    BY <1>0, <2>2, <2>3, <2>4 DEF HoldsForm, LoadedFrom, load
  <2> QED
    BY <1>0, <1>5, <2>2, <2>5, LocalFiles DEF FormKept, HoldsForm, open_edit, Local, net
<1>6. ASSUME NEW i \in RuleIds, open_delete(i) PROVE FormKept /\ CallsFiled
  BY <1>6, LocalFiles, FormStays DEF open_delete, Local, net, DeskOnly
<1>7. ASSUME NEW i \in RuleIds, SomebodyTouchesARule(i) PROVE FormKept /\ CallsFiled
  BY <1>7, LocalFiles, FormStays DEF SomebodyTouchesARule, SomebodyElse, DeleteRow
<1>8. ASSUME NEW kind \in Kinds, NEW cmp, NEW agg, on_submit(kind, cmp, agg)
      PROVE  FormKept /\ CallsFiled
  <2> DEFINE new == to_create_body(kind, cmp, agg, desk.form)
             old == to_update_body(desk.editId, kind, cmp, agg, desk.form)
  <2>1. /\ new.form = desk.form[kind]
        /\ old.id = desk.editId /\ old.form = desk.form[kind] /\ old.config.shape = kind
    BY DEF to_create_body, to_update_body, build_config
  <2>2. LoadedFrom(desk.form, desk.editId, ruleTable, nextRule)
    BY <1>0 DEF HoldsForm
  <2>3. FormKept
    BY <1>8, FormStays DEF on_submit, DeskOnly
  <2>4. CASE desk.editId = 0
    <3>1. new.form = 0
      BY <2>1, <2>2, <2>4 DEF LoadedFrom
    <3> HIDE DEF new
    <3>2. Fresh(SendJson("create_rule", new)) /\ Filed(SendJson("create_rule", new), ruleTable, nextRule)
      BY <3>1, GetJsonIsFresh, FreshFiles DEF SendJson
    <3> USE DEF new
    <3>3. CallsFiled
      BY <1>8, <2>4, <3>2, SendFiles DEF on_submit
    <3> QED
      BY <2>3, <3>3
  <2>5. CASE desk.editId # 0
    <3>1. Carries(old, ruleTable, nextRule)
      <4>1. PICK k : Known(desk.editId, k, ruleTable, nextRule) /\ (k \in Kinds => desk.form[k] = desk.editId)
        BY <2>2, <2>5 DEF LoadedFrom
      <4> HIDE DEF old
      <4> QED
        BY <2>1, <4>1 DEF Carries
    <3> HIDE DEF old
    <3>2. Fresh(SendJson("update_rule", old)) /\ Filed(SendJson("update_rule", old), ruleTable, nextRule)
      BY <3>1, GetJsonIsFresh, FreshFiles DEF SendJson
    <3> USE DEF old
    <3>3. CallsFiled
      BY <1>8, <2>5, <3>2, SendFiles DEF on_submit
    <3> QED
      BY <2>3, <3>3
  <2> QED
    BY <2>4, <2>5
<1> QED
  BY <1>1, <1>2, <1>3, <1>4, <1>5, <1>6, <1>7, <1>8 DEF AlertsUser

LEMMA FormsHears ==
    ASSUME FormsInv, page = "alerts", NEW n, AlertsHears(n)
    PROVE  FormKept /\ CallsFiled
<1> DEFINE more == GetJson("active", Nothing)
<1>0. /\ Fresh(more) /\ Filed(more, ruleTable, nextRule)
      /\ Fresh(ListRules) /\ Filed(ListRules, ruleTable, nextRule)
  BY GetJsonIsFresh, FreshFiles DEF ListRules
<1>1. \E rs : Receive(n, rs) /\ (rs = <<>> \/ \E r : Fresh(r) /\ Filed(r, ruleTable, nextRule) /\ rs = <<r>>)
  <2> HIDE DEF more
  <2>1. Receive(n, <<>>) \/ Receive(n, <<more>>) \/ Receive(n, <<ListRules>>)
    BY DEF more, AlertsHears, GotRules, GotActive, GotSubmitted, GotRuleDeleted
  <2> QED
    BY <1>0, <2>1
<1>2. FormKept
  <2> PICK d : d = Reloading(desk)
    OBVIOUS
  <2>1. /\ {"form", "editId", "rules"} \subseteq DOMAIN d
        /\ DOMAIN d = DOMAIN desk /\ d.form = desk.form
        /\ d.editId = desk.editId /\ d.rules = desk.rules
    BY DEF Reloading, FormsInv, HoldsForm
  <2>2. CASE GotRules(n)
    <3>1. HoldsForm(desk, ruleTable, nextRule) /\ n \in DOMAIN calls /\ Filed(calls[n], ruleTable, nextRule)
      BY <2>2 DEF FormsInv, GotRules, At
    <3> PICK rules : rules = IF calls[n].ok THEN calls[n].got[1] ELSE desk.rules
      OBVIOUS
    <3>2. Listed(rules, ruleTable, nextRule)
      BY <2>2, <3>1 DEF Filed, HoldsForm, GotRules, At
    <3>3. desk' = [desk EXCEPT !.rules = rules]
      BY <2>2 DEF GotRules, DeskOnly
    <3>4. /\ DOMAIN desk' = DOMAIN desk /\ desk'.rules = rules
          /\ desk'.form = desk.form /\ desk'.editId = desk.editId
      BY <3>1, <3>3 DEF HoldsForm
    <3> QED
      BY <3>1, <3>2, <3>4 DEF FormKept, HoldsForm
  <2>3. CASE GotActive(n)
    BY <2>3, FormStays DEF GotActive, DeskOnly
  <2>4. CASE GotSubmitted(n)
    BY <2>1, <2>4, FormStays DEF GotSubmitted, DeskOnly
  <2>5. CASE GotRuleDeleted(n)
    BY <2>1, <2>5, FormStays DEF GotRuleDeleted, DeskOnly
  <2> QED
    BY <2>2, <2>3, <2>4, <2>5 DEF AlertsHears
<1> QED
  BY <1>1, <1>2, ReceiveFiles

LEMMA FormsServes ==
    ASSUME RulesInv, FormsInv, page = "alerts", NEW n, AlertsServes(n)
    PROVE  FormKept /\ CallsFiled
<1>1. n \in DOMAIN calls
  BY DEF AlertsServes, list_rules, list_active_alerts, create_rule, update_rule, UpdateRow,
     load_rule, delete_rule, At
<1>2. UNCHANGED desk
  BY DEF AlertsServes, list_rules, list_active_alerts, create_rule, InsertRule, update_rule, UpdateRow,
     load_rule, delete_rule, DeleteRow, alertVars
<1>3. ASSUME Refuse(n) \/ ((\E got : Answer(n, got)) /\ calls[n].to # "rules") PROVE CallsFiled
  BY <1>1, <1>3, BreakFiles, AnswerFiles
<1>4. CASE list_rules(n)
  <2>1. Listed(ruleTable, ruleTable, nextRule)
    BY DEF RulesInv, Listed, Known
  <2> QED
    BY <1>1, <1>2, <1>4, <2>1, AnswerFiles, FormStays DEF list_rules
<1>5. CASE list_active_alerts(n) \/ load_rule(n) \/ delete_rule(n)
  BY <1>2, <1>3, <1>5, FormStays DEF list_active_alerts, load_rule, delete_rule, At
<1>6. CASE create_rule(n)
  BY <1>1, <1>2, <1>3, <1>6, GoOnFiles, FormStays DEF create_rule, At
<1>7. CASE update_rule(n) \/ UpdateRow(n)
  BY <1>1, <1>2, <1>3, <1>7, GoOnFiles, FormStays DEF update_rule, UpdateRow, At
<1> QED
  BY <1>4, <1>5, <1>6, <1>7 DEF AlertsServes

LEMMA FormsStep ==
    ASSUME RulesInv, FormsInv, [Next]_vars
    PROVE  FormsInv'
<1>1. page' = page
  BY PageStays
<1> SUFFICES ASSUME page = "alerts" PROVE RulesKept /\ FormKept /\ CallsFiled
  BY <1>1, FormsKeptKeeps DEF FormsInv
<1>2. CASE AlertsUser
  BY <1>2, AlertsUserKeeps, FormsUser
<1>3. ASSUME NEW n, AlertsServes(n) PROVE RulesKept /\ FormKept /\ CallsFiled
  BY <1>3, AlertsServesKeeps, FormsServes
<1>4. ASSUME NEW n, AlertsHears(n) PROVE RulesKept /\ FormKept /\ CallsFiled
  BY <1>4, AlertsHearsKeeps, FormsHears
<1>5. CASE Breaks
  <2> PICK n \in DOMAIN calls : Fail(n)
    BY <1>5 DEF Breaks
  <2>1. CallsFiled
    BY BreakFiles
  <2> QED
    BY <1>5, <2>1, RulesStay, FormStays DEF Breaks, alertVars
<1>6. CASE UNCHANGED vars
  BY <1>6, LocalFiles, RulesStay, FormStays DEF vars, net, alertVars
<1> QED
  BY <1>2, <1>3, <1>4, <1>5, <1>6 DEF Next, OnDashboards, OnAlerts, OnQueries, Network, Asking

\* Whatever dialogs were opened and closed while requests were under way, the fields
\* of a rule are never sent to another one, as long as the form is left with the kind
\* that the rule has, and a new rule is never given the fields of an old one.
THEOREM FormsReachTheirRule == Spec => []EditsReachTheirRule
<1>1. Init => RulesInv /\ FormsInv
  BY RulesInit, FormsInit
<1>2. (RulesInv /\ FormsInv) /\ [Next]_vars => (RulesInv /\ FormsInv)'
  BY RulesStep, FormsStep
<1>3. RulesInv /\ FormsInv => EditsReachTheirRule
  BY DEF FormsInv, EditsReachTheirRule, Filed, Carries, Known, At
<1> QED
  BY <1>1, <1>2, <1>3, PTL DEF Spec

-----------------------------------------------------------------------------
(* Spinners.                                                                 *)

\* Requests have numbers up to that of the last one sent.
NetInv ==
    /\ sent \in Int
    /\ \A n \in DOMAIN calls : n \in Int /\ n <= sent /\ IsCall(calls[n])

\* A request of one of these kinds is under way.
Pending(S) == \E n \in DOMAIN calls : calls[n].to \in S

FreshSeq(rs) ==
    Len(rs) \in Nat /\ DOMAIN rs = 1..Len(rs) /\ \A i \in DOMAIN rs : Fresh(rs[i])

LEMMA FewRequests ==
    /\ FreshSeq(<<>>) /\ DOMAIN <<>> = {}
    /\ \A r : Fresh(r) => FreshSeq(<<r>>) /\ DOMAIN <<r>> = {1} /\ <<r>>[1] = r
    /\ \A r, s : Fresh(r) /\ Fresh(s) =>
          FreshSeq(<<r, s>>) /\ DOMAIN <<r, s>> = {1, 2} /\ <<r, s>>[1] = r /\ <<r, s>>[2] = s
<1>1. FreshSeq(<<>>) /\ DOMAIN <<>> = {}
  BY DEF FreshSeq
<1>2. ASSUME NEW r, Fresh(r) PROVE FreshSeq(<<r>>) /\ DOMAIN <<r>> = {1} /\ <<r>>[1] = r
  <2>1. Len(<<r>>) = 1 /\ DOMAIN <<r>> = {1} /\ <<r>>[1] = r /\ 1..1 = {1}
    OBVIOUS
  <2> QED
    BY <1>2, <2>1 DEF FreshSeq
<1>3. ASSUME NEW r, NEW s, Fresh(r), Fresh(s)
      PROVE  FreshSeq(<<r, s>>) /\ DOMAIN <<r, s>> = {1, 2} /\ <<r, s>>[1] = r /\ <<r, s>>[2] = s
  <2>1. /\ Len(<<r, s>>) = 2 /\ DOMAIN <<r, s>> = {1, 2} /\ 1..2 = {1, 2}
        /\ <<r, s>>[1] = r /\ <<r, s>>[2] = s
    OBVIOUS
  <2> QED
    BY <1>3, <2>1 DEF FreshSeq
<1> QED
  BY <1>1, <1>2, <1>3

\* What is added to the requests cs, none of which has a higher number.
LEMMA PlusAdds ==
    ASSUME sent \in Int, NEW rs, FreshSeq(rs), NEW cs,
           \A n \in DOMAIN cs : n \in Int /\ n <= sent /\ IsCall(cs[n]),
           calls' = Plus(cs, rs), sent' = sent + Len(rs)
    PROVE  /\ NetInv'
           /\ DOMAIN cs \subseteq DOMAIN calls' /\ \A n \in DOMAIN cs : calls'[n] = cs[n]
           /\ \A i \in DOMAIN rs : sent + i \in DOMAIN calls' /\ calls'[sent + i] = rs[i]
           /\ \A n \in DOMAIN calls' : n \in DOMAIN cs \/ \E i \in DOMAIN rs : calls'[n] = rs[i]
<1>1. /\ DOMAIN calls' = DOMAIN cs \cup {sent + i : i \in DOMAIN rs}
      /\ \A n \in DOMAIN calls' : calls'[n] = IF n \in DOMAIN cs THEN cs[n] ELSE rs[n - sent]
  BY DEF Plus
<1>2. ASSUME NEW i \in DOMAIN rs
      PROVE  /\ sent + i \in Int /\ sent + i <= sent' /\ sent + i \notin DOMAIN cs
             /\ (sent + i) - sent = i /\ IsCall(rs[i])
  BY DEF FreshSeq, Fresh
<1>3. sent' \in Int /\ sent <= sent'
  BY DEF FreshSeq
<1>4. \A i \in DOMAIN rs : sent + i \in DOMAIN calls' /\ calls'[sent + i] = rs[i]
  BY <1>1, <1>2
<1>5. \A n \in DOMAIN cs : n \in DOMAIN calls' /\ calls'[n] = cs[n]
  BY <1>1
<1>6. ASSUME NEW n \in DOMAIN calls' PROVE n \in DOMAIN cs \/ \E i \in DOMAIN rs : n = sent + i
  BY <1>1
<1>7. ASSUME NEW n \in DOMAIN calls' PROVE n \in Int /\ n <= sent' /\ IsCall(calls'[n])
  <2>1. CASE n \in DOMAIN cs
    BY <1>3, <1>5, <2>1
  <2>2. CASE \E i \in DOMAIN rs : n = sent + i
    BY <1>2, <1>4, <2>2
  <2> QED
    BY <1>6, <2>1, <2>2
<1>8. NetInv'
  BY <1>3, <1>7 DEF NetInv, IsCall
<1> QED
  BY <1>4, <1>5, <1>6, <1>8

LEMMA SendPends ==
    ASSUME NetInv, NEW rs, FreshSeq(rs), Send(rs)
    PROVE  /\ NetInv'
           /\ \A S : Pending(S) => Pending(S)'
           /\ \A S : (\E i \in DOMAIN rs : rs[i].to \in S) => Pending(S)'
<1>1. /\ sent \in Int /\ \A n \in DOMAIN calls : n \in Int /\ n <= sent /\ IsCall(calls[n])
      /\ calls' = Plus(calls, rs) /\ sent' = sent + Len(rs)
  BY DEF NetInv, Send
<1>2. /\ NetInv'
      /\ \A n \in DOMAIN calls : n \in DOMAIN calls' /\ calls'[n] = calls[n]
      /\ \A i \in DOMAIN rs : sent + i \in DOMAIN calls' /\ calls'[sent + i] = rs[i]
  BY <1>1, PlusAdds
<1> QED
  BY <1>2 DEF Pending

LEMMA ReceivePends ==
    ASSUME NetInv, NEW m \in DOMAIN calls, NEW rs, FreshSeq(rs), Receive(m, rs)
    PROVE  /\ NetInv'
           /\ \A S : Pending(S) /\ calls[m].to \notin S => Pending(S)'
           /\ \A S : (\E i \in DOMAIN rs : rs[i].to \in S) => Pending(S)'
<1> DEFINE rest == Without(calls, m)
<1>1. calls' = Plus(rest, rs) /\ sent' = sent + Len(rs)
  BY DEF Receive
<1>2. DOMAIN rest = DOMAIN calls \ {m} /\ \A n \in DOMAIN calls \ {m} : rest[n] = calls[n]
  BY DEF Without
<1> HIDE DEF rest
<1>3. sent \in Int /\ \A n \in DOMAIN rest : n \in Int /\ n <= sent /\ IsCall(rest[n])
  BY <1>2 DEF NetInv
<1>4. /\ NetInv'
      /\ \A n \in DOMAIN calls \ {m} : n \in DOMAIN calls' /\ calls'[n] = calls[n]
      /\ \A i \in DOMAIN rs : sent + i \in DOMAIN calls' /\ calls'[sent + i] = rs[i]
  BY <1>1, <1>2, <1>3, PlusAdds
<1> QED
  BY <1>4 DEF Pending

\* A statement of a handler, or its failure.
Handled(m) ==
    \/ \E got : Answer(m, got)
    \/ Refuse(m)
    \/ \E step, body : GoOn(m, step, body)
    \/ Fail(m)

LEMMA HandledPends ==
    ASSUME NetInv, NEW m \in DOMAIN calls, Handled(m)
    PROVE  NetInv' /\ \A S : Pending(S) => Pending(S)'
<1>1. IsCall(calls[m])
  BY DEF NetInv
<1> PICK c : OnlyCall(m, c) /\ sent' = sent /\ IsCall(c) /\ c.to = calls[m].to
  <2>1. ASSUME Over(m) PROVE \E c : OnlyCall(m, c) /\ sent' = sent /\ IsCall(c) /\ c.to = calls[m].to
    BY <2>1 DEF Over
  <2>2. ASSUME NEW step, NEW body, GoOn(m, step, body)
        PROVE  \E c : OnlyCall(m, c) /\ sent' = sent /\ IsCall(c) /\ c.to = calls[m].to
    BY <1>1, <2>2, GoOnKeeps
  <2> QED
    BY <1>1, <2>1, <2>2, AnswerEnds, RefuseEnds, FailEnds DEF Handled
<1>2. /\ DOMAIN calls' = DOMAIN calls /\ sent' = sent
      /\ \A n \in DOMAIN calls : IsCall(calls'[n]) /\ calls'[n].to = calls[n].to
  BY DEF OnlyCall, NetInv
<1>3. NetInv'
  BY <1>2 DEF NetInv, IsCall
<1> QED
  BY <1>2, <1>3 DEF Pending

LEMMA QuietPends ==
    ASSUME NetInv, UNCHANGED <<calls, sent>>
    PROVE  NetInv' /\ \A S : Pending(S) => Pending(S)'
BY DEF NetInv, IsCall, Pending

\* What spins on each page has its request.
DashSpin ==
    /\ {"loading", "saving"} \subseteq DOMAIN dash
    /\ dash.loading => Pending({"dashboards"})
    /\ dash.saving => Pending({"save"})

DeskSpin ==
    /\ {"loading", "submitting", "deleting"} \subseteq DOMAIN desk
    /\ desk.loading => Pending({"rules", "active"})
    /\ desk.submitting => Pending({"create_rule", "update_rule"})
    /\ desk.deleting => Pending({"delete_rule"})

Fills(b) == {b} \cup (IF b = "stats" THEN {"health"} ELSE {})

BoxSpin ==
    /\ DOMAIN boxes = BoxNames
    /\ boxes["health"].loading = FALSE
    /\ \A b \in BoxNames : "loading" \in DOMAIN boxes[b] /\ (boxes[b].loading => Pending(Fills(b)))

SpinInv ==
    /\ NetInv
    /\ page = "dashboards" => DashSpin
    /\ page = "alerts" => DeskSpin
    /\ page \in Asking => BoxSpin

-----------------------------------------------------------------------------
LEMMA DashUserSpins ==
    ASSUME NetInv, DashSpin, DashUser
    PROVE  NetInv' /\ DashSpin'
<1>1. CASE DashToken
  <2>1. NetInv' /\ Pending({"dashboards"})' /\ (Pending({"save"}) => Pending({"save"})')
    BY <1>1, SendPends, FewRequests, GetJsonIsFresh DEF DashToken, ListDashboards
  <2> QED
    BY <1>1, <2>1 DEF DashToken, DashOnly, Loading, DashSpin
<1>2. CASE Save
  <2> DEFINE b == [id |-> dash.open.id, panels |-> dash.open.panels]
             r == SendJson("save", b)
  <2>1. Fresh(r) /\ r.to = "save"
    <3> HIDE DEF b
    <3> QED
      BY GetJsonIsFresh DEF SendJson
  <2>2. Send(<<r>>) /\ dash' = [dash EXCEPT !.saving = TRUE]
    BY <1>2 DEF Save, DashOnly
  <2> HIDE DEF r
  <2>3. NetInv' /\ Pending({"save"})' /\ (Pending({"dashboards"}) => Pending({"dashboards"})')
    BY <2>1, <2>2, SendPends, FewRequests
  <2> QED
    BY <2>2, <2>3 DEF DashSpin
<1>3. ASSUME NEW r, Fresh(r), Send(<<r>>),
             dash' = dash \/ dash' = [dash EXCEPT !.dialog = FALSE]
      PROVE  NetInv' /\ DashSpin'
  <2>1. NetInv' /\ \A S : Pending(S) => Pending(S)'
    BY <1>3, SendPends, FewRequests
  <2> QED
    BY <1>3, <2>1 DEF DashSpin
<1>4. CASE CreateNew \/ ConfirmDelete \/ \E i \in DashIds : OpenDashboard(i)
  BY <1>3, <1>4, GetJsonIsFresh
     DEF CreateNew, ConfirmDelete, OpenDashboard, SendJson, DeleteReq, DashOnly, dashVars
<1>5. ASSUME UNCHANGED <<calls, sent>>, {"loading", "saving"} \subseteq DOMAIN dash',
             dash'.loading = dash.loading, dash'.saving = dash.saving
      PROVE  NetInv' /\ DashSpin'
  BY <1>5, QuietPends DEF DashSpin
<1>6. CASE AskDelete \/ CancelDash \/ (\E p \in Panels : AddPanel(p)) \/ \E k \in 1..MaxPanels : RemovePanel(k)
  <2>1. UNCHANGED <<calls, sent>>
    BY <1>6 DEF AskDelete, CancelDash, AddPanel, RemovePanel, Local, net
  <2>2. \/ \E d : dash' = [dash EXCEPT !.dialog = d]
        \/ \E o : dash' = [dash EXCEPT !.open = o]
        \/ \E o, e : dash' = [dash EXCEPT !.open.panels = o, !.open.edited = e]
    BY <1>6 DEF AskDelete, CancelDash, AddPanel, RemovePanel, DashOnly
  <2> QED
    BY <1>5, <2>1, <2>2 DEF DashSpin
<1>7. CASE \E i \in DashIds : SomebodyChangesADashboard(i)
  BY <1>5, <1>7 DEF SomebodyChangesADashboard, SomebodyElse, UpdateDashboard, DeleteDashboard,
     InsertDashboard, DashSpin
<1> QED
  BY <1>1, <1>2, <1>4, <1>6, <1>7 DEF DashUser

LEMMA DashServesSpins ==
    ASSUME NetInv, DashSpin, NEW n, DashServes(n)
    PROVE  NetInv' /\ DashSpin'
<1>1. n \in DOMAIN calls
  BY DEF DashServes, list_dashboards, get_dashboard, create_dashboard, update_dashboard,
     delete_dashboard, At
<1>2. Handled(n)
  BY DEF DashServes, list_dashboards, get_dashboard, create_dashboard, update_dashboard,
     delete_dashboard, Handled
<1>3. UNCHANGED dash
  BY DEF DashServes, list_dashboards, get_dashboard, create_dashboard, update_dashboard,
     delete_dashboard, TableUnchanged, dashVars, InsertDashboard, UpdateDashboard, DeleteDashboard
<1> QED
  BY <1>1, <1>2, <1>3, HandledPends DEF DashSpin

LEMMA DashHearsSpins ==
    ASSUME NetInv, DashSpin, NEW n, DashHears(n)
    PROVE  NetInv' /\ DashSpin'
<1>1. n \in DOMAIN calls
  BY DEF DashHears, GotList, GotDashboard, GotCreated, GotSaved, GotDeleted, At
<1>2. Fresh(ListDashboards) /\ ListDashboards.to = "dashboards"
  BY GetJsonIsFresh DEF ListDashboards
<1>3. CASE GotList(n)
  <2>1. NetInv' /\ (Pending({"save"}) => Pending({"save"})')
    BY <1>1, <1>3, ReceivePends, FewRequests DEF GotList, At
  <2> QED
    BY <1>3, <2>1 DEF GotList, DashOnly, DashSpin
<1>4. ASSUME calls[n].to \notin {"dashboards", "save"}, Receive(n, <<>>), NEW o,
             dash' = dash \/ dash' = [dash EXCEPT !.open = o]
      PROVE  NetInv' /\ DashSpin'
  <2>1. /\ NetInv' /\ (Pending({"save"}) => Pending({"save"})')
        /\ Pending({"dashboards"}) => Pending({"dashboards"})'
    BY <1>1, <1>4, ReceivePends, FewRequests
  <2> QED
    BY <1>4, <2>1 DEF DashSpin
<1>5. CASE GotDashboard(n)
  BY <1>4, <1>5 DEF GotDashboard, DashOnly, At
<1>6. CASE GotCreated(n)
  <2>1. CASE calls[n].ok
    <3> DEFINE r == GetJson("dashboard", calls[n].got[1].id)
    <3>1. Fresh(r)
      BY GetJsonIsFresh
    <3>2. Receive(n, <<ListDashboards, r>>) /\ calls[n].to = "create"
      BY <1>6, <2>1 DEF GotCreated, At
    <3> HIDE DEF r
    <3>3. NetInv' /\ Pending({"dashboards"})' /\ (Pending({"save"}) => Pending({"save"})')
      BY <1>1, <1>2, <3>1, <3>2, ReceivePends, FewRequests
    <3> QED
      BY <1>6, <2>1, <3>3 DEF GotCreated, DashOnly, Loading, DashSpin
  <2>2. CASE ~calls[n].ok
    BY <1>4, <1>6, <2>2 DEF GotCreated, DashOnly, At
  <2> QED
    BY <2>1, <2>2
<1>7. CASE GotSaved(n)
  <2>1. CASE calls[n].ok
    <3>1. NetInv' /\ Pending({"dashboards"})'
      BY <1>1, <1>2, <1>7, <2>1, ReceivePends, FewRequests DEF GotSaved
    <3>2. dash' = [Loading(dash) EXCEPT !.saving = FALSE, !.open = Shown(calls[n].got[1])]
      BY <1>7, <2>1 DEF GotSaved
    <3> QED
      BY <3>1, <3>2 DEF Loading, DashSpin
  <2>2. CASE ~calls[n].ok
    <3>1. NetInv' /\ (Pending({"dashboards"}) => Pending({"dashboards"})')
      BY <1>1, <1>7, <2>2, ReceivePends, FewRequests DEF GotSaved, At
    <3> QED
      BY <1>7, <2>2, <3>1 DEF GotSaved, DashOnly, DashSpin
  <2> QED
    BY <2>1, <2>2
<1>8. CASE GotDeleted(n)
  <2>1. CASE calls[n].ok
    <3>1. NetInv' /\ Pending({"dashboards"})' /\ (Pending({"save"}) => Pending({"save"})')
      BY <1>1, <1>2, <1>8, <2>1, ReceivePends, FewRequests DEF GotDeleted, At
    <3> QED
      BY <1>8, <2>1, <3>1 DEF GotDeleted, DashOnly, Loading, DashSpin
  <2>2. CASE ~calls[n].ok
    BY <1>4, <1>8, <2>2 DEF GotDeleted, DashOnly, At
  <2> QED
    BY <2>1, <2>2
<1> QED
  BY <1>3, <1>5, <1>6, <1>7, <1>8 DEF DashHears
-----------------------------------------------------------------------------
LEMMA DeskUserSpins ==
    ASSUME NetInv, DeskSpin, AlertsUser
    PROVE  NetInv' /\ DeskSpin'
<1>1. CASE AlertsToken
  <2>1. NetInv' /\ (\A S : Pending(S) => Pending(S)') /\ Pending({"rules", "active"})'
    BY <1>1, SendPends, FewRequests, GetJsonIsFresh DEF AlertsToken, ListRules
  <2> QED
    BY <1>1, <2>1 DEF AlertsToken, DeskOnly, Reloading, DeskSpin
<1>2. CASE do_delete
  <2>1. NetInv' /\ (\A S : Pending(S) => Pending(S)') /\ Pending({"delete_rule"})'
    BY <1>2, SendPends, FewRequests, GetJsonIsFresh DEF do_delete, DeleteReq
  <2> QED
    BY <1>2, <2>1 DEF do_delete, DeskOnly, DeskSpin
<1>3. ASSUME NEW kind, NEW cmp, NEW agg, on_submit(kind, cmp, agg) PROVE NetInv' /\ DeskSpin'
  <2>1. PICK r : /\ Send(<<r>>) /\ Fresh(r) /\ r.to \in {"create_rule", "update_rule"}
                 /\ desk' = [desk EXCEPT !.submitting = TRUE]
    BY <1>3, GetJsonIsFresh DEF on_submit, SendJson, DeskOnly
  <2>2. NetInv' /\ (\A S : Pending(S) => Pending(S)') /\ Pending({"create_rule", "update_rule"})'
    BY <2>1, SendPends, FewRequests
  <2> QED
    BY <2>1, <2>2 DEF DeskSpin
<1>4. ASSUME UNCHANGED <<calls, sent>>,
             {"loading", "submitting", "deleting"} \subseteq DOMAIN desk',
             desk'.loading = desk.loading, desk'.submitting = desk.submitting,
             desk'.deleting = desk.deleting
      PROVE  NetInv' /\ DeskSpin'
  BY <1>4, QuietPends DEF DeskSpin
<1>5. CASE open_new \/ CloseDialog \/ \E i \in RuleIds : open_edit(i) \/ open_delete(i)
  <2>1. UNCHANGED <<calls, sent>>
    BY <1>5 DEF open_new, CloseDialog, open_edit, open_delete, Local, net
  <2> QED
    BY <1>4, <1>5, <2>1 DEF open_new, CloseDialog, open_edit, open_delete, DeskOnly, DeskSpin
<1>6. CASE \E i \in RuleIds : SomebodyTouchesARule(i)
  BY <1>4, <1>6 DEF SomebodyTouchesARule, SomebodyElse, DeleteRow, DeskSpin
<1> QED
  BY <1>1, <1>2, <1>3, <1>5, <1>6 DEF AlertsUser

LEMMA DeskServesSpins ==
    ASSUME NetInv, DeskSpin, NEW n, AlertsServes(n)
    PROVE  NetInv' /\ DeskSpin'
<1>1. n \in DOMAIN calls
  BY DEF AlertsServes, list_rules, list_active_alerts, create_rule, update_rule, UpdateRow,
     load_rule, delete_rule, At
<1>2. Handled(n) /\ UNCHANGED desk
  BY DEF AlertsServes, list_rules, list_active_alerts, create_rule, update_rule, UpdateRow,
     load_rule, delete_rule, InsertRule, DeleteRow, alertVars, Handled
<1> QED
  BY <1>1, <1>2, HandledPends DEF DeskSpin

LEMMA DeskHearsSpins ==
    ASSUME NetInv, DeskSpin, NEW n, AlertsHears(n)
    PROVE  NetInv' /\ DeskSpin'
<1>1. n \in DOMAIN calls
  BY DEF AlertsHears, GotRules, GotActive, GotSubmitted, GotRuleDeleted, At
<1> DEFINE more == GetJson("active", Nothing)
<1>2. Fresh(more) /\ more.to = "active" /\ Fresh(ListRules) /\ ListRules.to = "rules"
  BY GetJsonIsFresh DEF ListRules
<1> HIDE DEF more
<1>3. ASSUME NEW rs, Receive(n, rs), rs \in {<<>>, <<more>>, <<ListRules>>}
      PROVE  /\ NetInv'
             /\ \A S : Pending(S) /\ calls[n].to \notin S => Pending(S)'
             /\ rs # <<>> => Pending({"rules", "active"})'
  BY <1>1, <1>2, <1>3, ReceivePends, FewRequests
<1>4. CASE GotRules(n)
  <2>1. Receive(n, <<more>>) /\ calls[n].to = "rules"
    BY <1>4 DEF GotRules, At, more
  <2>2. NetInv' /\ Pending({"rules", "active"})'
        /\ \A S : Pending(S) /\ "rules" \notin S => Pending(S)'
    BY <1>3, <2>1
  <2> QED
    BY <1>4, <2>2 DEF GotRules, DeskOnly, DeskSpin
<1>5. CASE GotActive(n)
  <2>1. Receive(n, <<>>) /\ calls[n].to = "active"
    BY <1>5 DEF GotActive, At
  <2>2. NetInv' /\ \A S : Pending(S) /\ "active" \notin S => Pending(S)'
    BY <1>3, <2>1
  <2> QED
    BY <1>5, <2>2 DEF GotActive, DeskOnly, DeskSpin
<1>6. CASE GotSubmitted(n)
  <2>1. calls[n].to \in {"create_rule", "update_rule"}
    BY <1>6 DEF GotSubmitted, At
  <2>2. CASE calls[n].ok
    <3>1. Receive(n, <<ListRules>>)
      BY <1>6, <2>2 DEF GotSubmitted
    <3>2. NetInv' /\ Pending({"rules", "active"})' /\ (Pending({"delete_rule"}) => Pending({"delete_rule"})')
      BY <1>3, <2>1, <3>1
    <3> QED
      BY <1>6, <2>2, <3>2 DEF GotSubmitted, DeskOnly, Reloading, DeskSpin
  <2>3. CASE ~calls[n].ok
    <3>1. Receive(n, <<>>)
      BY <1>6, <2>3 DEF GotSubmitted
    <3>2. NetInv' /\ (Pending({"delete_rule"}) => Pending({"delete_rule"})')
          /\ (Pending({"rules", "active"}) => Pending({"rules", "active"})')
      BY <1>3, <2>1, <3>1
    <3> QED
      BY <1>6, <2>3, <3>2 DEF GotSubmitted, DeskOnly, DeskSpin
  <2> QED
    BY <2>2, <2>3
<1>7. CASE GotRuleDeleted(n)
  <2>1. calls[n].to = "delete_rule"
    BY <1>7 DEF GotRuleDeleted, At
  <2> DEFINE S == {"create_rule", "update_rule"}
  <2>2. CASE calls[n].ok
    <3>1. Receive(n, <<ListRules>>)
      BY <1>7, <2>2 DEF GotRuleDeleted
    <3>2. NetInv' /\ Pending({"rules", "active"})' /\ (Pending(S) => Pending(S)')
      BY <1>3, <2>1, <3>1
    <3> QED
      BY <1>7, <2>2, <3>2 DEF GotRuleDeleted, DeskOnly, Reloading, DeskSpin
  <2>3. CASE ~calls[n].ok
    <3>1. Receive(n, <<>>)
      BY <1>7, <2>3 DEF GotRuleDeleted
    <3>2. NetInv' /\ (Pending(S) => Pending(S)')
          /\ (Pending({"rules", "active"}) => Pending({"rules", "active"})')
      BY <1>3, <2>1, <3>1
    <3> QED
      BY <1>7, <2>3, <3>2 DEF GotRuleDeleted, DeskOnly, DeskSpin
  <2> QED
    BY <2>2, <2>3
<1> QED
  BY <1>4, <1>5, <1>6, <1>7 DEF AlertsHears

-----------------------------------------------------------------------------
\* A box that is not as before is one that a request was sent for.
LEMMA StartedBox ==
    ASSUME NEW bs, NEW rs, DOMAIN bs = BoxNames,
           \A b \in BoxNames : "loading" \in DOMAIN bs[b]
    PROVE  /\ DOMAIN Started(bs, rs) = BoxNames
           /\ \A b \in BoxNames :
                 /\ "loading" \in DOMAIN Started(bs, rs)[b]
                 /\ \/ Started(bs, rs)[b] = bs[b]
                    \/ b # "health" /\ \E i \in DOMAIN rs : rs[i].to \in Fills(b)
<1>1. DOMAIN Started(bs, rs) = BoxNames
  BY DEF Started
<1>2. ASSUME NEW b \in BoxNames
      PROVE  /\ "loading" \in DOMAIN Started(bs, rs)[b]
             /\ \/ Started(bs, rs)[b] = bs[b]
                \/ b # "health" /\ \E i \in DOMAIN rs : rs[i].to \in Fills(b)
  <2> DEFINE asked == {i \in DOMAIN rs : BoxFor(rs[i].to) = b}
  <2>1. CASE asked = {}
    BY <2>1 DEF Started
  <2>2. CASE asked # {}
    <3> PICK body : body = rs[CHOOSE i \in asked : TRUE].body
      OBVIOUS
    <3>1. Started(bs, rs)[b] = Begin(bs[b], b, body)
      BY <2>2 DEF Started
    <3>2. "loading" \in DOMAIN Begin(bs[b], b, body)
      BY DEF Begin
    <3>3. b # "health" /\ \E i \in DOMAIN rs : rs[i].to \in Fills(b)
      BY <2>2 DEF BoxFor, Fills
    <3> QED
      BY <3>1, <3>2, <3>3
  <2> QED
    BY <2>1, <2>2
<1> QED
  BY <1>1, <1>2

\* What a page sends when it opens or when the token changes.
LEMMA LoadsFresh ==
    ASSUME NEW p, NEW l
    PROVE  FreshSeq(Loads(p, l)) /\ FreshSeq(Opens(p, l))
<1> DEFINE ask(to) == GetJson(to, Now(l, None))
<1>1. Fresh(ask("health")) /\ Fresh(ask("stats")) /\ Fresh(ask("names")) /\ Fresh(ask("series"))
      /\ Fresh(ask("map"))
  BY GetJsonIsFresh
<1>2. Loads(p, l) \in {<<>>, <<ask("health")>>, <<ask("stats")>>, <<ask("names")>> \o <<>>,
                       <<ask("names")>> \o <<ask("series")>>}
  BY DEF Loads
<1>3. Opens(p, l) = <<ask("map")>> \/ Opens(p, l) = Loads(p, l)
  BY DEF Opens
<1> HIDE DEF ask
<1>4. ASSUME NEW r, NEW s, Fresh(r), Fresh(s), NEW rs, rs = <<>> \/ rs = <<s>>
      PROVE  FreshSeq(<<r>> \o rs)
  <2>1. <<r>> \in Seq({r, s}) /\ rs \in Seq({r, s})
    <3>1. <<>> \in Seq({r, s})
      OBVIOUS
    <3>2. <<r>> \in Seq({r, s})
      OBVIOUS
    <3>3. <<s>> \in Seq({r, s})
      OBVIOUS
    <3> QED
      BY <1>4, <3>1, <3>2, <3>3
  <2>2. <<r>> \o rs \in Seq({r, s})
    BY <2>1
  <2> QED
    BY <1>4, <2>2 DEF FreshSeq
<1> QED
  BY <1>1, <1>2, <1>3, <1>4, FewRequests

\* The page sends rs, and the boxes they fill begin to spin.
LEMMA AskSpins ==
    ASSUME NetInv, BoxSpin, NEW rs, FreshSeq(rs), Send(rs), NEW bs,
           DOMAIN bs = BoxNames, \A b \in BoxNames : "loading" \in DOMAIN bs[b],
           \A b \in BoxNames : bs[b].loading = boxes[b].loading,
           boxes' = Started(bs, rs)
    PROVE  NetInv' /\ BoxSpin'
<1>1. /\ NetInv'
      /\ \A S : Pending(S) => Pending(S)'
      /\ \A S : (\E i \in DOMAIN rs : rs[i].to \in S) => Pending(S)'
  BY SendPends
<1>2. /\ DOMAIN boxes' = BoxNames
      /\ \A b \in BoxNames :
            /\ "loading" \in DOMAIN boxes'[b]
            /\ \/ boxes'[b] = bs[b]
               \/ b # "health" /\ \E i \in DOMAIN rs : rs[i].to \in Fills(b)
  BY StartedBox
<1>3. "health" \in BoxNames
  BY DEF BoxNames
<1>4. boxes'["health"].loading = FALSE
  BY <1>2, <1>3 DEF BoxSpin
<1>5. ASSUME NEW b \in BoxNames PROVE boxes'[b].loading => Pending(Fills(b))'
  <2>1. CASE boxes'[b] = bs[b]
    <3>1. boxes'[b].loading => Pending(Fills(b))
      BY <2>1 DEF BoxSpin
    <3>2. Pending(Fills(b)) => Pending(Fills(b))'
      BY <1>1 DEF Fills
    <3> QED
      BY <3>1, <3>2
  <2>2. CASE \E i \in DOMAIN rs : rs[i].to \in Fills(b)
    BY <1>1, <2>2 DEF Fills
  <2> QED
    BY <1>2, <2>1, <2>2
<1> QED
  BY <1>1, <1>2, <1>4, <1>5 DEF BoxSpin

LEMMA QuietBoxes ==
    ASSUME NetInv, BoxSpin, UNCHANGED <<calls, sent, boxes>>
    PROVE  NetInv' /\ BoxSpin'
BY QuietPends DEF BoxSpin

LEMMA BoxUserSpins ==
    ASSUME NetInv, BoxSpin, QueriesUser
    PROVE  NetInv' /\ BoxSpin'
<1>1. ASSUME NEW rs, FreshSeq(rs), Ask(rs) PROVE NetInv' /\ BoxSpin'
  <2>1. Send(rs) /\ boxes' = Started(boxes, rs)
    BY <1>1 DEF Ask
  <2> QED
    BY <1>1, <2>1, AskSpins DEF BoxSpin
<1>2. ASSUME NEW to, NEW q, Ask(<<GetJson(to, q)>>) PROVE NetInv' /\ BoxSpin'
  BY <1>1, <1>2, GetJsonIsFresh, FewRequests
<1>3. ASSUME NEW t, TypeToken(t) PROVE NetInv' /\ BoxSpin'
  <2>1. CASE Ask(Loads(page, look'))
    BY <1>1, <2>1, LoadsFresh
  <2>2. CASE Local /\ UNCHANGED boxes
    BY <2>2, QuietBoxes DEF Local, net
  <2> QED
    BY <1>3, <2>1, <2>2 DEF TypeToken
<1>4. ASSUME NEW t, SelectName(t) \/ FollowToLogs(t) \/ RunMetrics \/ RunLogs \/ RunMap
      PROVE  NetInv' /\ BoxSpin'
  BY <1>2, <1>4 DEF SelectName, FollowToLogs, RunMetrics, RunLogs, RunMap
<1>5. CASE ClearFilter
  BY <1>5, QuietBoxes DEF ClearFilter, Local, net
\* NoSpans empties a box that may go on spinning.
<1>6. /\ DOMAIN NoSpans(boxes) = BoxNames
      /\ \A b \in BoxNames : /\ "loading" \in DOMAIN NoSpans(boxes)[b]
                             /\ NoSpans(boxes)[b].loading = boxes[b].loading
  BY DEF NoSpans, BoxSpin, BoxNames
<1>7. ASSUME NEW t, load_spans(t) PROVE NetInv' /\ BoxSpin'
  <2> DEFINE r == GetJson("spans", Now(look, t))
  <2>1. Send(<<r>>) /\ boxes' = Started(NoSpans(boxes), <<r>>)
    BY <1>7 DEF load_spans
  <2>2. FreshSeq(<<r>>)
    BY GetJsonIsFresh, FewRequests
  <2> HIDE DEF r
  <2> QED
    BY <1>6, <2>1, <2>2, AskSpins
<1>8. CASE RunTraces
  <2> DEFINE r == GetJson("traces", Now(look, None))
  <2>1. Send(<<r>>) /\ boxes' = NoSpans(Started(boxes, <<r>>))
    BY <1>8 DEF RunTraces
  <2>2. FreshSeq(<<r>>)
    BY GetJsonIsFresh, FewRequests
  <2> HIDE DEF r
  <2> PICK bs : bs = Started(boxes, <<r>>)
    OBVIOUS
  <2>3. /\ NetInv'
        /\ \A S : Pending(S) => Pending(S)'
        /\ \A S : (\E i \in DOMAIN <<r>> : <<r>>[i].to \in S) => Pending(S)'
    BY <2>1, <2>2, SendPends
  <2>4. /\ DOMAIN bs = BoxNames
        /\ \A b \in BoxNames :
              /\ "loading" \in DOMAIN bs[b]
              /\ \/ bs[b] = boxes[b]
                 \/ b # "health" /\ \E i \in DOMAIN <<r>> : <<r>>[i].to \in Fills(b)
    BY StartedBox DEF BoxSpin
  <2>5. /\ DOMAIN boxes' = BoxNames
        /\ \A b \in BoxNames : "loading" \in DOMAIN boxes'[b] /\ boxes'[b].loading = bs[b].loading
    BY <2>1, <2>4 DEF NoSpans, BoxNames
  <2>6. "health" \in BoxNames
    BY DEF BoxNames
  <2>7. ASSUME NEW b \in BoxNames PROVE bs[b].loading => Pending(Fills(b))'
    <3>1. CASE bs[b] = boxes[b]
      BY <2>3, <3>1 DEF BoxSpin, Fills
    <3>2. CASE \E i \in DOMAIN <<r>> : <<r>>[i].to \in Fills(b)
      BY <2>3, <3>2 DEF Fills
    <3> QED
      BY <2>4, <3>1, <3>2
  <2>8. bs["health"].loading = FALSE
    BY <2>4, <2>6 DEF BoxSpin
  <2> QED
    BY <2>3, <2>5, <2>6, <2>7, <2>8 DEF BoxSpin
<1> QED
  BY <1>3, <1>4, <1>5, <1>7, <1>8 DEF QueriesUser

LEMMA BoxServesSpins ==
    ASSUME NetInv, BoxSpin, NEW n, QueriesServe(n)
    PROVE  NetInv' /\ BoxSpin'
<1>1. n \in DOMAIN calls /\ Handled(n) /\ UNCHANGED boxes
  BY DEF QueriesServe, Serve, At, Handled, queryVars
<1>2. NetInv' /\ \A b : Pending(Fills(b)) => Pending(Fills(b))'
  BY <1>1, HandledPends DEF Fills
<1> QED
  BY <1>1, <1>2 DEF BoxSpin

LEMMA BoxHearsSpins ==
    ASSUME NetInv, BoxSpin, NEW n, QueriesHear(n)
    PROVE  NetInv' /\ BoxSpin'
<1>1. n \in DOMAIN calls
  BY DEF QueriesHear, GotHealth, GotBox, At
<1>2. CASE GotHealth(n)
  <2> DEFINE r == GetJson("stats", calls[n].body)
  <2>1. Receive(n, <<r>>) /\ calls[n].to = "health"
    BY <1>2 DEF GotHealth, At
  <2>2. Fresh(r) /\ r.to = "stats"
    BY GetJsonIsFresh
  <2> HIDE DEF r
  <2>3. /\ NetInv' /\ Pending(Fills("stats"))'
        /\ \A b : Pending(Fills(b)) /\ "health" \notin Fills(b) => Pending(Fills(b))'
    BY <1>1, <2>1, <2>2, ReceivePends, FewRequests DEF Fills
  <2>4. /\ DOMAIN boxes' = BoxNames
        /\ \A b \in BoxNames : "loading" \in DOMAIN boxes'[b] /\ boxes'[b].loading = boxes[b].loading
    BY <1>2 DEF GotHealth, BoxSpin, BoxNames
  <2>5. ASSUME NEW b \in BoxNames PROVE boxes'[b].loading => Pending(Fills(b))'
    <3>1. b = "stats" \/ b = "health" \/ "health" \notin Fills(b)
      BY DEF Fills
    <3> QED
      BY <2>3, <2>4, <3>1 DEF BoxSpin
  <2> QED
    BY <2>3, <2>4, <2>5 DEF BoxSpin, BoxNames
<1>3. CASE GotBox(n)
  <2> PICK to \in BoxNames \ {"health"} : calls[n].to = to
    BY <1>3 DEF GotBox, At
  <2>1. /\ NetInv'
        /\ \A b : Pending(Fills(b)) /\ to \notin Fills(b) => Pending(Fills(b))'
    BY <1>1, <1>3, ReceivePends, FewRequests DEF GotBox, Fills
  <2>2. boxes' = [boxes EXCEPT ![to] = Land(boxes[to], calls[n])]
    BY <1>3 DEF GotBox
  <2>3. "loading" \in DOMAIN Land(boxes[to], calls[n]) /\ Land(boxes[to], calls[n]).loading = FALSE
    BY DEF Land, BoxSpin
  <2>4. /\ DOMAIN boxes' = BoxNames
        /\ \A b \in BoxNames : boxes'[b] = IF b = to THEN Land(boxes[to], calls[n]) ELSE boxes[b]
    BY <2>2 DEF BoxSpin
  <2>5. ASSUME NEW b \in BoxNames
        PROVE  "loading" \in DOMAIN boxes'[b] /\ (boxes'[b].loading => Pending(Fills(b))')
    <3>1. CASE b = to
      BY <2>3, <2>4, <3>1
    <3>2. CASE b # to
      <4>1. to \notin Fills(b)
        BY <3>2 DEF Fills
      <4> QED
        BY <2>1, <2>4, <3>2, <4>1 DEF BoxSpin
    <3> QED
      BY <3>1, <3>2
  <2> QED
    BY <2>1, <2>4, <2>5 DEF BoxSpin, BoxNames
<1> QED
  BY <1>2, <1>3 DEF QueriesHear

-----------------------------------------------------------------------------
LEMMA FirstRequests ==
    ASSUME NEW rs, FreshSeq(rs), BrowserInit(rs)
    PROVE  NetInv /\ \A S : (\E i \in DOMAIN rs : rs[i].to \in S) => Pending(S)
<1>1. DOMAIN calls = DOMAIN rs /\ sent = Len(rs) /\ \A n \in DOMAIN rs : calls[n] = rs[n]
  BY DEF BrowserInit
<1> QED
  BY <1>1 DEF NetInv, Pending, FreshSeq, Fresh

LEMMA SpinInit ==
    ASSUME Init
    PROVE  SpinInv
<1>1. ASSUME page = "dashboards" PROVE NetInv /\ DashSpin
  <2>1. dash = NewDash /\ BrowserInit(<<ListDashboards>>)
    BY <1>1 DEF Init, DashInit, Asking
  <2>2. NetInv /\ Pending({"dashboards"})
    BY <2>1, FirstRequests, FewRequests, GetJsonIsFresh DEF ListDashboards
  <2> QED
    BY <2>1, <2>2 DEF DashSpin, NewDash
<1>2. ASSUME page = "alerts" PROVE NetInv /\ DeskSpin
  <2>1. desk = NewDesk /\ BrowserInit(<<ListRules>>)
    BY <1>2 DEF Init, AlertsInit, Asking
  <2>2. NetInv /\ Pending({"rules", "active"})
    BY <2>1, FirstRequests, FewRequests, GetJsonIsFresh DEF ListRules
  <2> QED
    BY <2>1, <2>2 DEF DeskSpin, NewDesk
<1>3. ASSUME page \in Asking PROVE NetInv /\ BoxSpin
  <2> DEFINE rs == Opens(page, look)
             bs == [b \in BoxNames |-> EmptyBox]
  <2>1. BrowserInit(rs) /\ boxes = Started(bs, rs)
    BY <1>3 DEF Init, QueriesInit, Asking
  <2>2. FreshSeq(rs)
    BY LoadsFresh
  <2>3. /\ DOMAIN bs = BoxNames
        /\ \A b \in BoxNames : "loading" \in DOMAIN bs[b] /\ bs[b].loading = FALSE
    BY DEF EmptyBox
  <2> HIDE DEF rs, bs
  <2>4. NetInv /\ \A S : (\E i \in DOMAIN rs : rs[i].to \in S) => Pending(S)
    BY <2>1, <2>2, FirstRequests
  <2>5. /\ DOMAIN boxes = BoxNames
        /\ \A b \in BoxNames :
              /\ "loading" \in DOMAIN boxes[b]
              /\ \/ boxes[b] = bs[b]
                 \/ b # "health" /\ \E i \in DOMAIN rs : rs[i].to \in Fills(b)
    BY <2>1, <2>3, StartedBox
  <2>6. "health" \in BoxNames
    BY DEF BoxNames
  <2>7. \A b \in BoxNames : boxes[b].loading => Pending(Fills(b))
    BY <2>3, <2>4, <2>5 DEF Fills
  <2> QED
    BY <2>3, <2>4, <2>5, <2>6, <2>7 DEF BoxSpin
<1>4. page \in Asking \cup {"dashboards", "alerts"}
  BY DEF Init
<1> QED
  BY <1>1, <1>2, <1>3, <1>4 DEF SpinInv

LEMMA SpinStep ==
    ASSUME SpinInv, [Next]_vars
    PROVE  SpinInv'
<1>1. page' = page /\ NetInv
  BY PageStays DEF SpinInv
<1>2. CASE Breaks
  <2>1. PICK n \in DOMAIN calls : Fail(n)
    BY <1>2 DEF Breaks
  <2>2. NetInv' /\ (\A S : Pending(S) => Pending(S)') /\ UNCHANGED <<dash, desk, boxes>>
    BY <1>1, <1>2, <2>1, HandledPends DEF Handled, Breaks, dashVars, alertVars, queryVars
  <2>3. \A b : Pending(Fills(b)) => Pending(Fills(b))'
    BY <2>2 DEF Fills
  <2> QED
    BY <1>1, <2>2, <2>3 DEF SpinInv, DashSpin, DeskSpin, BoxSpin
<1>3. CASE UNCHANGED vars
  <2>1. NetInv' /\ (\A S : Pending(S) => Pending(S)') /\ UNCHANGED <<dash, desk, boxes>>
    BY <1>1, <1>3, QuietPends DEF vars, net, dashVars, alertVars, queryVars
  <2>2. \A b : Pending(Fills(b)) => Pending(Fills(b))'
    BY <2>1 DEF Fills
  <2> QED
    BY <1>1, <2>1, <2>2 DEF SpinInv, DashSpin, DeskSpin, BoxSpin
<1>4. ASSUME page = "dashboards", NEW n, DashUser \/ DashServes(n) \/ DashHears(n) PROVE SpinInv'
  <2>1. NetInv' /\ DashSpin'
    BY <1>1, <1>4, DashUserSpins, DashServesSpins, DashHearsSpins DEF SpinInv
  <2> QED
    BY <1>1, <1>4, <2>1 DEF SpinInv, Asking
<1>5. ASSUME page = "alerts", NEW n, AlertsUser \/ AlertsServes(n) \/ AlertsHears(n) PROVE SpinInv'
  <2>1. NetInv' /\ DeskSpin'
    BY <1>1, <1>5, DeskUserSpins, DeskServesSpins, DeskHearsSpins DEF SpinInv
  <2> QED
    BY <1>1, <1>5, <2>1 DEF SpinInv, Asking
<1>6. ASSUME page \in Asking, NEW n, QueriesUser \/ QueriesServe(n) \/ QueriesHear(n) PROVE SpinInv'
  <2>1. NetInv' /\ BoxSpin'
    BY <1>1, <1>6, BoxUserSpins, BoxServesSpins, BoxHearsSpins DEF SpinInv
  <2> QED
    BY <1>1, <1>6, <2>1 DEF SpinInv, Asking
<1> QED
  BY <1>2, <1>3, <1>4, <1>5, <1>6 DEF Next, OnDashboards, OnAlerts, OnQueries, Network

\* No page is left with a spinner or a disabled button: whatever requests failed, were
\* refused or overtook each other, as long as one is shown, the request whose answer
\* ends it is under way.
THEOREM SpinnersHaveRequests == Spec => []SpinnersEnd
<1>1. Init => SpinInv
  BY SpinInit
<1>2. SpinInv /\ [Next]_vars => SpinInv'
  BY SpinStep
<1>3. SpinInv => SpinnersEnd
  BY DEF SpinInv, DashSpin, DeskSpin, BoxSpin, Fills, Pending, SpinnersEnd
<1> QED
  BY <1>1, <1>2, <1>3, PTL DEF Spec

-----------------------------------------------------------------------------
(* Saves.                                                                    *)

\* The request carries a dashboard, and its UPDATE was executed.
Wrote(c) == c.to = "save" /\ (c.at = "read" \/ (c.at = "done" /\ c.ok = TRUE))

\* No more than one save is under way, and only while the button is disabled; until it
\* is over it has no answer.
OneSave ==
    /\ "saving" \in DOMAIN dash
    /\ \A m, n \in DOMAIN calls : calls[m].to = "save" /\ calls[n].to = "save" => m = n
    /\ \A n \in DOMAIN calls : calls[n].to = "save" => dash.saving
    /\ \A n \in DOMAIN calls : calls[n].to = "save" /\ calls[n].at # "done" => calls[n].ok = FALSE

\* What was written is there unless it was deleted since, and a dashboard that differs
\* from its last confirmed save was written by the one that is under way.
SavesKept ==
    /\ nextDash \in Int
    /\ \A i \in DOMAIN stored : i \in Int /\ i < nextDash
    /\ \A i \in DOMAIN kept : i \in Int /\ i < nextDash
    /\ \A n \in DOMAIN calls : Wrote(calls[n]) =>
          LET b == calls[n].body IN
          /\ b.id \in Int /\ b.id < nextDash
          /\ b.id \in DOMAIN stored => stored[b.id] = b.panels
    /\ \A i \in DOMAIN stored \cap DOMAIN kept :
          \/ stored[i] = kept[i]
          \/ \E n \in DOMAIN calls : Wrote(calls[n]) /\ calls[n].body.id = i

SaveInv ==
    page = "dashboards" =>
        /\ NetInv
        /\ faults \in Nat /\ others \in Nat
        /\ OneSave
        /\ faults = 0 /\ others = 0 => SavesKept

LEMMA SaveInit ==
    ASSUME Init
    PROVE  SaveInv
<1> SUFFICES ASSUME page = "dashboards" PROVE SaveInv
  BY DEF SaveInv
<1>1. DashInit /\ BrowserInit(<<ListDashboards>>)
  BY DEF Init, Asking
<1>2. NetInv /\ \A n \in DOMAIN calls : calls[n].to = "dashboards"
  <2>1. FreshSeq(<<ListDashboards>>) /\ ListDashboards.to = "dashboards"
    BY FewRequests, GetJsonIsFresh DEF ListDashboards
  <2>2. DOMAIN <<ListDashboards>> = {1} /\ <<ListDashboards>>[1] = ListDashboards
    OBVIOUS
  <2> QED
    BY <1>1, <2>1, <2>2, FirstRequests DEF BrowserInit
<1>3. OneSave
  BY <1>1, <1>2 DEF OneSave, DashInit, NewDash
<1>4. SavesKept
  <2>1. PICK k \in 0..MaxDash, p \in Layouts : stored = [i \in 1..k |-> p] /\ nextDash = k + 1
    BY <1>1 DEF DashInit
  <2>2. DOMAIN kept = {}
    BY <1>1 DEF DashInit
  <2> QED
    BY <1>2, <2>1, <2>2, DashBounds DEF SavesKept, Wrote
<1> QED
  BY <1>1, <1>2, <1>3, <1>4 DEF SaveInv, BrowserInit

\* Each request was in flight before, or is new and no save.
NoSaveAdded ==
    \A n \in DOMAIN calls' :
        \/ n \in DOMAIN calls /\ calls'[n] = calls[n]
        \/ calls'[n].to # "save" /\ IsCall(calls'[n])

LEMMA SendNoSave ==
    ASSUME NetInv, NEW rs, FreshSeq(rs), Send(rs), \A i \in DOMAIN rs : rs[i].to # "save"
    PROVE  NoSaveAdded /\ DOMAIN calls \subseteq DOMAIN calls' /\ \A n \in DOMAIN calls : calls'[n] = calls[n]
<1>1. sent \in Int /\ DOMAIN rs \subseteq Int
  BY DEF NetInv, FreshSeq
<1> QED
  BY <1>1, SendAdds DEF NoSaveAdded, FreshSeq, Fresh

LEMMA ReceiveNoSave ==
    ASSUME NetInv, NEW m, NEW rs, FreshSeq(rs), Receive(m, rs), \A i \in DOMAIN rs : rs[i].to # "save"
    PROVE  /\ \A n \in DOMAIN calls' :
                 \/ n \in DOMAIN calls \ {m} /\ calls'[n] = calls[n]
                 \/ calls'[n].to # "save" /\ IsCall(calls'[n])
           /\ \A n \in DOMAIN calls \ {m} : n \in DOMAIN calls' /\ calls'[n] = calls[n]
<1>1. sent \in Int /\ DOMAIN rs \subseteq Int
  BY DEF NetInv, FreshSeq
<1> QED
  BY <1>1, ReceiveAdds DEF FreshSeq, Fresh

\* Steps that leave the tables and the saves alone.
LEMMA SavesLeft ==
    ASSUME OneSave, SavesKept, UNCHANGED <<stored, nextDash, kept>>,
           \A n \in DOMAIN calls' : (n \in DOMAIN calls /\ calls'[n] = calls[n]) \/ calls'[n].to # "save",
           \A n \in DOMAIN calls : calls[n].to = "save" => n \in DOMAIN calls' /\ calls'[n] = calls[n]
    PROVE  SavesKept'
<1>1. ASSUME NEW n \in DOMAIN calls', Wrote(calls'[n])
      PROVE  n \in DOMAIN calls /\ calls'[n] = calls[n]
  BY <1>1 DEF Wrote
<1>2. ASSUME NEW n \in DOMAIN calls, Wrote(calls[n])
      PROVE  n \in DOMAIN calls' /\ calls'[n] = calls[n]
  BY <1>2 DEF Wrote
<1>3. ASSUME NEW n \in DOMAIN calls', Wrote(calls[n])'
      PROVE  LET b == calls[n].body IN
             (/\ b.id \in Int /\ b.id < nextDash
              /\ b.id \in DOMAIN stored => stored[b.id] = b.panels)'
  BY <1>1, <1>3 DEF SavesKept, Wrote
<1>4. ASSUME NEW i \in DOMAIN stored \cap DOMAIN kept
      PROVE  stored[i] = kept[i] \/ \E n \in DOMAIN calls' : Wrote(calls'[n]) /\ calls'[n].body.id = i
  BY <1>2 DEF SavesKept
<1> QED
  BY <1>3, <1>4 DEF SavesKept, Wrote

\* d is what became of request c.
Later(c, d) == d.to = c.to /\ (d.at # "done" => c.at # "done" /\ d.ok = c.ok)

LEMMA OneSaveLeft ==
    ASSUME OneSave, "saving" \in DOMAIN dash', dash'.saving = dash.saving,
           \A n \in DOMAIN calls' : (n \in DOMAIN calls /\ Later(calls[n], calls'[n])) \/ calls'[n].to # "save"
    PROVE  OneSave'
BY DEF OneSave, Later

-----------------------------------------------------------------------------
SaveGoal == OneSave' /\ (faults' = 0 /\ others' = 0 => SavesKept')

LEMMA SaveUser ==
    ASSUME page = "dashboards", SaveInv, DashUser
    PROVE  SaveGoal
<1>1. NetInv /\ faults \in Nat /\ others \in Nat /\ OneSave /\ (faults = 0 /\ others = 0 => SavesKept)
  BY DEF SaveInv
<1>2. ASSUME NEW r, Fresh(r), r.to # "save", Send(<<r>>), UNCHANGED <<stored, nextDash, kept>>,
             "saving" \in DOMAIN dash', dash'.saving = dash.saving
      PROVE  SaveGoal
  <2>1. FreshSeq(<<r>>) /\ DOMAIN <<r>> = {1} /\ <<r>>[1] = r
    BY <1>2, FewRequests
  <2>2. /\ NoSaveAdded /\ DOMAIN calls \subseteq DOMAIN calls'
        /\ \A n \in DOMAIN calls : calls'[n] = calls[n]
    BY <1>1, <1>2, <2>1, SendNoSave
  <2>3. UNCHANGED <<faults, others>>
    BY <1>2 DEF Send
  <2>4. OneSave'
    BY <1>1, <1>2, <2>2, OneSaveLeft DEF NoSaveAdded, Later
  <2>5. faults' = 0 /\ others' = 0 => SavesKept'
    BY <1>1, <1>2, <2>2, <2>3, SavesLeft DEF NoSaveAdded
  <2> QED
    BY <2>4, <2>5 DEF SaveGoal
<1>3. CASE DashToken
  BY <1>1, <1>2, <1>3, GetJsonIsFresh DEF DashToken, ListDashboards, DashOnly, Loading, OneSave
<1>4. CASE CreateNew \/ \E i \in DashIds : OpenDashboard(i)
  BY <1>1, <1>2, <1>4, GetJsonIsFresh DEF CreateNew, OpenDashboard, SendJson, dashVars, OneSave
<1>5. CASE ConfirmDelete
  BY <1>1, <1>2, <1>5, GetJsonIsFresh DEF ConfirmDelete, DeleteReq, DashOnly, OneSave
<1>6. CASE Save
  <2> DEFINE b == [id |-> dash.open.id, panels |-> dash.open.panels]
             r == SendJson("save", b)
  <2>1. Fresh(r) /\ r.to = "save"
    <3> HIDE DEF b
    <3> QED
      BY GetJsonIsFresh DEF SendJson
  <2>2. /\ Send(<<r>>) /\ dash' = [dash EXCEPT !.saving = TRUE] /\ ~dash.saving
        /\ UNCHANGED <<stored, nextDash, kept, faults, others>>
    BY <1>6 DEF Save, DashOnly, Send
  <2> HIDE DEF r
  <2>3. FreshSeq(<<r>>) /\ DOMAIN <<r>> = {1} /\ <<r>>[1] = r
    BY <2>1, FewRequests
  <2>4. \A n \in DOMAIN calls : calls[n].to # "save"
    BY <1>1, <2>2 DEF OneSave
  \* The only save is the one with the highest number.
  <2>5. /\ \A n \in DOMAIN calls : n \in DOMAIN calls' /\ calls'[n] = calls[n]
        /\ \A n \in DOMAIN calls' : n \in DOMAIN calls \/ (n = sent + 1 /\ calls'[n] = r)
    <3>1. calls' = Plus(calls, <<r>>) /\ sent \in Int
      BY <1>1, <2>2 DEF Send, NetInv
    <3>2. (sent + 1) - sent = 1
      BY <3>1
    <3> QED
      BY <2>3, <3>1, <3>2 DEF Plus
  <2>6. OneSave'
    BY <1>1, <2>1, <2>2, <2>4, <2>5 DEF OneSave, Fresh
  <2>7. \A n \in DOMAIN calls' : Wrote(calls'[n]) => n \in DOMAIN calls
    BY <2>1, <2>5 DEF Wrote, Fresh
  <2>8. \A n \in DOMAIN calls' : ~Wrote(calls'[n])
    BY <2>4, <2>5, <2>7 DEF Wrote
  <2>9. \A n \in DOMAIN calls : ~Wrote(calls[n])
    BY <2>4 DEF Wrote
  <2>10. faults' = 0 /\ others' = 0 => SavesKept'
    BY <1>1, <2>2, <2>8, <2>9 DEF SavesKept, Wrote
  <2> QED
    BY <2>6, <2>10 DEF SaveGoal
<1>7. ASSUME UNCHANGED <<calls, faults, others, stored, nextDash, kept>>,
             "saving" \in DOMAIN dash', dash'.saving = dash.saving
      PROVE  SaveGoal
  <2>1. OneSave'
    BY <1>1, <1>7, OneSaveLeft DEF Later
  <2>2. faults' = 0 /\ others' = 0 => SavesKept'
    BY <1>1, <1>7 DEF SavesKept, Wrote
  <2> QED
    BY <2>1, <2>2 DEF SaveGoal
<1>8. CASE AskDelete \/ CancelDash \/ (\E p \in Panels : AddPanel(p)) \/ \E k \in 1..MaxPanels : RemovePanel(k)
  <2>1. UNCHANGED <<calls, faults, others, stored, nextDash, kept>>
    BY <1>8 DEF AskDelete, CancelDash, AddPanel, RemovePanel, Local, net, DashOnly
  <2>2. \/ \E d : dash' = [dash EXCEPT !.dialog = d]
        \/ \E o : dash' = [dash EXCEPT !.open = o]
        \/ \E o, e : dash' = [dash EXCEPT !.open.panels = o, !.open.edited = e]
    BY <1>8 DEF AskDelete, CancelDash, AddPanel, RemovePanel, DashOnly
  <2>3. "saving" \in DOMAIN dash' /\ dash'.saving = dash.saving
    BY <1>1, <2>2 DEF OneSave
  <2> QED
    BY <1>7, <2>1, <2>3
<1>9. CASE \E i \in DashIds : SomebodyChangesADashboard(i)
  <2>1. others' = others + 1 /\ calls' = calls
    BY <1>9 DEF SomebodyChangesADashboard, SomebodyElse
  <2>2. dash' = dash
    BY <1>9 DEF SomebodyChangesADashboard, UpdateDashboard, DeleteDashboard, InsertDashboard
  <2>3. others' # 0
    BY <1>1, <2>1
  <2> QED
    BY <1>1, <2>1, <2>2, <2>3 DEF SaveGoal, OneSave
<1> QED
  BY <1>3, <1>4, <1>5, <1>6, <1>8, <1>9 DEF DashUser

\* Request m, which no UPDATE was executed for, is over or goes on: the others are as before.
LEMMA SaveServes ==
    ASSUME page = "dashboards", SaveInv, NEW m, DashServes(m)
    PROVE  SaveGoal
<1>1. /\ NetInv /\ OneSave /\ (faults = 0 /\ others = 0 => SavesKept)
      /\ m \in DOMAIN calls /\ IsCall(calls[m])
  BY DEF SaveInv, DashServes, list_dashboards, get_dashboard, create_dashboard, update_dashboard,
     delete_dashboard, At, NetInv
<1>2. UNCHANGED <<dash, kept, faults, others>>
  BY DEF DashServes, list_dashboards, get_dashboard, create_dashboard, update_dashboard,
     delete_dashboard, TableUnchanged, dashVars, InsertDashboard, UpdateDashboard, DeleteDashboard,
     Answer, Refuse, GoOn, Handle
<1>3. ASSUME NEW c, OnlyCall(m, c), Later(calls[m], c)
      PROVE  OneSave'
  <2>1. \A n \in DOMAIN calls' : n \in DOMAIN calls /\ Later(calls[n], calls'[n])
    BY <1>3 DEF OnlyCall, Later
  <2> QED
    BY <1>1, <1>2, <2>1, OneSaveLeft DEF OneSave
<1>4. ASSUME Over(m) PROVE \E c : OnlyCall(m, c) /\ c.to = calls[m].to /\ c.body = calls[m].body /\ c.at = "done"
  BY <1>4 DEF Over
<1>5. OneSave'
  <2>1. \E c : OnlyCall(m, c) /\ Later(calls[m], c)
    <3>1. ASSUME NEW body, GoOn(m, "read", body), calls[m].at = "sent"
          PROVE  \E c : OnlyCall(m, c) /\ Later(calls[m], c)
      BY <1>1, <3>1, GoOnKeeps DEF Later
    <3>2. ASSUME Over(m) PROVE \E c : OnlyCall(m, c) /\ Later(calls[m], c)
      BY <3>2 DEF Over, Later
    <3> QED
      BY <1>1, <3>1, <3>2, AnswerEnds, RefuseEnds
         DEF DashServes, list_dashboards, get_dashboard, create_dashboard, update_dashboard,
             delete_dashboard, At
  <2> QED
    BY <1>3, <2>1
<1>6. SUFFICES ASSUME faults = 0, others = 0, SavesKept PROVE SavesKept'
  BY <1>1, <1>2, <1>5 DEF SaveGoal
\* A request that is no save.
<1>7. ASSUME calls[m].to # "save", NEW c, OnlyCall(m, c), c.to = calls[m].to
      PROVE  /\ \A n \in DOMAIN calls' : (n \in DOMAIN calls /\ calls'[n] = calls[n]) \/ calls'[n].to # "save"
             /\ \A n \in DOMAIN calls : calls[n].to = "save" => n \in DOMAIN calls' /\ calls'[n] = calls[n]
             /\ \A n \in DOMAIN calls' : Wrote(calls'[n]) => n \in DOMAIN calls /\ calls'[n] = calls[n]
             /\ \A n \in DOMAIN calls : Wrote(calls[n]) => n \in DOMAIN calls' /\ calls'[n] = calls[n]
  BY <1>7 DEF OnlyCall, Wrote
<1>8. CASE list_dashboards(m) \/ (get_dashboard(m) /\ calls[m].to # "save")
  <2>1. PICK c : OnlyCall(m, c) /\ c.to = calls[m].to
    BY <1>1, <1>4, <1>8, AnswerEnds, RefuseEnds DEF list_dashboards, get_dashboard
  <2>2. calls[m].to # "save" /\ UNCHANGED <<stored, nextDash, kept>>
    BY <1>8 DEF list_dashboards, get_dashboard, At, TableUnchanged, dashVars
  <2> QED
    BY <1>1, <1>6, <1>7, <2>1, <2>2, SavesLeft
<1>9. CASE create_dashboard(m)
  <2>1. PICK c : OnlyCall(m, c) /\ c.to = calls[m].to
    BY <1>1, <1>9, GoOnKeeps DEF create_dashboard
  <2>2. calls[m].to # "save" /\ stored' = With(stored, nextDash, calls[m].body) /\ nextDash' = nextDash + 1
    BY <1>9 DEF create_dashboard, At, InsertDashboard
  <2>3. /\ DOMAIN stored' = DOMAIN stored \cup {nextDash}
        /\ \A i \in DOMAIN stored : i # nextDash /\ stored'[i] = stored[i]
    BY <1>6, <2>2 DEF With, SavesKept
  <2>4. ASSUME NEW n \in DOMAIN calls', Wrote(calls'[n])
        PROVE  /\ calls'[n].body.id \in Int /\ calls'[n].body.id < nextDash'
               /\ calls'[n].body.id \in DOMAIN stored' => stored'[calls'[n].body.id] = calls'[n].body.panels
    <3>1. n \in DOMAIN calls /\ calls'[n] = calls[n]
      BY <1>7, <2>1, <2>2, <2>4
    <3> QED
      BY <1>6, <2>2, <2>3, <2>4, <3>1 DEF SavesKept
  <2>5. ASSUME NEW i \in DOMAIN stored' \cap DOMAIN kept
        PROVE  stored'[i] = kept[i] \/ \E n \in DOMAIN calls' : Wrote(calls'[n]) /\ calls'[n].body.id = i
    <3>1. i \in DOMAIN stored
      BY <1>6, <2>3 DEF SavesKept
    <3> QED
      BY <1>6, <1>7, <2>1, <2>2, <2>3, <3>1 DEF SavesKept
  <2>6. \A i \in DOMAIN stored' : i \in Int /\ i < nextDash'
    BY <1>6, <2>2, <2>3 DEF SavesKept
  <2>7. nextDash' \in Int /\ kept' = kept /\ \A i \in DOMAIN kept : i \in Int /\ i < nextDash'
    BY <1>2, <1>6, <2>2 DEF SavesKept
  <2> QED
    BY <2>4, <2>5, <2>6, <2>7 DEF SavesKept, Wrote
<1>10. CASE delete_dashboard(m)
  <2>1. PICK c : OnlyCall(m, c) /\ c.to = calls[m].to
    BY <1>1, <1>4, <1>10, AnswerEnds, RefuseEnds DEF delete_dashboard
  <2>2. calls[m].to # "save" /\ stored' = Without(stored, calls[m].body) /\ UNCHANGED nextDash
    BY <1>10 DEF delete_dashboard, At, DeleteDashboard
  <2>3. DOMAIN stored' \subseteq DOMAIN stored /\ \A i \in DOMAIN stored' : stored'[i] = stored[i]
    BY <2>2 DEF Without
  <2>4. ASSUME NEW n \in DOMAIN calls', Wrote(calls'[n])
        PROVE  /\ calls'[n].body.id \in Int /\ calls'[n].body.id < nextDash'
               /\ calls'[n].body.id \in DOMAIN stored' => stored'[calls'[n].body.id] = calls'[n].body.panels
    BY <1>6, <1>7, <2>1, <2>2, <2>3, <2>4 DEF SavesKept
  <2>5. ASSUME NEW i \in DOMAIN stored' \cap DOMAIN kept
        PROVE  stored'[i] = kept[i] \/ \E n \in DOMAIN calls' : Wrote(calls'[n]) /\ calls'[n].body.id = i
    BY <1>6, <1>7, <2>1, <2>2, <2>3 DEF SavesKept
  <2> QED
    BY <1>2, <1>6, <2>2, <2>3, <2>4, <2>5 DEF SavesKept, Wrote
\* A save, which is the only one.
<1>11. ASSUME calls[m].to = "save", NEW c, OnlyCall(m, c)
       PROVE  \A n \in DOMAIN calls \ {m} :
                 n \in DOMAIN calls' /\ calls'[n] = calls[n] /\ ~Wrote(calls[n]) /\ calls[n].to # "save"
  BY <1>1, <1>11 DEF OneSave, OnlyCall, Wrote
<1>12. CASE update_dashboard(m)
  <2> DEFINE b == calls[m].body
  <2>1. calls[m].to = "save" /\ calls[m].at = "sent" /\ ~Wrote(calls[m]) /\ UNCHANGED nextDash
    BY <1>12 DEF update_dashboard, At, Wrote, UpdateDashboard
  <2>2. CASE b.id \in DOMAIN stored
    <3>1. PICK c : OnlyCall(m, c) /\ c.to = "save" /\ c.at = "read" /\ c.body = b
      BY <1>1, <1>12, <2>1, <2>2, GoOnKeeps DEF update_dashboard
    <3>2. stored' = With(stored, b.id, b.panels)
      BY <1>12, <2>2 DEF update_dashboard, UpdateDashboard
    <3>3. /\ DOMAIN stored' = DOMAIN stored /\ stored'[b.id] = b.panels
          /\ \A i \in DOMAIN stored : i # b.id => stored'[i] = stored[i]
      BY <2>2, <3>2 DEF With
    <3>4. m \in DOMAIN calls' /\ Wrote(calls'[m]) /\ calls'[m].body = b
      BY <1>1, <3>1 DEF OnlyCall, Wrote
    <3>5. ASSUME NEW n \in DOMAIN calls', Wrote(calls'[n]) PROVE n = m
      BY <1>11, <2>1, <3>1, <3>5 DEF OnlyCall
    <3>6. b.id \in Int /\ b.id < nextDash'
      BY <1>6, <2>1, <2>2 DEF SavesKept
    <3>7. ASSUME NEW i \in DOMAIN stored' \cap DOMAIN kept
          PROVE  stored'[i] = kept[i] \/ \E n \in DOMAIN calls' : Wrote(calls'[n]) /\ calls'[n].body.id = i
      <4>1. CASE i = b.id
        BY <3>4, <4>1
      <4>2. CASE i # b.id
        <5>1. stored[i] = kept[i]
          BY <1>6, <1>11, <2>1, <3>1, <3>3 DEF SavesKept
        <5> QED
          BY <3>3, <4>2, <5>1
      <4> QED
        BY <4>1, <4>2
    <3> HIDE DEF b
    <3> QED
      BY <1>2, <1>6, <2>1, <3>3, <3>4, <3>5, <3>6, <3>7 DEF SavesKept, Wrote
  <2>3. CASE b.id \notin DOMAIN stored
    <3>1. Refuse(m) /\ UNCHANGED stored
      BY <1>12, <2>3 DEF update_dashboard, UpdateDashboard
    <3>2. PICK c : OnlyCall(m, c) /\ c.at = "done" /\ c.ok = calls[m].ok
      <4> DEFINE d == [calls[m] EXCEPT !.at = "done"]
      <4>1. OnlyCall(m, d) /\ d.at = "done" /\ d.ok = calls[m].ok
        BY <1>1, <3>1, HandleKeeps DEF Refuse, IsCall
      <4> QED
        BY <4>1
    <3>3. \A i \in DOMAIN stored \cap DOMAIN kept : stored[i] = kept[i]
      BY <1>6, <1>11, <2>1, <3>2 DEF SavesKept
    <3>4. ASSUME NEW n \in DOMAIN calls', Wrote(calls'[n]) PROVE FALSE
      <4>1. n = m
        BY <1>11, <2>1, <3>2, <3>4 DEF OnlyCall
      <4>2. calls'[m].ok = FALSE
        BY <1>1, <2>1, <3>2 DEF OnlyCall, OneSave
      <4> QED
        BY <3>2, <3>4, <4>1, <4>2 DEF Wrote, OnlyCall
    <3> QED
      BY <1>2, <1>6, <2>1, <3>1, <3>3, <3>4 DEF SavesKept, Wrote
  <2> QED
    BY <2>2, <2>3
\* The second statement of a save reads the row: the save stays as it is, or there is no
\* row of it any more.
<1>13. CASE get_dashboard(m) /\ calls[m].to = "save"
  <2> DEFINE b == calls[m].body
  <2>1. calls[m].at = "read" /\ Wrote(calls[m]) /\ UNCHANGED <<stored, nextDash, kept>>
    BY <1>13 DEF get_dashboard, At, Wrote, TableUnchanged, dashVars
  <2>2. ASSUME NEW n \in DOMAIN calls', Wrote(calls'[n])
        PROVE  n \in DOMAIN calls /\ Wrote(calls[n]) /\ calls'[n].body = calls[n].body
    <3>1. PICK c : OnlyCall(m, c) /\ c.body = b
      BY <1>1, <1>4, <1>13, AnswerEnds, RefuseEnds DEF get_dashboard
    <3> QED
      BY <2>1, <2>2, <3>1 DEF OnlyCall
  <2>3. ASSUME NEW n \in DOMAIN calls', Wrote(calls'[n])
        PROVE  /\ calls'[n].body.id \in Int /\ calls'[n].body.id < nextDash'
               /\ calls'[n].body.id \in DOMAIN stored' => stored'[calls'[n].body.id] = calls'[n].body.panels
    BY <1>6, <2>1, <2>2, <2>3 DEF SavesKept
  <2>4. ASSUME NEW i \in DOMAIN stored \cap DOMAIN kept
        PROVE  stored[i] = kept[i] \/ \E n \in DOMAIN calls' : Wrote(calls'[n]) /\ calls'[n].body.id = i
    <3>1. CASE b.id \in DOMAIN stored
      <4>1. Over(m) /\ calls'[m].ok = TRUE
        BY <1>1, <1>13, <3>1, AnswerEnds DEF get_dashboard
      <4>2. m \in DOMAIN calls' /\ Wrote(calls'[m]) /\ calls'[m].body = b
        BY <1>1, <1>13, <4>1 DEF Over, OnlyCall, Wrote
      <4>3. stored[i] = kept[i] \/ i = b.id
        BY <1>6, <1>11, <1>13, <4>1 DEF SavesKept, Over
      <4> QED
        BY <4>2, <4>3
    <3>2. CASE b.id \notin DOMAIN stored
      <4>1. Over(m)
        BY <1>1, <1>13, <3>2, RefuseEnds DEF get_dashboard
      <4> QED
        BY <1>6, <1>11, <1>13, <3>2, <4>1 DEF SavesKept, Over
    <3> QED
      BY <3>1, <3>2
  <2> QED
    BY <1>6, <2>1, <2>3, <2>4 DEF SavesKept, Wrote
<1> QED
  BY <1>8, <1>9, <1>10, <1>12, <1>13 DEF DashServes

LEMMA SaveHears ==
    ASSUME page = "dashboards", SaveInv, DashSpin, NEW m, DashHears(m)
    PROVE  SaveGoal
<1>1. /\ NetInv /\ OneSave /\ (faults = 0 /\ others = 0 => SavesKept)
      /\ m \in DOMAIN calls
  BY DEF SaveInv, DashHears, GotList, GotDashboard, GotCreated, GotSaved, GotDeleted, At
<1>2. UNCHANGED <<faults, others>>
  BY DEF DashHears, GotList, GotDashboard, GotCreated, GotSaved, GotDeleted, Receive
<1>3. Fresh(ListDashboards) /\ ListDashboards.to = "dashboards"
  BY GetJsonIsFresh DEF ListDashboards
\* The answer to a request that is no save.
<1>4. ASSUME calls[m].to # "save", NEW rs, FreshSeq(rs), Receive(m, rs),
             \A i \in DOMAIN rs : rs[i].to # "save",
             UNCHANGED <<stored, nextDash, kept>>,
             "saving" \in DOMAIN dash', dash'.saving = dash.saving
      PROVE  SaveGoal
  <2>1. /\ \A n \in DOMAIN calls' :
              \/ n \in DOMAIN calls \ {m} /\ calls'[n] = calls[n]
              \/ calls'[n].to # "save" /\ IsCall(calls'[n])
        /\ \A n \in DOMAIN calls \ {m} : n \in DOMAIN calls' /\ calls'[n] = calls[n]
    BY <1>1, <1>4, ReceiveNoSave
  <2>2. OneSave'
    BY <1>1, <1>4, <2>1, OneSaveLeft DEF Later
  <2>3. faults' = 0 /\ others' = 0 => SavesKept'
    BY <1>1, <1>2, <1>4, <2>1, SavesLeft
  <2> QED
    BY <2>2, <2>3 DEF SaveGoal
<1>5. CASE GotList(m) \/ GotDashboard(m)
  <2>1. calls[m].to # "save" /\ Receive(m, <<>>) /\ UNCHANGED <<stored, nextDash, kept>>
    BY <1>5 DEF GotList, GotDashboard, At, DashOnly
  <2>2. "saving" \in DOMAIN dash' /\ dash'.saving = dash.saving
    BY <1>1, <1>5 DEF GotList, GotDashboard, DashOnly, OneSave
  <2> QED
    BY <1>4, <2>1, <2>2, FewRequests
<1>6. CASE GotCreated(m)
  <2> DEFINE r == GetJson("dashboard", calls[m].got[1].id)
  <2>1. Fresh(r) /\ r.to # "save"
    BY GetJsonIsFresh
  <2>2. /\ calls[m].to # "save" /\ UNCHANGED <<stored, nextDash, kept>>
        /\ Receive(m, <<>>) \/ Receive(m, <<ListDashboards, r>>)
        /\ "saving" \in DOMAIN dash' /\ dash'.saving = dash.saving
    BY <1>1, <1>6 DEF GotCreated, At, DashOnly, Loading, OneSave
  <2> HIDE DEF r
  <2> QED
    BY <1>3, <1>4, <2>1, <2>2, FewRequests
<1>7. CASE GotDeleted(m)
  <2>1. /\ calls[m].to # "save" /\ UNCHANGED <<stored, nextDash, kept>>
        /\ Receive(m, <<>>) \/ Receive(m, <<ListDashboards>>)
        /\ "saving" \in DOMAIN dash' /\ dash'.saving = dash.saving
    BY <1>1, <1>7 DEF GotDeleted, At, DashOnly, Loading, OneSave
  <2> QED
    BY <1>3, <1>4, <2>1, FewRequests
\* The answer to the save: none is under way any more.
<1>8. CASE GotSaved(m)
  <2>1. /\ calls[m].to = "save" /\ calls[m].at = "done"
        /\ Receive(m, <<>>) \/ Receive(m, <<ListDashboards>>)
    BY <1>8 DEF GotSaved, At
  <2>2. \A n \in DOMAIN calls \ {m} : calls[n].to # "save"
    BY <1>1, <2>1 DEF OneSave
  <2>3. \A n \in DOMAIN calls' : calls'[n].to # "save"
    BY <1>1, <1>3, <2>1, <2>2, ReceiveNoSave, FewRequests
  <2>4. "saving" \in DOMAIN dash'
    BY <1>1, <1>8 DEF GotSaved, DashOnly, Loading, OneSave
  <2>5. OneSave'
    BY <2>3, <2>4 DEF OneSave
  <2>6. SUFFICES ASSUME faults = 0, others = 0, SavesKept PROVE SavesKept'
    BY <1>1, <1>2, <2>5 DEF SaveGoal
  <2>7. UNCHANGED <<stored, nextDash>>
    BY <1>8 DEF GotSaved, DashOnly
  <2>8. \A n \in DOMAIN calls' : ~Wrote(calls'[n])
    BY <2>3 DEF Wrote
  <2> DEFINE b == calls[m].body
  <2>9. CASE calls[m].ok = TRUE
    <3>1. kept' = With(kept, b.id, b.panels)
      BY <1>8, <2>9 DEF GotSaved
    <3>2. Wrote(calls[m])
      BY <2>1, <2>9 DEF Wrote
    <3>3. b.id \in Int /\ b.id < nextDash /\ (b.id \in DOMAIN stored => stored[b.id] = b.panels)
      BY <1>1, <2>6, <3>2 DEF SavesKept
    <3>4. /\ DOMAIN kept' = DOMAIN kept \cup {b.id}
          /\ \A i \in DOMAIN kept' : kept'[i] = IF i = b.id THEN b.panels ELSE kept[i]
      BY <3>1 DEF With
    <3>5. \A i \in DOMAIN stored \cap DOMAIN kept : stored[i] = kept[i] \/ i = b.id
      BY <2>2, <2>6 DEF SavesKept, Wrote
    <3> HIDE DEF b
    <3>6. \A i \in DOMAIN stored \cap DOMAIN kept' : stored[i] = kept'[i]
      BY <3>3, <3>4, <3>5
    <3>7. \A i \in DOMAIN kept' : i \in Int /\ i < nextDash
      BY <2>6, <3>3, <3>4 DEF SavesKept
    <3> QED
      BY <2>6, <2>7, <2>8, <3>6, <3>7 DEF SavesKept, Wrote
  <2>10. CASE calls[m].ok # TRUE
    <3>1. \A n \in DOMAIN calls : ~Wrote(calls[n])
      BY <2>1, <2>2, <2>10 DEF Wrote
    <3>2. kept' = kept
      BY <1>8, <2>10 DEF GotSaved, DashOnly
    <3> QED
      BY <2>6, <2>7, <2>8, <3>1, <3>2 DEF SavesKept, Wrote
  <2> QED
    BY <2>9, <2>10
<1> QED
  BY <1>5, <1>6, <1>7, <1>8 DEF DashHears

LEMMA SaveBreaks ==
    ASSUME page = "dashboards", SaveInv, Breaks
    PROVE  SaveGoal
<1>1. NetInv /\ OneSave /\ faults \in Nat
  BY DEF SaveInv
<1>2. PICK m \in DOMAIN calls : Fail(m) /\ UNCHANGED dash
  BY DEF Breaks, dashVars
<1>3. faults' # 0
  <2>1. faults' = faults + 1
    BY <1>2 DEF Fail
  <2> QED
    BY <1>1, <2>1
<1>4. PICK c : OnlyCall(m, c) /\ Later(calls[m], c)
  BY <1>1, <1>2, FailEnds DEF Over, Later, NetInv
<1>5. \A n \in DOMAIN calls' : n \in DOMAIN calls /\ Later(calls[n], calls'[n])
  BY <1>4 DEF OnlyCall, Later
<1>6. OneSave'
  BY <1>1, <1>2, <1>5, OneSaveLeft DEF OneSave
<1> QED
  BY <1>3, <1>6 DEF SaveGoal

\* The counters of what went wrong.
LEMMA CountsStay ==
    ASSUME page = "dashboards", [Next]_vars, faults \in Nat, others \in Nat
    PROVE  faults' \in Nat /\ others' \in Nat
<1> DEFINE Goal == faults' \in {faults, faults + 1} /\ others' \in {others, others + 1}
<1>1. ASSUME DashUser PROVE Goal
  BY <1>1 DEF DashUser, DashToken, CreateNew, Save, AskDelete, ConfirmDelete, CancelDash,
     OpenDashboard, SomebodyChangesADashboard, AddPanel, RemovePanel, Send, Local, net, SomebodyElse
<1>2. ASSUME NEW n, DashServes(n) \/ DashHears(n) PROVE Goal
  BY <1>2 DEF DashServes, list_dashboards, get_dashboard, create_dashboard, update_dashboard,
     delete_dashboard, DashHears, GotList, GotDashboard, GotCreated, GotSaved, GotDeleted,
     Answer, Refuse, GoOn, Handle, Receive
<1>3. ASSUME Breaks PROVE Goal
  BY <1>3 DEF Breaks, Fail
<1>4. ASSUME UNCHANGED vars PROVE Goal
  BY <1>4 DEF vars, net
<1>5. Goal
  BY <1>1, <1>2, <1>3, <1>4 DEF Next, Network, OnDashboards, OnAlerts, OnQueries, Asking
<1> QED
  BY <1>5

LEMMA SaveStep ==
    ASSUME SpinInv, SpinInv', SaveInv, [Next]_vars
    PROVE  SaveInv'
<1>1. page' = page
  BY PageStays
<1> SUFFICES ASSUME page = "dashboards" PROVE SaveInv'
  BY <1>1 DEF SaveInv
<1>2. NetInv' /\ DashSpin
  BY DEF SpinInv
<1>3. faults' \in Nat /\ others' \in Nat
  BY CountsStay DEF SaveInv
<1>4. ASSUME UNCHANGED vars PROVE SaveGoal
  <2>1. UNCHANGED <<calls, faults, others, stored, nextDash, kept, dash>>
    BY <1>4 DEF vars, net, dashVars
  <2>2. OneSave'
    BY <2>1 DEF SaveInv, OneSave
  <2>3. SavesKept => SavesKept'
    BY <2>1 DEF SavesKept, Wrote
  <2> QED
    BY <2>1, <2>2, <2>3 DEF SaveInv, SaveGoal
<1>5. ASSUME DashUser PROVE SaveGoal
  BY <1>5, SaveUser
<1>6. ASSUME NEW n, DashServes(n) PROVE SaveGoal
  BY <1>6, SaveServes
<1>7. ASSUME NEW n, DashHears(n) PROVE SaveGoal
  BY <1>2, <1>7, SaveHears
<1>8. ASSUME Breaks PROVE SaveGoal
  BY <1>8, SaveBreaks
<1>9. SaveGoal
  BY <1>4, <1>5, <1>6, <1>7, <1>8 DEF Next, Network, OnDashboards, OnAlerts, OnQueries, Asking
<1> QED
  BY <1>2, <1>3, <1>9 DEF SaveInv, SaveGoal

\* When the answers of the last save are in, each dashboard that is left holds what its last
\* confirmed save sent, however the requests overtook each other, unless one failed or
\* somebody else wrote: the disabled button lets one save at a time go out.
THEOREM SavesWin == Spec => []LastSaveWins
<1>1. Init => SpinInv /\ SaveInv
  BY SpinInit, SaveInit
<1>2. SpinInv /\ SaveInv /\ [Next]_vars => SpinInv' /\ SaveInv'
  BY SpinStep, SaveStep
<1>3. SaveInv => LastSaveWins
  BY DEF SaveInv, SavesKept, Wrote, LastSaveWins
<1> QED
  BY <1>1, <1>2, <1>3, PTL DEF Spec

-----------------------------------------------------------------------------
(* The walk that compute_depths makes, from any span, along any parents.     *)

\* One hop: nowhere from a span without a parent.
Hop(parents, i) == IF i \in DOMAIN parents THEN parents[i] ELSE i

\* What Walk describes, up to n hops.
IsWalk(parents, i, n, up) ==
    up = [k \in 0..n |-> IF k = 0 THEN i
                         ELSE IF up[k - 1] \in DOMAIN parents THEN parents[up[k - 1]] ELSE up[k - 1]]

\* A walk has any length.
LEMMA WalkExists ==
    ASSUME NEW parents, NEW i
    PROVE  \A n \in Nat : \E up : IsWalk(parents, i, n, up)
<1> DEFINE N == {n \in Nat : \E up : IsWalk(parents, i, n, up)}
<1>1. 0 \in N
  <2> DEFINE up == [k \in 0..0 |-> i]
  <2>1. IsWalk(parents, i, 0, up)
    BY DEF IsWalk
  <2> QED BY <2>1
<1>2. ASSUME NEW n \in Nat, n \in N PROVE n + 1 \in N
  <2>1. PICK old : IsWalk(parents, i, n, old)
    BY <1>2
  <2> DEFINE up == [k \in 0..n + 1 |-> IF k = n + 1 THEN Hop(parents, old[n]) ELSE old[k]]
  <2>2. \A k \in 0..n : up[k] = old[k] /\ k # n + 1
    OBVIOUS
  <2>3. \A k \in 0..n + 1 : k = 0 \/ k - 1 \in 0..n
    OBVIOUS
  <2>4. ASSUME NEW k \in 0..n + 1
        PROVE  up[k] = IF k = 0 THEN i
                       ELSE IF up[k - 1] \in DOMAIN parents THEN parents[up[k - 1]] ELSE up[k - 1]
    <3>1. CASE k = n + 1
      <4>1. up[k] = Hop(parents, old[n]) /\ k # 0 /\ k - 1 = n /\ up[n] = old[n]
        BY <2>2, <3>1
      <4> HIDE DEF up
      <4> QED BY <4>1 DEF Hop
    <3>2. CASE k # n + 1
      <4>1. k \in 0..n
        BY <3>2
      <4>2. old[k] = IF k = 0 THEN i
                     ELSE IF old[k - 1] \in DOMAIN parents THEN parents[old[k - 1]] ELSE old[k - 1]
        BY <2>1, <4>1 DEF IsWalk
      <4>3. up[k] = old[k] /\ (k # 0 => up[k - 1] = old[k - 1])
        BY <2>2, <2>3, <4>1
      <4> HIDE DEF up
      <4> QED BY <4>2, <4>3
    <3> QED BY <3>1, <3>2
  <2>5. IsWalk(parents, i, n + 1, up)
    <3>1. DOMAIN up = 0..n + 1 /\ up = [k \in 0..n + 1 |-> up[k]]
      OBVIOUS
    <3> HIDE DEF up
    <3> QED BY <2>4, <3>1 DEF IsWalk
  <2> QED BY <2>5
<1> HIDE DEF N
<1>3. \A n \in Nat : n \in N
  BY <1>1, <1>2, Induction
<1> QED BY <1>3 DEF N

LEMMA WalkIs ==
    ASSUME NEW parents, IsFiniteSet(DOMAIN parents), NEW i
    PROVE  LET up == Walk(parents, i)
               N == Cardinality(DOMAIN parents)
           IN /\ N \in Nat /\ DOMAIN up = 0..N /\ up[0] = i
              /\ \A k \in 0..N - 1 : up[k + 1] = Hop(parents, up[k])
<1> DEFINE N == Cardinality(DOMAIN parents)
           up == Walk(parents, i)
<1>1. N \in Nat
  BY FS_CardinalityType
<1>2. up = CHOOSE u : IsWalk(parents, i, N, u)
  BY DEF Walk, IsWalk
<1>3. \E u : IsWalk(parents, i, N, u)
  BY <1>1, WalkExists
<1>4. IsWalk(parents, i, N, up)
  BY <1>2, <1>3
<1> HIDE DEF up, N
<1>5. DOMAIN up = 0..N
  BY <1>4 DEF IsWalk
<1>6. \A k \in 0..N : up[k] = IF k = 0 THEN i
                              ELSE IF up[k - 1] \in DOMAIN parents THEN parents[up[k - 1]] ELSE up[k - 1]
  BY <1>4 DEF IsWalk
<1>7. up[0] = i
  BY <1>1, <1>6
<1>8. \A k \in 0..N - 1 : k + 1 \in 0..N /\ k + 1 # 0 /\ (k + 1) - 1 = k
  BY <1>1
<1>9. \A k \in 0..N - 1 : up[k + 1] = Hop(parents, up[k])
  BY <1>6, <1>8 DEF Hop
<1> QED BY <1>1, <1>5, <1>7, <1>9 DEF up, N

\* The way up from i: d hops, each from a span it has not been to yet to its parent, to
\* one that has no parent or is on the way already.
IsWay(parents, i, d, up) ==
    /\ up[0] = i
    /\ \A k \in 0..d - 1 : up[k] \in DOMAIN parents /\ up[k + 1] = parents[up[k]]
    /\ \A j, k \in 0..d - 1 : up[j] = up[k] => j = k
    /\ up[d] \notin DOMAIN parents \/ \E j \in 0..d - 1 : up[j] = up[d]

\* Depth is its length: before more hops than there are parents, it ends.
LEMMA DepthIs ==
    ASSUME NEW parents, IsFiniteSet(DOMAIN parents), NEW i
    PROVE  Depth(parents, i) \in Nat /\ \E up : IsWay(parents, i, Depth(parents, i), up)
<1> DEFINE N == Cardinality(DOMAIN parents)
           walk == Walk(parents, i)
           Ends(u, k) == u[k] \notin DOMAIN parents \/ \E j \in 0..k - 1 : u[j] = u[k]
<1>1. /\ N \in Nat /\ DOMAIN walk = 0..N /\ walk[0] = i
      /\ \A k \in 0..N - 1 : walk[k + 1] = Hop(parents, walk[k])
  BY WalkIs
<1> DEFINE d == Depth(parents, i)
           stops == {k \in DOMAIN walk : Ends(walk, k)}
<1>2. d = Min(stops)
  BY DEF Depth
<1>3. PICK up : up = walk
  OBVIOUS
<1>4. stops = {k \in 0..N : Ends(up, k)}
  BY <1>1, <1>3
<1>5. /\ N \in Nat /\ DOMAIN up = 0..N /\ up[0] = i
      /\ \A k \in 0..N - 1 : up[k + 1] = Hop(parents, up[k])
  BY <1>1, <1>3
<1> HIDE DEF walk, d, stops
<1>6. \E k \in 0..N : Ends(up, k)
  <2> SUFFICES ASSUME \A k \in 0..N : ~Ends(up, k) PROVE FALSE
    OBVIOUS
  <2>1. \A k \in 0..N : up[k] \in DOMAIN parents
    OBVIOUS
  <2>2. \A j, k \in 0..N : j < k => up[j] # up[k]
    <3>1. \A j, k \in 0..N : j < k => j \in 0..k - 1
      BY <1>5
    <3> QED BY <3>1
  <2>3. \A j, k \in 0..N : up[j] = up[k] => j = k
    <3>1. \A j, k \in 0..N : j < k \/ k < j \/ j = k
      BY <1>5
    <3> QED BY <2>2, <3>1
  <2> DEFINE g == [k \in 0..N |-> up[k]]
  <2>4. g \in Injection(0..N, DOMAIN parents)
    <3>1. g \in [0..N -> DOMAIN parents]
      BY <2>1
    <3>2. \A j, k \in DOMAIN g : g[j] = g[k] => j = k
      BY <2>3
    <3> HIDE DEF g
    <3> QED BY <3>1, <3>2 DEF Injection, IsInjective
  <2>5. Cardinality(0..N) <= Cardinality(DOMAIN parents)
    BY <2>4, FS_Injection
  <2>6. Cardinality(0..N) = N + 1
    <3> HIDE DEF N
    <3> QED BY <1>5, FS_Interval
  <2>7. N + 1 <= N
    BY <2>5, <2>6
  <2> HIDE DEF N
  <2> QED BY <1>5, <2>7
<1>7. d \in stops /\ \A k \in stops : d <= k
  <2>1. stops \in SUBSET Int /\ stops # {} /\ stops \subseteq 0..N
    BY <1>4, <1>5, <1>6
  <2>2. IsFiniteSet(0..N)
    <3> HIDE DEF N
    <3> QED BY <1>5, FS_Interval
  <2>3. IsFiniteSet(stops)
    BY <2>1, <2>2, FS_Subset
  <2> QED BY <1>2, <2>1, <2>3, Extremes
<1> HIDE DEF N
<1>8. d \in 0..N /\ Ends(up, d) /\ \A k \in 0..N : Ends(up, k) => d <= k
  BY <1>4, <1>7
<1>9. \A k \in 0..d - 1 : k \in 0..N /\ k \in 0..N - 1 /\ ~Ends(up, k)
  <2>1. \A k \in 0..d - 1 : k \in 0..N /\ k \in 0..N - 1 /\ ~(d <= k)
    BY <1>5, <1>8
  <2> QED BY <1>8, <2>1
<1>10. \A k \in 0..d - 1 : up[k] \in DOMAIN parents /\ up[k + 1] = parents[up[k]]
  BY <1>5, <1>9 DEF Hop
<1>11. \A j, k \in 0..d - 1 : up[j] = up[k] => j = k
  <2>1. \A j, k \in 0..d - 1 : j = k \/ j \in 0..k - 1 \/ k \in 0..j - 1
    BY <1>5, <1>8
  <2> QED BY <1>9, <2>1
<1>12. IsWay(parents, i, d, up) /\ d \in Nat
  BY <1>5, <1>8, <1>10, <1>11 DEF IsWay
<1> QED BY <1>12 DEF d
-----------------------------------------------------------------------------
(* What is above a span.                                                     *)

\* It holds the parent of the span and of every span it holds.
LEMMA AboveIsClosed ==
    ASSUME NEW parents, NEW i, NEW j \in {i} \cup Above(parents, i), j \in DOMAIN parents
    PROVE  parents[j] \in Above(parents, i)
BY DEF Above

\* It is within every set that does.
LEMMA AboveIsLeast ==
    ASSUME NEW parents, NEW i, NEW A,
           \A j \in {i} \cup A : j \in DOMAIN parents => parents[j] \in A
    PROVE  Above(parents, i) \subseteq A
<1> DEFINE every == DOMAIN parents \cup {parents[j] : j \in DOMAIN parents}
           B == A \cap every
<1>1. B \in SUBSET every /\ \A j \in {i} \cup B : j \in DOMAIN parents => parents[j] \in B
  OBVIOUS
<1>2. Above(parents, i) \subseteq B
  <2> HIDE DEF B
  <2> QED BY <1>1 DEF Above
<1> QED BY <1>2

\* There is nothing above a span without a parent; otherwise there are the parent and what
\* is above it.
LEMMA AboveNext ==
    ASSUME NEW parents, NEW i
    PROVE  /\ i \notin DOMAIN parents => Above(parents, i) = {}
           /\ i \in DOMAIN parents => Above(parents, i) = {parents[i]} \cup Above(parents, parents[i])
<1>1. i \notin DOMAIN parents => Above(parents, i) \subseteq {}
  <2>1. PICK A : A = {}
    OBVIOUS
  <2>2. i \notin DOMAIN parents => \A j \in {i} \cup A : j \in DOMAIN parents => parents[j] \in A
    BY <2>1
  <2> QED BY <2>1, <2>2, AboveIsLeast
<1>2. ASSUME i \in DOMAIN parents
      PROVE  Above(parents, i) = {parents[i]} \cup Above(parents, parents[i])
  <2>1. PICK p : p = parents[i]
    OBVIOUS
  <2>2. \A j \in {p} \cup Above(parents, p) : j \in DOMAIN parents => parents[j] \in Above(parents, p)
    BY AboveIsClosed
  <2>3. Above(parents, i) \subseteq {p} \cup Above(parents, p)
    <3>1. PICK A : A = {p} \cup Above(parents, p)
      OBVIOUS
    <3>2. \A j \in {i} \cup A : j \in DOMAIN parents => parents[j] \in A
      BY <2>1, <2>2, <3>1
    <3> QED BY <3>1, <3>2, AboveIsLeast
  <2>4. \A j \in {i} \cup Above(parents, i) : j \in DOMAIN parents => parents[j] \in Above(parents, i)
    BY AboveIsClosed
  <2>5. p \in Above(parents, i)
    BY <1>2, <2>1, <2>4
  <2>6. Above(parents, p) \subseteq Above(parents, i)
    BY <2>4, <2>5, AboveIsLeast
  <2> QED BY <2>1, <2>3, <2>5, <2>6
<1> QED BY <1>1, <1>2

\* The spans on a way from its hop k to its hop n, and how many they are if no two are the same.
Between(up, k, n) == {up[m] : m \in k..n}

LEMMA BetweenCount ==
    ASSUME NEW up, NEW k \in Nat, NEW n \in Int, k <= n + 1,
           \A j, m \in k..n : up[j] = up[m] => j = m
    PROVE  IsFiniteSet(Between(up, k, n)) /\ Cardinality(Between(up, k, n)) = (n - k) + 1
<1> DEFINE T == Between(up, k, n)
           g == [m \in k..n |-> up[m]]
<1>1. g \in Bijection(k..n, T)
  <2>1. g \in [k..n -> T] /\ \A t \in T : \E m \in k..n : g[m] = t
    BY DEF Between
  <2>2. \A j, m \in DOMAIN g : g[j] = g[m] => j = m
    OBVIOUS
  <2>3. DOMAIN g = k..n
    OBVIOUS
  <2> HIDE DEF g, T
  <2> QED BY <2>1, <2>2, <2>3 DEF Bijection, Injection, Surjection, IsInjective
<1>2. IsFiniteSet(k..n) /\ Cardinality(k..n) = IF k > n THEN 0 ELSE n - k + 1
  BY FS_Interval
<1>3. IsFiniteSet(T) /\ Cardinality(T) = Cardinality(k..n)
  <2> HIDE DEF g, T
  <2> QED BY <1>1, <1>2, FS_Bijection DEF ExistsBijection
<1>4. Cardinality(k..n) = (n - k) + 1
  BY <1>2
<1> QED BY <1>3, <1>4

\* From hop k of the way on, what is above its span is what follows on the way, with
\* what follows the place it came back to.
LEMMA AboveOnWay ==
    ASSUME NEW parents, NEW i, NEW d \in Nat, NEW up, IsWay(parents, i, d, up), NEW k \in 0..d
    PROVE  /\ Between(up, k + 1, d) \subseteq Above(parents, up[k])
           /\ up[d] \notin DOMAIN parents => Above(parents, up[k]) = Between(up, k + 1, d)
           /\ \A j \in 0..d - 1 : up[j] = up[d] /\ j <= k => Above(parents, up[k]) \subseteq Between(up, j + 1, d)
<1>1. \A m \in 0..d - 1 : up[m] \in DOMAIN parents /\ up[m + 1] = parents[up[m]]
  BY DEF IsWay
<1>2. \A n \in Nat : n \in {m \in Nat : k + 1 + m <= d => up[k + 1 + m] \in Above(parents, up[k])}
  <2> DEFINE S == {m \in Nat : k + 1 + m <= d => up[k + 1 + m] \in Above(parents, up[k])}
  <2>1. 0 \in S
    <3>1. k + 1 + 0 = k + 1 /\ (k + 1 <= d => k \in 0..d - 1)
      OBVIOUS
    <3> QED BY <1>1, <3>1, AboveIsClosed
  <2>2. ASSUME NEW n \in Nat, n \in S PROVE n + 1 \in S
    <3> SUFFICES ASSUME k + 1 + (n + 1) <= d PROVE up[k + 1 + (n + 1)] \in Above(parents, up[k])
      OBVIOUS
    <3> DEFINE m == k + 1 + n
    <3>1. m \in 0..d - 1 /\ m <= d /\ k + 1 + (n + 1) = m + 1
      OBVIOUS
    <3>2. up[m] \in Above(parents, up[k])
      BY <2>2, <3>1
    <3> HIDE DEF m
    <3> QED BY <1>1, <3>1, <3>2, AboveIsClosed
  <2> HIDE DEF S
  <2>3. \A n \in Nat : n \in S
    BY <2>1, <2>2, Induction
  <2> QED BY <2>3 DEF S
<1>3. Between(up, k + 1, d) \subseteq Above(parents, up[k])
  <2> SUFFICES ASSUME NEW m \in k + 1..d PROVE up[m] \in Above(parents, up[k])
    BY DEF Between
  <2>1. m - (k + 1) \in Nat /\ k + 1 + (m - (k + 1)) = m /\ m <= d
    OBVIOUS
  <2> QED BY <1>2, <2>1
<1>4. ASSUME NEW j \in 0..d, j <= k,
             up[d] \in DOMAIN parents => j \in 0..d - 1 /\ up[j] = up[d]
      PROVE  Above(parents, up[k]) \subseteq Between(up, j + 1, d)
  <2> DEFINE A == Between(up, j + 1, d)
  <2>1. ASSUME NEW m \in j..d, up[m] \in DOMAIN parents PROVE parents[up[m]] \in A
    <3>1. CASE m = d
      <4>1. j \in 0..d - 1 /\ up[j + 1] = parents[up[m]] /\ j + 1 \in j + 1..d
        BY <1>1, <1>4, <2>1, <3>1
      <4> QED BY <4>1 DEF Between
    <3>2. CASE m # d
      <4>1. m \in 0..d - 1 /\ m + 1 \in j + 1..d
        BY <3>2
      <4> QED BY <1>1, <4>1 DEF Between
    <3> QED BY <3>1, <3>2
  <2>2. \A a \in {up[k]} \cup A : \E m \in j..d : up[m] = a
    <3>1. k \in j..d /\ \A m \in j + 1..d : m \in j..d
      BY <1>4
    <3> QED BY <3>1 DEF Between
  <2> HIDE DEF A
  <2>3. \A a \in {up[k]} \cup A : a \in DOMAIN parents => parents[a] \in A
    BY <2>1, <2>2
  <2>4. Above(parents, up[k]) \subseteq A
    BY <2>3, AboveIsLeast
  <2> QED BY <2>4 DEF A
<1>5. up[d] \notin DOMAIN parents => Above(parents, up[k]) \subseteq Between(up, k + 1, d)
  BY <1>4
<1>6. \A j \in 0..d - 1 : up[j] = up[d] /\ j <= k => Above(parents, up[k]) \subseteq Between(up, j + 1, d)
  <2>1. \A j \in 0..d - 1 : j \in 0..d
    OBVIOUS
  <2> QED BY <1>4, <2>1
<1> QED BY <1>3, <1>5, <1>6

\* It is finite, and no more than there are parents.
LEMMA AboveFinite ==
    ASSUME NEW parents, IsFiniteSet(DOMAIN parents), NEW i
    PROVE  IsFiniteSet(Above(parents, i))
<1>1. IsFiniteSet({parents[j] : j \in DOMAIN parents})
  BY ImageFinite
<1>2. IsFiniteSet(DOMAIN parents \cup {parents[j] : j \in DOMAIN parents})
  BY <1>1, FS_Union
<1>3. Above(parents, i) \subseteq DOMAIN parents \cup {parents[j] : j \in DOMAIN parents}
  BY DEF Above
<1> QED BY <1>2, <1>3, FS_Subset

\* The spans the depth of span i is to count.
Counted(parents, i) ==
    IF \E a \in Above(parents, i) : OnRing(parents, a)
    THEN Above(parents, i) \cup {i} ELSE Above(parents, i)

\* It does count them: on a way to a span without a parent there is no ring, and the spans
\* after i are those above it; on any other way there is one, and the spans before it
\* ends are those above i and i itself.
LEMMA DepthCounts ==
    ASSUME NEW parents, IsFiniteSet(DOMAIN parents), NEW i
    PROVE  Depth(parents, i) = Cardinality(Counted(parents, i))
<1>1. PICK d \in Nat : d = Depth(parents, i) /\ \E up : IsWay(parents, i, d, up)
  BY DepthIs
<1>2. PICK up : IsWay(parents, i, d, up)
  BY <1>1
<1>3. /\ up[0] = i
      /\ \A k \in 0..d - 1 : up[k] \in DOMAIN parents /\ up[k + 1] = parents[up[k]]
      /\ \A j, k \in 0..d - 1 : up[j] = up[k] => j = k
      /\ up[d] \notin DOMAIN parents \/ \E j \in 0..d - 1 : up[j] = up[d]
  BY <1>2 DEF IsWay
<1>4. Between(up, 1, d) \subseteq Above(parents, i)
  <2>1. 0 \in 0..d /\ 0 + 1 = 1
    OBVIOUS
  <2>2. Between(up, 0 + 1, d) \subseteq Above(parents, up[0])
    BY <1>2, <2>1, AboveOnWay
  <2> QED BY <1>3, <2>1, <2>2
<1>5. CASE up[d] \notin DOMAIN parents
  <2>1. Above(parents, i) = Between(up, 1, d)
    <3>1. 0 \in 0..d /\ 0 + 1 = 1
      OBVIOUS
    <3>2. Above(parents, up[0]) = Between(up, 0 + 1, d)
      BY <1>2, <1>5, <3>1, AboveOnWay
    <3> QED BY <1>3, <3>1, <3>2
  <2>2. \A j, k \in 0..d : up[j] = up[k] => j = k
    <3>1. \A k \in 0..d : k = d \/ k \in 0..d - 1
      OBVIOUS
    <3> QED BY <1>3, <1>5, <3>1
  <2>3. ASSUME NEW a \in Above(parents, i), OnRing(parents, a) PROVE FALSE
    <3>1. PICK k \in 1..d : up[k] = a
      BY <2>1 DEF Between
    <3>2. k \in 0..d
      OBVIOUS
    <3>3. a \in Between(up, k + 1, d)
      BY <1>2, <1>5, <2>3, <3>1, <3>2, AboveOnWay DEF OnRing
    <3>4. PICK m \in k + 1..d : up[m] = up[k]
      BY <3>1, <3>3 DEF Between
    <3>5. m \in 0..d /\ m # k
      OBVIOUS
    <3> QED BY <2>2, <3>2, <3>4, <3>5
  <2>4. Counted(parents, i) = Between(up, 1, d)
    BY <2>1, <2>3 DEF Counted
  <2>5. Cardinality(Between(up, 1, d)) = (d - 1) + 1
    <3>1. \A j, k \in 1..d : up[j] = up[k] => j = k
      BY <2>2
    <3>2. 1 \in Nat /\ d \in Int /\ 1 <= d + 1
      OBVIOUS
    <3> QED BY <3>1, <3>2, BetweenCount
  <2> QED BY <1>1, <2>4, <2>5
<1>6. CASE \E j \in 0..d - 1 : up[j] = up[d]
  <2>1. PICK j \in 0..d - 1 : up[j] = up[d]
    BY <1>6
  <2>2. d >= 1 /\ j \in 0..d /\ 0 \in 0..d /\ d \in 1..d /\ d \in j + 1..d
    OBVIOUS
  <2>3. up[d] \in Above(parents, i)
    BY <1>4, <2>2 DEF Between
  <2>4. OnRing(parents, up[d])
    <3>1. Between(up, j + 1, d) \subseteq Above(parents, up[j])
      BY <1>2, <2>2, AboveOnWay
    <3>2. up[d] \in Between(up, j + 1, d)
      BY <2>2 DEF Between
    <3> QED BY <2>1, <3>1, <3>2 DEF OnRing
  <2>5. Counted(parents, i) = Above(parents, i) \cup {i}
    BY <2>3, <2>4 DEF Counted
  <2>6. Above(parents, i) \subseteq Between(up, 0, d - 1)
    <3>1. PICK B : B = Between(up, 0, d - 1)
      OBVIOUS
    <3>2. \A m \in 0..d - 1 : up[m] \in DOMAIN parents /\ up[m + 1] \in B
      <4>1. \A m \in 0..d - 1 : m + 1 \in 0..d - 1 \/ m + 1 = d
        OBVIOUS
      <4>2. \A m \in 0..d - 1 : up[m] \in B
        BY <3>1 DEF Between
      <4> QED BY <1>3, <2>1, <4>1, <4>2
    <3>3. i \in B /\ \A a \in B : parents[a] \in B
      <4>1. \A a \in B : \E m \in 0..d - 1 : up[m] = a
        BY <3>1 DEF Between
      <4>2. 0 \in 0..d - 1
        BY <2>2
      <4>3. i \in B
        BY <1>3, <3>1, <4>2 DEF Between
      <4> QED BY <1>3, <3>2, <4>1, <4>3
    <3>4. \A a \in {i} \cup B : a \in DOMAIN parents => parents[a] \in B
      BY <3>3
    <3> QED BY <3>1, <3>4, AboveIsLeast
  <2>7. Between(up, 0, d - 1) \subseteq Above(parents, i) \cup {i}
    <3>1. \A m \in 0..d - 1 : m = 0 \/ m \in 1..d
      OBVIOUS
    <3> QED BY <1>3, <1>4, <3>1 DEF Between
  <2>8. i \in Between(up, 0, d - 1)
    <3>1. 0 \in 0..d - 1
      BY <2>2
    <3> QED BY <1>3, <3>1 DEF Between
  <2>9. Counted(parents, i) = Between(up, 0, d - 1)
    BY <2>5, <2>6, <2>7, <2>8
  <2>10. Cardinality(Between(up, 0, d - 1)) = ((d - 1) - 0) + 1
    <3>1. 0 \in Nat /\ d - 1 \in Int /\ 0 <= (d - 1) + 1
      OBVIOUS
    <3> QED BY <1>3, <3>1, BetweenCount
  <2>11. ((d - 1) - 0) + 1 = d
    OBVIOUS
  <2> QED BY <1>1, <2>9, <2>10, <2>11
<1> QED BY <1>3, <1>5, <1>6

\* A span is one step further in than its parent, unless the two are on one ring.
LEMMA DepthNext ==
    ASSUME NEW parents, IsFiniteSet(DOMAIN parents), NEW i \in DOMAIN parents
    PROVE  Depth(parents, i) = Depth(parents, parents[i]) + (IF OnRing(parents, i) THEN 0 ELSE 1)
<1>1. PICK p : p = parents[i]
  OBVIOUS
<1>2. /\ Depth(parents, i) = Cardinality(Counted(parents, i))
      /\ Depth(parents, p) = Cardinality(Counted(parents, p))
  BY DepthCounts
<1>3. Above(parents, i) = {p} \cup Above(parents, p)
  BY <1>1, AboveNext
<1>4. IsFiniteSet(Counted(parents, p)) /\ Cardinality(Counted(parents, p)) \in Nat
  <2>1. IsFiniteSet(Above(parents, p)) /\ IsFiniteSet(Above(parents, p) \cup {p})
    BY AboveFinite, FS_AddElement
  <2> QED BY <2>1, FS_CardinalityType DEF Counted
<1>5. CASE OnRing(parents, i)
  <2>1. Above(parents, i) = Above(parents, p)
    <3>1. i = p \/ i \in Above(parents, p)
      BY <1>3, <1>5 DEF OnRing
    <3>2. i \in Above(parents, p) => p \in Above(parents, p)
      BY <1>1, AboveIsClosed
    <3> QED BY <1>3, <3>1, <3>2
  <2>2. i \in Above(parents, i) /\ p \in Above(parents, p)
    BY <1>3, <1>5, <2>1 DEF OnRing
  <2>3. Counted(parents, i) = Counted(parents, p)
    BY <2>1, <2>2 DEF Counted
  <2> QED BY <1>1, <1>2, <1>4, <1>5, <2>3
<1>6. CASE ~OnRing(parents, i)
  <2>1. i \notin Above(parents, p) /\ i # p
    BY <1>3, <1>6 DEF OnRing
  <2>2. (\E a \in Above(parents, i) : OnRing(parents, a)) <=> (\E a \in Above(parents, p) : OnRing(parents, a))
    BY <1>3 DEF OnRing
  <2>3. \E x : x \notin Counted(parents, p) /\ Counted(parents, i) = Counted(parents, p) \cup {x}
    <3>1. CASE \E a \in Above(parents, p) : OnRing(parents, a)
      <4>1. i \notin Counted(parents, p) /\ Counted(parents, i) = Counted(parents, p) \cup {i}
        BY <1>3, <2>1, <2>2, <3>1 DEF Counted
      <4> QED BY <4>1
    <3>2. CASE ~\E a \in Above(parents, p) : OnRing(parents, a)
      <4>1. p \notin Counted(parents, p) /\ Counted(parents, i) = Counted(parents, p) \cup {p}
        BY <1>3, <2>2, <3>2 DEF Counted, OnRing
      <4> QED BY <4>1
    <3> QED BY <3>1, <3>2
  <2>4. Cardinality(Counted(parents, i)) = Cardinality(Counted(parents, p)) + 1
    BY <1>4, <2>3, FS_AddElement
  <2> QED BY <1>1, <1>2, <1>4, <1>6, <2>4
<1> QED BY <1>5, <1>6
-----------------------------------------------------------------------------
(* The bars of a trace.                                                      *)

\* What the database answers: finitely many spans with times.
IsTrace(spans) == IsFiniteSet(spans) /\ \A s \in spans : s.start \in Int /\ s.end \in Int

LEMMA ScaleIs ==
    ASSUME NEW spans, IsTrace(spans), NEW s \in spans
    PROVE  /\ First(spans) \in Int /\ Last(spans) \in Int /\ Scale(spans) \in Int
           /\ First(spans) <= s.start /\ s.end <= Last(spans)
           /\ Scale(spans) >= 1 /\ Scale(spans) >= Last(spans) - First(spans)
<1> DEFINE starts == {t.start : t \in spans}
           ends == {t.end : t \in spans}
<1>1. IsFiniteSet(starts) /\ starts \in SUBSET Int /\ s.start \in starts
  <2>1. PICK f : f = [t \in spans |-> t.start]
    OBVIOUS
  <2>2. IsFiniteSet({f[t] : t \in spans})
    BY <2>1, ImageFinite DEF IsTrace
  <2>3. starts = {f[t] : t \in spans}
    BY <2>1
  <2> QED BY <2>2, <2>3 DEF IsTrace
<1>2. IsFiniteSet(ends) /\ ends \in SUBSET Int /\ s.end \in ends
  <2>1. PICK f : f = [t \in spans |-> t.end]
    OBVIOUS
  <2>2. IsFiniteSet({f[t] : t \in spans})
    BY <2>1, ImageFinite DEF IsTrace
  <2>3. ends = {f[t] : t \in spans}
    BY <2>1
  <2> QED BY <2>2, <2>3 DEF IsTrace
<1>3. First(spans) = Min(starts) /\ Last(spans) = Max(ends)
  BY DEF First, Last
<1> HIDE DEF starts, ends
<1>4. First(spans) \in Int /\ First(spans) <= s.start
  <2>1. Min(starts) \in starts /\ Min(starts) <= s.start
    BY <1>1, Extremes
  <2> QED BY <1>1, <1>3, <2>1
<1>5. Last(spans) \in Int /\ s.end <= Last(spans)
  <2>1. Max(ends) \in ends /\ Max(ends) >= s.end
    BY <1>2, Extremes
  <2> QED BY <1>2, <1>3, <2>1
<1>6. PICK length \in Int : length = Last(spans) - First(spans)
  BY <1>4, <1>5
<1>7. Scale(spans) = Max({length, 1})
  BY <1>6 DEF Scale
<1>8. Max({length, 1}) \in {length, 1} /\ Max({length, 1}) >= length /\ Max({length, 1}) >= 1
  <2>1. 1 \in Int
    OBVIOUS
  <2> QED BY <2>1, TwoExtremes
<1> QED BY <1>4, <1>5, <1>6, <1>7, <1>8

\* Where a bar is.
LEMMA BarFits ==
    ASSUME NEW spans, IsTrace(spans), InOrder(spans), NEW s \in spans
    PROVE  /\ Left(spans, s) >= 0 /\ Width(spans, s) >= 0
           /\ Left(spans, s) + Width(spans, s) <= 200 * Scale(spans)
           /\ Width(spans, s) < 200 * (s.end - s.start)
                => Left(spans, s) + Width(spans, s) = 200 * Scale(spans)
<1>1. PICK first \in Int, last \in Int, scale \in Int :
         /\ first = First(spans) /\ last = Last(spans) /\ scale = Scale(spans)
         /\ first <= s.start /\ scale >= 1 /\ scale >= last - first
  BY ScaleIs
<1>2. PICK start \in Int, length \in Int : start = s.start /\ length = s.end - s.start
  BY DEF IsTrace
<1>3. start <= last /\ first <= start
  BY <1>1, <1>2 DEF InOrder
<1>4. PICK left \in Int : left = 200 * (start - first)
  OBVIOUS
<1>5. Left(spans, s) = left
  BY <1>1, <1>2, <1>4 DEF Left
<1>6. PICK rest \in Int : rest = 200 * scale - left
  <2>1. 200 * scale - left \in Int
    OBVIOUS
  <2> QED BY <2>1
<1>7. PICK wide \in Int : wide = 200 * length
  OBVIOUS
<1>8. left >= 0 /\ rest >= 0 /\ left + rest = 200 * scale
  BY <1>1, <1>3, <1>4, <1>6
<1>9. PICK most \in Int : most = Max({wide, scale})
  BY TwoExtremes
<1>10. most >= wide /\ most >= scale
  BY <1>9, TwoExtremes
<1>11. PICK width \in Int : width = Min({most, rest})
  BY TwoExtremes
<1>12. (width = most \/ width = rest) /\ width <= rest
  BY <1>11, TwoExtremes
<1>13. Width(spans, s) = width
  BY <1>1, <1>2, <1>5, <1>6, <1>7, <1>9, <1>11 DEF Width
<1>14. /\ left >= 0 /\ width >= 0 /\ left + width <= 200 * scale
       /\ width < wide => left + width = 200 * scale
  BY <1>1, <1>8, <1>10, <1>12
<1> QED BY <1>1, <1>2, <1>5, <1>7, <1>13, <1>14

\* What the parents of a trace are.
LEMMA ParentsAre ==
    ASSUME NEW spans, IsTrace(spans)
    PROVE  /\ IsFiniteSet(DOMAIN ParentOf(spans))
           /\ \A s \in spans :
                 s.parent # NoParent /\ (\A t \in spans : t.id = s.id => t = s \/ t.start < s.start) =>
                    s.id \in DOMAIN ParentOf(spans) /\ ParentOf(spans)[s.id] = s.parent
<1> DEFINE children == {s \in spans : s.parent # NoParent}
           Latest(i) == CHOOSE s \in children : s.id = i /\ \A t \in children : t.id = i => t.start <= s.start
<1>1. ParentOf(spans) = [i \in {s.id : s \in children} |-> Latest(i).parent]
  BY DEF ParentOf
<1>2. IsFiniteSet({s.id : s \in children})
  <2>1. PICK f : f = [s \in children |-> s.id]
    OBVIOUS
  <2>2. IsFiniteSet(children)
    BY FS_Subset DEF IsTrace
  <2>3. IsFiniteSet({f[s] : s \in children})
    <3>1. children \subseteq DOMAIN f
      BY <2>1
    <3> HIDE DEF children
    <3> QED BY <2>2, <3>1, ImageFinite
  <2>4. {s.id : s \in children} = {f[s] : s \in children}
    BY <2>1
  <2> QED BY <2>3, <2>4
<1>3. ASSUME NEW s \in children, \A t \in spans : t.id = s.id => t = s \/ t.start < s.start
      PROVE  Latest(s.id) = s
  <2>1. \A t \in spans : t.start \in Int
    BY DEF IsTrace
  <2>2. \A t \in children : t.id = s.id => t.start <= s.start
    BY <1>3, <2>1
  <2>3. ASSUME NEW t \in children, t.id = s.id, \A u \in children : u.id = s.id => u.start <= t.start
        PROVE  t = s
    <3>1. s.start <= t.start /\ (t = s \/ t.start < s.start) /\ s.start \in Int /\ t.start \in Int
      BY <1>3, <2>1, <2>3
    <3> QED BY <3>1
  <2> QED BY <2>2, <2>3
<1>4. DOMAIN ParentOf(spans) = {s.id : s \in children}
  BY <1>1
<1> HIDE DEF Latest
<1>5. \A i \in {s.id : s \in children} : ParentOf(spans)[i] = Latest(i).parent
  BY <1>1
<1> QED BY <1>2, <1>3, <1>4, <1>5

\* The bars are those of the spans.
LEMMA BarsAre ==
    ASSUME NEW spans
    PROVE  /\ {b.span : b \in Bars(spans)} = spans
           /\ \A b \in Bars(spans) :
                 /\ b.span \in spans /\ b.depth = Depth(ParentOf(spans), b.span.id)
                 /\ b.left = Left(spans, b.span) /\ b.width = Width(spans, b.span)
                 /\ b.scale = Scale(spans)
           /\ \A b, c \in Bars(spans) : b.span = c.span => b = c
<1> DEFINE Bar(s) == [span |-> s, depth |-> Depth(ParentOf(spans), s.id), scale |-> Scale(spans),
                      left |-> Left(spans, s), width |-> Width(spans, s)]
<1>1. Bars(spans) = {Bar(s) : s \in spans}
  BY DEF Bars
<1>2. \A s : /\ Bar(s).span = s /\ Bar(s).depth = Depth(ParentOf(spans), s.id)
             /\ Bar(s).scale = Scale(spans)
             /\ Bar(s).left = Left(spans, s) /\ Bar(s).width = Width(spans, s)
  OBVIOUS
<1> HIDE DEF Bar
<1> QED BY <1>1, <1>2

LEMMA BarsLieInside ==
    ASSUME NEW spans, IsTrace(spans)
    PROVE  BarsInside(Bars(spans))
<1>1. PICK bars : bars = Bars(spans)
  OBVIOUS
<1>2. {b.span : b \in bars} = spans
  BY <1>1, BarsAre
<1> SUFFICES ASSUME InOrder(spans), NEW b \in bars
             PROVE  /\ b.left >= 0 /\ b.width >= 0
                    /\ b.left + b.width <= 200 * b.scale
                    /\ b.width < 200 * (b.span.end - b.span.start) => b.left + b.width = 200 * b.scale
  BY <1>1, <1>2 DEF BarsInside
<1>3. /\ b.span \in spans /\ b.scale = Scale(spans)
      /\ b.left = Left(spans, b.span) /\ b.width = Width(spans, b.span)
  BY <1>1, BarsAre
<1> QED BY <1>3, BarFits

LEMMA DepthsAreNested ==
    ASSUME NEW spans, IsTrace(spans), \A s \in spans : s.id # NoParent
    PROVE  DepthsNest(Bars(spans))
<1>1. PICK bars : bars = Bars(spans)
  OBVIOUS
<1>2. {b.span : b \in bars} = spans
  BY <1>1, BarsAre
<1>3. PICK parents : parents = ParentOf(spans)
  OBVIOUS
<1>4. \A b \in bars : b.span \in spans /\ b.depth = Depth(parents, b.span.id)
  BY <1>1, <1>3, BarsAre
<1>5. IsFiniteSet(DOMAIN parents)
  BY <1>3, ParentsAre
<1>6. ASSUME NEW b \in bars
      PROVE  LET above == Above(parents, b.span.id) IN
             b.depth = Cardinality(IF \E a \in above : OnRing(parents, a)
                                   THEN above \cup {b.span.id} ELSE above)
  <2>1. b.depth = Cardinality(Counted(parents, b.span.id))
    BY <1>4, <1>5, DepthCounts
  <2> QED BY <2>1 DEF Counted
<1>7. ASSUME NEW b \in bars, NEW c \in bars, b.span.parent = c.span.id, LastOfItsId(bars, b)
      PROVE  b.depth = c.depth + (IF OnRing(parents, b.span.id) THEN 0 ELSE 1)
  <2>1. b.span \in spans /\ c.span \in spans /\ b.span.parent # NoParent
    BY <1>4, <1>7
  <2>2. \A t \in spans : t.id = b.span.id => t = b.span \/ t.start < b.span.start
    <3>1. \A t \in spans : \E d \in bars : d.span = t
      BY <1>2
    <3> QED BY <1>7, <3>1 DEF LastOfItsId
  <2>3. b.span.id \in DOMAIN parents /\ parents[b.span.id] = c.span.id
    BY <1>3, <1>7, <2>1, <2>2, ParentsAre
  <2>4. Depth(parents, b.span.id) = Depth(parents, c.span.id) + (IF OnRing(parents, b.span.id) THEN 0 ELSE 1)
    BY <1>5, <2>3, DepthNext
  <2> QED BY <1>4, <2>4
<1>8. ParentOf({b.span : b \in bars}) = parents
  BY <1>2, <1>3
<1> QED BY <1>1, <1>6, <1>7, <1>8 DEF DepthsNest

-----------------------------------------------------------------------------
(* The waterfall on the page.                                                *)

\* It is that of a trace, or there is none.
WaterfallInv == waterfall = {} \/ \E spans \in Trees : waterfall = Bars(spans)

LEMMA WaterfallStep ==
    ASSUME WaterfallInv, [Next]_vars PROVE WaterfallInv'
<1>1. \/ waterfall' = waterfall \/ waterfall' = {}
      \/ \E spans \in Trees : waterfall' = Drawn[spans]
  <2>1. CASE UNCHANGED vars
    BY <2>1 DEF vars, queryVars
  <2>2. CASE Breaks \/ OnDashboards(DashUser) \/ OnAlerts(AlertsUser)
    BY <2>2 DEF Breaks, OnDashboards, OnAlerts, queryVars
  <2>3. CASE OnQueries(QueriesUser)
    BY <2>3 DEF OnQueries, QueriesUser, TypeToken, SelectName, RunMetrics, RunLogs, FollowToLogs,
                ClearFilter, RunMap, RunTraces, load_spans
  <2>4. CASE Network
    <3>1. PICK n \in DOMAIN calls :
             \/ OnDashboards(DashServes(n) \/ DashHears(n))
             \/ OnAlerts(AlertsServes(n) \/ AlertsHears(n))
             \/ OnQueries(QueriesServe(n) \/ QueriesHear(n))
      BY <2>4 DEF Network
    <3>2. CASE OnQueries(QueriesServe(n) \/ QueriesHear(n))
      BY <3>2 DEF OnQueries, QueriesServe, Serve, QueriesHear, GotHealth, GotBox, queryVars
    <3> QED BY <3>1, <3>2 DEF OnDashboards, OnAlerts, queryVars
  <2> QED BY <2>1, <2>2, <2>3, <2>4 DEF Next
<1>2. \A spans \in Trees : Drawn[spans] = Bars(spans)
  BY DEF Drawn
<1> QED BY <1>1, <1>2 DEF WaterfallInv

LEMMA TreesAreTraces ==
    \A spans \in Trees : IsTrace(spans) /\ \A s \in spans : s.id # NoParent
BY TreesAssumption DEF IsTrace

LEMMA NoBars == DepthsNest({}) /\ BarsInside({})
BY DEF DepthsNest, BarsInside

\* The indentation shows the tree, whatever the trace: spans in any number and shape, those
\* that were never received, that come twice and that are each other's ancestors included.
THEOREM IndentsShowTheTree == Spec => []WaterfallNests
<1>1. Init => WaterfallInv
  BY DEF Init, QueriesInit, NoQueries, WaterfallInv
<1>2. WaterfallInv /\ [Next]_vars => WaterfallInv'
  BY WaterfallStep
<1>3. WaterfallInv => WaterfallNests
  BY DepthsAreNested, TreesAreTraces, NoBars DEF WaterfallInv, WaterfallNests
<1> QED
  BY <1>1, <1>2, <1>3, PTL DEF Spec

\* Bars stay within their row, whatever the times of the spans are.
THEOREM BarsAreDrawnInside == Spec => []BarsFit
<1>1. Init => WaterfallInv
  BY DEF Init, QueriesInit, NoQueries, WaterfallInv
<1>2. WaterfallInv /\ [Next]_vars => WaterfallInv'
  BY WaterfallStep
<1>3. WaterfallInv => BarsFit
  BY BarsLieInside, TreesAreTraces, NoBars DEF WaterfallInv, BarsFit
<1> QED
  BY <1>1, <1>2, <1>3, PTL DEF Spec

-----------------------------------------------------------------------------
(* Types.  What a request carries, and what its answer is, fits the signals  *)
(* they go to.                                                               *)

Tables(I, V) == UNION {[S -> V] : S \in SUBSET I}

LEMMA TableIs ==
    ASSUME NEW I, NEW V, NEW f
    PROVE  f \in Tables(I, V) <=>
              /\ f = [i \in DOMAIN f |-> f[i]]
              /\ DOMAIN f \subseteq I /\ \A i \in DOMAIN f : f[i] \in V
<1>1. ASSUME f \in Tables(I, V)
      PROVE  f = [i \in DOMAIN f |-> f[i]] /\ DOMAIN f \subseteq I /\ \A i \in DOMAIN f : f[i] \in V
  <2>1. PICK S \in SUBSET I : f \in [S -> V]
    BY <1>1 DEF Tables
  <2> QED BY <2>1
<1>2. ASSUME f = [i \in DOMAIN f |-> f[i]], DOMAIN f \subseteq I, \A i \in DOMAIN f : f[i] \in V
      PROVE  f \in Tables(I, V)
  <2>1. f \in [DOMAIN f -> V]
    BY <1>2
  <2> QED BY <1>2, <2>1 DEF Tables
<1> QED BY <1>1, <1>2

LEMMA TableWith ==
    ASSUME NEW I, NEW V, NEW f \in Tables(I, V), NEW i \in I, NEW v \in V
    PROVE  With(f, i, v) \in Tables(I, V) /\ DOMAIN With(f, i, v) = DOMAIN f \cup {i}
<1>1. DOMAIN f \subseteq I /\ \A j \in DOMAIN f : f[j] \in V
  BY TableIs
<1>2. PICK g : g = With(f, i, v)
  OBVIOUS
<1>3. /\ DOMAIN g = DOMAIN f \cup {i} /\ g = [j \in DOMAIN g |-> g[j]]
      /\ \A j \in DOMAIN g : g[j] = IF j = i THEN v ELSE f[j]
  BY <1>2 DEF With
<1>4. DOMAIN g \subseteq I /\ \A j \in DOMAIN g : g[j] \in V
  BY <1>1, <1>3
<1> QED BY <1>2, <1>3, <1>4, TableIs

LEMMA TableWithout ==
    ASSUME NEW I, NEW V, NEW f \in Tables(I, V), NEW i
    PROVE  Without(f, i) \in Tables(I, V) /\ DOMAIN Without(f, i) = DOMAIN f \ {i}
<1>1. DOMAIN f \subseteq I /\ \A j \in DOMAIN f : f[j] \in V
  BY TableIs
<1>2. PICK g : g = Without(f, i)
  OBVIOUS
<1>3. DOMAIN g = DOMAIN f \ {i} /\ g = [j \in DOMAIN g |-> g[j]] /\ \A j \in DOMAIN g : g[j] = f[j]
  BY <1>2 DEF Without
<1>4. DOMAIN g \subseteq I /\ \A j \in DOMAIN g : g[j] \in V
  BY <1>1, <1>3
<1> QED BY <1>2, <1>3, <1>4, TableIs

LEMMA FirstTables ==
    ASSUME NEW n \in Nat, NEW k \in 0..n, NEW V
    PROVE  /\ <<>> \in Tables(1..n, V)
           /\ \A v \in V : [i \in 1..k |-> v] \in Tables(1..n, V) /\ DOMAIN [i \in 1..k |-> v] = 1..k
<1>1. 1..k \in SUBSET (1..n) /\ 1..0 = {}
  OBVIOUS
<1>2. <<>> \in [{} -> V]
  OBVIOUS
<1>3. \A v \in V : [i \in 1..k |-> v] \in [1..k -> V]
  OBVIOUS
<1>4. {} \in SUBSET (1..n)
  OBVIOUS
<1>5. <<>> \in Tables(1..n, V)
  BY <1>2, <1>4 DEF Tables
<1> QED BY <1>1, <1>3, <1>5 DEF Tables

LEMMA LayoutIs ==
    ASSUME NEW s
    PROVE  s \in Layouts <=> s \in Seq(Panels) /\ Len(s) <= MaxPanels
<1>1. ASSUME s \in Layouts PROVE s \in Seq(Panels) /\ Len(s) <= MaxPanels
  <2>1. PICK k \in 0..MaxPanels : s \in [1..k -> Panels]
    BY <1>1 DEF Layouts
  <2>2. k \in Nat /\ k <= MaxPanels
    BY <2>1, DashBounds
  <2>3. s \in Seq(Panels) /\ Len(s) = k
    BY <2>1, <2>2
  <2> QED BY <2>2, <2>3
<1>2. ASSUME s \in Seq(Panels), Len(s) <= MaxPanels PROVE s \in Layouts
  <2>1. Len(s) \in Nat /\ s \in [1..Len(s) -> Panels]
    BY <1>2
  <2>2. Len(s) \in 0..MaxPanels
    BY <1>2, <2>1, DashBounds
  <2> QED BY <2>1, <2>2 DEF Layouts
<1> QED BY <1>1, <1>2

\* The layouts the page makes of a layout.
LEMMA LayoutsMade ==
    /\ <<>> \in Layouts
    /\ \A p \in Panels : <<p>> \in Layouts
    /\ \A s \in Layouts, p \in Panels : Len(s) < MaxPanels => Append(s, p) \in Layouts
    /\ \A s \in Layouts : \A k \in DOMAIN s :
          SubSeq(s, 1, k - 1) \o SubSeq(s, k + 1, Len(s)) \in Layouts
<1>1. MaxPanels \in Nat /\ MaxPanels >= 1
  BY DashBounds
<1>2. <<>> \in Layouts
  <2>1. 0 \in 0..MaxPanels /\ 1..0 = {}
    BY <1>1
  <2>2. <<>> \in [{} -> Panels]
    OBVIOUS
  <2> QED BY <2>1, <2>2 DEF Layouts
<1>3. ASSUME NEW p \in Panels PROVE <<p>> \in Layouts
  <2>1. <<p>> \in Seq(Panels) /\ Len(<<p>>) = 1
    OBVIOUS
  <2> QED BY <1>1, <2>1, LayoutIs
<1>4. ASSUME NEW s \in Layouts, NEW p \in Panels, Len(s) < MaxPanels PROVE Append(s, p) \in Layouts
  <2>1. s \in Seq(Panels) /\ Len(s) \in Nat
    BY LayoutIs
  <2>2. Append(s, p) \in Seq(Panels) /\ Len(Append(s, p)) = Len(s) + 1
    BY <2>1
  <2>3. Len(s) + 1 <= MaxPanels
    BY <1>1, <1>4, <2>1
  <2> QED BY <2>2, <2>3, LayoutIs
<1>5. ASSUME NEW s \in Layouts, NEW k \in DOMAIN s
      PROVE  SubSeq(s, 1, k - 1) \o SubSeq(s, k + 1, Len(s)) \in Layouts
  <2>1. s \in Seq(Panels) /\ Len(s) \in Nat /\ k \in 1..Len(s) /\ Len(s) <= MaxPanels
    BY LayoutIs
  <2> DEFINE a == SubSeq(s, 1, k - 1)
             b == SubSeq(s, k + 1, Len(s))
  <2>2. a \in Seq(Panels) /\ Len(a) = k - 1
    BY <2>1
  <2>3. b \in Seq(Panels) /\ Len(b) = Len(s) - k
    BY <2>1
  <2> HIDE DEF a, b
  <2>4. a \o b \in Seq(Panels) /\ Len(a \o b) = Len(a) + Len(b)
    BY <2>2, <2>3
  <2>5. (k - 1) + (Len(s) - k) <= MaxPanels
    <3> PICK n \in Nat, m \in Nat : n = Len(s) /\ m = MaxPanels
      BY <1>1, <2>1
    <3>1. k \in Int /\ n <= m
      BY <2>1
    <3>2. (k - 1) + (n - k) <= m
      BY <3>1
    <3> QED BY <3>2
  <2>6. Len(a \o b) <= MaxPanels
    BY <2>2, <2>3, <2>4, <2>5
  <2>7. a \o b \in Layouts
    BY <2>4, <2>6, LayoutIs
  <2> QED BY <2>7 DEF a, b
<1> QED BY <1>2, <1>3, <1>4, <1>5

-----------------------------------------------------------------------------
\* A dashboard as it is sent and answered.
IsDashboard(d) == d.id \in DashIds /\ d.panels \in Layouts

DashCall(c) ==
    /\ c.to \in {"dashboards", "dashboard", "create", "save", "remove"}
    /\ c.to = "create" /\ c.at = "sent" => c.body = <<>>
    /\ c.to = "save" => IsDashboard(c.body)
    /\ c.ok /\ c.to = "dashboards" => c.got[1] \in SUBSET DashIds
    /\ c.ok /\ c.to \in {"dashboard", "create", "save"} => IsDashboard(c.got[1])

DeskCall(c) ==
    /\ c.to \in {"rules", "active", "create_rule", "update_rule", "delete_rule"}
    /\ c.to = "create_rule" /\ c.at = "sent" => c.body.kind \in Kinds
    /\ c.to = "update_rule" \/ (c.to = "create_rule" /\ c.at = "sent") => c.body.config \in RuleConfig
    /\ c.ok /\ c.to = "rules" => c.got[1] \in RuleTables
    /\ c.ok /\ c.to = "active" => c.got[1] \in SUBSET RuleIds

BoxCall(c) == c.to \in BoxNames /\ c.body \in Query

CallTyped(p, c) ==
    /\ IsCall(c) /\ c.at \in {"sent", "write", "read", "done"} /\ c.ok \in BOOLEAN
    /\ p = "dashboards" => DashCall(c)
    /\ p = "alerts" => DeskCall(c)
    /\ p \in Asking => BoxCall(c)

NetTyped ==
    /\ sent \in Nat /\ faults \in Nat /\ others \in Nat /\ overtaken \in BOOLEAN
    /\ DOMAIN calls \subseteq 1..sent
    /\ \A n \in DOMAIN calls : CallTyped(page, calls[n])

\* The requests for a row of which nothing was handled yet.
Waiting(to) == {n \in DOMAIN calls : At(n, to, "sent")}

FreshTyped(rs) == FreshSeq(rs) /\ \A i \in DOMAIN rs : CallTyped(page, rs[i])

LEMMA FreshTypedIs ==
    /\ FreshTyped(<<>>)
    /\ \A r : Fresh(r) /\ CallTyped(page, r) => FreshTyped(<<r>>)
    /\ \A r, s : Fresh(r) /\ CallTyped(page, r) /\ Fresh(s) /\ CallTyped(page, s) => FreshTyped(<<r, s>>)
<1>1. ASSUME NEW r, Fresh(r), CallTyped(page, r) PROVE FreshTyped(<<r>>)
  BY <1>1, FewRequests DEF FreshTyped
<1>2. ASSUME NEW r, NEW s, Fresh(r), CallTyped(page, r), Fresh(s), CallTyped(page, s) PROVE FreshTyped(<<r, s>>)
  BY <1>2, FewRequests DEF FreshTyped
<1>3. FreshTyped(<<>>)
  BY FewRequests DEF FreshTyped
<1> QED BY <1>1, <1>2, <1>3

\* What is waiting was waiting, or is new.
Arrived(to, rs) == {sent + i : i \in {j \in DOMAIN rs : rs[j].to = to}}

\* The requests cs with rs behind them, whatever happened to those that are not in cs.
LEMMA PlusTyped ==
    ASSUME NetTyped, NEW rs, FreshTyped(rs), NEW cs, DOMAIN cs \subseteq DOMAIN calls,
           \A n \in DOMAIN cs : cs[n] = calls[n],
           calls' = Plus(cs, rs), sent' = sent + Len(rs), overtaken' \in BOOLEAN,
           UNCHANGED <<page, faults, others>>
    PROVE  NetTyped' /\ \A to : Waiting(to)' \subseteq Waiting(to) \cup Arrived(to, rs)
<1>1. sent \in Nat /\ Len(rs) \in Nat /\ DOMAIN rs = 1..Len(rs) /\ \A i \in DOMAIN rs : CallTyped(page, rs[i])
  BY DEF NetTyped, FreshTyped, FreshSeq
<1>2. sent' \in Nat /\ sent <= sent'
  BY <1>1
<1>3. DOMAIN calls' = DOMAIN cs \cup {sent + i : i \in DOMAIN rs}
  BY DEF Plus
<1>4. \A n \in DOMAIN cs : n \in DOMAIN calls' /\ calls'[n] = calls[n]
  BY DEF Plus
<1>5. ASSUME NEW i \in DOMAIN rs
      PROVE  sent + i \in 1..sent' /\ sent + i \notin DOMAIN cs /\ calls'[sent + i] = rs[i]
  <2>1. sent + i \in 1..sent' /\ (sent + i) - sent = i /\ ~(sent + i \in 1..sent)
    BY <1>1
  <2>2. sent + i \notin DOMAIN cs
    BY <2>1 DEF NetTyped
  <2> QED BY <1>3, <2>1, <2>2 DEF Plus
<1>6. \A n \in DOMAIN calls' : n \in DOMAIN cs \/ \E i \in DOMAIN rs : n = sent + i
  BY <1>3
<1>7. DOMAIN calls' \subseteq 1..sent'
  <2>1. 1..sent \subseteq 1..sent'
    BY <1>1, <1>2
  <2>2. \A n \in DOMAIN cs : n \in 1..sent'
    BY <2>1 DEF NetTyped
  <2> QED BY <1>5, <1>6, <2>2
<1>8. \A n \in DOMAIN calls' : CallTyped(page', calls'[n])
  <2>1. \A n \in DOMAIN cs : CallTyped(page, calls'[n])
    BY <1>4 DEF NetTyped
  <2>2. \A n \in DOMAIN calls' : CallTyped(page, calls'[n])
    BY <1>1, <1>5, <1>6, <2>1
  <2> QED BY <2>2
<1>9. NetTyped'
  BY <1>2, <1>7, <1>8 DEF NetTyped
<1>10. ASSUME NEW to, NEW n \in Waiting(to)' PROVE n \in Waiting(to) \cup Arrived(to, rs)
  <2>1. n \in DOMAIN calls' /\ calls'[n].to = to /\ calls'[n].at = "sent"
    BY <1>10 DEF Waiting, At
  <2>2. CASE n \in DOMAIN cs
    BY <1>4, <2>1, <2>2 DEF Waiting, At
  <2>3. CASE \E i \in DOMAIN rs : n = sent + i
    BY <1>5, <2>1, <2>3 DEF Arrived
  <2> QED BY <1>6, <2>1, <2>2, <2>3
<1> QED BY <1>9, <1>10

LEMMA SendTypes ==
    ASSUME NetTyped, NEW rs, FreshTyped(rs), Send(rs)
    PROVE  NetTyped' /\ \A to : Waiting(to)' \subseteq Waiting(to) \cup Arrived(to, rs)
BY PlusTyped DEF Send, NetTyped

LEMMA ReceiveTypes ==
    ASSUME NetTyped, NEW m \in DOMAIN calls, NEW rs, FreshTyped(rs), Receive(m, rs)
    PROVE  NetTyped' /\ \A to : Waiting(to)' \subseteq Waiting(to) \cup Arrived(to, rs)
<1>1. PICK cs : cs = Without(calls, m)
  OBVIOUS
<1>2. DOMAIN cs \subseteq DOMAIN calls /\ \A n \in DOMAIN cs : cs[n] = calls[n]
  BY <1>1 DEF Without
<1>3. overtaken' \in BOOLEAN
  BY DEF Receive
<1> QED BY <1>1, <1>2, <1>3, PlusTyped DEF Receive

\* One request has got ahead.
LEMMA ChangeTypes ==
    ASSUME NetTyped, NEW m \in DOMAIN calls, NEW c, OnlyCall(m, c), CallTyped(page, c),
           c.to = calls[m].to, c.at # "sent",
           UNCHANGED <<page, sent>>, faults' \in Nat, others' \in Nat, overtaken' \in BOOLEAN
    PROVE  /\ NetTyped'
           /\ \A to : Waiting(to)' \subseteq Waiting(to) /\ m \notin Waiting(to)'
<1>1. \A n \in DOMAIN calls' : CallTyped(page', calls'[n])
  <2>1. \A n \in DOMAIN calls' : CallTyped(page, calls'[n])
    BY DEF OnlyCall, NetTyped
  <2> QED BY <2>1
<1>2. NetTyped'
  BY <1>1 DEF NetTyped, OnlyCall
<1>3. ASSUME NEW to PROVE Waiting(to)' \subseteq Waiting(to) /\ m \notin Waiting(to)'
  BY DEF Waiting, At, OnlyCall
<1> QED BY <1>2, <1>3

LEMMA HandleTypes ==
    ASSUME NetTyped, NEW m \in DOMAIN calls, NEW c, Handle(m, c), CallTyped(page, c),
           c.to = calls[m].to, c.at # "sent"
    PROVE  /\ NetTyped'
           /\ \A to : Waiting(to)' \subseteq Waiting(to) /\ m \notin Waiting(to)'
<1>1. OnlyCall(m, c) /\ sent' = sent
  BY HandleKeeps
<1>2. page' = page /\ faults' \in Nat /\ others' \in Nat /\ overtaken' \in BOOLEAN
  BY DEF Handle, NetTyped
<1> QED BY <1>1, <1>2, ChangeTypes

\* An answer whose value fits.
Fits(c, got) ==
    /\ page = "dashboards" =>
          /\ c.to = "dashboards" => got \in SUBSET DashIds
          /\ c.to \in {"dashboard", "create", "save"} => IsDashboard(got)
    /\ page = "alerts" =>
          /\ c.to = "rules" => got \in RuleTables
          /\ c.to = "active" => got \in SUBSET RuleIds

LEMMA AnswerTypes ==
    ASSUME NetTyped, NEW m \in DOMAIN calls, NEW got, Fits(calls[m], got), Answer(m, got)
    PROVE  /\ NetTyped'
           /\ \A to : Waiting(to)' \subseteq Waiting(to) /\ m \notin Waiting(to)'
<1>1. CallTyped(page, calls[m]) /\ IsCall(calls[m])
  BY DEF NetTyped, CallTyped
<1> PICK c : c = Answered(calls[m], got)
  OBVIOUS
<1>2. Handle(m, c)
  BY DEF Answer, Answered
<1>3. IsCall(c) /\ c.to = calls[m].to /\ c.body = calls[m].body /\ c.at = "done"
      /\ c.ok = TRUE /\ c.got = <<got>>
  BY <1>1, CallAnswered
<1>4. c.got[1] = got
  BY <1>3
<1>5. CallTyped(page, c)
  <2>1. page = "dashboards" => DashCall(c)
    BY <1>1, <1>3, <1>4 DEF CallTyped, DashCall, Fits
  <2>2. page = "alerts" => DeskCall(c)
    BY <1>1, <1>3, <1>4 DEF CallTyped, DeskCall, Fits
  <2>3. page \in Asking => BoxCall(c)
    BY <1>1, <1>3 DEF CallTyped, BoxCall
  <2> QED BY <1>3, <2>1, <2>2, <2>3 DEF CallTyped
<1> QED BY <1>2, <1>3, <1>5, HandleTypes

\* A request that is over without an answer.
LEMMA CallRefused ==
    ASSUME NEW m \in DOMAIN calls, CallTyped(page, calls[m])
    PROVE  LET c == [calls[m] EXCEPT !.at = "done"] IN
           CallTyped(page, c) /\ c.to = calls[m].to /\ c.at = "done"
<1> PICK c : c = [calls[m] EXCEPT !.at = "done"]
  OBVIOUS
<1>1. IsCall(c) /\ c.to = calls[m].to /\ c.body = calls[m].body /\ c.at = "done"
      /\ c.ok = calls[m].ok /\ c.got = calls[m].got
  BY DEF CallTyped, IsCall
<1>2. CallTyped(page, c)
  BY <1>1 DEF CallTyped, DashCall, DeskCall, BoxCall
<1> QED BY <1>1, <1>2

LEMMA RefuseTypes ==
    ASSUME NetTyped, NEW m \in DOMAIN calls, Refuse(m)
    PROVE  /\ NetTyped'
           /\ \A to : Waiting(to)' \subseteq Waiting(to) /\ m \notin Waiting(to)'
<1> PICK c : c = [calls[m] EXCEPT !.at = "done"]
  OBVIOUS
<1>1. Handle(m, c)
  BY DEF Refuse
<1>2. CallTyped(page, calls[m])
  BY DEF NetTyped
<1>3. CallTyped(page, c) /\ c.to = calls[m].to /\ c.at = "done"
  BY <1>2, CallRefused
<1> QED BY <1>1, <1>3, HandleTypes

LEMMA FailTypes ==
    ASSUME NetTyped, NEW m \in DOMAIN calls, Fail(m)
    PROVE  /\ NetTyped'
           /\ \A to : Waiting(to)' \subseteq Waiting(to) /\ m \notin Waiting(to)'
<1> PICK c : c = [calls[m] EXCEPT !.at = "done"]
  OBVIOUS
<1>1. OnlyCall(m, c)
  BY DEF Fail, OnlyCall
<1>2. CallTyped(page, calls[m])
  BY DEF NetTyped
<1>3. CallTyped(page, c) /\ c.to = calls[m].to /\ c.at = "done"
  BY <1>2, CallRefused
<1>4. /\ UNCHANGED <<page, sent>> /\ faults' \in Nat /\ others' \in Nat /\ overtaken' \in BOOLEAN
  BY DEF Fail, NetTyped
<1> QED BY <1>1, <1>3, <1>4, ChangeTypes

LEMMA GoOnTypes ==
    ASSUME NetTyped, NEW m \in DOMAIN calls, NEW step \in {"write", "read"}, NEW body,
           calls[m].to = "save" => IsDashboard(body),
           calls[m].to = "update_rule" => body.config \in RuleConfig,
           page \notin Asking, GoOn(m, step, body)
    PROVE  /\ NetTyped'
           /\ \A to : Waiting(to)' \subseteq Waiting(to) /\ m \notin Waiting(to)'
<1>1. CallTyped(page, calls[m]) /\ IsCall(calls[m])
  BY DEF NetTyped, CallTyped
<1> PICK c : c = Continued(calls[m], step, body)
  OBVIOUS
<1>2. Handle(m, c)
  BY DEF GoOn, Continued
<1>3. /\ IsCall(c) /\ c.to = calls[m].to /\ c.body = body /\ c.at = step
      /\ c.ok = calls[m].ok /\ c.got = calls[m].got
  BY <1>1, CallContinued
<1>4. CallTyped(page, c)
  <2>1. page = "dashboards" => DashCall(c)
    BY <1>1, <1>3 DEF CallTyped, DashCall
  <2>2. page = "alerts" => DeskCall(c)
    BY <1>1, <1>3 DEF CallTyped, DeskCall
  <2> QED BY <1>1, <1>3, <2>1, <2>2 DEF CallTyped
<1> QED BY <1>2, <1>3, <1>4, HandleTypes

-----------------------------------------------------------------------------
\* How many requests wait for an id.
LEMMA WaitingCounts ==
    ASSUME NetTyped, NetTyped', NEW to
    PROVE  /\ Cardinality(Waiting(to)) \in Nat /\ Cardinality(Waiting(to)') \in Nat
           /\ Waiting(to)' \subseteq Waiting(to) =>
                 Cardinality(Waiting(to)') <= Cardinality(Waiting(to))
           /\ \A x : Waiting(to)' \subseteq Waiting(to) \cup {x} =>
                 Cardinality(Waiting(to)') <= Cardinality(Waiting(to)) + 1
           /\ \A m \in Waiting(to) : Waiting(to)' \subseteq Waiting(to) /\ m \notin Waiting(to)' =>
                 Cardinality(Waiting(to)') + 1 <= Cardinality(Waiting(to))
<1> PICK W, V : W = Waiting(to) /\ V = Waiting(to)'
  OBVIOUS
<1>1. IsFiniteSet(W) /\ IsFiniteSet(V)
  <2>1. IsFiniteSet(1..sent) /\ IsFiniteSet(1..sent')
    <3>1. 1 \in Int /\ sent \in Int /\ sent' \in Int
      BY DEF NetTyped
    <3> QED BY <3>1, FS_Interval
  <2>2. W \subseteq 1..sent /\ V \subseteq 1..sent'
    BY DEF NetTyped, Waiting
  <2> QED BY <2>1, <2>2, FS_Subset
<1>2. Cardinality(W) \in Nat /\ Cardinality(V) \in Nat
  BY <1>1, FS_CardinalityType
<1>3. V \subseteq W => Cardinality(V) <= Cardinality(W)
  BY <1>1, FS_Subset
<1>4. ASSUME NEW x, V \subseteq W \cup {x} PROVE Cardinality(V) <= Cardinality(W) + 1
  <2>1. IsFiniteSet(W \cup {x}) /\ Cardinality(W \cup {x}) <= Cardinality(W) + 1
    <3>1. CASE x \in W
      <4>1. W \cup {x} = W
        BY <3>1
      <4>2. \A w \in Nat : w <= w + 1
        OBVIOUS
      <4>3. Cardinality(W \cup {x}) = Cardinality(W) /\ IsFiniteSet(W \cup {x})
        BY <1>1, <4>1
      <4> QED BY <1>2, <4>2, <4>3
    <3>2. CASE x \notin W
      <4>1. IsFiniteSet(W \cup {x}) /\ Cardinality(W \cup {x}) = Cardinality(W) + 1
        BY <1>1, <3>2, FS_AddElement
      <4> QED BY <1>2, <4>1
    <3> QED BY <3>1, <3>2
  <2>2. Cardinality(V) <= Cardinality(W \cup {x}) /\ Cardinality(W \cup {x}) \in Nat
    BY <1>4, <2>1, FS_Subset, FS_CardinalityType
  <2> QED BY <1>2, <2>1, <2>2
<1>5. ASSUME NEW m \in W, V \subseteq W, m \notin V PROVE Cardinality(V) + 1 <= Cardinality(W)
  <2>1. IsFiniteSet(W \ {m}) /\ Cardinality(W \ {m}) = Cardinality(W) - 1
    BY <1>1, <1>5, FS_RemoveElement
  <2>2. V \subseteq W \ {m}
    BY <1>5
  <2>3. Cardinality(V) <= Cardinality(W \ {m})
    BY <2>1, <2>2, FS_Subset
  <2> QED BY <1>2, <2>1, <2>3
<1> QED BY <1>2, <1>3, <1>4, <1>5

\* There is an id for each of them, and one is left when one more comes.
LEMMA IdsLast ==
    ASSUME NetTyped, NetTyped', NEW to, NEW next \in Nat, NEW later, NEW max \in Nat,
           next + Cardinality(Waiting(to)) <= max + 1,
           \/ later = next /\ Waiting(to)' \subseteq Waiting(to)
           \/ /\ later = next /\ next + Cardinality(Waiting(to)) <= max
              /\ \E x : Waiting(to)' \subseteq Waiting(to) \cup {x}
           \/ /\ later = next + 1 /\ Waiting(to)' \subseteq Waiting(to)
              /\ \/ next + Cardinality(Waiting(to)) <= max
                 \/ \E m \in Waiting(to) : m \notin Waiting(to)'
    PROVE  /\ later + Cardinality(Waiting(to)') <= max + 1
           /\ later = next + 1 => next <= max
<1> PICK W, V : W = Waiting(to) /\ V = Waiting(to)'
  OBVIOUS
<1> PICK w, v : w = Cardinality(W) /\ v = Cardinality(V)
  OBVIOUS
<1>1. w \in Nat /\ v \in Nat
  BY WaitingCounts
<1>2. /\ V \subseteq W => v <= w
      /\ (\E x : V \subseteq W \cup {x}) => v <= w + 1
      /\ V \subseteq W /\ (\E m \in W : m \notin V) => v + 1 <= w
  BY WaitingCounts
<1>3. next + w <= max + 1
  OBVIOUS
<1>4. \/ later = next /\ v <= w
      \/ later = next /\ next + w <= max /\ v <= w + 1
      \/ later = next + 1 /\ v <= w /\ next + w <= max
      \/ later = next + 1 /\ v + 1 <= w
  BY <1>2
<1>5. later + v <= max + 1 /\ (later = next + 1 => next <= max)
  BY <1>1, <1>3, <1>4
<1> QED BY <1>5

\* At most one of one or two new requests wants an id.
LEMMA OneArrives ==
    ASSUME NEW to
    PROVE  /\ Arrived(to, <<>>) = {}
           /\ \A r : Fresh(r) => Arrived(to, <<r>>) \subseteq {sent + 1}
           /\ \A r : Fresh(r) /\ r.to # to => Arrived(to, <<r>>) = {}
           /\ \A r, s : Fresh(r) /\ Fresh(s) /\ r.to # to /\ s.to # to => Arrived(to, <<r, s>>) = {}
<1>1. Arrived(to, <<>>) = {}
  <2>1. DOMAIN <<>> = {}
    BY FewRequests
  <2> QED BY <2>1 DEF Arrived
<1>2. ASSUME NEW r, Fresh(r)
      PROVE  Arrived(to, <<r>>) \subseteq {sent + 1} /\ (r.to # to => Arrived(to, <<r>>) = {})
  <2>1. DOMAIN <<r>> = {1} /\ <<r>>[1] = r
    BY <1>2, FewRequests
  <2>2. ASSUME NEW x \in Arrived(to, <<r>>) PROVE x = sent + 1 /\ r.to = to
    <3>1. PICK i \in {j \in DOMAIN <<r>> : <<r>>[j].to = to} : x = sent + i
      BY <2>2 DEF Arrived
    <3>2. i = 1
      BY <2>1, <3>1
    <3> QED BY <2>1, <3>1, <3>2
  <2> QED BY <2>2
<1>3. ASSUME NEW r, NEW s, Fresh(r), Fresh(s), r.to # to, s.to # to PROVE Arrived(to, <<r, s>>) = {}
  <2>1. DOMAIN <<r, s>> = {1, 2} /\ <<r, s>>[1] = r /\ <<r, s>>[2] = s
    BY <1>3, FewRequests
  <2>2. {j \in DOMAIN <<r, s>> : <<r, s>>[j].to = to} = {}
    BY <1>3, <2>1
  <2> QED BY <2>2 DEF Arrived
<1> QED BY <1>1, <1>2, <1>3

-----------------------------------------------------------------------------
(* The types of the dashboards page.                                         *)

OpenDash == [id : DashIds \cup {0}, panels : Layouts, edited : BOOLEAN]
DashSignals == [list : SUBSET DashIds, loading : BOOLEAN, failed : BOOLEAN, open : OpenDash,
                saving : BOOLEAN, dialog : BOOLEAN]
DashTables == Tables(DashIds, Layouts)

DashTyped ==
    /\ stored \in DashTables /\ kept \in DashTables
    /\ nextDash \in Nat /\ nextDash >= 1 /\ nextDash <= MaxDash + 1
    /\ \A i \in DOMAIN stored : i < nextDash
    /\ dash \in DashSignals

LEMMA DashTypedIs == DashTypeOK <=> DashTyped
<1>1. MaxDash \in Nat
  BY DashBounds
<1>2. stored \in DashTables => DOMAIN stored \subseteq DashIds
  BY TableIs DEF DashTables
<1>3. nextDash \in 1..MaxDash + 1 <=> nextDash \in Nat /\ nextDash >= 1 /\ nextDash <= MaxDash + 1
  BY <1>1
<1>4. ASSUME nextDash \in Nat, DOMAIN stored \subseteq DashIds
      PROVE  DOMAIN stored \subseteq 1..nextDash - 1 <=> \A i \in DOMAIN stored : i < nextDash
  <2>1. \A i \in DashIds : i \in Nat /\ i >= 1
    BY <1>1 DEF DashIds
  <2>2. \A i \in DashIds : i \in 1..nextDash - 1 <=> i < nextDash
    BY <1>4, <2>1
  <2> QED BY <1>4, <2>2
<1> QED BY <1>2, <1>3, <1>4 DEF DashTypeOK, DashTyped, DashTables, Tables, DashSignals, OpenDash

DashLeft == page = "dashboards" => nextDash + Cardinality(Waiting("create")) <= MaxDash + 1

LEMMA DashOnlyTypes ==
    ASSUME DashTyped, NEW d \in DashSignals, DashOnly(d)
    PROVE  DashTyped' /\ nextDash' = nextDash
BY DEF DashTyped, DashOnly

LEMMA DashStays ==
    ASSUME DashTyped, UNCHANGED dashVars
    PROVE  DashTyped' /\ nextDash' = nextDash
BY DEF DashTyped, dashVars

LEMMA InsertTypes ==
    ASSUME DashTyped, NEW p \in Layouts, InsertDashboard(p), nextDash <= MaxDash
    PROVE  DashTyped' /\ nextDash' = nextDash + 1
<1>1. MaxDash \in Nat /\ nextDash \in Nat /\ nextDash >= 1
  BY DashBounds DEF DashTyped
<1>2. nextDash \in DashIds
  BY <1>1 DEF DashIds
<1>3. stored' \in DashTables /\ DOMAIN stored' = DOMAIN stored \cup {nextDash}
  BY <1>2, TableWith DEF DashTables, InsertDashboard, DashTyped
<1>4. \A i \in DOMAIN stored : i \in Nat /\ i < nextDash
  <2>1. \A i \in DOMAIN stored : i \in DashIds /\ i < nextDash
    BY TableIs DEF DashTyped, DashTables
  <2> QED BY <1>1, <2>1 DEF DashIds
<1>5. \A i \in DOMAIN stored' : i < nextDash + 1
  BY <1>1, <1>3, <1>4
<1>6. nextDash' = nextDash + 1 /\ nextDash' \in Nat /\ nextDash' >= 1 /\ nextDash' <= MaxDash + 1
  BY <1>1 DEF InsertDashboard
<1> QED BY <1>3, <1>5, <1>6 DEF DashTyped, InsertDashboard

LEMMA UpdateTypes ==
    ASSUME DashTyped, NEW p \in Layouts, NEW i, UpdateDashboard(i, p)
    PROVE  DashTyped' /\ nextDash' = nextDash
<1>1. CASE i \in DOMAIN stored
  <2>1. i \in DashIds
    BY <1>1, TableIs DEF DashTyped, DashTables
  <2>2. stored' \in DashTables /\ DOMAIN stored' = DOMAIN stored \cup {i}
    BY <1>1, <2>1, TableWith DEF DashTables, UpdateDashboard, DashTyped
  <2> QED BY <1>1, <2>2 DEF DashTyped, UpdateDashboard
<1>2. CASE i \notin DOMAIN stored
  BY <1>2 DEF DashTyped, UpdateDashboard
<1> QED BY <1>1, <1>2

LEMMA DeleteTypes ==
    ASSUME DashTyped, NEW i, DeleteDashboard(i)
    PROVE  DashTyped' /\ nextDash' = nextDash
<1>1. stored' \in DashTables /\ DOMAIN stored' = DOMAIN stored \ {i}
  BY TableWithout DEF DashTables, DeleteDashboard, DashTyped
<1> QED BY <1>1 DEF DashTyped, DeleteDashboard

DashState == NetTyped /\ DashTyped /\ DashLeft /\ page = "dashboards"

\* A step that neither asks for an id nor takes one.
LEMMA DashQuiet ==
    ASSUME DashState, NetTyped', DashTyped', nextDash' = nextDash, page' = page,
           Waiting("create")' \subseteq Waiting("create")
    PROVE  DashState'
<1>1. /\ nextDash \in Nat /\ MaxDash \in Nat
      /\ nextDash + Cardinality(Waiting("create")) <= MaxDash + 1
  BY DashBounds DEF DashState, DashTyped, DashLeft
<1>2. nextDash' + Cardinality(Waiting("create")') <= MaxDash + 1
  BY <1>1, IdsLast DEF DashState
<1> QED BY <1>2 DEF DashState, DashLeft

LEMMA SignalsMade ==
    ASSUME NEW d \in DashSignals
    PROVE  /\ Loading(d) \in DashSignals
           /\ \A b \in BOOLEAN : /\ [d EXCEPT !.saving = b] \in DashSignals
                                 /\ [d EXCEPT !.dialog = b] \in DashSignals
           /\ \A o \in OpenDash : [d EXCEPT !.open = o] \in DashSignals
           /\ \A s \in SUBSET DashIds : [d EXCEPT !.list = s, !.loading = FALSE] \in DashSignals
           /\ [d EXCEPT !.failed = TRUE, !.loading = FALSE] \in DashSignals
           /\ d.open \in OpenDash /\ d.open.id \in DashIds \cup {0} /\ d.open.panels \in Layouts
BY DEF DashSignals, OpenDash, Loading

LEMMA OpensMade ==
    /\ Closed \in OpenDash
    /\ \A d : IsDashboard(d) => Shown(d) \in OpenDash
BY LayoutsMade DEF Closed, OpenDash, IsDashboard, Shown

LEMMA DashRequests ==
    /\ Fresh(ListDashboards) /\ CallTyped("dashboards", ListDashboards) /\ ListDashboards.to # "create"
    /\ \A i : LET r == GetJson("dashboard", i) IN
                 Fresh(r) /\ CallTyped("dashboards", r) /\ r.to # "create"
    /\ LET r == SendJson("create", <<>>) IN Fresh(r) /\ CallTyped("dashboards", r)
    /\ \A b : IsDashboard(b) => LET r == SendJson("save", b) IN
                 Fresh(r) /\ CallTyped("dashboards", r) /\ r.to # "create"
    /\ \A i : LET r == DeleteReq("remove", i) IN
                 Fresh(r) /\ CallTyped("dashboards", r) /\ r.to # "create"
<1>1. ASSUME NEW to \in {"dashboards", "dashboard", "create", "save", "remove"}, NEW b,
             to = "create" => b = <<>>, to = "save" => IsDashboard(b)
      PROVE  Fresh(GetJson(to, b)) /\ CallTyped("dashboards", GetJson(to, b)) /\ GetJson(to, b).to = to
  <2> PICK r : r = GetJson(to, b)
    OBVIOUS
  <2>1. Fresh(r) /\ r.to = to /\ r.body = b
    BY GetJsonIsFresh
  <2>2. CallTyped("dashboards", r)
    BY <1>1, <2>1 DEF CallTyped, DashCall, Fresh, Asking
  <2> QED BY <2>1, <2>2
<1> QED BY <1>1 DEF ListDashboards, SendJson, DeleteReq

LEMMA DashUserTypes ==
    ASSUME DashState, DashUser
    PROVE  DashState'
<1> USE DEF DashState
<1>1. dash \in DashSignals /\ sent \in Nat
  BY DEF DashTyped, NetTyped
<1>2. ASSUME NEW r, Fresh(r), CallTyped("dashboards", r), Send(<<r>>)
      PROVE  /\ NetTyped' /\ page' = page
             /\ Waiting("create")' \subseteq Waiting("create") \cup {sent + 1}
             /\ r.to # "create" => Waiting("create")' \subseteq Waiting("create")
  <2>1. FreshTyped(<<r>>)
    BY <1>2, FreshTypedIs
  <2>2. NetTyped' /\ Waiting("create")' \subseteq Waiting("create") \cup Arrived("create", <<r>>)
    BY <1>2, <2>1, SendTypes
  <2> QED BY <1>2, <2>2, OneArrives DEF Send
<1>3. ASSUME Local
      PROVE  NetTyped' /\ page' = page /\ Waiting("create")' = Waiting("create")
  BY <1>3 DEF Local, net, NetTyped, Waiting, At
<1>4. ASSUME SomebodyElse
      PROVE  NetTyped' /\ page' = page /\ Waiting("create")' = Waiting("create")
  BY <1>4 DEF SomebodyElse, NetTyped, Waiting, At
<1>5. ASSUME NEW r, Fresh(r), CallTyped("dashboards", r), r.to # "create", Send(<<r>>),
             DashTyped', nextDash' = nextDash
      PROVE  DashState'
  BY <1>2, <1>5, DashQuiet
<1>6. ASSUME Local, NEW d \in DashSignals, DashOnly(d) PROVE DashState'
  BY <1>3, <1>6, DashOnlyTypes, DashQuiet
<1>7. CASE DashToken
  BY <1>1, <1>5, <1>7, DashRequests, SignalsMade, DashOnlyTypes DEF DashToken
<1>8. ASSUME NEW i \in DashIds, OpenDashboard(i) PROVE DashState'
  BY <1>5, <1>8, DashRequests, DashStays DEF OpenDashboard
<1>9. CASE CreateNew
  <2> PICK r : r = SendJson("create", <<>>)
    OBVIOUS
  <2>1. NetTyped' /\ page' = page /\ Waiting("create")' \subseteq Waiting("create") \cup {sent + 1}
    BY <1>2, <1>9, DashRequests DEF CreateNew
  <2>2. DashTyped' /\ nextDash' = nextDash
    BY <1>9, DashStays DEF CreateNew
  <2>3. nextDash \in Nat /\ MaxDash \in Nat /\ nextDash + Cardinality(Waiting("create")) <= MaxDash
        /\ nextDash + Cardinality(Waiting("create")) <= MaxDash + 1
    BY <1>9, DashBounds DEF CreateNew, IdLeft, Waiting, DashTyped, DashLeft
  <2>4. nextDash' + Cardinality(Waiting("create")') <= MaxDash + 1
    BY <2>1, <2>2, <2>3, IdsLast
  <2> QED BY <2>1, <2>2, <2>4 DEF DashLeft
<1>10. ASSUME NEW p \in Panels, AddPanel(p) PROVE DashState'
  <2> PICK s : s = Append(dash.open.panels, p)
    OBVIOUS
  <2> PICK d : d = [dash EXCEPT !.open.panels = s, !.open.edited = TRUE]
    OBVIOUS
  <2>1. s \in Layouts
    BY <1>1, <1>10, SignalsMade, LayoutsMade DEF AddPanel
  <2>2. d \in DashSignals
    BY <1>1, <2>1 DEF DashSignals, OpenDash
  <2>3. DashOnly(d)
    BY <1>10 DEF AddPanel
  <2> QED BY <1>6, <1>10, <2>2, <2>3 DEF AddPanel
<1>11. ASSUME NEW k, RemovePanel(k) PROVE DashState'
  <2> PICK s : s = SubSeq(dash.open.panels, 1, k - 1)
                   \o SubSeq(dash.open.panels, k + 1, Len(dash.open.panels))
    OBVIOUS
  <2> PICK d : d = [dash EXCEPT !.open.panels = s, !.open.edited = TRUE]
    OBVIOUS
  <2>1. s \in Layouts
    BY <1>1, <1>11, SignalsMade, LayoutsMade DEF RemovePanel
  <2>2. d \in DashSignals
    BY <1>1, <2>1 DEF DashSignals, OpenDash
  <2>3. DashOnly(d)
    BY <1>11 DEF RemovePanel
  <2> QED BY <1>6, <1>11, <2>2, <2>3 DEF RemovePanel
<1>12. CASE Save
  <2> PICK b : b = [id |-> dash.open.id, panels |-> dash.open.panels]
    OBVIOUS
  <2>1. IsDashboard(b)
    BY <1>1, <1>12, SignalsMade DEF Save, IsOpen, IsDashboard
  <2> QED BY <1>1, <1>5, <1>12, <2>1, DashRequests, SignalsMade, DashOnlyTypes DEF Save
<1>13. CASE AskDelete
  BY <1>1, <1>6, <1>13, SignalsMade DEF AskDelete
<1>14. CASE ConfirmDelete
  BY <1>1, <1>5, <1>14, DashRequests, SignalsMade, DashOnlyTypes DEF ConfirmDelete
<1>15. CASE CancelDash
  BY <1>1, <1>6, <1>15, SignalsMade DEF CancelDash
<1>16. ASSUME NEW i \in DashIds, SomebodyChangesADashboard(i) PROVE DashState'
  <2>1. NetTyped' /\ page' = page /\ Waiting("create")' = Waiting("create")
    BY <1>4, <1>16 DEF SomebodyChangesADashboard
  <2>2. ASSUME NEW p \in Panels, UpdateDashboard(i, <<p>>) PROVE DashState'
    BY <2>1, <2>2, LayoutsMade, UpdateTypes, DashQuiet
  <2>3. ASSUME DeleteDashboard(i) PROVE DashState'
    BY <2>1, <2>3, DeleteTypes, DashQuiet
  <2>4. ASSUME IdLeft, InsertDashboard(<<>>) PROVE DashState'
    <3>1. nextDash \in Nat /\ MaxDash \in Nat /\ nextDash + Cardinality(Waiting("create")) <= MaxDash
          /\ nextDash + Cardinality(Waiting("create")) <= MaxDash + 1
      BY <2>4, DashBounds DEF IdLeft, Waiting, DashTyped, DashLeft
    <3>2. nextDash' = nextDash + 1
      BY <2>4 DEF InsertDashboard
    <3>3. nextDash' + Cardinality(Waiting("create")') <= MaxDash + 1 /\ nextDash <= MaxDash
      BY <2>1, <3>1, <3>2, IdsLast
    <3>4. DashTyped'
      BY <2>4, <3>3, LayoutsMade, InsertTypes
    <3> QED BY <2>1, <3>3, <3>4 DEF DashLeft
  <2> QED BY <1>16, <2>2, <2>3, <2>4 DEF SomebodyChangesADashboard
<1> QED BY <1>7, <1>8, <1>9, <1>10, <1>11, <1>12, <1>13, <1>14, <1>15, <1>16 DEF DashUser

LEMMA DashServesTypes ==
    ASSUME DashState, NEW n, DashServes(n)
    PROVE  DashState'
<1> USE DEF DashState
<1>1. n \in DOMAIN calls /\ CallTyped(page, calls[n]) /\ DashCall(calls[n]) /\ page \notin Asking
  <2>1. n \in DOMAIN calls
    BY DEF DashServes, list_dashboards, get_dashboard, create_dashboard, update_dashboard,
       delete_dashboard, At
  <2> QED BY <2>1 DEF NetTyped, CallTyped, Asking
<1>2. ASSUME NEW got, Fits(calls[n], got), Answer(n, got)
      PROVE  NetTyped' /\ page' = page /\ Waiting("create")' \subseteq Waiting("create")
  BY <1>1, <1>2, AnswerTypes DEF Answer, Handle
<1>3. ASSUME Refuse(n)
      PROVE  NetTyped' /\ page' = page /\ Waiting("create")' \subseteq Waiting("create")
  BY <1>1, <1>3, RefuseTypes DEF Refuse, Handle
<1>4. ASSUME NEW body, calls[n].to # "update_rule", calls[n].to = "save" => IsDashboard(body),
             GoOn(n, "read", body)
      PROVE  /\ NetTyped' /\ page' = page /\ Waiting("create")' \subseteq Waiting("create")
             /\ n \notin Waiting("create")'
  BY <1>1, <1>4, GoOnTypes DEF GoOn, Handle
<1>5. \A i \in DOMAIN stored : IsDashboard([id |-> i, panels |-> stored[i]])
  BY TableIs DEF DashTyped, DashTables, IsDashboard
<1>6. CASE list_dashboards(n)
  <2>1. Fits(calls[n], DOMAIN stored)
    BY <1>6, TableIs DEF list_dashboards, At, Fits, DashTyped, DashTables
  <2> QED BY <1>2, <1>6, <2>1, DashStays, DashQuiet DEF list_dashboards, TableUnchanged
<1>7. CASE get_dashboard(n)
  <2> PICK i : i = IF calls[n].to = "save" THEN calls[n].body.id ELSE calls[n].body
    OBVIOUS
  <2>1. IF i \in DOMAIN stored THEN Answer(n, [id |-> i, panels |-> stored[i]]) ELSE Refuse(n)
    BY <1>7 DEF get_dashboard
  <2>2. i \in DOMAIN stored => Fits(calls[n], [id |-> i, panels |-> stored[i]])
    BY <1>5, <1>7 DEF get_dashboard, At, Fits
  <2>3. DashTyped' /\ nextDash' = nextDash
    BY <1>7, DashStays DEF get_dashboard, TableUnchanged
  <2> QED BY <1>2, <1>3, <2>1, <2>2, <2>3, DashQuiet
<1>8. CASE create_dashboard(n)
  <2>1. At(n, "create", "sent") /\ calls[n].body = <<>>
    BY <1>1, <1>8 DEF create_dashboard, At, DashCall
  <2>2. /\ NetTyped' /\ page' = page /\ Waiting("create")' \subseteq Waiting("create")
        /\ n \notin Waiting("create")' /\ n \in Waiting("create")
    BY <1>1, <1>4, <1>8, <2>1 DEF create_dashboard, At, Waiting
  <2>3. /\ nextDash \in Nat /\ MaxDash \in Nat
        /\ nextDash + Cardinality(Waiting("create")) <= MaxDash + 1
    BY DashBounds DEF DashTyped, DashLeft
  <2>4. nextDash' = nextDash + 1
    BY <1>8 DEF create_dashboard, InsertDashboard
  <2>5. nextDash' + Cardinality(Waiting("create")') <= MaxDash + 1 /\ nextDash <= MaxDash
    BY <2>2, <2>3, <2>4, IdsLast
  <2>6. DashTyped'
    BY <1>8, <2>1, <2>5, LayoutsMade, InsertTypes DEF create_dashboard
  <2> QED BY <2>2, <2>5, <2>6 DEF DashLeft
<1>9. CASE update_dashboard(n)
  <2> PICK b : b = calls[n].body
    OBVIOUS
  <2>1. calls[n].to = "save" /\ IsDashboard(b)
    BY <1>1, <1>9 DEF update_dashboard, At, DashCall
  <2>2. DashTyped' /\ nextDash' = nextDash
    BY <1>9, <2>1, UpdateTypes DEF update_dashboard, IsDashboard
  <2>3. GoOn(n, "read", b) \/ Refuse(n)
    BY <1>9 DEF update_dashboard
  <2> QED BY <1>3, <1>4, <2>1, <2>2, <2>3, DashQuiet
<1>10. CASE delete_dashboard(n)
  <2>1. DashTyped' /\ nextDash' = nextDash
    BY <1>10, DeleteTypes DEF delete_dashboard
  <2>2. (Answer(n, Nothing) /\ Fits(calls[n], Nothing)) \/ Refuse(n)
    BY <1>1, <1>10 DEF delete_dashboard, Fits, At
  <2> QED BY <1>2, <1>3, <2>1, <2>2, DashQuiet
<1> QED BY <1>6, <1>7, <1>8, <1>9, <1>10 DEF DashServes

LEMMA DashHearsTypes ==
    ASSUME DashState, NEW n, DashHears(n)
    PROVE  DashState'
<1> USE DEF DashState
<1>1. n \in DOMAIN calls /\ DashCall(calls[n])
  <2>1. n \in DOMAIN calls
    BY DEF DashHears, GotList, GotDashboard, GotCreated, GotSaved, GotDeleted, At
  <2> QED BY <2>1 DEF NetTyped, CallTyped
<1>2. dash \in DashSignals
  BY DEF DashTyped
<1>3. ASSUME NEW rs, FreshTyped(rs), Arrived("create", rs) = {}, Receive(n, rs)
      PROVE  NetTyped' /\ page' = page /\ Waiting("create")' \subseteq Waiting("create")
  BY <1>1, <1>3, ReceiveTypes DEF Receive
<1>4. ASSUME NEW rs, FreshTyped(rs), Arrived("create", rs) = {}, Receive(n, rs),
             DashTyped', nextDash' = nextDash
      PROVE  DashState'
  BY <1>3, <1>4, DashQuiet
<1>5. ASSUME Receive(n, <<>>), DashTyped', nextDash' = nextDash PROVE DashState'
  BY <1>4, <1>5, FreshTypedIs, OneArrives
<1>6. ASSUME Receive(n, <<ListDashboards>>), DashTyped', nextDash' = nextDash PROVE DashState'
  <2>1. FreshTyped(<<ListDashboards>>) /\ Arrived("create", <<ListDashboards>>) = {}
    BY DashRequests, FreshTypedIs, OneArrives
  <2> QED BY <1>4, <1>6, <2>1
<1>7. CASE GotList(n)
  <2> PICK d : d = IF calls[n].ok THEN [dash EXCEPT !.list = calls[n].got[1], !.loading = FALSE]
                   ELSE [dash EXCEPT !.failed = TRUE, !.loading = FALSE]
    OBVIOUS
  <2>1. d \in DashSignals
    BY <1>1, <1>2, <1>7, SignalsMade DEF GotList, At, DashCall
  <2> QED BY <1>5, <1>7, <2>1, DashOnlyTypes DEF GotList
<1>8. CASE GotDashboard(n)
  <2> PICK d : d = IF calls[n].ok THEN [dash EXCEPT !.open = Shown(calls[n].got[1])] ELSE dash
    OBVIOUS
  <2>1. d \in DashSignals
    BY <1>1, <1>2, <1>8, SignalsMade, OpensMade DEF GotDashboard, At, DashCall
  <2> QED BY <1>5, <1>8, <2>1, DashOnlyTypes DEF GotDashboard
<1>9. CASE GotCreated(n)
  <2>1. CASE calls[n].ok
    <3> PICK r : r = GetJson("dashboard", calls[n].got[1].id)
      OBVIOUS
    <3>1. Fresh(r) /\ CallTyped("dashboards", r) /\ r.to # "create"
      BY DashRequests
    <3>2. FreshTyped(<<ListDashboards, r>>) /\ Arrived("create", <<ListDashboards, r>>) = {}
      BY <3>1, DashRequests, FreshTypedIs, OneArrives
    <3>3. Receive(n, <<ListDashboards, r>>) /\ DashOnly(Loading(dash))
      BY <1>9, <2>1 DEF GotCreated
    <3> QED BY <1>2, <1>4, <3>2, <3>3, SignalsMade, DashOnlyTypes
  <2>2. CASE ~calls[n].ok
    BY <1>2, <1>5, <1>9, <2>2, DashOnlyTypes DEF GotCreated
  <2> QED BY <2>1, <2>2
<1>10. CASE GotSaved(n)
  <2>1. CASE calls[n].ok
    <3> PICK d : d = [Loading(dash) EXCEPT !.saving = FALSE, !.open = Shown(calls[n].got[1])]
      OBVIOUS
    <3>1. IsDashboard(calls[n].got[1]) /\ IsDashboard(calls[n].body)
      BY <1>1, <1>10, <2>1 DEF GotSaved, At, DashCall
    <3>2. Loading(dash) \in DashSignals /\ Shown(calls[n].got[1]) \in OpenDash
      BY <1>2, <3>1, SignalsMade, OpensMade
    <3>3. d \in DashSignals
      BY <3>2 DEF DashSignals
    <3>4. With(kept, calls[n].body.id, calls[n].body.panels) \in DashTables
      BY <3>1, TableWith DEF DashTyped, DashTables, IsDashboard
    <3>5. DashTyped' /\ nextDash' = nextDash
      BY <1>10, <2>1, <3>3, <3>4 DEF GotSaved, DashTyped
    <3> QED BY <1>6, <1>10, <2>1, <3>5 DEF GotSaved
  <2>2. CASE ~calls[n].ok
    BY <1>2, <1>5, <1>10, <2>2, SignalsMade, DashOnlyTypes DEF GotSaved
  <2> QED BY <2>1, <2>2
<1>11. CASE GotDeleted(n)
  <2>1. CASE calls[n].ok
    <3>1. [Loading(dash) EXCEPT !.open = Closed] \in DashSignals
      BY <1>2, SignalsMade, OpensMade
    <3> QED BY <1>6, <1>11, <2>1, <3>1, DashOnlyTypes DEF GotDeleted
  <2>2. CASE ~calls[n].ok
    BY <1>2, <1>5, <1>11, <2>2, DashOnlyTypes DEF GotDeleted
  <2> QED BY <2>1, <2>2
<1> QED BY <1>7, <1>8, <1>9, <1>10, <1>11 DEF DashHears

-----------------------------------------------------------------------------
(* The types of the alerts page.                                             *)

FormFields == [Kinds -> RuleIds \cup {0}]
DeskSignals == [rules : RuleTables, active : SUBSET RuleIds, loading : BOOLEAN,
                dialog : {"none", "form", "delete"}, form : FormFields,
                editId : RuleIds \cup {0}, submitting : BOOLEAN,
                deleteId : RuleIds \cup {0}, deleting : BOOLEAN]

DeskTyped ==
    /\ ruleTable \in Tables(RuleIds, AlertRule)
    /\ nextRule \in Nat /\ nextRule >= 1 /\ nextRule <= MaxRules + 1
    /\ \A i \in DOMAIN ruleTable : i < nextRule
    /\ alarms \subseteq DOMAIN ruleTable
    /\ desk \in DeskSignals

LEMMA RuleTablesAre == RuleTables = Tables(RuleIds, AlertRule)
BY DEF RuleTables, Tables

LEMMA DeskTypedIs == AlertsTypeOK <=> DeskTyped
<1>1. MaxRules \in Nat
  BY RuleBound
<1>2. ruleTable \in Tables(RuleIds, AlertRule) => DOMAIN ruleTable \subseteq RuleIds
  BY TableIs
<1>3. nextRule \in 1..MaxRules + 1 <=> nextRule \in Nat /\ nextRule >= 1 /\ nextRule <= MaxRules + 1
  BY <1>1
<1>4. ASSUME nextRule \in Nat, DOMAIN ruleTable \subseteq RuleIds
      PROVE  DOMAIN ruleTable \subseteq 1..nextRule - 1 <=> \A i \in DOMAIN ruleTable : i < nextRule
  <2>1. \A i \in RuleIds : i \in Nat /\ i >= 1
    BY <1>1 DEF RuleIds
  <2>2. \A i \in RuleIds : i \in 1..nextRule - 1 <=> i < nextRule
    BY <1>4, <2>1
  <2> QED BY <1>4, <2>2
<1> QED BY <1>2, <1>3, <1>4, RuleTablesAre DEF AlertsTypeOK, DeskTyped, DeskSignals, FormFields

DeskLeft == page = "alerts" => nextRule + Cardinality(Waiting("create_rule")) <= MaxRules + 1

DeskState == NetTyped /\ DeskTyped /\ DeskLeft /\ page = "alerts"

LEMMA DeskOnlyTypes ==
    ASSUME DeskTyped, NEW d \in DeskSignals, DeskOnly(d)
    PROVE  DeskTyped' /\ nextRule' = nextRule
BY DEF DeskTyped, DeskOnly

LEMMA DeskStays ==
    ASSUME DeskTyped, UNCHANGED alertVars
    PROVE  DeskTyped' /\ nextRule' = nextRule
BY DEF DeskTyped, alertVars

LEMMA InsertRuleTypes ==
    ASSUME DeskTyped, NEW r \in AlertRule, InsertRule(r), nextRule <= MaxRules
    PROVE  DeskTyped' /\ nextRule' = nextRule + 1
<1>1. MaxRules \in Nat /\ nextRule \in Nat /\ nextRule >= 1
  BY RuleBound DEF DeskTyped
<1>2. nextRule \in RuleIds
  BY <1>1 DEF RuleIds
<1>3. ruleTable' \in Tables(RuleIds, AlertRule) /\ DOMAIN ruleTable' = DOMAIN ruleTable \cup {nextRule}
  <2>1. ruleTable \in Tables(RuleIds, AlertRule) /\ ruleTable' = With(ruleTable, nextRule, r)
    BY DEF DeskTyped, InsertRule
  <2>2. With(ruleTable, nextRule, r) \in Tables(RuleIds, AlertRule)
    BY <1>2, <2>1, TableWith
  <2>3. DOMAIN With(ruleTable, nextRule, r) = DOMAIN ruleTable \cup {nextRule}
    BY DEF With
  <2> QED BY <2>1, <2>2, <2>3
<1>4. \A i \in DOMAIN ruleTable : i \in Nat /\ i < nextRule
  <2>1. \A i \in DOMAIN ruleTable : i \in RuleIds /\ i < nextRule
    BY TableIs DEF DeskTyped
  <2> QED BY <1>1, <2>1 DEF RuleIds
<1>5. \A i \in DOMAIN ruleTable' : i < nextRule + 1
  BY <1>1, <1>3, <1>4
<1>6. nextRule' = nextRule + 1 /\ nextRule' \in Nat /\ nextRule' >= 1 /\ nextRule' <= MaxRules + 1
  BY <1>1 DEF InsertRule
<1> QED BY <1>3, <1>5, <1>6 DEF DeskTyped, InsertRule

\* The row i is written again.
LEMMA RewriteRuleTypes ==
    ASSUME DeskTyped, NEW i \in DOMAIN ruleTable, NEW c \in RuleConfig,
           ruleTable' = With(ruleTable, i, [ruleTable[i] EXCEPT !.config = c]),
           UNCHANGED <<nextRule, alarms, desk>>
    PROVE  DeskTyped'
<1>1. i \in RuleIds /\ ruleTable[i] \in AlertRule
  BY TableIs DEF DeskTyped
<1>2. [ruleTable[i] EXCEPT !.config = c] \in AlertRule
  BY <1>1 DEF AlertRule
<1>3. ruleTable' \in Tables(RuleIds, AlertRule) /\ DOMAIN ruleTable' = DOMAIN ruleTable \cup {i}
  <2> PICK r : r = [ruleTable[i] EXCEPT !.config = c]
    OBVIOUS
  <2>1. ruleTable \in Tables(RuleIds, AlertRule) /\ ruleTable' = With(ruleTable, i, r)
    BY DEF DeskTyped
  <2>2. With(ruleTable, i, r) \in Tables(RuleIds, AlertRule)
    BY <1>1, <1>2, <2>1, TableWith
  <2>3. DOMAIN With(ruleTable, i, r) = DOMAIN ruleTable \cup {i}
    BY DEF With
  <2> QED BY <2>1, <2>2, <2>3
<1> QED BY <1>3 DEF DeskTyped

LEMMA DeleteRowTypes ==
    ASSUME DeskTyped, NEW i, DeleteRow(i)
    PROVE  DeskTyped' /\ nextRule' = nextRule
<1>1. ruleTable' \in Tables(RuleIds, AlertRule) /\ DOMAIN ruleTable' = DOMAIN ruleTable \ {i}
  BY TableWithout DEF DeleteRow, DeskTyped
<1> QED BY <1>1 DEF DeskTyped, DeleteRow

\* A step that neither asks for an id nor takes one.
LEMMA DeskQuiet ==
    ASSUME DeskState, NetTyped', DeskTyped', nextRule' = nextRule, page' = page,
           Waiting("create_rule")' \subseteq Waiting("create_rule")
    PROVE  DeskState'
<1>1. /\ nextRule \in Nat /\ MaxRules \in Nat
      /\ nextRule + Cardinality(Waiting("create_rule")) <= MaxRules + 1
  BY RuleBound DEF DeskState, DeskTyped, DeskLeft
<1>2. nextRule' + Cardinality(Waiting("create_rule")') <= MaxRules + 1
  BY <1>1, IdsLast DEF DeskState
<1> QED BY <1>2 DEF DeskState, DeskLeft

LEMMA DeskSignalsMade ==
    ASSUME NEW d \in DeskSignals
    PROVE  /\ Reloading(d) \in DeskSignals
           /\ \A b \in BOOLEAN : [d EXCEPT !.submitting = b] \in DeskSignals
                                 /\ [d EXCEPT !.deleting = b] \in DeskSignals
           /\ [d EXCEPT !.dialog = "none"] \in DeskSignals
           /\ \A i \in RuleIds \cup {0}, f \in FormFields :
                 /\ [d EXCEPT !.dialog = "form", !.form = f, !.editId = i] \in DeskSignals
                 /\ [d EXCEPT !.dialog = "form", !.editId = i, !.form = f] \in DeskSignals
           /\ \A i \in RuleIds : [d EXCEPT !.dialog = "delete", !.deleteId = i] \in DeskSignals
           /\ \A t \in RuleTables : [d EXCEPT !.rules = t] \in DeskSignals
           /\ \A a \in SUBSET RuleIds : [d EXCEPT !.loading = FALSE, !.active = a] \in DeskSignals
           /\ DOMAIN d.rules \subseteq RuleIds
<1>1. DOMAIN d.rules \subseteq RuleIds
  BY RuleTablesAre, TableIs DEF DeskSignals
<1> QED BY <1>1 DEF DeskSignals, Reloading

LEMMA DeskRequests ==
    /\ Fresh(ListRules) /\ CallTyped("alerts", ListRules) /\ ListRules.to # "create_rule"
    /\ LET r == GetJson("active", Nothing) IN
          Fresh(r) /\ CallTyped("alerts", r) /\ r.to # "create_rule"
    /\ \A i : LET r == DeleteReq("delete_rule", i) IN
                 Fresh(r) /\ CallTyped("alerts", r) /\ r.to # "create_rule"
    /\ \A b : b.kind \in Kinds /\ b.config \in RuleConfig =>
          LET r == SendJson("create_rule", b) IN Fresh(r) /\ CallTyped("alerts", r)
    /\ \A b : b.config \in RuleConfig =>
          LET r == SendJson("update_rule", b) IN
          Fresh(r) /\ CallTyped("alerts", r) /\ r.to # "create_rule"
<1>1. ASSUME NEW to \in {"rules", "active", "create_rule", "update_rule", "delete_rule"}, NEW b,
             to = "create_rule" => b.kind \in Kinds,
             to \in {"create_rule", "update_rule"} => b.config \in RuleConfig
      PROVE  Fresh(GetJson(to, b)) /\ CallTyped("alerts", GetJson(to, b)) /\ GetJson(to, b).to = to
  <2> PICK r : r = GetJson(to, b)
    OBVIOUS
  <2>1. Fresh(r) /\ r.to = to /\ r.body = b
    BY GetJsonIsFresh
  <2>2. CallTyped("alerts", r)
    BY <1>1, <2>1 DEF CallTyped, DeskCall, Fresh, Asking
  <2> QED BY <2>1, <2>2
<1> QED BY <1>1 DEF ListRules, SendJson, DeleteReq

LEMMA DeskUserTypes ==
    ASSUME DeskState, AlertsUser
    PROVE  DeskState'
<1> USE DEF DeskState
<1>1. desk \in DeskSignals /\ sent \in Nat
  BY DEF DeskTyped, NetTyped
<1>2. ASSUME NEW r, Fresh(r), CallTyped("alerts", r), Send(<<r>>)
      PROVE  /\ NetTyped' /\ page' = page
             /\ Waiting("create_rule")' \subseteq Waiting("create_rule") \cup {sent + 1}
             /\ r.to # "create_rule" => Waiting("create_rule")' \subseteq Waiting("create_rule")
  <2>1. FreshTyped(<<r>>)
    BY <1>2, FreshTypedIs
  <2>2. NetTyped' /\ Waiting("create_rule")' \subseteq Waiting("create_rule") \cup Arrived("create_rule", <<r>>)
    BY <1>2, <2>1, SendTypes
  <2> QED BY <1>2, <2>2, OneArrives DEF Send
<1>3. ASSUME Local
      PROVE  NetTyped' /\ page' = page /\ Waiting("create_rule")' = Waiting("create_rule")
  BY <1>3 DEF Local, net, NetTyped, Waiting, At
<1>4. ASSUME SomebodyElse
      PROVE  NetTyped' /\ page' = page /\ Waiting("create_rule")' = Waiting("create_rule")
  BY <1>4 DEF SomebodyElse, NetTyped, Waiting, At
<1>5. ASSUME NEW r, Fresh(r), CallTyped("alerts", r), r.to # "create_rule", Send(<<r>>),
             NEW d \in DeskSignals, DeskOnly(d)
      PROVE  DeskState'
  BY <1>2, <1>5, DeskOnlyTypes, DeskQuiet
<1>6. ASSUME Local, NEW d \in DeskSignals, DeskOnly(d) PROVE DeskState'
  BY <1>3, <1>6, DeskOnlyTypes, DeskQuiet
<1>7. CASE AlertsToken
  BY <1>1, <1>5, <1>7, DeskRequests, DeskSignalsMade DEF AlertsToken
<1>8. CASE open_new
  <2>1. EmptyForm \in FormFields
    BY DEF EmptyForm, FormFields
  <2>2. [desk EXCEPT !.dialog = "form", !.form = EmptyForm, !.editId = 0] \in DeskSignals
    BY <1>1, <2>1, DeskSignalsMade
  <2> QED BY <1>6, <1>8, <2>2 DEF open_new
<1>9. CASE CloseDialog
  BY <1>1, <1>6, <1>9, DeskSignalsMade DEF CloseDialog
<1>10. CASE do_delete
  BY <1>1, <1>5, <1>10, DeskRequests, DeskSignalsMade DEF do_delete
<1>11. ASSUME NEW i \in RuleIds, open_edit(i) \/ open_delete(i) PROVE DeskState'
  <2> PICK f : f = load(desk.form, i, desk.rules[i].kind)
    OBVIOUS
  <2>1. f \in FormFields
    BY <1>1 DEF DeskSignals, FormFields, load
  <2>2. /\ [desk EXCEPT !.dialog = "form", !.editId = i, !.form = f] \in DeskSignals
        /\ [desk EXCEPT !.dialog = "delete", !.deleteId = i] \in DeskSignals
    BY <1>1, <2>1, DeskSignalsMade
  <2> QED BY <1>6, <1>11, <2>2 DEF open_edit, open_delete
<1>12. ASSUME NEW i \in RuleIds, SomebodyTouchesARule(i) PROVE DeskState'
  <2>1. NetTyped' /\ page' = page /\ Waiting("create_rule")' = Waiting("create_rule")
    BY <1>4, <1>12 DEF SomebodyTouchesARule
  <2>2. ASSUME alarms' = (alarms \ {i}) \cup ({i} \ alarms), i \in DOMAIN ruleTable,
               UNCHANGED <<ruleTable, nextRule, desk>>
        PROVE  DeskTyped' /\ nextRule' = nextRule
    BY <2>2 DEF DeskTyped
  <2>3. DeskTyped' /\ nextRule' = nextRule
    BY <1>12, <2>2, DeleteRowTypes DEF SomebodyTouchesARule
  <2> QED BY <2>1, <2>3, DeskQuiet
<1>13. ASSUME NEW kind \in Kinds, NEW cmp \in {"gt", "lt"}, NEW agg \in {"avg", "count"},
              on_submit(kind, cmp, agg)
       PROVE  DeskState'
  <2>1. [desk EXCEPT !.submitting = TRUE] \in DeskSignals
        /\ DeskOnly([desk EXCEPT !.submitting = TRUE])
    BY <1>1, <1>13, DeskSignalsMade DEF on_submit
  <2>2. CASE desk.editId = 0
    <3> PICK b : b = to_create_body(kind, cmp, agg, desk.form)
      OBVIOUS
    <3> PICK r : r = SendJson("create_rule", b)
      OBVIOUS
    <3>1. b.kind \in Kinds /\ b.config \in RuleConfig
      BY DEF to_create_body, build_config, RuleConfig
    <3>2. Fresh(r) /\ CallTyped("alerts", r)
      BY <3>1, DeskRequests
    <3>3. Send(<<r>>) /\ RuleIdLeft
      BY <1>13, <2>2 DEF on_submit
    <3>4. /\ NetTyped' /\ page' = page
          /\ Waiting("create_rule")' \subseteq Waiting("create_rule") \cup {sent + 1}
      BY <1>2, <3>2, <3>3
    <3>5. DeskTyped' /\ nextRule' = nextRule
      BY <2>1, DeskOnlyTypes
    <3>6. nextRule \in Nat /\ MaxRules \in Nat /\ nextRule + Cardinality(Waiting("create_rule")) <= MaxRules
          /\ nextRule + Cardinality(Waiting("create_rule")) <= MaxRules + 1
      BY <3>3, RuleBound DEF RuleIdLeft, Waiting, DeskTyped, DeskLeft
    <3>7. nextRule' + Cardinality(Waiting("create_rule")') <= MaxRules + 1
      BY <3>4, <3>5, <3>6, IdsLast
    <3> QED BY <3>4, <3>5, <3>7 DEF DeskLeft
  <2>3. CASE desk.editId # 0
    <3> PICK b : b = to_update_body(desk.editId, kind, cmp, agg, desk.form)
      OBVIOUS
    <3>1. b.config \in RuleConfig
      BY DEF to_update_body, build_config, RuleConfig
    <3>2. Send(<<SendJson("update_rule", b)>>)
      BY <1>13, <2>3 DEF on_submit
    <3> QED BY <1>5, <2>1, <3>1, <3>2, DeskRequests
  <2> QED BY <2>2, <2>3
<1> QED BY <1>7, <1>8, <1>9, <1>10, <1>11, <1>12, <1>13 DEF AlertsUser

LEMMA DeskServesTypes ==
    ASSUME DeskState, NEW n, AlertsServes(n)
    PROVE  DeskState'
<1> USE DEF DeskState
<1>1. n \in DOMAIN calls /\ DeskCall(calls[n]) /\ page \notin Asking
  <2>1. n \in DOMAIN calls
    BY DEF AlertsServes, list_rules, list_active_alerts, create_rule, update_rule, UpdateRow,
       load_rule, delete_rule, At
  <2> QED BY <2>1 DEF NetTyped, CallTyped, Asking
<1>2. ASSUME NEW got, Fits(calls[n], got), Answer(n, got)
      PROVE  NetTyped' /\ page' = page /\ Waiting("create_rule")' \subseteq Waiting("create_rule")
  BY <1>1, <1>2, AnswerTypes DEF Answer, Handle
<1>3. ASSUME Refuse(n)
      PROVE  NetTyped' /\ page' = page /\ Waiting("create_rule")' \subseteq Waiting("create_rule")
  BY <1>1, <1>3, RefuseTypes DEF Refuse, Handle
<1>4. ASSUME NEW step \in {"write", "read"}, NEW body, calls[n].to # "save",
             calls[n].to = "update_rule" => body.config \in RuleConfig, GoOn(n, step, body)
      PROVE  /\ NetTyped' /\ page' = page /\ Waiting("create_rule")' \subseteq Waiting("create_rule")
             /\ n \notin Waiting("create_rule")'
  BY <1>1, <1>4, GoOnTypes DEF GoOn, Handle
<1>5. ASSUME UNCHANGED alertVars, NEW got, Fits(calls[n], got), Answer(n, got) \/ Refuse(n)
      PROVE  DeskState'
  BY <1>2, <1>3, <1>5, DeskStays, DeskQuiet
<1>6. CASE list_rules(n)
  <2>1. Fits(calls[n], ruleTable)
    BY <1>6, RuleTablesAre DEF list_rules, At, Fits, DeskTyped
  <2> QED BY <1>5, <1>6, <2>1 DEF list_rules
<1>7. CASE list_active_alerts(n)
  <2>1. alarms \subseteq RuleIds
    BY TableIs DEF DeskTyped
  <2>2. Fits(calls[n], alarms)
    BY <1>7, <2>1 DEF list_active_alerts, At, Fits
  <2> QED BY <1>5, <1>7, <2>2 DEF list_active_alerts
<1>8. CASE create_rule(n)
  <2> PICK b : b = calls[n].body
    OBVIOUS
  <2>1. /\ calls[n].to = "create_rule" /\ n \in Waiting("create_rule")
        /\ b.kind \in Kinds /\ b.config \in RuleConfig
    BY <1>1, <1>8 DEF create_rule, At, DeskCall, Waiting
  <2>2. CASE validate_rule(b.kind, b.config)
    <3> PICK r : r = [kind |-> b.kind, config |-> b.config]
      OBVIOUS
    <3> PICK c : c = [b EXCEPT !.id = nextRule]
      OBVIOUS
    <3>1. r \in AlertRule
      BY <2>1 DEF AlertRule
    <3>2. InsertRule(r) /\ GoOn(n, "read", c)
      BY <1>8, <2>2 DEF create_rule
    <3>3. /\ NetTyped' /\ page' = page /\ Waiting("create_rule")' \subseteq Waiting("create_rule")
          /\ n \notin Waiting("create_rule")'
      BY <1>4, <2>1, <3>2
    <3>4. /\ nextRule \in Nat /\ MaxRules \in Nat
          /\ nextRule + Cardinality(Waiting("create_rule")) <= MaxRules + 1
      BY RuleBound DEF DeskTyped, DeskLeft
    <3>5. nextRule' = nextRule + 1
      BY <3>2 DEF InsertRule
    <3>6. nextRule' + Cardinality(Waiting("create_rule")') <= MaxRules + 1 /\ nextRule <= MaxRules
      BY <2>1, <3>3, <3>4, <3>5, IdsLast
    <3>7. DeskTyped'
      BY <3>1, <3>2, <3>6, InsertRuleTypes
    <3> QED BY <3>3, <3>6, <3>7 DEF DeskLeft
  <2>3. CASE ~validate_rule(b.kind, b.config)
    BY <1>3, <1>8, <2>3, DeskStays, DeskQuiet DEF create_rule
  <2> QED BY <2>2, <2>3
<1>9. CASE update_rule(n)
  <2> PICK b : b = calls[n].body
    OBVIOUS
  <2>1. calls[n].to = "update_rule" /\ b.config \in RuleConfig
    BY <1>1, <1>9 DEF update_rule, At, DeskCall
  <2>2. GoOn(n, "write", b) \/ Refuse(n)
    BY <1>9 DEF update_rule
  <2>3. DeskTyped' /\ nextRule' = nextRule
    BY <1>9, DeskStays DEF update_rule
  <2> QED BY <1>3, <1>4, <2>1, <2>2, <2>3, DeskQuiet
<1>10. CASE UpdateRow(n)
  <2> PICK b : b = calls[n].body
    OBVIOUS
  <2>1. calls[n].to = "update_rule" /\ b.config \in RuleConfig
    BY <1>1, <1>10 DEF UpdateRow, At, DeskCall
  <2>2. CASE b.id \in DOMAIN ruleTable
    <3>1. /\ ruleTable' = With(ruleTable, b.id, [ruleTable[b.id] EXCEPT !.config = b.config])
          /\ GoOn(n, "read", b)
          /\ UNCHANGED <<nextRule, alarms, desk>>
      BY <1>10, <2>2 DEF UpdateRow
    <3>2. DeskTyped' /\ nextRule' = nextRule
      BY <2>1, <2>2, <3>1, RewriteRuleTypes
    <3> QED BY <1>4, <2>1, <3>1, <3>2, DeskQuiet
  <2>3. CASE b.id \notin DOMAIN ruleTable
    BY <1>3, <1>10, <2>3, DeskStays, DeskQuiet DEF UpdateRow
  <2> QED BY <2>2, <2>3
<1>11. CASE load_rule(n)
  <2>1. Fits(calls[n], Nothing)
    BY <1>1, <1>11 DEF load_rule, At, Fits
  <2> QED BY <1>5, <1>11, <2>1 DEF load_rule
<1>12. CASE delete_rule(n)
  <2>1. Fits(calls[n], Nothing)
    BY <1>1, <1>12 DEF delete_rule, At, Fits
  <2>2. DeskTyped' /\ nextRule' = nextRule
    BY <1>12, DeleteRowTypes DEF delete_rule
  <2>3. Answer(n, Nothing) \/ Refuse(n)
    BY <1>12 DEF delete_rule
  <2> QED BY <1>2, <1>3, <2>1, <2>2, <2>3, DeskQuiet
<1> QED BY <1>6, <1>7, <1>8, <1>9, <1>10, <1>11, <1>12 DEF AlertsServes

LEMMA DeskHearsTypes ==
    ASSUME DeskState, NEW n, AlertsHears(n)
    PROVE  DeskState'
<1> USE DEF DeskState
<1>1. n \in DOMAIN calls /\ DeskCall(calls[n])
  <2>1. n \in DOMAIN calls
    BY DEF AlertsHears, GotRules, GotActive, GotSubmitted, GotRuleDeleted, At
  <2> QED BY <2>1 DEF NetTyped, CallTyped
<1>2. desk \in DeskSignals
  BY DEF DeskTyped
<1>3. ASSUME NEW rs, FreshTyped(rs), Arrived("create_rule", rs) = {}, Receive(n, rs),
             NEW d \in DeskSignals, DeskOnly(d)
      PROVE  DeskState'
  <2>1. NetTyped' /\ page' = page /\ Waiting("create_rule")' \subseteq Waiting("create_rule")
    BY <1>1, <1>3, ReceiveTypes DEF Receive
  <2> QED BY <1>3, <2>1, DeskOnlyTypes, DeskQuiet
<1>4. FreshTyped(<<>>) /\ Arrived("create_rule", <<>>) = {}
  BY FreshTypedIs, OneArrives
<1>5. ASSUME NEW r, Fresh(r), CallTyped("alerts", r), r.to # "create_rule"
      PROVE  FreshTyped(<<r>>) /\ Arrived("create_rule", <<r>>) = {}
  BY <1>5, FreshTypedIs, OneArrives
<1>6. CASE GotRules(n)
  <2> PICK d : d = [desk EXCEPT !.rules = IF calls[n].ok THEN calls[n].got[1] ELSE @]
    OBVIOUS
  <2>1. d \in DeskSignals
    BY <1>1, <1>2, <1>6 DEF GotRules, At, DeskCall, DeskSignals
  <2> QED BY <1>3, <1>5, <1>6, <2>1, DeskRequests DEF GotRules
<1>7. CASE GotActive(n)
  <2> PICK d : d = [desk EXCEPT !.loading = FALSE,
                                !.active = IF calls[n].ok THEN calls[n].got[1] ELSE @]
    OBVIOUS
  <2>1. d \in DeskSignals
    BY <1>1, <1>2, <1>7 DEF GotActive, At, DeskCall, DeskSignals
  <2> QED BY <1>3, <1>4, <1>7, <2>1 DEF GotActive
<1>8. FreshTyped(<<ListRules>>) /\ Arrived("create_rule", <<ListRules>>) = {}
  BY <1>5, DeskRequests
<1>9. CASE GotSubmitted(n)
  <2> PICK d : d = [Reloading(desk) EXCEPT !.submitting = FALSE,
                                           !.dialog = IF @ = "form" THEN "none" ELSE @]
    OBVIOUS
  <2>1. d \in DeskSignals /\ [desk EXCEPT !.submitting = FALSE] \in DeskSignals
    BY <1>2 DEF Reloading, DeskSignals
  <2> QED BY <1>3, <1>4, <1>8, <1>9, <2>1 DEF GotSubmitted
<1>10. CASE GotRuleDeleted(n)
  <2> PICK d : d = [Reloading(desk) EXCEPT !.deleting = FALSE,
                                           !.dialog = IF @ = "delete" THEN "none" ELSE @]
    OBVIOUS
  <2>1. d \in DeskSignals /\ [desk EXCEPT !.deleting = FALSE] \in DeskSignals
    BY <1>2 DEF Reloading, DeskSignals
  <2> QED BY <1>3, <1>4, <1>8, <1>10, <2>1 DEF GotRuleDeleted
<1> QED BY <1>6, <1>7, <1>9, <1>10 DEF AlertsHears

-----------------------------------------------------------------------------
(* The types of the pages that only ask.                                     *)

LookSignals == [required : BOOLEAN, token : Tokens, name : MetricNames \cup {None},
                filter : TraceIds \cup {None}, selected : TraceIds \cup {None}]
BoxSignals == [shown : Maybe(Query), loading : BOOLEAN, err : BOOLEAN, asked : Maybe(Query),
               crossed : BOOLEAN]

QueriesTyped == look \in LookSignals /\ boxes \in [BoxNames -> BoxSignals]

BoxState == NetTyped /\ QueriesTyped /\ page \in Asking

LEMMA NotAsking == "dashboards" \notin Asking /\ "alerts" \notin Asking
BY DEF Asking

LEMMA BoxRequests ==
    ASSUME page \in Asking, NEW to \in BoxNames, NEW q \in Query
    PROVE  Fresh(GetJson(to, q)) /\ CallTyped(page, GetJson(to, q))
<1> PICK r : r = GetJson(to, q)
  OBVIOUS
<1>1. Fresh(r) /\ r.to = to /\ r.body = q
  BY GetJsonIsFresh
<1>2. CallTyped(page, r)
  BY <1>1, NotAsking DEF CallTyped, BoxCall, Fresh
<1> QED BY <1>1, <1>2

\* What is asked when a page opens, or when the token changes.
LEMMA EveryLoad ==
    ASSUME NEW p, NEW l
    PROVE  /\ \A i \in DOMAIN Loads(p, l) :
                 \E to \in BoxNames : Loads(p, l)[i] = GetJson(to, Now(l, None))
           /\ \A i \in DOMAIN Opens(p, l) :
                 \E to \in BoxNames : Opens(p, l)[i] = GetJson(to, Now(l, None))
<1> DEFINE ask(to) == GetJson(to, Now(l, None))
<1> PICK A : A = {ask(to) : to \in BoxNames}
  OBVIOUS
<1>1. \A to \in BoxNames : ask(to) \in A /\ <<ask(to)>> \in Seq(A)
  OBVIOUS
<1>2. <<>> \in Seq(A)
  OBVIOUS
<1>3. /\ ask("health") \in A /\ ask("stats") \in A /\ ask("names") \in A
      /\ ask("series") \in A /\ ask("map") \in A
  BY DEF BoxNames
<1>4. /\ Loads(p, l) \in {<<>>, <<ask("health")>>, <<ask("stats")>>, <<ask("names")>> \o <<>>,
                          <<ask("names")>> \o <<ask("series")>>}
      /\ Opens(p, l) = <<ask("map")>> \/ Opens(p, l) = Loads(p, l)
  BY DEF Loads, Opens
<1> HIDE DEF ask
<1>5. ASSUME NEW r \in A, NEW s \in A PROVE <<r>> \in Seq(A) /\ <<r>> \o <<>> \in Seq(A) /\ <<r>> \o <<s>> \in Seq(A)
  <2>1. <<r>> \in Seq(A) /\ <<s>> \in Seq(A)
    BY <1>5
  <2> QED BY <1>2, <2>1
<1>6. Loads(p, l) \in Seq(A) /\ Opens(p, l) \in Seq(A)
  BY <1>2, <1>3, <1>4, <1>5
<1>7. \A rs \in Seq(A) : \A i \in DOMAIN rs : rs[i] \in A
  OBVIOUS
<1>8. \A r \in A : \E to \in BoxNames : r = ask(to)
  OBVIOUS
<1> QED BY <1>6, <1>7, <1>8 DEF ask

LEMMA LookAsks ==
    ASSUME NEW l \in LookSignals, NEW t \in TraceIds \cup {None}
    PROVE  Now(l, t) \in Query
BY DEF LookSignals, Now, Query

LEMMA LoadsTyped ==
    ASSUME page \in Asking, NEW l \in LookSignals
    PROVE  /\ FreshTyped(Loads(page, l)) /\ FreshTyped(Opens(page, l))
           /\ \A i \in DOMAIN Loads(page, l) : Loads(page, l)[i].body \in Query
           /\ \A i \in DOMAIN Opens(page, l) : Opens(page, l)[i].body \in Query
<1>1. Now(l, None) \in Query
  BY LookAsks
<1>2. \A to \in BoxNames : CallTyped(page, GetJson(to, Now(l, None)))
                           /\ GetJson(to, Now(l, None)).body \in Query
  BY <1>1, BoxRequests, GetJsonIsFresh
<1> QED BY <1>2, EveryLoad, LoadsFresh DEF FreshTyped

LEMMA StartedTyped ==
    ASSUME NEW bs \in [BoxNames -> BoxSignals], NEW rs, \A i \in DOMAIN rs : rs[i].body \in Query
    PROVE  Started(bs, rs) \in [BoxNames -> BoxSignals]
<1>1. ASSUME NEW b \in BoxNames, NEW q \in Query PROVE Begin(bs[b], b, q) \in BoxSignals
  <2>1. <<q>> \in Maybe(Query)
    BY DEF Maybe
  <2>2. bs[b] \in BoxSignals
    OBVIOUS
  <2> QED BY <2>1, <2>2 DEF Begin, BoxSignals
<1>2. ASSUME NEW b \in BoxNames PROVE Started(bs, rs)[b] \in BoxSignals
  <2> DEFINE asked == {i \in DOMAIN rs : BoxFor(rs[i].to) = b}
  <2>1. CASE asked = {}
    BY <2>1 DEF Started
  <2>2. CASE asked # {}
    <3> PICK q : q = rs[CHOOSE i \in asked : TRUE].body
      OBVIOUS
    <3>1. q \in Query
      BY <2>2
    <3>2. Started(bs, rs)[b] = Begin(bs[b], b, q)
      BY <2>2 DEF Started
    <3> QED BY <1>1, <3>1, <3>2
  <2> QED BY <2>1, <2>2
<1>3. Started(bs, rs) = [b \in BoxNames |-> Started(bs, rs)[b]]
  BY DEF Started
<1> QED BY <1>2, <1>3

LEMMA NoSpansTyped ==
    ASSUME NEW bs \in [BoxNames -> BoxSignals]
    PROVE  NoSpans(bs) \in [BoxNames -> BoxSignals]
<1>1. "spans" \in BoxNames /\ Nothing \in Maybe(Query)
  BY DEF BoxNames, Maybe
<1>2. bs["spans"] \in BoxSignals
  BY <1>1
<1>3. [bs["spans"] EXCEPT !.shown = Nothing, !.asked = Nothing] \in BoxSignals
  BY <1>1, <1>2 DEF BoxSignals
<1> QED BY <1>1, <1>3 DEF NoSpans

LEMMA BoxUserTypes ==
    ASSUME BoxState, QueriesUser
    PROVE  BoxState'
<1> USE DEF BoxState
<1>1. look \in LookSignals /\ boxes \in [BoxNames -> BoxSignals]
  BY DEF QueriesTyped
<1>2. ASSUME NEW rs, FreshTyped(rs), Send(rs) PROVE NetTyped' /\ page' = page
  BY <1>2, SendTypes DEF Send
<1>3. ASSUME NEW rs, FreshTyped(rs), \A i \in DOMAIN rs : rs[i].body \in Query, Ask(rs),
             look' \in LookSignals
      PROVE  BoxState'
  BY <1>1, <1>2, <1>3, StartedTyped DEF Ask, QueriesTyped
<1>4. ASSUME NEW to \in BoxNames, NEW q \in Query
      PROVE  LET r == GetJson(to, q) IN
             /\ FreshTyped(<<r>>)
             /\ \A i \in DOMAIN <<r>> : <<r>>[i].body \in Query
  <2> PICK r : r = GetJson(to, q)
    OBVIOUS
  <2>1. Fresh(r) /\ CallTyped(page, r) /\ r.body = q
    BY <1>4, BoxRequests, GetJsonIsFresh
  <2>2. DOMAIN <<r>> = {1} /\ <<r>>[1] = r
    BY <2>1, FewRequests
  <2> QED BY <2>1, <2>2, FreshTypedIs
<1>5. ASSUME NEW to \in BoxNames, NEW q \in Query, Ask(<<GetJson(to, q)>>), look' \in LookSignals
      PROVE  BoxState'
  <2> PICK rs : rs = <<GetJson(to, q)>>
    OBVIOUS
  <2>1. FreshTyped(rs) /\ \A i \in DOMAIN rs : rs[i].body \in Query
    BY <1>4
  <2> QED BY <1>3, <1>5, <2>1
<1>6. ASSUME Local PROVE NetTyped' /\ page' = page
  BY <1>6 DEF Local, net, NetTyped
<1>7. ASSUME NEW t \in Tokens, TypeToken(t) PROVE BoxState'
  <2>1. look' \in LookSignals
    BY <1>1, <1>7 DEF TypeToken, LookSignals
  <2>2. CASE Ask(Loads(page, look'))
    <3> PICK l : l = look'
      OBVIOUS
    <3>1. /\ FreshTyped(Loads(page, l))
          /\ \A i \in DOMAIN Loads(page, l) : Loads(page, l)[i].body \in Query
      BY <2>1, LoadsTyped
    <3> QED BY <1>3, <2>1, <2>2, <3>1
  <2>3. CASE Local /\ UNCHANGED boxes
    BY <1>1, <1>6, <2>1, <2>3 DEF QueriesTyped
  <2> QED BY <1>7, <2>2, <2>3 DEF TypeToken
<1>8. ASSUME NEW m \in MetricNames, SelectName(m) PROVE BoxState'
  <2>1. look' \in LookSignals
    BY <1>1, <1>8 DEF SelectName, LookSignals
  <2>2. Now(look', None) \in Query
    BY <2>1, LookAsks
  <2> QED BY <1>5, <1>8, <2>1, <2>2 DEF SelectName, BoxNames
<1>9. ASSUME NEW t \in TraceIds, FollowToLogs(t) PROVE BoxState'
  <2>1. look' \in LookSignals
    BY <1>1, <1>9 DEF FollowToLogs, LookSignals
  <2>2. Now(look', t) \in Query
    BY <2>1, LookAsks
  <2> QED BY <1>5, <1>9, <2>1, <2>2 DEF FollowToLogs, BoxNames
<1>10. Now(look, None) \in Query /\ Now(look, look.filter) \in Query
  <2>1. look.filter \in TraceIds \cup {None}
    BY <1>1 DEF LookSignals
  <2> QED BY <1>1, <2>1, LookAsks
<1>11. CASE RunMetrics
  BY <1>1, <1>5, <1>10, <1>11 DEF RunMetrics, BoxNames
<1>12. CASE RunLogs
  BY <1>1, <1>5, <1>10, <1>12 DEF RunLogs, BoxNames
<1>13. CASE RunMap
  BY <1>1, <1>5, <1>10, <1>13 DEF RunMap, BoxNames
<1>14. CASE ClearFilter
  <2>1. look' \in LookSignals
    BY <1>1, <1>14 DEF ClearFilter, LookSignals
  <2> QED BY <1>1, <1>6, <1>14, <2>1 DEF ClearFilter, QueriesTyped
<1>15. ASSUME NEW t \in TraceIds, load_spans(t) PROVE BoxState'
  <2> PICK rs : rs = <<GetJson("spans", Now(look, t))>>
    OBVIOUS
  <2>1. FreshTyped(rs) /\ \A i \in DOMAIN rs : rs[i].body \in Query
    BY <1>1, <1>4, LookAsks DEF BoxNames
  <2>2. Send(rs) /\ boxes' = Started(NoSpans(boxes), rs)
    BY <1>15 DEF load_spans
  <2>3. boxes' \in [BoxNames -> BoxSignals]
    BY <1>1, <2>1, <2>2, StartedTyped, NoSpansTyped
  <2>4. look' \in LookSignals
    BY <1>1, <1>15 DEF load_spans, LookSignals
  <2> QED BY <1>2, <2>1, <2>2, <2>3, <2>4 DEF QueriesTyped
<1>16. CASE RunTraces
  <2> PICK rs : rs = <<GetJson("traces", Now(look, None))>>
    OBVIOUS
  <2>1. FreshTyped(rs) /\ \A i \in DOMAIN rs : rs[i].body \in Query
    BY <1>4, <1>10 DEF BoxNames
  <2>2. Send(rs) /\ boxes' = NoSpans(Started(boxes, rs))
    BY <1>16 DEF RunTraces
  <2>3. boxes' \in [BoxNames -> BoxSignals]
    BY <1>1, <2>1, <2>2, StartedTyped, NoSpansTyped
  <2>4. look' \in LookSignals
    BY <1>1, <1>16 DEF RunTraces, LookSignals
  <2> QED BY <1>2, <2>1, <2>2, <2>3, <2>4 DEF QueriesTyped
<1> QED
  BY <1>7, <1>8, <1>9, <1>11, <1>12, <1>13, <1>14, <1>15, <1>16 DEF QueriesUser

LEMMA BoxServesTypes ==
    ASSUME BoxState, NEW n, QueriesServe(n)
    PROVE  BoxState'
<1> USE DEF BoxState
<1>1. n \in DOMAIN calls /\ (Answer(n, Nothing) \/ Refuse(n)) /\ UNCHANGED <<look, boxes>>
  BY DEF QueriesServe, Serve, At, queryVars
<1>2. Fits(calls[n], Nothing)
  BY NotAsking DEF Fits
<1>3. NetTyped' /\ page' = page
  BY <1>1, <1>2, AnswerTypes, RefuseTypes DEF Answer, Refuse, Handle
<1> QED BY <1>1, <1>3 DEF QueriesTyped

LEMMA BoxHearsTypes ==
    ASSUME BoxState, NEW n, QueriesHear(n)
    PROVE  BoxState'
<1> USE DEF BoxState
<1>1. n \in DOMAIN calls
  BY DEF QueriesHear, GotHealth, GotBox, At
<1>2. CallTyped(page, calls[n]) /\ calls[n].ok \in BOOLEAN /\ calls[n].body \in Query
  BY <1>1 DEF NetTyped, CallTyped, BoxCall
<1>3. look \in LookSignals /\ boxes \in [BoxNames -> BoxSignals]
  BY DEF QueriesTyped
<1>4. <<calls[n].body>> \in Maybe(Query)
  BY <1>2 DEF Maybe
<1>5. CASE GotHealth(n)
  <2> PICK r : r = GetJson("stats", calls[n].body)
    OBVIOUS
  <2>1. FreshTyped(<<r>>)
    BY <1>2, BoxRequests, FreshTypedIs DEF BoxNames
  <2>2. NetTyped' /\ page' = page
    BY <1>1, <1>5, <2>1, ReceiveTypes DEF GotHealth, Receive
  <2>3. "health" \in BoxNames /\ boxes["health"] \in BoxSignals
    BY <1>3 DEF BoxNames
  <2>4. [boxes["health"] EXCEPT !.shown = IF calls[n].ok THEN <<calls[n].body>> ELSE @] \in BoxSignals
    BY <1>2, <1>4, <2>3 DEF BoxSignals
  <2>5. boxes' \in [BoxNames -> BoxSignals]
    BY <1>3, <1>5, <2>3, <2>4 DEF GotHealth
  <2> QED BY <1>3, <1>5, <2>2, <2>5 DEF GotHealth, QueriesTyped
<1>6. CASE GotBox(n)
  <2>1. FreshTyped(<<>>)
    BY FreshTypedIs
  <2>2. NetTyped' /\ page' = page
    BY <1>1, <1>6, <2>1, ReceiveTypes DEF GotBox, Receive
  <2> PICK to : to = calls[n].to
    OBVIOUS
  <2>3. to \in BoxNames /\ boxes[to] \in BoxSignals
    BY <1>3, <1>6 DEF GotBox, At
  <2>4. Land(boxes[to], calls[n]) \in BoxSignals
    BY <1>2, <1>4, <2>3 DEF Land, BoxSignals
  <2>5. boxes' = [boxes EXCEPT ![to] = Land(boxes[to], calls[n])]
    BY <1>6 DEF GotBox
  <2>6. boxes' \in [BoxNames -> BoxSignals]
    BY <1>3, <2>3, <2>4, <2>5
  <2> QED BY <1>3, <1>6, <2>2, <2>6 DEF GotBox, QueriesTyped
<1> QED BY <1>5, <1>6 DEF QueriesHear

-----------------------------------------------------------------------------
(* The console is typed, whichever page is open.                             *)

TypeInv ==
    /\ page \in Pages
    /\ NetTyped
    /\ DashTyped /\ DashLeft
    /\ DeskTyped /\ DeskLeft
    /\ QueriesTyped /\ WaterfallInv

LEMMA TypeInvIs == TypeInv => TypeOK
<1> SUFFICES ASSUME TypeInv PROVE TypeOK
  OBVIOUS
<1>1. DashTypeOK /\ AlertsTypeOK
  BY DashTypedIs, DeskTypedIs DEF TypeInv
<1>2. \A n \in DOMAIN calls : calls[n].at \in {"sent", "write", "read", "done"}
  BY DEF TypeInv, NetTyped, CallTyped
<1>3. {b.span : b \in waterfall} \in {{}} \cup Trees
  <2>1. CASE waterfall = {}
    <3>1. {b.span : b \in waterfall} = {}
      BY <2>1
    <3> QED BY <3>1
  <2>2. CASE \E spans \in Trees : waterfall = Bars(spans)
    <3>1. PICK spans \in Trees : waterfall = Bars(spans)
      BY <2>2
    <3>2. {b.span : b \in waterfall} = spans
      BY <3>1, BarsAre
    <3> QED BY <3>2
  <2> QED BY <2>1, <2>2 DEF TypeInv, WaterfallInv
<1>4. QueriesTypeOK
  BY <1>3 DEF TypeInv, QueriesTyped, QueriesTypeOK, LookSignals, BoxSignals
<1> QED BY <1>1, <1>2, <1>4 DEF TypeOK, TypeInv, NetTyped

\* The tables, of rows that are all alike or of none, and the page before any answer.
LEMMA FirstDash ==
    ASSUME DashInit
    PROVE  DashTyped /\ nextDash <= MaxDash + 1
<1>1. PICK k \in 0..MaxDash, p \in Layouts : stored = [i \in 1..k |-> p] /\ nextDash = k + 1
  BY DEF DashInit
<1>2. MaxDash \in Nat /\ k \in Nat /\ k <= MaxDash
  BY <1>1, DashBounds
<1>3. stored \in DashTables /\ DOMAIN stored = 1..k /\ <<>> \in DashTables
  BY <1>1, <1>2, FirstTables DEF DashTables, DashIds
<1>4. nextDash \in Nat /\ nextDash >= 1 /\ nextDash <= MaxDash + 1 /\ \A i \in 1..k : i < nextDash
  BY <1>1, <1>2
<1>5. NewDash \in DashSignals
  BY OpensMade DEF NewDash, DashSignals
<1> QED BY <1>3, <1>4, <1>5 DEF DashInit, DashTyped

LEMMA FirstDesk ==
    ASSUME AlertsInit
    PROVE  DeskTyped /\ nextRule <= MaxRules + 1
<1>1. PICK r \in AlertRule, k \in 0..MaxRules :
         ruleTable = [i \in 1..k |-> r] /\ nextRule = k + 1 /\ alarms = 1..k
  BY DEF AlertsInit
<1>2. MaxRules \in Nat /\ k \in Nat /\ k <= MaxRules
  BY <1>1, RuleBound
<1>3. ruleTable \in Tables(RuleIds, AlertRule) /\ DOMAIN ruleTable = 1..k
      /\ <<>> \in Tables(RuleIds, AlertRule)
  BY <1>1, <1>2, FirstTables DEF RuleIds
<1>4. nextRule \in Nat /\ nextRule >= 1 /\ nextRule <= MaxRules + 1 /\ \A i \in 1..k : i < nextRule
  BY <1>1, <1>2
<1>5. NewDesk \in DeskSignals
  BY <1>3, RuleTablesAre DEF NewDesk, DeskSignals, EmptyForm, FormFields
<1> QED BY <1>1, <1>3, <1>4, <1>5 DEF AlertsInit, DeskTyped

LEMMA EmptyTables ==
    /\ NoDashboards => DashTyped
    /\ NoRules => DeskTyped
    /\ NoQueries => QueriesTyped /\ WaterfallInv
<1>1. DOMAIN <<>> = {} /\ MaxDash \in Nat /\ MaxRules \in Nat
  BY FewRequests, DashBounds, RuleBound
<1>2. ASSUME NEW n \in Nat, NEW V PROVE <<>> \in Tables(1..n, V)
  <2>1. 0 \in 0..n
    OBVIOUS
  <2> QED BY <2>1, FirstTables
<1>3. <<>> \in DashTables /\ <<>> \in Tables(RuleIds, AlertRule)
  BY <1>1, <1>2 DEF DashTables, DashIds, RuleIds
<1>4. NewDash \in DashSignals
  BY OpensMade DEF NewDash, DashSignals
<1>5. NewDesk \in DeskSignals
  BY <1>3, RuleTablesAre DEF NewDesk, DeskSignals, EmptyForm, FormFields
<1>6. 1 \in Nat /\ 1 <= MaxDash + 1 /\ 1 <= MaxRules + 1
  BY <1>1
<1>7. ASSUME NoDashboards PROVE DashTyped
  BY <1>1, <1>3, <1>4, <1>6, <1>7 DEF NoDashboards, DashTyped
<1>8. ASSUME NoRules PROVE DeskTyped
  BY <1>1, <1>3, <1>5, <1>6, <1>8 DEF NoRules, DeskTyped
<1>9. EmptyBox \in BoxSignals
  BY DEF EmptyBox, BoxSignals, Maybe
<1>10. ASSUME NoQueries PROVE QueriesTyped /\ WaterfallInv
  BY <1>9, <1>10 DEF NoQueries, QueriesTyped, LookSignals, Tokens, WaterfallInv
<1> QED BY <1>7, <1>8, <1>10

\* The requests a page sends when it opens.
LEMMA FirstCalls ==
    ASSUME NEW rs, FreshTyped(rs), BrowserInit(rs)
    PROVE  /\ NetTyped
           /\ \A to : (\A i \in DOMAIN rs : rs[i].to # to) => Waiting(to) = {}
<1>1. DOMAIN calls = DOMAIN rs /\ sent = Len(rs) /\ \A n \in DOMAIN rs : calls[n] = rs[n]
  BY DEF BrowserInit
<1>2. DOMAIN rs = 1..Len(rs) /\ Len(rs) \in Nat /\ \A i \in DOMAIN rs : CallTyped(page, rs[i])
  BY DEF FreshTyped, FreshSeq
<1>3. NetTyped
  BY <1>1, <1>2 DEF NetTyped, BrowserInit
<1>4. ASSUME NEW to, \A i \in DOMAIN rs : rs[i].to # to PROVE Waiting(to) = {}
  BY <1>1, <1>4 DEF Waiting, At
<1> QED BY <1>3, <1>4

LEMMA TypeInit ==
    ASSUME Init
    PROVE  TypeInv
<1>1. page \in Pages
  BY DEF Init
<1>2. Cardinality({}) = 0
  BY FS_EmptySet
<1>3. CASE page = "dashboards" /\ DashInit /\ NoRules /\ NoQueries /\ BrowserInit(<<ListDashboards>>)
  <2>1. DOMAIN <<ListDashboards>> = {1} /\ <<ListDashboards>>[1] = ListDashboards
    BY DashRequests, FewRequests
  <2>2. FreshTyped(<<ListDashboards>>)
    BY <1>3, DashRequests, FreshTypedIs
  <2>3. NetTyped /\ Waiting("create") = {}
    BY <1>3, <2>1, <2>2, FirstCalls, DashRequests
  <2>4. DashTyped /\ nextDash <= MaxDash + 1 /\ nextDash \in Nat
    BY <1>3, FirstDash DEF DashTyped
  <2>5. DashLeft
    BY <1>2, <2>3, <2>4 DEF DashLeft
  <2>6. DeskLeft
    BY <1>3 DEF DeskLeft
  <2> QED BY <1>1, <1>3, <2>3, <2>4, <2>5, <2>6, EmptyTables DEF TypeInv
<1>4. CASE page = "alerts" /\ AlertsInit /\ NoDashboards /\ NoQueries /\ BrowserInit(<<ListRules>>)
  <2>1. DOMAIN <<ListRules>> = {1} /\ <<ListRules>>[1] = ListRules
    BY DeskRequests, FewRequests
  <2>2. FreshTyped(<<ListRules>>)
    BY <1>4, DeskRequests, FreshTypedIs
  <2>3. NetTyped /\ Waiting("create_rule") = {}
    BY <1>4, <2>1, <2>2, FirstCalls, DeskRequests
  <2>4. DeskTyped /\ nextRule <= MaxRules + 1 /\ nextRule \in Nat
    BY <1>4, FirstDesk DEF DeskTyped
  <2>5. DeskLeft
    BY <1>2, <2>3, <2>4 DEF DeskLeft
  <2>6. DashLeft
    BY <1>4 DEF DashLeft
  <2> QED BY <1>1, <1>4, <2>3, <2>4, <2>5, <2>6, EmptyTables DEF TypeInv
<1>5. CASE page \in Asking /\ QueriesInit(page) /\ NoDashboards /\ NoRules /\ BrowserInit(Opens(page, look))
  <2>1. look \in LookSignals
    BY <1>5 DEF QueriesInit, LookSignals
  <2> PICK rs, bs : rs = Opens(page, look) /\ bs = [b \in BoxNames |-> EmptyBox]
    OBVIOUS
  <2>2. FreshTyped(rs) /\ \A i \in DOMAIN rs : rs[i].body \in Query
    BY <1>5, <2>1, LoadsTyped
  <2>3. NetTyped
    BY <1>5, <2>2, FirstCalls
  <2>4. bs \in [BoxNames -> BoxSignals]
    BY DEF EmptyBox, BoxSignals, Maybe
  <2>5. boxes \in [BoxNames -> BoxSignals] /\ waterfall = {}
    BY <1>5, <2>2, <2>4, StartedTyped DEF QueriesInit
  <2>6. DashLeft /\ DeskLeft
    BY <1>5, NotAsking DEF DashLeft, DeskLeft
  <2> QED BY <1>1, <1>5, <2>1, <2>3, <2>5, <2>6, EmptyTables DEF TypeInv, QueriesTyped, WaterfallInv
<1> QED BY <1>3, <1>4, <1>5 DEF Init

LEMMA TypeStep ==
    ASSUME TypeInv, [Next]_vars
    PROVE  TypeInv'
<1>1. page' = page /\ WaterfallInv'
  BY PageStays, WaterfallStep DEF TypeInv
<1>2. "dashboards" \notin Asking /\ "alerts" \notin Asking
  BY NotAsking
<1>3. ASSUME UNCHANGED dashVars PROVE DashTyped'
  BY <1>3, DashStays DEF TypeInv
<1>4. ASSUME UNCHANGED alertVars PROVE DeskTyped'
  BY <1>4, DeskStays DEF TypeInv
<1>5. ASSUME UNCHANGED queryVars PROVE QueriesTyped'
  BY <1>5 DEF TypeInv, QueriesTyped, queryVars
<1>6. ASSUME DashState => DashState', page = "dashboards", UNCHANGED <<alertVars, queryVars>>
      PROVE  TypeInv'
  <2>1. DashState
    BY <1>6 DEF TypeInv, DashState
  <2>2. NetTyped' /\ DashTyped' /\ DashLeft'
    BY <1>6, <2>1 DEF DashState
  <2>3. DeskLeft'
    BY <1>1, <1>6 DEF DeskLeft
  <2> QED BY <1>1, <1>4, <1>5, <1>6, <2>2, <2>3 DEF TypeInv
<1>7. ASSUME DeskState => DeskState', page = "alerts", UNCHANGED <<dashVars, queryVars>>
      PROVE  TypeInv'
  <2>1. DeskState
    BY <1>7 DEF TypeInv, DeskState
  <2>2. NetTyped' /\ DeskTyped' /\ DeskLeft'
    BY <1>7, <2>1 DEF DeskState
  <2>3. DashLeft'
    BY <1>1, <1>7 DEF DashLeft
  <2> QED BY <1>1, <1>3, <1>5, <1>7, <2>2, <2>3 DEF TypeInv
<1>8. ASSUME BoxState => BoxState', page \in Asking, UNCHANGED <<dashVars, alertVars>>
      PROVE  TypeInv'
  <2>1. BoxState
    BY <1>8 DEF TypeInv, BoxState
  <2>2. NetTyped' /\ QueriesTyped'
    BY <1>8, <2>1 DEF BoxState
  <2>3. DashLeft' /\ DeskLeft'
    BY <1>1, <1>2, <1>8 DEF DashLeft, DeskLeft
  <2> QED BY <1>1, <1>3, <1>4, <1>8, <2>2, <2>3 DEF TypeInv
<1>9. CASE OnDashboards(DashUser)
  BY <1>6, <1>9, DashUserTypes DEF OnDashboards
<1>10. CASE OnAlerts(AlertsUser)
  BY <1>7, <1>10, DeskUserTypes DEF OnAlerts
<1>11. CASE OnQueries(QueriesUser)
  BY <1>8, <1>11, BoxUserTypes DEF OnQueries
<1>12. CASE Network
  <2> PICK n \in DOMAIN calls :
         \/ OnDashboards(DashServes(n) \/ DashHears(n))
         \/ OnAlerts(AlertsServes(n) \/ AlertsHears(n))
         \/ OnQueries(QueriesServe(n) \/ QueriesHear(n))
    BY <1>12 DEF Network
  <2>1. CASE OnDashboards(DashServes(n) \/ DashHears(n))
    BY <1>6, <2>1, DashServesTypes, DashHearsTypes DEF OnDashboards
  <2>2. CASE OnAlerts(AlertsServes(n) \/ AlertsHears(n))
    BY <1>7, <2>2, DeskServesTypes, DeskHearsTypes DEF OnAlerts
  <2>3. CASE OnQueries(QueriesServe(n) \/ QueriesHear(n))
    BY <1>8, <2>3, BoxServesTypes, BoxHearsTypes DEF OnQueries
  <2> QED BY <2>1, <2>2, <2>3
<1>13. CASE Breaks
  <2> PICK n \in DOMAIN calls : Fail(n) /\ UNCHANGED <<dashVars, alertVars, queryVars>>
    BY <1>13 DEF Breaks
  <2>1. NetTyped' /\ \A to : Waiting(to)' \subseteq Waiting(to)
    BY FailTypes DEF TypeInv
  <2>2. ASSUME DashState PROVE DashState'
    BY <1>1, <2>1, <2>2, DashStays, DashQuiet DEF DashState
  <2>3. ASSUME DeskState PROVE DeskState'
    BY <1>1, <2>1, <2>3, DeskStays, DeskQuiet DEF DeskState
  <2>4. DashLeft' /\ DeskLeft'
    BY <1>1, <2>2, <2>3 DEF TypeInv, DashState, DeskState, DashLeft, DeskLeft
  <2> QED BY <1>1, <1>3, <1>4, <1>5, <2>1, <2>4 DEF TypeInv
<1>14. CASE UNCHANGED vars
  <2>1. UNCHANGED <<dashVars, alertVars, queryVars, net>>
    BY <1>14 DEF vars
  <2>2. NetTyped' /\ DashLeft' /\ DeskLeft'
    BY <1>14 DEF vars, net, dashVars, alertVars, TypeInv, NetTyped, DashLeft, DeskLeft, Waiting, At
  <2> QED BY <1>1, <1>3, <1>4, <1>5, <2>1, <2>2 DEF TypeInv
<1> QED BY <1>9, <1>10, <1>11, <1>12, <1>13, <1>14 DEF Next

\* What the pages hold is of the kind their signals are declared to be, whatever is asked,
\* answered, refused or lost: no answer reaches a signal it does not fit, and there is an
\* id for every row whose creation is under way.
THEOREM ConsoleIsTyped == Spec => []TypeOK
<1>1. Init => TypeInv
  BY TypeInit
<1>2. TypeInv /\ [Next]_vars => TypeInv'
  BY TypeStep
<1>3. TypeInv => TypeOK
  BY TypeInvIs
<1> QED
  BY <1>1, <1>2, <1>3, PTL DEF Spec
==============================================================================
