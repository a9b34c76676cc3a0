---------------------------- MODULE Settle_proofs ----------------------------
(***************************************************************************)
(* What a page of the console shows once everything it asked was answered  *)
(* in order, proved for any number of requests: a change is followed by    *)
(* the reloads that show it, and the last request that fills a box asks    *)
(* what was asked last.                                                    *)
(***************************************************************************)
EXTENDS Console_proofs

-----------------------------------------------------------------------------
(* Requests that are handled and answered in the order they were sent in.    *)

\* Nothing was overtaken, no call failed and nobody else changed anything.
Orderly == overtaken = FALSE /\ faults = 0 /\ others = 0

\* The requests before one that is being handled were answered.
InLine ==
    \A m, n \in DOMAIN calls : m < n /\ calls[n].at # "sent" => calls[m].at = "done"

LineInv ==
    /\ faults \in Nat /\ others \in Nat /\ overtaken \in BOOLEAN
    /\ \A n \in DOMAIN calls : calls[n].at # "done" => calls[n].ok = FALSE
    /\ Orderly => InLine

\* Request m of cs is now c in ds.
Becomes(cs, m, c, ds) ==
    DOMAIN ds = DOMAIN cs /\ ds[m] = c /\ \A n \in DOMAIN cs \ {m} : ds[n] = cs[n]

\* It is its turn: what was sent before was answered, what was sent later waits.
Turn(cs, m) ==
    \A n \in DOMAIN cs : (n < m => cs[n].at = "done") /\ (m < n => cs[n].at = "sent")

\* ds is cs without the requests gone, and with rs behind all of them.
Joined(cs, gone, rs, ds) ==
    /\ DOMAIN cs \ gone \subseteq DOMAIN ds
    /\ \A n \in DOMAIN cs \ gone : ds[n] = cs[n]
    /\ \A n \in DOMAIN ds : n \in Int /\ IsCall(ds[n])
    /\ \A n \in DOMAIN ds \ (DOMAIN cs \ gone) :
          /\ n \notin DOMAIN cs /\ \A m \in DOMAIN cs : m \in Int /\ m < n
          /\ \E i \in DOMAIN rs : ds[n] = rs[i]
    /\ \A i \in DOMAIN rs : \E n \in DOMAIN ds \ (DOMAIN cs \ gone) : ds[n] = rs[i]

\* The first of them is the one that leaves.
Foremost(cs, m) == \A n \in DOMAIN cs : n # m => m < n

\* A statement of the handler of m, which was not over; c is what is known of m now.
Handles(m, c) ==
    /\ m \in DOMAIN calls /\ calls[m].at # "done"
    /\ sent' = sent
    /\ Becomes(calls, m, c, calls')
    /\ IsCall(c) /\ c.to = calls[m].to /\ c.at # "sent"

\* The answer of m is received, and rs is sent.
Leaves(m, rs) ==
    /\ m \in DOMAIN calls /\ calls[m].at = "done"
    /\ FreshSeq(rs) /\ Receive(m, rs)

LEMMA PlusJoins ==
    ASSUME NetInv, NEW gone, NEW rs, FreshSeq(rs), NEW rest,
           DOMAIN rest = DOMAIN calls \ gone, \A n \in DOMAIN rest : rest[n] = calls[n],
           calls' = Plus(rest, rs), sent' = sent + Len(rs)
    PROVE  NetInv' /\ Joined(calls, gone, rs, calls')
<1>1. sent \in Int /\ \A n \in DOMAIN rest : n \in Int /\ n <= sent /\ IsCall(rest[n])
  BY DEF NetInv
<1>2. /\ NetInv'
      /\ DOMAIN rest \subseteq DOMAIN calls' /\ \A n \in DOMAIN rest : calls'[n] = rest[n]
      /\ \A i \in DOMAIN rs : sent + i \in DOMAIN calls' /\ calls'[sent + i] = rs[i]
  BY <1>1, PlusAdds
<1>3. ASSUME NEW i \in DOMAIN rs
      PROVE  sent + i \notin DOMAIN calls /\ \A m \in DOMAIN calls : m \in Int /\ m < sent + i
  BY DEF FreshSeq, NetInv
<1>4. ASSUME NEW n \in DOMAIN calls' \ (DOMAIN calls \ gone)
      PROVE  \E i \in DOMAIN rs : n = sent + i
  BY <1>4 DEF Plus
<1>5. ASSUME NEW n \in DOMAIN calls' \ (DOMAIN calls \ gone)
      PROVE  /\ n \notin DOMAIN calls /\ \A m \in DOMAIN calls : m \in Int /\ m < n
             /\ \E i \in DOMAIN rs : calls'[n] = rs[i]
  BY <1>2, <1>3, <1>4
<1>6. \A i \in DOMAIN rs : \E n \in DOMAIN calls' \ (DOMAIN calls \ gone) : calls'[n] = rs[i]
  BY <1>2, <1>3
<1>7. \A n \in DOMAIN calls' : n \in Int /\ IsCall(calls'[n])
  BY <1>2 DEF NetInv, IsCall
<1> QED
  BY <1>2, <1>5, <1>6, <1>7 DEF Joined

LEMMA SendJoins ==
    ASSUME NetInv, NEW rs, FreshSeq(rs), Send(rs)
    PROVE  NetInv' /\ Joined(calls, {}, rs, calls')
BY PlusJoins DEF Send

LEMMA LeavesJoins ==
    ASSUME NetInv, NEW m, NEW rs, Leaves(m, rs)
    PROVE  NetInv' /\ Joined(calls, {m}, rs, calls')
<1> DEFINE rest == Without(calls, m)
<1>1. calls' = Plus(rest, rs) /\ sent' = sent + Len(rs) /\ FreshSeq(rs)
  BY DEF Leaves, Receive
<1>2. DOMAIN rest = DOMAIN calls \ {m} /\ \A n \in DOMAIN rest : rest[n] = calls[n]
  BY DEF Without
<1> HIDE DEF rest
<1> QED
  BY <1>1, <1>2, PlusJoins

LEMMA AnswerHandles ==
    ASSUME NetInv, NEW m \in DOMAIN calls, calls[m].at # "done", NEW got, Answer(m, got)
    PROVE  \E c : /\ Handles(m, c) /\ Handle(m, c) /\ c.at = "done" /\ c.ok = TRUE /\ c.got = <<got>>
                  /\ c.body = calls[m].body
<1> DEFINE c == Answered(calls[m], got)
<1>1. Handle(m, c)
  BY DEF Answer, Answered
<1>2. IsCall(c) /\ c.to = calls[m].to /\ c.body = calls[m].body /\ c.at = "done"
      /\ c.ok = TRUE /\ c.got = <<got>>
  BY CallAnswered DEF NetInv
<1> HIDE DEF c
<1>3. OnlyCall(m, c) /\ sent' = sent
  BY <1>1, HandleKeeps
<1> QED
  BY <1>1, <1>2, <1>3 DEF Handles, Becomes, OnlyCall

LEMMA RefuseHandles ==
    ASSUME NetInv, NEW m \in DOMAIN calls, calls[m].at # "done", Refuse(m)
    PROVE  \E c : /\ Handles(m, c) /\ Handle(m, c) /\ c.at = "done" /\ c.ok = calls[m].ok
                  /\ c.body = calls[m].body
<1> DEFINE c == [calls[m] EXCEPT !.at = "done"]
<1>1. Handle(m, c)
  BY DEF Refuse
<1>2. IsCall(calls[m])
  BY DEF NetInv
<1>3. IsCall(c) /\ c.to = calls[m].to /\ c.body = calls[m].body /\ c.at = "done" /\ c.ok = calls[m].ok
  BY <1>2 DEF IsCall
<1> HIDE DEF c
<1>4. OnlyCall(m, c) /\ sent' = sent
  BY <1>1, HandleKeeps
<1> QED
  BY <1>1, <1>3, <1>4 DEF Handles, Becomes, OnlyCall

LEMMA GoOnHandles ==
    ASSUME NetInv, NEW m \in DOMAIN calls, calls[m].at # "done", NEW step, step # "sent", NEW body,
           GoOn(m, step, body)
    PROVE  \E c : /\ Handles(m, c) /\ Handle(m, c) /\ c.at = step /\ c.ok = calls[m].ok
                  /\ c.body = body
<1> DEFINE c == Continued(calls[m], step, body)
<1>1. Handle(m, c)
  BY DEF GoOn, Continued
<1>2. IsCall(c) /\ c.to = calls[m].to /\ c.body = body /\ c.at = step /\ c.ok = calls[m].ok
  BY CallContinued DEF NetInv
<1> HIDE DEF c
<1>3. OnlyCall(m, c) /\ sent' = sent
  BY <1>1, HandleKeeps
<1> QED
  BY <1>1, <1>2, <1>3 DEF Handles, Becomes, OnlyCall

-----------------------------------------------------------------------------
\* What a step does to the requests, whichever page is open.
NetStep ==
    \/ UNCHANGED net
    \/ SomebodyElse
    \/ \E rs : FreshSeq(rs) /\ Send(rs)
    \/ \E m, c : Handles(m, c) /\ Handle(m, c) /\ (c.at # "done" => c.ok = calls[m].ok)
    \/ \E m : Fail(m)
    \/ \E m, rs : Leaves(m, rs)

LEMMA OneRequestSent ==
    ASSUME NEW to, NEW q, Send(<<GetJson(to, q)>>)
    PROVE  NetStep
BY GetJsonIsFresh, FewRequests DEF NetStep

\* A handler is not over, or its answer is there.
ServesStep(m) ==
    /\ m \in DOMAIN calls /\ calls[m].at # "done"
    /\ \/ \E got : Answer(m, got)
       \/ Refuse(m)
       \/ \E step, body : step # "sent" /\ GoOn(m, step, body)

LEMMA ServesHandle ==
    ASSUME NetInv, NEW m, ServesStep(m)
    PROVE  NetStep
<1>1. m \in DOMAIN calls /\ calls[m].at # "done"
  BY DEF ServesStep
<1>2. ASSUME NEW got, Answer(m, got) PROVE NetStep
  BY <1>1, <1>2, AnswerHandles DEF NetStep
<1>3. ASSUME Refuse(m) PROVE NetStep
  BY <1>1, <1>3, RefuseHandles DEF NetStep
<1>4. ASSUME NEW step, NEW body, step # "sent", GoOn(m, step, body) PROVE NetStep
  BY <1>1, <1>4, GoOnHandles DEF NetStep
<1> QED
  BY <1>2, <1>3, <1>4 DEF ServesStep

LEMMA DashNet ==
    ASSUME NetInv, DashUser \/ \E n \in DOMAIN calls : DashServes(n) \/ DashHears(n)
    PROVE  NetStep
<1>1. ASSUME DashUser PROVE NetStep
  <2>1. CASE \/ DashToken \/ CreateNew \/ Save \/ ConfirmDelete \/ \E i \in DashIds : OpenDashboard(i)
    BY <2>1, OneRequestSent DEF DashToken, CreateNew, Save, ConfirmDelete, OpenDashboard,
       ListDashboards, SendJson, DeleteReq
  <2>2. CASE AskDelete \/ CancelDash \/ (\E p \in Panels : AddPanel(p)) \/ \E k \in 1..MaxPanels : RemovePanel(k)
    BY <2>2 DEF AskDelete, CancelDash, AddPanel, RemovePanel, Local, NetStep
  <2>3. CASE \E i \in DashIds : SomebodyChangesADashboard(i)
    BY <2>3 DEF SomebodyChangesADashboard, NetStep
  <2> QED
    BY <1>1, <2>1, <2>2, <2>3 DEF DashUser
<1>2. ASSUME NEW n, DashServes(n) PROVE NetStep
  <2>1. ServesStep(n)
    BY <1>2 DEF DashServes, list_dashboards, get_dashboard, create_dashboard, update_dashboard,
       delete_dashboard, At, ServesStep
  <2> QED
    BY <2>1, ServesHandle
<1>3. ASSUME NEW n, DashHears(n) PROVE NetStep
  <2>1. n \in DOMAIN calls /\ calls[n].at = "done"
    BY <1>3 DEF DashHears, GotList, GotDashboard, GotCreated, GotSaved, GotDeleted, At
  <2> DEFINE r == GetJson("dashboard", calls[n].got[1].id)
  <2>2. Fresh(ListDashboards) /\ Fresh(r)
    BY GetJsonIsFresh DEF ListDashboards
  <2>3. Receive(n, <<>>) \/ Receive(n, <<ListDashboards>>) \/ Receive(n, <<ListDashboards, r>>)
    BY <1>3 DEF DashHears, GotList, GotDashboard, GotCreated, GotSaved, GotDeleted
  <2> HIDE DEF r
  <2>4. \E rs : Leaves(n, rs)
    BY <2>1, <2>2, <2>3, FewRequests DEF Leaves
  <2> QED
    BY <2>4 DEF NetStep
<1> QED
  BY <1>1, <1>2, <1>3

LEMMA DeskNet ==
    ASSUME NetInv, AlertsUser \/ \E n \in DOMAIN calls : AlertsServes(n) \/ AlertsHears(n)
    PROVE  NetStep
<1>1. ASSUME AlertsUser PROVE NetStep
  <2>1. CASE AlertsToken \/ do_delete
    BY <2>1, OneRequestSent DEF AlertsToken, do_delete, ListRules, DeleteReq
  <2>2. CASE open_new \/ CloseDialog \/ \E i \in RuleIds : open_edit(i) \/ open_delete(i)
    BY <2>2 DEF open_new, CloseDialog, open_edit, open_delete, Local, NetStep
  <2>3. CASE \E i \in RuleIds : SomebodyTouchesARule(i)
    BY <2>3 DEF SomebodyTouchesARule, NetStep
  <2>4. ASSUME NEW kind, NEW cmp, NEW agg, on_submit(kind, cmp, agg) PROVE NetStep
    BY <2>4, OneRequestSent DEF on_submit, SendJson
  <2> QED
    BY <1>1, <2>1, <2>2, <2>3, <2>4 DEF AlertsUser
<1>2. ASSUME NEW n, AlertsServes(n) PROVE NetStep
  <2>1. ServesStep(n)
    BY <1>2 DEF AlertsServes, list_rules, list_active_alerts, create_rule, update_rule, UpdateRow,
       load_rule, delete_rule, At, ServesStep
  <2> QED
    BY <2>1, ServesHandle
<1>3. ASSUME NEW n, AlertsHears(n) PROVE NetStep
  <2>1. n \in DOMAIN calls /\ calls[n].at = "done"
    BY <1>3 DEF AlertsHears, GotRules, GotActive, GotSubmitted, GotRuleDeleted, At
  <2> DEFINE r == GetJson("active", Nothing)
  <2>2. Fresh(ListRules) /\ Fresh(r)
    BY GetJsonIsFresh DEF ListRules
  <2>3. Receive(n, <<>>) \/ Receive(n, <<ListRules>>) \/ Receive(n, <<r>>)
    BY <1>3 DEF AlertsHears, GotRules, GotActive, GotSubmitted, GotRuleDeleted
  <2> HIDE DEF r
  <2>4. \E rs : Leaves(n, rs)
    BY <2>1, <2>2, <2>3, FewRequests DEF Leaves
  <2> QED
    BY <2>4 DEF NetStep
<1> QED
  BY <1>1, <1>2, <1>3

LEMMA QueriesNet ==
    ASSUME NetInv, QueriesUser \/ \E n \in DOMAIN calls : QueriesServe(n) \/ QueriesHear(n)
    PROVE  NetStep
<1>1. ASSUME QueriesUser PROVE NetStep
  <2>1. ASSUME NEW t, TypeToken(t) PROVE NetStep
    BY <2>1, LoadsFresh DEF TypeToken, Ask, Local, NetStep
  <2>2. ASSUME NEW t, SelectName(t) \/ FollowToLogs(t) \/ load_spans(t) \/ RunMetrics \/ RunLogs
                      \/ RunMap \/ RunTraces
        PROVE  NetStep
    BY <2>2, OneRequestSent DEF SelectName, FollowToLogs, load_spans, RunMetrics, RunLogs, RunMap,
       RunTraces, Ask
  <2>3. CASE ClearFilter
    BY <2>3 DEF ClearFilter, Local, NetStep
  <2> QED
    BY <1>1, <2>1, <2>2, <2>3 DEF QueriesUser
<1>2. ASSUME NEW n, QueriesServe(n) PROVE NetStep
  <2>1. ServesStep(n)
    BY <1>2 DEF QueriesServe, Serve, At, ServesStep
  <2> QED
    BY <2>1, ServesHandle
<1>3. ASSUME NEW n, QueriesHear(n) PROVE NetStep
  <2>1. n \in DOMAIN calls /\ calls[n].at = "done"
    BY <1>3 DEF QueriesHear, GotHealth, GotBox, At
  <2> DEFINE r == GetJson("stats", calls[n].body)
  <2>2. Fresh(r)
    BY GetJsonIsFresh
  <2>3. Receive(n, <<>>) \/ Receive(n, <<r>>)
    BY <1>3 DEF QueriesHear, GotHealth, GotBox
  <2> HIDE DEF r
  <2>4. \E rs : Leaves(n, rs)
    BY <2>1, <2>2, <2>3, FewRequests DEF Leaves
  <2> QED
    BY <2>4 DEF NetStep
<1> QED
  BY <1>1, <1>2, <1>3

LEMMA NetSteps ==
    ASSUME NetInv, [Next]_vars
    PROVE  NetStep
<1>1. ASSUME Breaks PROVE NetStep
  BY <1>1 DEF Breaks, NetStep
<1>2. ASSUME UNCHANGED vars PROVE NetStep
  BY <1>2 DEF vars, NetStep
<1> QED
  BY <1>1, <1>2, DashNet, DeskNet, QueriesNet DEF Next, Network, OnDashboards, OnAlerts, OnQueries

-----------------------------------------------------------------------------
\* A statement that overtakes nothing is that of the first request not answered yet.
LEMMA HandledInTurn ==
    ASSUME NetInv, InLine, NEW m, NEW c, Handles(m, c), Handle(m, c), overtaken' = FALSE
    PROVE  Turn(calls, m)
<1>1. m \in DOMAIN calls /\ calls[m].at # "done"
  BY DEF Handles
<1>2. \A n \in DOMAIN calls : n < m => calls[n].at = "done"
  BY DEF Handle
<1>3. \A n \in DOMAIN calls : m < n => calls[n].at = "sent"
  BY <1>1 DEF InLine
<1> QED
  BY <1>2, <1>3 DEF Turn

\* An answer that overtakes none is that of the first request.
LEMMA FirstLeaves ==
    ASSUME NetInv, NEW m, NEW rs, Leaves(m, rs), overtaken' = FALSE
    PROVE  Foremost(calls, m)
<1>1. \A n \in DOMAIN calls : ~(n < m)
  BY DEF Leaves, Receive
<1>2. m \in DOMAIN calls /\ \A n \in DOMAIN calls : n \in Int
  BY DEF NetInv, Leaves
<1> QED
  BY <1>1, <1>2 DEF Foremost

LEMMA LineInit ==
    ASSUME Init
    PROVE  LineInv
<1>1. \E rs : FreshSeq(rs) /\ BrowserInit(rs)
  <2>1. FreshSeq(<<ListDashboards>>) /\ FreshSeq(<<ListRules>>)
    BY FewRequests, GetJsonIsFresh DEF ListDashboards, ListRules
  <2> QED
    BY <2>1, LoadsFresh DEF Init
<1>2. PICK rs : FreshSeq(rs) /\ BrowserInit(rs)
  BY <1>1
<1>3. \A n \in DOMAIN calls : calls[n].at = "sent" /\ calls[n].ok = FALSE
  BY <1>2 DEF BrowserInit, FreshSeq, Fresh
<1>4. faults = 0 /\ others = 0 /\ overtaken = FALSE
  BY <1>2 DEF BrowserInit
<1> QED
  BY <1>3, <1>4 DEF LineInv, InLine

LEMMA LineStep ==
    ASSUME NetInv, LineInv, NetStep
    PROVE  LineInv' /\ (Orderly' => Orderly)
<1>1. /\ faults \in Nat /\ others \in Nat /\ overtaken \in BOOLEAN
      /\ \A n \in DOMAIN calls : calls[n].at # "done" => calls[n].ok = FALSE
      /\ Orderly => InLine
  BY DEF LineInv
<1>2. CASE UNCHANGED net
  BY <1>2 DEF net, LineInv, Orderly, InLine
<1>3. CASE SomebodyElse
  <2>1. others' = others + 1 /\ UNCHANGED <<calls, faults, overtaken>>
    BY <1>3 DEF SomebodyElse
  <2>2. others' \in Nat /\ others' # 0
    BY <1>1, <2>1
  <2> QED
    BY <1>1, <2>1, <2>2 DEF LineInv, Orderly
<1>4. ASSUME NEW rs, FreshSeq(rs), Send(rs) PROVE LineInv' /\ (Orderly' => Orderly)
  <2>1. UNCHANGED <<faults, others, overtaken>>
    BY <1>4 DEF Send
  <2>2. Joined(calls, {}, rs, calls')
    BY <1>4, SendJoins
  <2>3. \A n \in DOMAIN calls' :
          \/ n \in DOMAIN calls /\ calls'[n] = calls[n]
          \/ /\ calls'[n].at = "sent" /\ calls'[n].ok = FALSE
             /\ \A m \in DOMAIN calls : m \in Int /\ m < n
    BY <1>4, <2>2 DEF Joined, FreshSeq, Fresh
  <2>4. \A n \in DOMAIN calls' : calls'[n].at # "done" => calls'[n].ok = FALSE
    BY <1>1, <2>3
  <2>5. \A n \in DOMAIN calls' : n \in Int
    BY <2>2 DEF Joined
  <2>6. ASSUME InLine, NEW m \in DOMAIN calls', NEW n \in DOMAIN calls', m < n, calls'[n].at # "sent"
        PROVE  calls'[m].at = "done"
    <3>1. n \in DOMAIN calls /\ calls'[n] = calls[n]
      BY <2>3, <2>6
    <3>2. m \in DOMAIN calls
      BY <2>3, <2>5, <2>6, <3>1
    <3>3. calls'[m] = calls[m]
      BY <2>2, <3>2 DEF Joined
    <3> QED
      BY <2>6, <3>1, <3>2, <3>3 DEF InLine
  <2> QED
    BY <1>1, <2>1, <2>4, <2>6 DEF LineInv, Orderly, InLine
<1>5. ASSUME NEW m, NEW c, Handles(m, c), Handle(m, c), c.at # "done" => c.ok = calls[m].ok
      PROVE  LineInv' /\ (Orderly' => Orderly)
  <2>1. /\ UNCHANGED <<faults, others>> /\ overtaken' \in BOOLEAN
        /\ overtaken' = FALSE => overtaken = FALSE
    BY <1>1, <1>5 DEF Handle
  <2>2. /\ m \in DOMAIN calls /\ calls[m].at # "done" /\ c.at # "sent"
        /\ Becomes(calls, m, c, calls')
    BY <1>5 DEF Handles
  <2>3. \A n \in DOMAIN calls' : calls'[n].at # "done" => calls'[n].ok = FALSE
    BY <1>1, <1>5, <2>2 DEF Becomes
  <2>4. ASSUME Orderly' PROVE InLine'
    <3>1. Orderly /\ overtaken' = FALSE
      BY <2>1, <2>4 DEF Orderly
    <3>2. Turn(calls, m)
      BY <1>1, <1>5, <3>1, HandledInTurn
    <3>3. ASSUME NEW k \in DOMAIN calls', NEW n \in DOMAIN calls', k < n, calls'[n].at # "sent"
          PROVE  calls'[k].at = "done"
      <4>0. m \in Int /\ k \in Int /\ n \in Int
        BY <2>2 DEF Becomes, NetInv
      <4>1. ~(m < n)
        BY <2>2, <3>2, <3>3 DEF Turn, Becomes
      <4>2. k < m
        BY <3>3, <4>0, <4>1
      <4> QED
        BY <2>2, <3>2, <4>0, <4>2 DEF Turn, Becomes
    <3> QED
      BY <3>3 DEF InLine
  <2> QED
    BY <1>1, <2>1, <2>3, <2>4 DEF LineInv, Orderly
<1>6. ASSUME NEW m, Fail(m) PROVE LineInv' /\ (Orderly' => Orderly)
  <2>1. /\ m \in DOMAIN calls /\ faults' = faults + 1 /\ UNCHANGED <<others, overtaken>>
        /\ calls' = [calls EXCEPT ![m] = [calls[m] EXCEPT !.at = "done"]]
    BY <1>6 DEF Fail
  <2>2. faults' \in Nat /\ faults' # 0
    BY <1>1, <2>1
  <2>3. IsCall(calls[m])
    BY <2>1 DEF NetInv
  <2>4. calls'[m].at = "done"
    BY <2>1, <2>3 DEF IsCall
  <2>5. \A n \in DOMAIN calls' : n \in DOMAIN calls /\ (n # m => calls'[n] = calls[n])
    BY <2>1
  <2>6. \A n \in DOMAIN calls' : calls'[n].at # "done" => calls'[n].ok = FALSE
    BY <1>1, <2>4, <2>5
  <2> QED
    BY <1>1, <2>1, <2>2, <2>6 DEF LineInv, Orderly
<1>7. ASSUME NEW m, NEW rs, Leaves(m, rs) PROVE LineInv' /\ (Orderly' => Orderly)
  <2>1. /\ UNCHANGED <<faults, others>> /\ overtaken' \in BOOLEAN
        /\ overtaken' = FALSE => overtaken = FALSE
    BY <1>1, <1>7 DEF Leaves, Receive
  <2>2. Joined(calls, {m}, rs, calls')
    BY <1>7, LeavesJoins
  <2>3. \A n \in DOMAIN calls' :
          \/ n \in DOMAIN calls /\ calls'[n] = calls[n]
          \/ /\ calls'[n].at = "sent" /\ calls'[n].ok = FALSE
             /\ \A k \in DOMAIN calls : k \in Int /\ k < n
    BY <1>7, <2>2 DEF Joined, Leaves, FreshSeq, Fresh
  <2>4. \A n \in DOMAIN calls' : calls'[n].at # "done" => calls'[n].ok = FALSE
    BY <1>1, <2>3
  <2>5. \A n \in DOMAIN calls' : n \in Int
    BY <2>2 DEF Joined
  <2>6. ASSUME InLine, NEW k \in DOMAIN calls', NEW n \in DOMAIN calls', k < n, calls'[n].at # "sent"
        PROVE  calls'[k].at = "done"
    <3>1. n \in DOMAIN calls /\ calls'[n] = calls[n]
      BY <2>3, <2>6
    <3>2. k \in DOMAIN calls /\ calls'[k] = calls[k]
      BY <2>3, <2>5, <2>6, <3>1
    <3> QED
      BY <2>6, <3>1, <3>2 DEF InLine
  <2> QED
    BY <1>1, <2>1, <2>4, <2>6 DEF LineInv, Orderly, InLine
<1> QED
  BY <1>2, <1>3, <1>4, <1>5, <1>6, <1>7 DEF NetStep

-----------------------------------------------------------------------------
(* A list that is shown, and the requests that read it.                      *)

\* The requests of this kind whose answer is there.
Done(cs, to) == {n \in DOMAIN cs : cs[n].to = to /\ cs[n].at = "done"}

\* v is what will be shown when the answers that are there were received: the last one
\* of them is v, or there is none and v is shown.
Led(cs, to, v, shown) ==
    /\ \A n \in Done(cs, to) :
          (cs[n].ok = TRUE /\ cs[n].got = <<v>>) \/ \E m \in Done(cs, to) : n < m
    /\ shown = v \/ Done(cs, to) # {}

LEMMA JoinLeads ==
    ASSUME NEW cs, NEW ds, NEW rs, FreshSeq(rs), Joined(cs, {}, rs, ds), NEW to, NEW v, NEW shown,
           Led(cs, to, v, shown)
    PROVE  Led(ds, to, v, shown)
<1>1. \A n \in DOMAIN cs : n \in DOMAIN ds /\ ds[n] = cs[n]
  BY DEF Joined
<1>2. \A n \in DOMAIN ds : n \in DOMAIN cs \/ ds[n].at = "sent"
  BY DEF Joined, FreshSeq, Fresh
<1>3. Done(ds, to) = Done(cs, to) /\ \A n \in Done(cs, to) : ds[n] = cs[n]
  BY <1>1, <1>2 DEF Done
<1> QED
  BY <1>3 DEF Led

\* A statement for another request, or not its last one.
LEMMA OtherLeads ==
    ASSUME NEW cs, NEW ds, NEW m \in DOMAIN cs, NEW c, Becomes(cs, m, c, ds), NEW to,
           cs[m].to # to \/ cs[m].at # "done", c.to # to \/ c.at # "done",
           NEW v, NEW shown, Led(cs, to, v, shown)
    PROVE  Led(ds, to, v, shown)
<1>1. Done(ds, to) = Done(cs, to) /\ \A n \in Done(cs, to) : ds[n] = cs[n]
  BY DEF Done, Becomes
<1> QED
  BY <1>1 DEF Led

\* Its answer, which comes after all that are there.
LEMMA AnswerLeads ==
    ASSUME NEW cs, NEW ds, NEW m \in DOMAIN cs, NEW c, Becomes(cs, m, c, ds), Turn(cs, m),
           \A n \in DOMAIN cs : n \in Int,
           NEW to, NEW v, NEW shown,
           c.to = to, c.at = "done", c.ok = TRUE, c.got = <<v>>
    PROVE  Led(ds, to, v, shown)
<1>1. m \in Done(ds, to) /\ ds[m] = c
  BY DEF Done, Becomes
<1>2. ASSUME NEW n \in Done(ds, to), n # m PROVE n < m
  <2>1. n \in DOMAIN cs /\ ds[n] = cs[n] /\ cs[n].at = "done"
    BY <1>2 DEF Done, Becomes
  <2>2. ~(m < n)
    BY <2>1 DEF Turn
  <2> QED
    BY <1>2, <2>1, <2>2
<1> QED
  BY <1>1, <1>2 DEF Led

\* An answer is received: another one, or that of the first of these requests.
LEMMA LeaveLeads ==
    ASSUME NEW cs, NEW ds, NEW m \in DOMAIN cs, NEW rs, FreshSeq(rs), Joined(cs, {m}, rs, ds),
           Foremost(cs, m), \A n \in DOMAIN cs : n \in Int, cs[m].at = "done",
           NEW to, NEW v, NEW shown, Led(cs, to, v, shown),
           NEW now, now = IF cs[m].to = to /\ cs[m].ok = TRUE THEN cs[m].got[1] ELSE shown
    PROVE  Led(ds, to, v, now)
<1>1. \A n \in DOMAIN cs : n # m => n \in DOMAIN ds /\ ds[n] = cs[n]
  BY DEF Joined
<1>2. \A n \in DOMAIN ds : (n \in DOMAIN cs /\ n # m) \/ ds[n].at = "sent"
  BY DEF Joined, FreshSeq, Fresh
<1>3. Done(ds, to) = Done(cs, to) \ {m} /\ \A n \in Done(cs, to) \ {m} : ds[n] = cs[n]
  BY <1>1, <1>2 DEF Done
<1>4. ASSUME NEW n \in Done(ds, to)
      PROVE  (ds[n].ok = TRUE /\ ds[n].got = <<v>>) \/ \E k \in Done(ds, to) : n < k
  <2>1. n \in Done(cs, to) /\ n # m /\ ds[n] = cs[n] /\ n \in DOMAIN cs
    BY <1>3 DEF Done
  <2>2. ASSUME NEW k \in Done(cs, to), n < k PROVE k # m
    BY <2>1, <2>2 DEF Foremost
  <2> QED
    BY <1>3, <2>1, <2>2 DEF Led
<1>5. CASE cs[m].to # to
  <2>1. m \notin Done(cs, to)
    BY <1>5 DEF Done
  <2> QED
    BY <1>3, <1>4, <1>5, <2>1 DEF Led
<1>6. CASE cs[m].to = to /\ Done(ds, to) = {}
  <2>1. m \in Done(cs, to) /\ \A k \in Done(cs, to) : k = m
    BY <1>3, <1>6 DEF Done
  <2>2. ~(m < m)
    OBVIOUS
  <2>3. cs[m].ok = TRUE /\ cs[m].got = <<v>>
    BY <2>1, <2>2 DEF Led
  <2>4. cs[m].got[1] = v
    BY <2>3
  <2> QED
    BY <1>4, <1>6, <2>3, <2>4 DEF Led
<1>7. CASE Done(ds, to) # {}
  BY <1>4, <1>7 DEF Led
<1> QED
  BY <1>5, <1>6, <1>7

\* Once nothing is under way, it is what is shown.
LEMMA LedIsShown ==
    ASSUME NEW cs, DOMAIN cs = {}, NEW to, NEW v, NEW shown, Led(cs, to, v, shown)
    PROVE  shown = v
BY DEF Led, Done

-----------------------------------------------------------------------------
(* The alerts page.                                                          *)

\* The rules will be loaded again, or they will be read: what is shown need not be
\* what is stored.
OwesRules(c) ==
    \/ c.to = "rules" /\ c.at = "sent"
    \/ c.to \in {"create_rule", "update_rule"} /\ c.at = "read"
    \/ c.to \in {"create_rule", "update_rule", "delete_rule"} /\ c.at = "done" /\ c.ok = TRUE

\* load asks for the active alerts when the rules are there.
OwesActive(c) ==
    \/ OwesRules(c)
    \/ c.to = "rules" /\ c.at = "done"
    \/ c.to = "active" /\ c.at = "sent"

\* The rules whose row a handler is about to read are there.
RowsRead(cs, tab) ==
    \A n \in DOMAIN cs : cs[n].to \in {"create_rule", "update_rule"} /\ cs[n].at = "read" =>
        cs[n].body.id \in DOMAIN tab

\* create_rule fills in the id.
HaveIds(cs) == \A n \in DOMAIN cs : cs[n].to = "create_rule" => "id" \in DOMAIN cs[n].body

DeskTold(cs, tab, active, d) ==
    /\ tab = [i \in DOMAIN tab |-> tab[i]] /\ active \subseteq DOMAIN tab
    /\ RowsRead(cs, tab)
    /\ (\E n \in DOMAIN cs : OwesRules(cs[n])) \/ Led(cs, "rules", tab, d.rules)
    /\ (\E n \in DOMAIN cs : OwesActive(cs[n])) \/ Led(cs, "active", active, d.active)

DeskFields == {"rules", "active", "loading", "dialog", "submitting", "deleting"} \subseteq DOMAIN desk

DeskInv ==
    page = "alerts" /\ Orderly =>
        DeskFields /\ HaveIds(calls) /\ DeskTold(calls, ruleTable, alarms, desk)

LEMMA DeskInit ==
    ASSUME Init
    PROVE  DeskInv
<1> SUFFICES ASSUME page = "alerts" PROVE DeskInv
  BY DEF DeskInv
<1>1. AlertsInit /\ BrowserInit(<<ListRules>>)
  BY DEF Init, Asking
<1>2. PICK r \in AlertRule, k \in 0..MaxRules : ruleTable = [i \in 1..k |-> r] /\ alarms = 1..k
  BY <1>1 DEF AlertsInit
<1>3. ruleTable = [i \in DOMAIN ruleTable |-> ruleTable[i]] /\ alarms \subseteq DOMAIN ruleTable
  BY <1>2
<1>4. DOMAIN calls = {1} /\ calls[1].to = "rules" /\ calls[1].at = "sent"
  <2>1. DOMAIN <<ListRules>> = {1} /\ <<ListRules>>[1] = ListRules
    OBVIOUS
  <2>2. DOMAIN calls = {1} /\ calls[1] = ListRules
    BY <1>1, <2>1 DEF BrowserInit
  <2>3. ListRules.to = "rules" /\ ListRules.at = "sent"
    BY DEF ListRules, GetJson
  <2> QED
    BY <2>2, <2>3
<1>5. OwesRules(calls[1]) /\ OwesActive(calls[1])
  BY <1>4 DEF OwesRules, OwesActive
<1>6. RowsRead(calls, ruleTable)
  BY <1>4 DEF RowsRead
<1>7. desk = NewDesk
  BY <1>1 DEF AlertsInit
<1>8. DeskTold(calls, ruleTable, alarms, desk)
  BY <1>3, <1>4, <1>5, <1>6 DEF DeskTold
<1> QED
  BY <1>4, <1>7, <1>8 DEF DeskInv, DeskFields, HaveIds, NewDesk

LEMMA JoinHasIds ==
    ASSUME NEW cs, NEW gone, NEW rs, NEW ds, Joined(cs, gone, rs, ds), HaveIds(cs),
           \A i \in DOMAIN rs : rs[i].to = "create_rule" => "id" \in DOMAIN rs[i].body
    PROVE  HaveIds(ds)
<1>1. \A n \in DOMAIN ds : (n \in DOMAIN cs /\ ds[n] = cs[n]) \/ \E i \in DOMAIN rs : ds[n] = rs[i]
  BY DEF Joined
<1> QED
  BY <1>1 DEF HaveIds

LEMMA StepHasIds ==
    ASSUME NEW cs, NEW ds, NEW m \in DOMAIN cs, NEW c, Becomes(cs, m, c, ds), HaveIds(cs),
           c.to = cs[m].to, DOMAIN c.body = DOMAIN cs[m].body
    PROVE  HaveIds(ds)
BY DEF Becomes, HaveIds

\* The page sends something.
LEMMA JoinTells ==
    ASSUME NEW cs, NEW ds, NEW rs, FreshSeq(rs), Joined(cs, {}, rs, ds),
           NEW tab, NEW active, NEW d, NEW e, e.rules = d.rules, e.active = d.active,
           DeskTold(cs, tab, active, d)
    PROVE  DeskTold(ds, tab, active, e)
<1>1. \A n \in DOMAIN cs : n \in DOMAIN ds /\ ds[n] = cs[n]
  BY DEF Joined
<1>2. \A n \in DOMAIN ds : (n \in DOMAIN cs /\ ds[n] = cs[n]) \/ ds[n].at = "sent"
  BY DEF Joined, FreshSeq, Fresh
<1>3. RowsRead(ds, tab)
  BY <1>2 DEF DeskTold, RowsRead
<1>4. (\E n \in DOMAIN cs : OwesRules(cs[n])) => \E n \in DOMAIN ds : OwesRules(ds[n])
  BY <1>1
<1>5. (\E n \in DOMAIN cs : OwesActive(cs[n])) => \E n \in DOMAIN ds : OwesActive(ds[n])
  BY <1>1
<1>6. Led(cs, "rules", tab, d.rules) => Led(ds, "rules", tab, e.rules)
  BY JoinLeads
<1>7. Led(cs, "active", active, d.active) => Led(ds, "active", active, e.active)
  BY JoinLeads
<1> QED
  BY <1>3, <1>4, <1>5, <1>6, <1>7 DEF DeskTold

\* Among the handlers only the one whose turn it is can be about to read a row.
LEMMA OneReads ==
    ASSUME NEW cs, NEW ds, NEW m \in DOMAIN cs, NEW c, Becomes(cs, m, c, ds), Turn(cs, m),
           \A n \in DOMAIN cs : n \in Int,
           NEW tab, c.at # "read" \/ c.body.id \in DOMAIN tab
    PROVE  RowsRead(ds, tab)
<1>1. \A n \in DOMAIN ds : n = m \/ ds[n].at \in {"sent", "done"}
  BY DEF Becomes, Turn
<1>2. ds[m] = c
  BY DEF Becomes
<1> QED
  BY <1>1, <1>2 DEF RowsRead

\* A statement that changed a table, or whose request did.
LEMMA ChangeTells ==
    ASSUME NEW cs, NEW ds, NEW m \in DOMAIN cs, NEW c, Becomes(cs, m, c, ds), Turn(cs, m),
           \A n \in DOMAIN cs : n \in Int,
           NEW tab, NEW active, NEW d,
           tab = [i \in DOMAIN tab |-> tab[i]], active \subseteq DOMAIN tab,
           c.at # "read" \/ c.body.id \in DOMAIN tab,
           OwesRules(c)
    PROVE  DeskTold(ds, tab, active, d)
<1>1. RowsRead(ds, tab)
  BY OneReads
<1>2. m \in DOMAIN ds /\ OwesRules(ds[m]) /\ OwesActive(ds[m])
  BY DEF Becomes, OwesActive
<1> QED
  BY <1>1, <1>2 DEF DeskTold

\* One that changed nothing.
LEMMA SameTells ==
    ASSUME NEW cs, NEW ds, NEW m \in DOMAIN cs, NEW c, Becomes(cs, m, c, ds), Turn(cs, m),
           \A n \in DOMAIN cs : n \in Int,
           NEW tab, NEW active, NEW d, DeskTold(cs, tab, active, d),
           c.to = cs[m].to, c.to \in {"create_rule", "update_rule", "delete_rule"},
           c.at # "read" \/ c.body.id \in DOMAIN tab,
           cs[m].at # "read", cs[m].at # "done"
    PROVE  DeskTold(ds, tab, active, d)
<1>1. RowsRead(ds, tab)
  BY OneReads
<1>2. ~OwesActive(cs[m])
  BY DEF OwesActive, OwesRules
<1>3. \A n \in DOMAIN cs : n # m => n \in DOMAIN ds /\ ds[n] = cs[n]
  BY DEF Becomes
<1>4. (\E n \in DOMAIN cs : OwesRules(cs[n])) => \E n \in DOMAIN ds : OwesRules(ds[n])
  BY <1>2, <1>3 DEF OwesActive
<1>5. (\E n \in DOMAIN cs : OwesActive(cs[n])) => \E n \in DOMAIN ds : OwesActive(ds[n])
  BY <1>2, <1>3
<1>6. Led(cs, "rules", tab, d.rules) => Led(ds, "rules", tab, d.rules)
  BY OtherLeads
<1>7. Led(cs, "active", active, d.active) => Led(ds, "active", active, d.active)
  BY OtherLeads
<1> QED
  BY <1>1, <1>4, <1>5, <1>6, <1>7 DEF DeskTold

LEMMA RulesTell ==
    ASSUME NEW cs, NEW ds, NEW m \in DOMAIN cs, NEW c, Becomes(cs, m, c, ds), Turn(cs, m),
           \A n \in DOMAIN cs : n \in Int,
           NEW tab, NEW active, NEW d, DeskTold(cs, tab, active, d),
           c.to = "rules", c.at = "done", c.ok = TRUE, c.got = <<tab>>
    PROVE  DeskTold(ds, tab, active, d)
<1>1. RowsRead(ds, tab)
  BY OneReads
<1>2. Led(ds, "rules", tab, d.rules)
  BY AnswerLeads
<1>3. m \in DOMAIN ds /\ OwesActive(ds[m])
  BY DEF Becomes, OwesActive
<1> QED
  BY <1>1, <1>2, <1>3 DEF DeskTold

LEMMA ActiveTells ==
    ASSUME NEW cs, NEW ds, NEW m \in DOMAIN cs, NEW c, Becomes(cs, m, c, ds), Turn(cs, m),
           \A n \in DOMAIN cs : n \in Int,
           NEW tab, NEW active, NEW d, DeskTold(cs, tab, active, d), cs[m].to = "active",
           c.to = "active", c.at = "done", c.ok = TRUE, c.got = <<active>>
    PROVE  DeskTold(ds, tab, active, d)
<1>1. RowsRead(ds, tab)
  BY OneReads
<1>2. Led(ds, "active", active, d.active)
  BY AnswerLeads
<1>3. ~OwesRules(cs[m])
  BY DEF OwesRules
<1>4. (\E n \in DOMAIN cs : OwesRules(cs[n])) => \E n \in DOMAIN ds : OwesRules(ds[n])
  BY <1>3 DEF Becomes
<1>5. Led(cs, "rules", tab, d.rules) => Led(ds, "rules", tab, d.rules)
  BY OtherLeads
<1> QED
  BY <1>1, <1>2, <1>4, <1>5 DEF DeskTold

\* The answer to m is received; the page may send rs.
LEMMA LeaveTells ==
    ASSUME NEW cs, NEW ds, NEW m \in DOMAIN cs, NEW rs, FreshSeq(rs), Joined(cs, {m}, rs, ds),
           Foremost(cs, m), \A n \in DOMAIN cs : n \in Int, cs[m].at = "done",
           NEW tab, NEW active, NEW d, NEW e, DeskTold(cs, tab, active, d),
           OwesRules(cs[m]) => \E i \in DOMAIN rs : rs[i].to = "rules",
           cs[m].to = "rules" => \E i \in DOMAIN rs : rs[i].to = "active",
           e.rules = IF cs[m].to = "rules" /\ cs[m].ok = TRUE THEN cs[m].got[1] ELSE d.rules,
           e.active = IF cs[m].to = "active" /\ cs[m].ok = TRUE THEN cs[m].got[1] ELSE d.active
    PROVE  DeskTold(ds, tab, active, e)
<1>1. \A n \in DOMAIN cs : n # m => n \in DOMAIN ds /\ ds[n] = cs[n]
  BY DEF Joined
<1>2. \A n \in DOMAIN ds : (n \in DOMAIN cs /\ ds[n] = cs[n]) \/ ds[n].at = "sent"
  BY DEF Joined, FreshSeq, Fresh
<1>3. \A i \in DOMAIN rs : \E n \in DOMAIN ds : ds[n].to = rs[i].to /\ ds[n].at = "sent"
  BY DEF Joined, FreshSeq, Fresh
<1>4. RowsRead(ds, tab)
  BY <1>2 DEF DeskTold, RowsRead
<1>5. (\E n \in DOMAIN cs : OwesRules(cs[n])) => \E n \in DOMAIN ds : OwesRules(ds[n])
  <2>1. ASSUME OwesRules(cs[m]) PROVE \E n \in DOMAIN ds : OwesRules(ds[n])
    BY <1>3, <2>1 DEF OwesRules
  <2> QED
    BY <1>1, <2>1
<1>6. (\E n \in DOMAIN cs : OwesActive(cs[n])) => \E n \in DOMAIN ds : OwesActive(ds[n])
  <2>1. ASSUME OwesActive(cs[m]) PROVE \E n \in DOMAIN ds : OwesActive(ds[n])
    <3>1. \E i \in DOMAIN rs : rs[i].to \in {"rules", "active"}
      BY <2>1 DEF OwesActive
    <3> QED
      BY <1>3, <3>1 DEF OwesActive, OwesRules
  <2> QED
    BY <1>1, <2>1
<1>7. Led(cs, "rules", tab, d.rules) => Led(ds, "rules", tab, e.rules)
  BY LeaveLeads
<1>8. Led(cs, "active", active, d.active) => Led(ds, "active", active, e.active)
  BY LeaveLeads
<1> QED
  BY <1>4, <1>5, <1>6, <1>7, <1>8 DEF DeskTold

LEMMA DeskUserTells ==
    ASSUME NetInv, DeskFields, HaveIds(calls), DeskTold(calls, ruleTable, alarms, desk), AlertsUser,
           others' = others, others \in Nat
    PROVE  DeskFields' /\ HaveIds(calls') /\ DeskTold(calls', ruleTable', alarms', desk')
<1> DEFINE Goal == DeskFields' /\ HaveIds(calls') /\ DeskTold(calls', ruleTable', alarms', desk')
           Same == UNCHANGED <<ruleTable, alarms>> /\ DeskFields' /\ desk'.rules = desk.rules /\ desk'.active = desk.active
<1>1. ASSUME NEW r, Fresh(r), Send(<<r>>), r.to = "create_rule" => "id" \in DOMAIN r.body, Same
      PROVE  Goal
  <2>1. FreshSeq(<<r>>) /\ DOMAIN <<r>> = {1} /\ <<r>>[1] = r
    BY <1>1, FewRequests
  <2>2. Joined(calls, {}, <<r>>, calls')
    BY <1>1, <2>1, SendJoins
  <2>3. HaveIds(calls')
    BY <1>1, <2>1, <2>2, JoinHasIds
  <2> QED
    BY <1>1, <2>1, <2>2, <2>3, JoinTells
<1>2. ASSUME calls' = calls, Same PROVE Goal
  BY <1>2 DEF DeskTold
<1>3. CASE AlertsToken
  <2>1. Fresh(ListRules) /\ ListRules.to = "rules"
    BY GetJsonIsFresh DEF ListRules
  <2>2. Same
    BY <1>3 DEF AlertsToken, DeskOnly, Reloading, DeskFields
  <2> QED
    BY <1>1, <1>3, <2>1, <2>2 DEF AlertsToken
<1>4. CASE do_delete
  <2>1. Same
    BY <1>4 DEF do_delete, DeskOnly, DeskFields
  <2> QED
    BY <1>1, <1>4, <2>1, GetJsonIsFresh DEF do_delete, DeleteReq
<1>5. ASSUME NEW kind, NEW cmp, NEW agg, on_submit(kind, cmp, agg) PROVE Goal
  <2>1. Same
    BY <1>5 DEF on_submit, DeskOnly, DeskFields
  <2>2. \/ Send(<<GetJson("create_rule", to_create_body(kind, cmp, agg, desk.form))>>)
        \/ \E q : Send(<<GetJson("update_rule", q)>>)
    BY <1>5 DEF on_submit, SendJson
  <2>3. "id" \in DOMAIN to_create_body(kind, cmp, agg, desk.form)
    BY DEF to_create_body
  <2>4. CASE \E q : Send(<<GetJson("update_rule", q)>>)
    BY <1>1, <2>1, <2>4, GetJsonIsFresh
  <2>5. CASE Send(<<GetJson("create_rule", to_create_body(kind, cmp, agg, desk.form))>>)
    <3> PICK q : q = to_create_body(kind, cmp, agg, desk.form)
      OBVIOUS
    <3>1. Send(<<GetJson("create_rule", q)>>) /\ "id" \in DOMAIN q
      BY <2>3, <2>5
    <3> QED
      BY <1>1, <2>1, <3>1, GetJsonIsFresh
  <2> QED
    BY <2>2, <2>4, <2>5
<1>6. CASE open_new \/ CloseDialog \/ \E i \in RuleIds : open_edit(i) \/ open_delete(i)
  <2>1. calls' = calls
    BY <1>6 DEF open_new, CloseDialog, open_edit, open_delete, Local, net
  <2>2. Same
    BY <1>6 DEF open_new, CloseDialog, open_edit, open_delete, DeskOnly, DeskFields
  <2> QED
    BY <1>2, <2>1, <2>2
<1>7. ASSUME NEW i, SomebodyTouchesARule(i) PROVE FALSE
  BY <1>7 DEF SomebodyTouchesARule, SomebodyElse
<1> QED
  BY <1>3, <1>4, <1>5, <1>6, <1>7 DEF AlertsUser

LEMMA DeskServesTells ==
    ASSUME NetInv, LineInv, Orderly, overtaken' = FALSE, DeskTold(calls, ruleTable, alarms, desk),
           HaveIds(calls), NEW m, AlertsServes(m)
    PROVE  UNCHANGED desk /\ HaveIds(calls') /\ DeskTold(calls', ruleTable', alarms', desk')
<1>0. UNCHANGED desk
  BY DEF AlertsServes, list_rules, list_active_alerts, create_rule, update_rule, UpdateRow,
     load_rule, delete_rule, alertVars, InsertRule, DeleteRow
<1>1. /\ m \in DOMAIN calls /\ calls[m].at # "done" /\ calls[m].ok = FALSE
      /\ \A n \in DOMAIN calls : n \in Int
      /\ InLine
  BY DEF AlertsServes, list_rules, list_active_alerts, create_rule, update_rule, UpdateRow,
     load_rule, delete_rule, At, LineInv, NetInv
<1>2. ASSUME NEW c, Handles(m, c), Handle(m, c)
      PROVE  Becomes(calls, m, c, calls') /\ Turn(calls, m) /\ c.to = calls[m].to
  BY <1>1, <1>2, HandledInTurn DEF Handles
<1>3. ruleTable = [i \in DOMAIN ruleTable |-> ruleTable[i]] /\ alarms \subseteq DOMAIN ruleTable
  BY DEF DeskTold
<1> DEFINE Goal == HaveIds(calls') /\ DeskTold(calls', ruleTable', alarms', desk)
<1> SUFFICES Goal
  BY <1>0
\* The request changed no table and goes on, or is over.
<1>4. ASSUME calls[m].to \in {"create_rule", "update_rule", "delete_rule"}, calls[m].at # "read",
             Refuse(m) \/ GoOn(m, "write", calls[m].body), UNCHANGED <<ruleTable, alarms>>
      PROVE  Goal
  <2>1. PICK c : Handles(m, c) /\ Handle(m, c) /\ c.at \in {"write", "done"} /\ c.body = calls[m].body
    BY <1>1, <1>4, RefuseHandles, GoOnHandles
  <2>2. HaveIds(calls')
    BY <1>1, <1>2, <2>1, StepHasIds
  <2> QED
    BY <1>1, <1>2, <1>4, <2>1, <2>2, SameTells
<1>5. CASE list_rules(m)
  <2>1. /\ Answer(m, ruleTable) /\ UNCHANGED <<ruleTable, alarms>> /\ calls[m].to = "rules"
    BY <1>5 DEF list_rules, At, alertVars
  <2>2. PICK c : /\ Handles(m, c) /\ Handle(m, c) /\ c.at = "done" /\ c.ok = TRUE /\ c.got = <<ruleTable>>
                 /\ c.body = calls[m].body
    BY <1>1, <2>1, AnswerHandles
  <2>3. HaveIds(calls')
    BY <1>1, <1>2, <2>2, StepHasIds
  <2> QED
    BY <1>1, <1>2, <2>1, <2>2, <2>3, RulesTell
<1>6. CASE list_active_alerts(m)
  <2>1. /\ Answer(m, alarms) /\ UNCHANGED <<ruleTable, alarms>> /\ calls[m].to = "active"
    BY <1>6 DEF list_active_alerts, At, alertVars
  <2>2. PICK c : /\ Handles(m, c) /\ Handle(m, c) /\ c.at = "done" /\ c.ok = TRUE /\ c.got = <<alarms>>
                 /\ c.body = calls[m].body
    BY <1>1, <2>1, AnswerHandles
  <2>3. HaveIds(calls')
    BY <1>1, <1>2, <2>2, StepHasIds
  <2> QED
    BY <1>1, <1>2, <2>1, <2>2, <2>3, ActiveTells
\* A row was written, or is read for the answer: the rules are loaded again.
<1>7. ASSUME NEW c, Handles(m, c), Handle(m, c), OwesRules(c), DOMAIN c.body = DOMAIN calls[m].body,
             c.at # "read" \/ c.body.id \in DOMAIN ruleTable',
             ruleTable' = [i \in DOMAIN ruleTable' |-> ruleTable'[i]], alarms' \subseteq DOMAIN ruleTable'
      PROVE  Goal
  <2>1. HaveIds(calls')
    BY <1>1, <1>2, <1>7, StepHasIds
  <2>2. Becomes(calls, m, c, calls') /\ Turn(calls, m)
    BY <1>2, <1>7
  <2>3. DeskTold(calls', ruleTable', alarms', desk)
    <3> PICK tab, active : tab = ruleTable' /\ active = alarms'
      OBVIOUS
    <3> QED
      BY <1>1, <1>7, <2>2, ChangeTells
  <2> QED
    BY <2>1, <2>3
<1>8. CASE create_rule(m)
  <2> DEFINE b == calls[m].body
             r == [kind |-> b.kind, config |-> b.config]
             q == [b EXCEPT !.id = nextRule]
  <2>1. calls[m].to = "create_rule" /\ calls[m].at = "sent"
    BY <1>8 DEF create_rule, At
  <2>2. CASE Refuse(m) /\ UNCHANGED alertVars
    BY <1>4, <2>1, <2>2 DEF alertVars
  <2>3. CASE InsertRule(r) /\ GoOn(m, "read", q)
    <3>1. ruleTable' = With(ruleTable, nextRule, r) /\ alarms' = alarms
      BY <2>3 DEF InsertRule
    <3>2. q.id = nextRule /\ DOMAIN q = DOMAIN b
      BY <1>1, <2>1 DEF HaveIds
    <3> HIDE DEF q
    <3>3. PICK c : Handles(m, c) /\ Handle(m, c) /\ c.at = "read" /\ c.body = q
      BY <1>1, <2>3, GoOnHandles
    <3>4. /\ ruleTable' = [i \in DOMAIN ruleTable' |-> ruleTable'[i]]
          /\ alarms' \subseteq DOMAIN ruleTable' /\ nextRule \in DOMAIN ruleTable'
      BY <1>3, <3>1 DEF With
    <3>5. OwesRules(c)
      BY <1>2, <2>1, <3>3 DEF OwesRules
    <3> QED
      BY <1>7, <3>2, <3>3, <3>4, <3>5
  <2> QED
    BY <1>8, <2>2, <2>3 DEF create_rule
<1>9. CASE update_rule(m)
  <2>1. /\ calls[m].to = "update_rule" /\ calls[m].at = "sent" /\ UNCHANGED <<ruleTable, alarms>>
        /\ Refuse(m) \/ GoOn(m, "write", calls[m].body)
    BY <1>9 DEF update_rule, At, alertVars
  <2> QED
    BY <1>4, <2>1
<1>10. CASE UpdateRow(m)
  <2> DEFINE b == calls[m].body
  <2>1. calls[m].to = "update_rule" /\ calls[m].at = "write"
    BY <1>10 DEF UpdateRow, At
  <2>2. CASE Refuse(m) /\ UNCHANGED alertVars
    BY <1>4, <2>1, <2>2 DEF alertVars
  <2>3. CASE b.id \in DOMAIN ruleTable /\ ruleTable' = With(ruleTable, b.id, [ruleTable[b.id] EXCEPT !.config = b.config])
             /\ GoOn(m, "read", b) /\ UNCHANGED alarms
    <3>1. /\ ruleTable' = [i \in DOMAIN ruleTable' |-> ruleTable'[i]]
          /\ alarms' \subseteq DOMAIN ruleTable' /\ b.id \in DOMAIN ruleTable'
      BY <1>3, <2>3 DEF With
    <3>2. PICK c : Handles(m, c) /\ Handle(m, c) /\ c.at = "read" /\ c.body = b
      BY <1>1, <2>3, GoOnHandles
    <3>3. OwesRules(c)
      BY <1>2, <2>1, <3>2 DEF OwesRules
    <3> QED
      BY <1>7, <3>1, <3>2, <3>3
  <2> QED
    BY <1>10, <2>2, <2>3 DEF UpdateRow
<1>11. CASE load_rule(m)
  <2>1. calls[m].to \in {"create_rule", "update_rule"} /\ calls[m].at = "read"
        /\ UNCHANGED <<ruleTable, alarms>>
    BY <1>11 DEF load_rule, At, alertVars
  <2>2. calls[m].body.id \in DOMAIN ruleTable
    BY <1>1, <2>1 DEF DeskTold, RowsRead
  <2>3. Answer(m, Nothing)
    BY <1>11, <2>2 DEF load_rule
  <2>4. PICK c : Handles(m, c) /\ Handle(m, c) /\ c.at = "done" /\ c.ok = TRUE /\ c.body = calls[m].body
    BY <1>1, <2>3, AnswerHandles
  <2>5. OwesRules(c)
    BY <1>2, <2>1, <2>4 DEF OwesRules
  <2> QED
    BY <1>3, <1>7, <2>1, <2>4, <2>5
<1>12. CASE delete_rule(m)
  <2> DEFINE i == calls[m].body
  <2>1. /\ calls[m].to = "delete_rule" /\ calls[m].at = "sent"
        /\ ruleTable' = Without(ruleTable, i) /\ alarms' = alarms \ {i}
    BY <1>12 DEF delete_rule, At, DeleteRow
  <2>2. CASE i \in DOMAIN ruleTable
    <3>1. Answer(m, Nothing)
      BY <1>12, <2>2 DEF delete_rule
    <3>2. PICK c : Handles(m, c) /\ Handle(m, c) /\ c.at = "done" /\ c.ok = TRUE /\ c.body = calls[m].body
      BY <1>1, <3>1, AnswerHandles
    <3>3. OwesRules(c)
      BY <1>2, <2>1, <3>2 DEF OwesRules
    <3>4. ruleTable' = [j \in DOMAIN ruleTable' |-> ruleTable'[j]] /\ alarms' \subseteq DOMAIN ruleTable'
      BY <1>3, <2>1 DEF Without
    <3> QED
      BY <1>7, <3>2, <3>3, <3>4
  <2>3. CASE i \notin DOMAIN ruleTable
    <3>1. Refuse(m)
      BY <1>12, <2>3 DEF delete_rule
    <3>2. alarms' = alarms
      BY <1>3, <2>1, <2>3
    <3>3. DOMAIN ruleTable \ {i} = DOMAIN ruleTable
      BY <2>3
    <3>4. ruleTable' = ruleTable
      BY <1>3, <2>1, <3>3 DEF Without
    <3> QED
      BY <1>4, <2>1, <3>1, <3>2, <3>4
  <2> QED
    BY <2>2, <2>3
<1> QED
  BY <1>0, <1>5, <1>6, <1>8, <1>9, <1>10, <1>11, <1>12 DEF AlertsServes

LEMMA DeskHearsTells ==
    ASSUME NetInv, overtaken' = FALSE, DeskFields, HaveIds(calls),
           DeskTold(calls, ruleTable, alarms, desk), NEW m, AlertsHears(m)
    PROVE  DeskFields' /\ HaveIds(calls') /\ DeskTold(calls', ruleTable', alarms', desk')
<1>1. /\ m \in DOMAIN calls /\ calls[m].at = "done" /\ \A n \in DOMAIN calls : n \in Int
      /\ UNCHANGED <<ruleTable, alarms>>
  BY DEF AlertsHears, GotRules, GotActive, GotSubmitted, GotRuleDeleted, At, NetInv, DeskOnly
<1> DEFINE Read(to, old) == IF calls[m].to = to /\ calls[m].ok = TRUE THEN calls[m].got[1] ELSE old
<1>2. ASSUME NEW rs, FreshSeq(rs), Receive(m, rs),
             OwesRules(calls[m]) => \E i \in DOMAIN rs : rs[i].to = "rules",
             calls[m].to = "rules" => \E i \in DOMAIN rs : rs[i].to = "active",
             \A i \in DOMAIN rs : rs[i].to \in {"rules", "active"},
             desk'.rules = Read("rules", desk.rules), desk'.active = Read("active", desk.active)
      PROVE  HaveIds(calls') /\ DeskTold(calls', ruleTable', alarms', desk')
  <2>1. Leaves(m, rs)
    BY <1>1, <1>2 DEF Leaves
  <2>2. Joined(calls, {m}, rs, calls') /\ Foremost(calls, m)
    BY <2>1, LeavesJoins, FirstLeaves
  <2>3. HaveIds(calls')
    BY <1>2, <2>2, JoinHasIds
  <2> PICK e : e = desk'
    OBVIOUS
  <2>4. DeskTold(calls', ruleTable, alarms, e)
    BY <1>1, <1>2, <2>2, LeaveTells
  <2> QED
    BY <1>1, <2>3, <2>4
<1>3. Fresh(ListRules) /\ ListRules.to = "rules"
  BY GetJsonIsFresh DEF ListRules
<1> DEFINE r == GetJson("active", Nothing)
<1>4. Fresh(r) /\ r.to = "active"
  BY GetJsonIsFresh
<1> HIDE DEF r
<1>5. FreshSeq(<<ListRules>>) /\ DOMAIN <<ListRules>> = {1} /\ <<ListRules>>[1] = ListRules
  BY <1>3, FewRequests
<1>6. FreshSeq(<<r>>) /\ DOMAIN <<r>> = {1} /\ <<r>>[1] = r
  BY <1>4, FewRequests
<1>7. CASE GotRules(m)
  <2>1. calls[m].to = "rules" /\ ~OwesRules(calls[m]) /\ Receive(m, <<r>>)
    BY <1>1, <1>7 DEF GotRules, At, OwesRules, r
  <2>2. desk' = [desk EXCEPT !.rules = IF calls[m].ok THEN calls[m].got[1] ELSE desk.rules]
    BY <1>7 DEF GotRules, DeskOnly
  <2>3. DeskFields' /\ desk'.rules = Read("rules", desk.rules) /\ desk'.active = Read("active", desk.active)
    BY <2>1, <2>2 DEF DeskFields
  <2> QED
    BY <1>2, <1>4, <1>6, <2>1, <2>3
<1>8. CASE GotActive(m)
  <2>1. calls[m].to = "active" /\ ~OwesRules(calls[m]) /\ Receive(m, <<>>)
    BY <1>8 DEF GotActive, At, OwesRules
  <2>2. desk' = [desk EXCEPT !.loading = FALSE,
                             !.active = IF calls[m].ok THEN calls[m].got[1] ELSE desk.active]
    BY <1>8 DEF GotActive, DeskOnly
  <2>3. DeskFields' /\ desk'.rules = Read("rules", desk.rules) /\ desk'.active = Read("active", desk.active)
    BY <2>1, <2>2 DEF DeskFields
  <2> QED
    BY <1>2, <2>1, <2>3, FewRequests
<1>9. CASE GotSubmitted(m) \/ GotRuleDeleted(m)
  <2>1. calls[m].to \in {"create_rule", "update_rule", "delete_rule"}
    BY <1>9 DEF GotSubmitted, GotRuleDeleted, At
  <2>2. DeskFields' /\ desk'.rules = Read("rules", desk.rules) /\ desk'.active = Read("active", desk.active)
    BY <1>9, <2>1 DEF GotSubmitted, GotRuleDeleted, DeskOnly, Reloading, DeskFields
  <2>3. CASE calls[m].ok
    <3>1. Receive(m, <<ListRules>>)
      BY <1>9, <2>3 DEF GotSubmitted, GotRuleDeleted
    <3> QED
      BY <1>2, <1>3, <1>5, <2>1, <2>2, <3>1
  <2>4. CASE ~calls[m].ok
    <3>1. Receive(m, <<>>)
      BY <1>9, <2>4 DEF GotSubmitted, GotRuleDeleted
    <3>2. ~OwesRules(calls[m])
      BY <1>1, <2>1, <2>4 DEF OwesRules
    <3> QED
      BY <1>2, <2>1, <2>2, <3>1, <3>2, FewRequests
  <2> QED
    BY <2>3, <2>4
<1> QED
  BY <1>7, <1>8, <1>9 DEF AlertsHears

LEMMA DeskStep ==
    ASSUME NetInv, LineInv, DeskInv, [Next]_vars
    PROVE  DeskInv'
<1>1. page' = page /\ NetStep
  BY PageStays, NetSteps
<1> SUFFICES ASSUME page = "alerts", Orderly'
             PROVE  DeskFields' /\ HaveIds(calls') /\ DeskTold(calls', ruleTable', alarms', desk')
  BY <1>1 DEF DeskInv
<1>2. Orderly /\ overtaken' = FALSE /\ others' = others /\ others \in Nat
  BY <1>1, LineStep DEF Orderly, LineInv
<1>3. DeskFields /\ HaveIds(calls) /\ DeskTold(calls, ruleTable, alarms, desk)
  BY <1>2 DEF DeskInv
<1>4. CASE Breaks
  <2>1. faults' = faults + 1 /\ faults = 0 /\ faults' = 0
    BY <1>2, <1>4 DEF Breaks, Fail, Orderly
  <2> QED
    BY <2>1
<1>5. CASE UNCHANGED vars
  BY <1>3, <1>5 DEF vars, net, alertVars, DeskFields
<1>6. CASE AlertsUser
  BY <1>2, <1>3, <1>6, DeskUserTells
<1>7. ASSUME NEW n, AlertsServes(n)
      PROVE  DeskFields' /\ HaveIds(calls') /\ DeskTold(calls', ruleTable', alarms', desk')
  BY <1>2, <1>3, <1>7, DeskServesTells DEF DeskFields
<1>8. ASSUME NEW n, AlertsHears(n)
      PROVE  DeskFields' /\ HaveIds(calls') /\ DeskTold(calls', ruleTable', alarms', desk')
  BY <1>2, <1>3, <1>8, DeskHearsTells
<1> QED
  BY <1>4, <1>5, <1>6, <1>7, <1>8 DEF Next, OnDashboards, OnAlerts, OnQueries, Network, Asking

\* When every request of the alerts page was answered in order, it shows the rules and
\* the active alerts there are: each change that succeeded makes the page load both
\* lists, the active alerts after the rules.
THEOREM RulesAreShown == Spec => []RulesSettle
<1>1. Init => SpinInv /\ LineInv /\ DeskInv
  BY SpinInit, LineInit, DeskInit
<1>2. SpinInv /\ LineInv /\ DeskInv /\ [Next]_vars => SpinInv' /\ LineInv' /\ DeskInv'
  BY SpinStep, LineStep, DeskStep, NetSteps DEF SpinInv
<1>3. SpinInv /\ LineInv /\ DeskInv => RulesSettle
  <2> SUFFICES ASSUME SpinInv, LineInv, DeskInv, page = "alerts", Settled
               PROVE  DeskIdle /\ desk.rules = ruleTable /\ desk.active = alarms
    BY DEF RulesSettle
  <2>1. DOMAIN calls = {} /\ Orderly
    BY DEF Settled, Orderly, LineInv
  <2>2. DeskIdle
    BY <2>1 DEF SpinInv, DeskSpin, Pending, DeskIdle
  <2>3. Led(calls, "rules", ruleTable, desk.rules) /\ Led(calls, "active", alarms, desk.active)
    BY <2>1 DEF DeskInv, DeskTold
  <2> QED
    BY <2>1, <2>2, <2>3, LedIsShown
<1> QED
  BY <1>1, <1>2, <1>3, PTL DEF Spec

-----------------------------------------------------------------------------
(* The dashboards page.                                                      *)

\* The list will be loaded again, or it will be read.
OwesList(c) ==
    \/ c.to = "dashboards" /\ c.at = "sent"
    \/ c.to = "create" /\ c.at = "read"
    \/ c.to \in {"create", "remove"} /\ c.at = "done" /\ c.ok = TRUE

\* The answer to the request will change what is open.
Reopens(c) ==
    \/ c.to = "save" /\ c.at = "read"
    \/ c.to \in {"dashboard", "save", "remove"} /\ c.at = "done" /\ c.ok = TRUE

Opening(cs) == {n \in DOMAIN cs : Reopens(cs[n])}

IsRow(d, tab) == d.id \in DOMAIN tab /\ d.panels = tab[d.id]

\* What it will show then is a row of the table, or nothing.
BringsRow(c, tab) == c.to = "remove" \/ c.at = "read" \/ IsRow(c.got[1], tab)

\* What will be open when the answers that are there were received is a row.
OpenLed(cs, tab, open) ==
    /\ \A n \in Opening(cs) : BringsRow(cs[n], tab) \/ \E m \in Opening(cs) : n < m
    /\ (open.id # 0 /\ ~open.edited => IsRow(open, tab)) \/ Opening(cs) # {}

\* The dashboard that a handler is about to read is there.
RowRead(c, tab) ==
    /\ c.to = "create" /\ c.at = "read" => c.body \in DOMAIN tab
    /\ c.to = "save" /\ c.at = "read" => c.body.id \in DOMAIN tab

DashTold(cs, tab, d) ==
    /\ \A n \in DOMAIN cs : RowRead(cs[n], tab)
    /\ (\E n \in DOMAIN cs : OwesList(cs[n])) \/ Led(cs, "dashboards", DOMAIN tab, d.list)
    /\ OpenLed(cs, tab, d.open)

DashFields ==
    /\ {"list", "loading", "failed", "open", "saving", "dialog"} \subseteq DOMAIN dash
    /\ {"id", "panels", "edited"} \subseteq DOMAIN dash.open

DashInv ==
    page = "dashboards" /\ Orderly => DashFields /\ DashTold(calls, stored, dash)

LEMMA DashInitTold ==
    ASSUME Init
    PROVE  DashInv
<1> SUFFICES ASSUME page = "dashboards" PROVE DashInv
  BY DEF DashInv
<1>1. dash = NewDash /\ BrowserInit(<<ListDashboards>>)
  BY DEF Init, DashInit, Asking
<1>2. DOMAIN calls = {1} /\ calls[1].to = "dashboards" /\ calls[1].at = "sent"
  <2>1. DOMAIN <<ListDashboards>> = {1} /\ <<ListDashboards>>[1] = ListDashboards
    OBVIOUS
  <2>2. DOMAIN calls = {1} /\ calls[1] = ListDashboards
    BY <1>1, <2>1 DEF BrowserInit
  <2>3. ListDashboards.to = "dashboards" /\ ListDashboards.at = "sent"
    BY DEF ListDashboards, GetJson
  <2> QED
    BY <2>2, <2>3
<1>3. OwesList(calls[1]) /\ ~Reopens(calls[1]) /\ \A n \in DOMAIN calls : RowRead(calls[n], stored)
  BY <1>2 DEF OwesList, Reopens, RowRead
<1>4. dash.open = Closed
  BY <1>1 DEF NewDash
<1>5. OpenLed(calls, stored, dash.open)
  BY <1>2, <1>3, <1>4 DEF OpenLed, Opening, Closed
<1> QED
  BY <1>1, <1>2, <1>3, <1>5 DEF DashInv, DashFields, DashTold, NewDash, Closed

\* Every row of tab is one of more.
Extends(tab, more) == \A i \in DOMAIN tab : i \in DOMAIN more /\ more[i] = tab[i]

LEMMA OpenStays ==
    ASSUME NEW cs, NEW ds, Opening(ds) = Opening(cs), \A n \in Opening(cs) : ds[n] = cs[n],
           NEW tab, NEW more, Extends(tab, more),
           NEW open, OpenLed(cs, tab, open),
           NEW now, now = open \/ now.edited = TRUE
    PROVE  OpenLed(ds, more, now)
<1>1. \A d : IsRow(d, tab) => IsRow(d, more)
  BY DEF IsRow, Extends
<1>2. \A n \in Opening(ds) : BringsRow(cs[n], tab) => BringsRow(ds[n], more)
  BY <1>1 DEF BringsRow
<1>3. \A n \in Opening(ds) : BringsRow(ds[n], more) \/ \E m \in Opening(ds) : n < m
  BY <1>2 DEF OpenLed
<1>4. (now.id # 0 /\ ~now.edited => IsRow(now, more)) \/ Opening(ds) # {}
  BY <1>1 DEF OpenLed
<1> QED
  BY <1>3, <1>4 DEF OpenLed

\* An answer that comes after all that are there.
LEMMA OpenAnswered ==
    ASSUME NEW cs, NEW ds, NEW m \in DOMAIN cs, NEW c, Becomes(cs, m, c, ds), Turn(cs, m),
           \A n \in DOMAIN cs : n \in Int,
           NEW tab, Reopens(c), BringsRow(c, tab), NEW open
    PROVE  OpenLed(ds, tab, open)
<1>1. m \in Opening(ds) /\ ds[m] = c
  BY DEF Opening, Becomes
<1>2. ASSUME NEW n \in Opening(ds), n # m PROVE n < m
  <2>1. n \in DOMAIN cs /\ ds[n] = cs[n] /\ cs[n].at # "sent"
    BY <1>2 DEF Opening, Reopens, Becomes
  <2>2. ~(m < n)
    BY <2>1 DEF Turn
  <2> QED
    BY <1>2, <2>1, <2>2
<1> QED
  BY <1>1, <1>2 DEF OpenLed

\* The first answer is received, and shown if it is to be.
LEMMA OpenReceived ==
    ASSUME NEW cs, NEW ds, NEW m \in DOMAIN cs, NEW rs, FreshSeq(rs), Joined(cs, {m}, rs, ds),
           Foremost(cs, m), \A n \in DOMAIN cs : n \in Int, cs[m].at = "done",
           NEW tab, NEW open, OpenLed(cs, tab, open),
           NEW now,
           \/ ~Reopens(cs[m]) /\ now = open
           \/ cs[m].to = "remove" /\ now.id = 0
           \/ Reopens(cs[m]) /\ cs[m].to # "remove" /\ now.id = cs[m].got[1].id /\ now.panels = cs[m].got[1].panels
    PROVE  OpenLed(ds, tab, now)
<1>1. \A n \in DOMAIN cs : n # m => n \in DOMAIN ds /\ ds[n] = cs[n]
  BY DEF Joined
<1>2. \A n \in DOMAIN ds : (n \in DOMAIN cs /\ n # m) \/ ds[n].at = "sent"
  BY DEF Joined, FreshSeq, Fresh
<1>3. Opening(ds) = Opening(cs) \ {m} /\ \A n \in Opening(cs) \ {m} : ds[n] = cs[n]
  BY <1>1, <1>2 DEF Opening, Reopens
<1>4. ASSUME NEW n \in Opening(ds)
      PROVE  BringsRow(ds[n], tab) \/ \E k \in Opening(ds) : n < k
  <2>1. n \in Opening(cs) /\ n # m /\ ds[n] = cs[n] /\ n \in DOMAIN cs
    BY <1>3 DEF Opening
  <2>2. m < n /\ m \in Int /\ n \in Int
    BY <2>1 DEF Foremost
  <2>3. \A k \in Opening(cs) : n < k => k # m
    BY <2>2
  <2> QED
    BY <1>3, <2>1, <2>3 DEF OpenLed
<1>5. CASE ~Reopens(cs[m]) /\ now = open
  <2>1. m \notin Opening(cs)
    BY <1>5 DEF Opening
  <2> QED
    BY <1>3, <1>4, <1>5, <2>1 DEF OpenLed
<1>6. CASE Reopens(cs[m]) /\ Opening(ds) = {}
  <2>1. m \in Opening(cs) /\ \A k \in Opening(cs) : k = m
    BY <1>3, <1>6 DEF Opening
  <2>2. ~(m < m)
    OBVIOUS
  <2>3. BringsRow(cs[m], tab)
    BY <2>1, <2>2 DEF OpenLed
  <2>4. now.id # 0 => IsRow(now, tab)
    BY <1>6, <2>3 DEF BringsRow, IsRow
  <2> QED
    BY <1>4, <1>6, <2>4 DEF OpenLed
<1>7. CASE Opening(ds) # {}
  BY <1>4, <1>7 DEF OpenLed
<1>8. CASE ~Reopens(cs[m]) /\ cs[m].to = "remove" /\ now.id = 0
  BY <1>4, <1>8 DEF OpenLed
<1> QED
  BY <1>5, <1>6, <1>7, <1>8

LEMMA JoinDash ==
    ASSUME NEW cs, NEW ds, NEW rs, FreshSeq(rs), Joined(cs, {}, rs, ds),
           NEW tab, NEW d, NEW e, DashTold(cs, tab, d),
           e.list = d.list, e.open = d.open \/ e.open.edited = TRUE
    PROVE  DashTold(ds, tab, e)
<1>1. \A n \in DOMAIN cs : n \in DOMAIN ds /\ ds[n] = cs[n]
  BY DEF Joined
<1>2. \A n \in DOMAIN ds : (n \in DOMAIN cs /\ ds[n] = cs[n]) \/ ds[n].at = "sent"
  BY DEF Joined, FreshSeq, Fresh
<1>3. \A n \in DOMAIN ds : RowRead(ds[n], tab)
  BY <1>2 DEF DashTold, RowRead
<1>4. (\E n \in DOMAIN cs : OwesList(cs[n])) => \E n \in DOMAIN ds : OwesList(ds[n])
  BY <1>1
<1>5. Led(cs, "dashboards", DOMAIN tab, d.list) => Led(ds, "dashboards", DOMAIN tab, e.list)
  BY JoinLeads
<1>6. Opening(ds) = Opening(cs) /\ \A n \in Opening(cs) : ds[n] = cs[n]
  BY <1>1, <1>2 DEF Opening, Reopens
<1>7. Extends(tab, tab)
  BY DEF Extends
<1>8. OpenLed(ds, tab, e.open)
  BY <1>6, <1>7, OpenStays DEF DashTold
<1> QED
  BY <1>3, <1>4, <1>5, <1>8 DEF DashTold

\* What a statement must do for the lists: it owes the page a reload, answers one, or
\* leaves the set of dashboards as it is.
KeepsList(c, d, tab, more) ==
    \/ OwesList(d)
    \/ /\ DOMAIN more = DOMAIN tab
       /\ \/ d.to = "dashboards" /\ d.at = "done" /\ d.ok = TRUE /\ d.got = <<DOMAIN tab>>
          \/ d.to # "dashboards" /\ ~OwesList(c)

\* And for what is open: its answer brings a row, or it left the rows as they are.
KeepsOpen(c, d, tab, more) ==
    \/ Reopens(d) /\ BringsRow(d, more)
    \/ ~Reopens(d) /\ ~Reopens(c) /\ Extends(tab, more)

LEMMA ServeDash ==
    ASSUME NEW cs, NEW ds, NEW m \in DOMAIN cs, NEW c, Becomes(cs, m, c, ds), Turn(cs, m),
           \A n \in DOMAIN cs : n \in Int, cs[m].at # "done", c.to = cs[m].to,
           NEW tab, NEW more, NEW d, DashTold(cs, tab, d),
           RowRead(c, more), KeepsList(cs[m], c, tab, more), KeepsOpen(cs[m], c, tab, more)
    PROVE  DashTold(ds, more, d)
<1>1. \A n \in DOMAIN ds : RowRead(ds[n], more)
  <2>1. \A n \in DOMAIN ds : n = m \/ ds[n].at \in {"sent", "done"}
    BY DEF Becomes, Turn
  <2>2. ds[m] = c
    BY DEF Becomes
  <2> QED
    BY <2>1, <2>2 DEF RowRead
<1>2. ds[m] = c /\ m \in DOMAIN ds /\ \A n \in DOMAIN cs : n # m => n \in DOMAIN ds /\ ds[n] = cs[n]
  BY DEF Becomes
<1>3. (\E n \in DOMAIN ds : OwesList(ds[n])) \/ Led(ds, "dashboards", DOMAIN more, d.list)
  <2>1. CASE OwesList(c)
    BY <1>2, <2>1
  <2>2. CASE c.to = "dashboards" /\ c.at = "done" /\ c.ok = TRUE /\ c.got = <<DOMAIN more>>
    BY <2>2, AnswerLeads
  <2>3. CASE DOMAIN more = DOMAIN tab /\ c.to # "dashboards" /\ ~OwesList(cs[m])
    <3>1. (\E n \in DOMAIN cs : OwesList(cs[n])) => \E n \in DOMAIN ds : OwesList(ds[n])
      BY <1>2, <2>3
    <3>2. Led(cs, "dashboards", DOMAIN tab, d.list) => Led(ds, "dashboards", DOMAIN tab, d.list)
      BY <2>3, OtherLeads
    <3> QED
      BY <2>3, <3>1, <3>2 DEF DashTold
  <2> QED
    BY <2>1, <2>2, <2>3 DEF KeepsList
<1>4. OpenLed(ds, more, d.open)
  <2>1. CASE Reopens(c) /\ BringsRow(c, more)
    BY <2>1, OpenAnswered
  <2>2. CASE ~Reopens(c) /\ ~Reopens(cs[m]) /\ Extends(tab, more)
    <3>1. Opening(ds) = Opening(cs) /\ \A n \in Opening(cs) : ds[n] = cs[n]
      BY <1>2, <2>2 DEF Opening, Becomes
    <3> QED
      BY <2>2, <3>1, OpenStays DEF DashTold
  <2> QED
    BY <2>1, <2>2 DEF KeepsOpen
<1> QED
  BY <1>1, <1>3, <1>4 DEF DashTold

LEMMA LeaveDash ==
    ASSUME NEW cs, NEW ds, NEW m \in DOMAIN cs, NEW rs, FreshSeq(rs), Joined(cs, {m}, rs, ds),
           Foremost(cs, m), \A n \in DOMAIN cs : n \in Int, cs[m].at = "done",
           NEW tab, NEW d, NEW e, DashTold(cs, tab, d),
           OwesList(cs[m]) => \E i \in DOMAIN rs : rs[i].to = "dashboards",
           e.list = IF cs[m].to = "dashboards" /\ cs[m].ok = TRUE THEN cs[m].got[1] ELSE d.list,
           \/ ~Reopens(cs[m]) /\ e.open = d.open
           \/ cs[m].to = "remove" /\ e.open.id = 0
           \/ /\ Reopens(cs[m]) /\ cs[m].to # "remove"
              /\ e.open.id = cs[m].got[1].id /\ e.open.panels = cs[m].got[1].panels
    PROVE  DashTold(ds, tab, e)
<1>1. \A n \in DOMAIN cs : n # m => n \in DOMAIN ds /\ ds[n] = cs[n]
  BY DEF Joined
<1>2. \A n \in DOMAIN ds : (n \in DOMAIN cs /\ ds[n] = cs[n]) \/ ds[n].at = "sent"
  BY DEF Joined, FreshSeq, Fresh
<1>3. \A i \in DOMAIN rs : \E n \in DOMAIN ds : ds[n].to = rs[i].to /\ ds[n].at = "sent"
  BY DEF Joined, FreshSeq, Fresh
<1>4. \A n \in DOMAIN ds : RowRead(ds[n], tab)
  BY <1>2 DEF DashTold, RowRead
<1>5. (\E n \in DOMAIN cs : OwesList(cs[n])) => \E n \in DOMAIN ds : OwesList(ds[n])
  <2>1. ASSUME OwesList(cs[m]) PROVE \E n \in DOMAIN ds : OwesList(ds[n])
    BY <1>3, <2>1 DEF OwesList
  <2> QED
    BY <1>1, <2>1
<1>6. Led(cs, "dashboards", DOMAIN tab, d.list) => Led(ds, "dashboards", DOMAIN tab, e.list)
  BY LeaveLeads
<1>7. OpenLed(ds, tab, e.open)
  BY OpenReceived DEF DashTold
<1> QED
  BY <1>4, <1>5, <1>6, <1>7 DEF DashTold

LEMMA DashUserTells ==
    ASSUME NetInv, DashFields, DashTold(calls, stored, dash), DashUser, others' = others, others \in Nat
    PROVE  DashFields' /\ DashTold(calls', stored', dash')
<1> DEFINE Goal == DashFields' /\ DashTold(calls', stored', dash')
           Same == /\ UNCHANGED stored /\ DashFields' /\ dash'.list = dash.list
                   /\ dash'.open = dash.open \/ dash'.open.edited = TRUE
<1>1. ASSUME NEW r, Fresh(r), Send(<<r>>), Same PROVE Goal
  <2>1. FreshSeq(<<r>>)
    BY <1>1, FewRequests
  <2>2. Joined(calls, {}, <<r>>, calls')
    BY <1>1, <2>1, SendJoins
  <2> PICK e : e = dash'
    OBVIOUS
  <2>3. DashTold(calls', stored, e)
    BY <1>1, <2>1, <2>2, JoinDash
  <2> QED
    BY <1>1, <2>3
<1>2. ASSUME calls' = calls, Same PROVE Goal
  <2>1. Joined(calls, {}, <<>>, calls') /\ FreshSeq(<<>>)
    <3>1. FreshSeq(<<>>) /\ DOMAIN <<>> = {}
      BY FewRequests
    <3> QED
      BY <1>2, <3>1 DEF Joined, NetInv
  <2> PICK e : e = dash'
    OBVIOUS
  <2>2. DashTold(calls', stored, e)
    BY <1>2, <2>1, JoinDash
  <2> QED
    BY <1>2, <2>2
<1>3. CASE DashToken
  <2>1. Fresh(ListDashboards)
    BY GetJsonIsFresh DEF ListDashboards
  <2>2. Same
    BY <1>3 DEF DashToken, DashOnly, Loading, DashFields
  <2> QED
    BY <1>1, <1>3, <2>1, <2>2 DEF DashToken
<1>4. ASSUME NEW i, OpenDashboard(i) \/ CreateNew PROVE Goal
  <2>1. Same
    BY <1>4 DEF OpenDashboard, CreateNew, dashVars, DashFields
  <2> QED
    BY <1>1, <1>4, <2>1, GetJsonIsFresh DEF OpenDashboard, CreateNew, SendJson
<1>5. CASE ConfirmDelete
  <2>1. Same
    BY <1>5 DEF ConfirmDelete, DashOnly, DashFields
  <2> QED
    BY <1>1, <1>5, <2>1, GetJsonIsFresh DEF ConfirmDelete, DeleteReq
<1>6. CASE Save
  <2>1. Same
    BY <1>6 DEF Save, DashOnly, DashFields
  <2>2. \E q : Send(<<GetJson("save", q)>>)
    BY <1>6 DEF Save, SendJson
  <2> QED
    BY <1>1, <2>1, <2>2, GetJsonIsFresh
<1>7. CASE AskDelete \/ CancelDash
  <2>1. Same /\ calls' = calls
    BY <1>7 DEF AskDelete, CancelDash, DashOnly, DashFields, Local, net
  <2> QED
    BY <1>2, <2>1
<1>8. ASSUME NEW p, AddPanel(p) PROVE Goal
  <2>1. Same /\ calls' = calls
    BY <1>8 DEF AddPanel, DashOnly, DashFields, Local, net
  <2> QED
    BY <1>2, <2>1
<1>9. ASSUME NEW k, RemovePanel(k) PROVE Goal
  <2>1. PICK ps : dash' = [dash EXCEPT !.open.panels = ps, !.open.edited = TRUE]
    BY <1>9 DEF RemovePanel, DashOnly
  <2>2. Same /\ calls' = calls
    BY <1>9, <2>1 DEF RemovePanel, DashOnly, DashFields, Local, net
  <2> QED
    BY <1>2, <2>2
<1>10. ASSUME NEW i, SomebodyChangesADashboard(i) PROVE FALSE
  BY <1>10 DEF SomebodyChangesADashboard, SomebodyElse
<1> QED
  BY <1>3, <1>4, <1>5, <1>6, <1>7, <1>8, <1>9, <1>10 DEF DashUser

LEMMA DashServesTells ==
    ASSUME NetInv, LineInv, Orderly, overtaken' = FALSE, DashTold(calls, stored, dash),
           \A i \in DOMAIN stored : i \in Int /\ i < nextDash, NEW m, DashServes(m)
    PROVE  UNCHANGED dash /\ DashTold(calls', stored', dash')
<1>0. UNCHANGED dash
  BY DEF DashServes, list_dashboards, get_dashboard, create_dashboard, update_dashboard,
     delete_dashboard, TableUnchanged, dashVars, InsertDashboard, UpdateDashboard, DeleteDashboard
<1>1. /\ m \in DOMAIN calls /\ calls[m].at # "done" /\ calls[m].ok = FALSE
      /\ \A n \in DOMAIN calls : n \in Int
      /\ InLine
  BY DEF DashServes, list_dashboards, get_dashboard, create_dashboard, update_dashboard,
     delete_dashboard, At, LineInv, NetInv
<1> SUFFICES DashTold(calls', stored', dash)
  BY <1>0
<1>2. ASSUME NEW c, Handles(m, c), Handle(m, c), RowRead(c, stored'),
             KeepsList(calls[m], c, stored, stored'), KeepsOpen(calls[m], c, stored, stored')
      PROVE  DashTold(calls', stored', dash)
  <2>1. Becomes(calls, m, c, calls') /\ Turn(calls, m) /\ c.to = calls[m].to
    BY <1>1, <1>2, HandledInTurn DEF Handles
  <2> PICK more : more = stored'
    OBVIOUS
  <2>2. DashTold(calls', more, dash)
    BY <1>1, <1>2, <2>1, ServeDash
  <2> QED
    BY <2>2
<1>3. Extends(stored, stored)
  BY DEF Extends
\* The request is over, and nothing came of it.
<1>4. ASSUME Refuse(m), calls[m].at = "sent", calls[m].to # "dashboards",
             DOMAIN stored' = DOMAIN stored, Extends(stored, stored')
      PROVE  DashTold(calls', stored', dash)
  <2>1. PICK c : Handles(m, c) /\ Handle(m, c) /\ c.at = "done" /\ c.ok = FALSE
    BY <1>1, <1>4, RefuseHandles
  <2>2. c.to = calls[m].to
    BY <2>1 DEF Handles
  <2>3. ~Reopens(c) /\ ~Reopens(calls[m]) /\ ~OwesList(calls[m]) /\ RowRead(c, stored')
    BY <1>4, <2>1, <2>2 DEF Reopens, OwesList, RowRead
  <2> QED
    BY <1>2, <1>4, <2>1, <2>2, <2>3 DEF KeepsList, KeepsOpen
<1>5. CASE list_dashboards(m)
  <2>1. /\ Answer(m, DOMAIN stored) /\ stored' = stored
        /\ calls[m].to = "dashboards" /\ calls[m].at = "sent"
    BY <1>5 DEF list_dashboards, At, TableUnchanged, dashVars
  <2>2. PICK c : Handles(m, c) /\ Handle(m, c) /\ c.at = "done" /\ c.ok = TRUE /\ c.got = <<DOMAIN stored>>
    BY <1>1, <2>1, AnswerHandles
  <2>3. c.to = "dashboards"
    BY <2>1, <2>2 DEF Handles
  <2>4. ~Reopens(c) /\ ~Reopens(calls[m]) /\ RowRead(c, stored')
    BY <2>1, <2>2, <2>3 DEF Reopens, RowRead
  <2> QED
    BY <1>2, <1>3, <2>1, <2>2, <2>3, <2>4 DEF KeepsList, KeepsOpen
<1>6. CASE get_dashboard(m)
  <2> DEFINE i == IF calls[m].to = "save" THEN calls[m].body.id ELSE calls[m].body
             row == [id |-> i, panels |-> stored[i]]
  <2>1. /\ stored' = stored
        /\ \/ calls[m].to = "dashboard" /\ calls[m].at = "sent"
           \/ calls[m].to \in {"create", "save"} /\ calls[m].at = "read"
    BY <1>6 DEF get_dashboard, At, TableUnchanged, dashVars
  <2>2. IF i \in DOMAIN stored THEN Answer(m, row) ELSE Refuse(m)
    BY <1>6 DEF get_dashboard
  <2>3. calls[m].at = "read" => i \in DOMAIN stored
    BY <1>1, <2>1 DEF DashTold, RowRead
  <2>4. CASE i \notin DOMAIN stored
    BY <1>3, <1>4, <2>1, <2>2, <2>3, <2>4
  <2>5. CASE i \in DOMAIN stored
    <3>1. IsRow(row, stored)
      BY <2>5 DEF IsRow
    <3> HIDE DEF row, i
    <3>2. PICK c : Handles(m, c) /\ Handle(m, c) /\ c.at = "done" /\ c.ok = TRUE /\ c.got = <<row>>
      BY <1>1, <2>2, <2>5, AnswerHandles
    <3>3. c.to = calls[m].to
      BY <3>2 DEF Handles
    <3>4. c.got[1] = row
      BY <3>2
    <3>5. BringsRow(c, stored') /\ RowRead(c, stored')
      BY <2>1, <3>1, <3>2, <3>4 DEF BringsRow, RowRead
    <3>6. CASE calls[m].to = "create"
      <4>1. OwesList(c) /\ ~Reopens(c) /\ ~Reopens(calls[m])
        BY <2>1, <3>2, <3>3, <3>6 DEF OwesList, Reopens
      <4> QED
        BY <1>2, <1>3, <2>1, <3>2, <3>5, <4>1 DEF KeepsList, KeepsOpen
    <3>7. CASE calls[m].to \in {"dashboard", "save"}
      <4>1. Reopens(c) /\ ~OwesList(calls[m])
        BY <2>1, <3>2, <3>3, <3>7 DEF OwesList, Reopens
      <4> QED
        BY <1>2, <2>1, <3>2, <3>3, <3>5, <3>7, <4>1 DEF KeepsList, KeepsOpen
    <3> QED
      BY <2>1, <3>6, <3>7
  <2> QED
    BY <2>4, <2>5
<1>7. CASE create_dashboard(m)
  <2>1. /\ calls[m].to = "create" /\ calls[m].at = "sent" /\ GoOn(m, "read", nextDash)
        /\ stored' = With(stored, nextDash, calls[m].body)
    BY <1>7 DEF create_dashboard, At, InsertDashboard
  <2>2. PICK c : Handles(m, c) /\ Handle(m, c) /\ c.at = "read" /\ c.body = nextDash
    BY <1>1, <2>1, GoOnHandles
  <2>3. c.to = "create"
    BY <2>1, <2>2 DEF Handles
  <2>4. nextDash \in DOMAIN stored' /\ Extends(stored, stored')
    BY <2>1 DEF With, Extends
  <2>5. OwesList(c) /\ ~Reopens(c) /\ ~Reopens(calls[m]) /\ RowRead(c, stored')
    BY <2>1, <2>2, <2>3, <2>4 DEF OwesList, Reopens, RowRead
  <2> QED
    BY <1>2, <2>2, <2>4, <2>5 DEF KeepsList, KeepsOpen
<1>8. CASE update_dashboard(m)
  <2> DEFINE b == calls[m].body
  <2>1. /\ calls[m].to = "save" /\ calls[m].at = "sent"
        /\ stored' = IF b.id \in DOMAIN stored THEN With(stored, b.id, b.panels) ELSE stored
    BY <1>8 DEF update_dashboard, At, UpdateDashboard
  <2>2. CASE b.id \notin DOMAIN stored
    <3>1. Refuse(m) /\ stored' = stored
      BY <1>8, <2>1, <2>2 DEF update_dashboard
    <3> QED
      BY <1>3, <1>4, <2>1, <3>1
  <2>3. CASE b.id \in DOMAIN stored
    <3>1. GoOn(m, "read", b)
      BY <1>8, <2>3 DEF update_dashboard
    <3>2. DOMAIN stored' = DOMAIN stored
      BY <2>1, <2>3 DEF With
    <3>3. PICK c : Handles(m, c) /\ Handle(m, c) /\ c.at = "read" /\ c.body = b
      BY <1>1, <3>1, GoOnHandles
    <3>4. c.to = "save"
      BY <2>1, <3>3 DEF Handles
    <3>5. Reopens(c) /\ BringsRow(c, stored') /\ ~OwesList(calls[m]) /\ RowRead(c, stored')
      BY <2>1, <2>3, <3>2, <3>3, <3>4 DEF OwesList, Reopens, BringsRow, RowRead
    <3> QED
      BY <1>2, <3>2, <3>3, <3>4, <3>5 DEF KeepsList, KeepsOpen
  <2> QED
    BY <2>2, <2>3
<1>9. CASE delete_dashboard(m)
  <2> DEFINE i == calls[m].body
  <2>1. /\ calls[m].to = "remove" /\ calls[m].at = "sent" /\ stored' = Without(stored, i)
    BY <1>9 DEF delete_dashboard, At, DeleteDashboard
  <2>2. CASE i \notin DOMAIN stored
    <3>1. Refuse(m)
      BY <1>9, <2>2 DEF delete_dashboard
    <3>2. DOMAIN stored' = DOMAIN stored /\ Extends(stored, stored')
      BY <2>1, <2>2 DEF Without, Extends
    <3> QED
      BY <1>4, <2>1, <3>1, <3>2
  <2>3. CASE i \in DOMAIN stored
    <3>1. Answer(m, Nothing)
      BY <1>9, <2>3 DEF delete_dashboard
    <3>2. PICK c : Handles(m, c) /\ Handle(m, c) /\ c.at = "done" /\ c.ok = TRUE
      BY <1>1, <3>1, AnswerHandles
    <3>3. c.to = "remove"
      BY <2>1, <3>2 DEF Handles
    <3>4. OwesList(c) /\ Reopens(c) /\ BringsRow(c, stored') /\ RowRead(c, stored')
      BY <3>2, <3>3 DEF OwesList, Reopens, BringsRow, RowRead
    <3> QED
      BY <1>2, <3>2, <3>4 DEF KeepsList, KeepsOpen
  <2> QED
    BY <2>2, <2>3
<1> QED
  BY <1>5, <1>6, <1>7, <1>8, <1>9 DEF DashServes

LEMMA DashHearsTells ==
    ASSUME NetInv, overtaken' = FALSE, DashFields, DashTold(calls, stored, dash), NEW m, DashHears(m)
    PROVE  DashFields' /\ DashTold(calls', stored', dash')
<1>1. /\ m \in DOMAIN calls /\ calls[m].at = "done" /\ \A n \in DOMAIN calls : n \in Int
      /\ UNCHANGED stored
  BY DEF DashHears, GotList, GotDashboard, GotCreated, GotSaved, GotDeleted, At, NetInv, DashOnly
<1> DEFINE got == calls[m].got[1]
<1>2. ASSUME NEW rs, FreshSeq(rs), Receive(m, rs), NEW e, dash' = e,
             OwesList(calls[m]) => \E i \in DOMAIN rs : rs[i].to = "dashboards",
             e.list = IF calls[m].to = "dashboards" /\ calls[m].ok = TRUE THEN got ELSE dash.list,
             \/ ~Reopens(calls[m]) /\ e.open = dash.open
             \/ calls[m].to = "remove" /\ e.open.id = 0
             \/ /\ Reopens(calls[m]) /\ calls[m].to # "remove"
                /\ e.open.id = got.id /\ e.open.panels = got.panels
      PROVE  DashTold(calls', stored', dash')
  <2>1. Leaves(m, rs)
    BY <1>1, <1>2 DEF Leaves
  <2>2. Joined(calls, {m}, rs, calls') /\ Foremost(calls, m)
    BY <2>1, LeavesJoins, FirstLeaves
  <2>3. DashTold(calls', stored, e)
    BY <1>1, <1>2, <2>2, LeaveDash
  <2> QED
    BY <1>1, <1>2, <2>3
<1> DEFINE r == GetJson("dashboard", got.id)
<1>3. Fresh(ListDashboards) /\ ListDashboards.to = "dashboards" /\ Fresh(r)
  BY GetJsonIsFresh DEF ListDashboards
<1> HIDE DEF r
<1>4. /\ FreshSeq(<<>>)
      /\ FreshSeq(<<ListDashboards>>) /\ \E i \in DOMAIN <<ListDashboards>> : <<ListDashboards>>[i].to = "dashboards"
      /\ FreshSeq(<<ListDashboards, r>>)
      /\ \E i \in DOMAIN <<ListDashboards, r>> : <<ListDashboards, r>>[i].to = "dashboards"
  BY <1>3, FewRequests
<1>5. CASE GotList(m)
  <2>1. calls[m].to = "dashboards" /\ ~OwesList(calls[m]) /\ ~Reopens(calls[m]) /\ Receive(m, <<>>)
    BY <1>1, <1>5 DEF GotList, At, OwesList, Reopens
  <2>2. /\ DashFields' /\ dash'.open = dash.open
        /\ dash'.list = IF calls[m].to = "dashboards" /\ calls[m].ok = TRUE THEN got ELSE dash.list
    BY <1>5, <2>1 DEF GotList, DashOnly, DashFields
  <2> QED
    BY <1>2, <1>4, <2>1, <2>2
<1>6. CASE GotDashboard(m)
  <2>1. calls[m].to = "dashboard" /\ ~OwesList(calls[m]) /\ Receive(m, <<>>)
    BY <1>1, <1>6 DEF GotDashboard, At, OwesList
  <2>2. CASE calls[m].ok
    <3>1. dash' = [dash EXCEPT !.open = Shown(got)]
      BY <1>6, <2>2 DEF GotDashboard, DashOnly
    <3>2. /\ DashFields' /\ dash'.list = dash.list
          /\ dash'.open.id = got.id /\ dash'.open.panels = got.panels
      BY <3>1 DEF DashFields, Shown
    <3>3. Reopens(calls[m])
      BY <1>1, <2>1, <2>2 DEF Reopens
    <3> QED
      BY <1>2, <1>4, <2>1, <3>2, <3>3
  <2>3. CASE ~calls[m].ok
    <3>1. dash' = dash /\ ~Reopens(calls[m])
      BY <1>1, <1>6, <2>1, <2>3 DEF GotDashboard, DashOnly, Reopens
    <3> QED
      BY <1>2, <1>4, <2>1, <3>1 DEF DashFields
  <2> QED
    BY <2>2, <2>3
<1>7. CASE GotCreated(m)
  <2>1. calls[m].to = "create" /\ ~Reopens(calls[m])
    BY <1>1, <1>7 DEF GotCreated, At, Reopens
  <2>2. DashFields' /\ dash'.list = dash.list /\ dash'.open = dash.open
    BY <1>7 DEF GotCreated, DashOnly, Loading, DashFields
  <2>3. CASE calls[m].ok
    <3>1. Receive(m, <<ListDashboards, r>>)
      BY <1>7, <2>3 DEF GotCreated, r
    <3> QED
      BY <1>2, <1>4, <2>1, <2>2, <3>1
  <2>4. CASE ~calls[m].ok
    <3>1. Receive(m, <<>>) /\ ~OwesList(calls[m])
      BY <1>1, <1>7, <2>1, <2>4 DEF GotCreated, OwesList
    <3> QED
      BY <1>2, <1>4, <2>1, <2>2, <3>1
  <2> QED
    BY <2>3, <2>4
<1>8. CASE GotSaved(m)
  <2>1. calls[m].to = "save" /\ ~OwesList(calls[m])
    BY <1>1, <1>8 DEF GotSaved, At, OwesList
  <2>2. CASE calls[m].ok
    <3>1. /\ Receive(m, <<ListDashboards>>)
          /\ dash' = [Loading(dash) EXCEPT !.saving = FALSE, !.open = Shown(got)]
      BY <1>8, <2>2 DEF GotSaved
    <3>2. /\ DashFields' /\ dash'.list = dash.list
          /\ dash'.open.id = got.id /\ dash'.open.panels = got.panels
      BY <3>1 DEF DashFields, Shown, Loading
    <3>3. Reopens(calls[m])
      BY <1>1, <2>1, <2>2 DEF Reopens
    <3> QED
      BY <1>2, <1>4, <2>1, <3>1, <3>2, <3>3
  <2>3. CASE ~calls[m].ok
    <3>1. Receive(m, <<>>) /\ dash' = [dash EXCEPT !.saving = FALSE] /\ ~Reopens(calls[m])
      BY <1>1, <1>8, <2>1, <2>3 DEF GotSaved, DashOnly, Reopens
    <3>2. DashFields' /\ dash'.list = dash.list /\ dash'.open = dash.open
      BY <3>1 DEF DashFields
    <3> QED
      BY <1>2, <1>4, <2>1, <3>1, <3>2
  <2> QED
    BY <2>2, <2>3
<1>9. CASE GotDeleted(m)
  <2>1. calls[m].to = "remove"
    BY <1>9 DEF GotDeleted, At
  <2>2. CASE calls[m].ok
    <3>1. Receive(m, <<ListDashboards>>) /\ dash' = [Loading(dash) EXCEPT !.open = Closed]
      BY <1>9, <2>2 DEF GotDeleted, DashOnly
    <3>2. DashFields' /\ dash'.list = dash.list /\ dash'.open.id = 0
      BY <3>1 DEF DashFields, Closed, Loading
    <3> QED
      BY <1>2, <1>4, <2>1, <3>1, <3>2
  <2>3. CASE ~calls[m].ok
    <3>1. Receive(m, <<>>) /\ dash' = dash /\ ~Reopens(calls[m]) /\ ~OwesList(calls[m])
      BY <1>1, <1>9, <2>1, <2>3 DEF GotDeleted, DashOnly, Reopens, OwesList
    <3> QED
      BY <1>2, <1>4, <2>1, <3>1 DEF DashFields
  <2> QED
    BY <2>2, <2>3
<1> QED
  BY <1>5, <1>6, <1>7, <1>8, <1>9 DEF DashHears

LEMMA DashStep ==
    ASSUME NetInv, LineInv, SaveInv, DashInv, [Next]_vars
    PROVE  DashInv'
<1>1. page' = page /\ NetStep
  BY PageStays, NetSteps
<1> SUFFICES ASSUME page = "dashboards", Orderly'
             PROVE  DashFields' /\ DashTold(calls', stored', dash')
  BY <1>1 DEF DashInv
<1>2. Orderly /\ overtaken' = FALSE /\ others' = others /\ others \in Nat
  BY <1>1, LineStep DEF Orderly, LineInv
<1>3. /\ DashFields /\ DashTold(calls, stored, dash)
      /\ \A i \in DOMAIN stored : i \in Int /\ i < nextDash
  BY <1>2 DEF DashInv, SaveInv, SavesKept, Orderly
<1>4. CASE Breaks
  <2>1. faults' = faults + 1 /\ faults = 0 /\ faults' = 0
    BY <1>2, <1>4 DEF Breaks, Fail, Orderly
  <2> QED
    BY <2>1
<1>5. CASE UNCHANGED vars
  BY <1>3, <1>5 DEF vars, net, dashVars, DashFields
<1>6. CASE DashUser
  BY <1>2, <1>3, <1>6, DashUserTells
<1>7. ASSUME NEW n, DashServes(n)
      PROVE  DashFields' /\ DashTold(calls', stored', dash')
  BY <1>2, <1>3, <1>7, DashServesTells DEF DashFields
<1>8. ASSUME NEW n, DashHears(n)
      PROVE  DashFields' /\ DashTold(calls', stored', dash')
  BY <1>2, <1>3, <1>8, DashHearsTells
<1> QED
  BY <1>4, <1>5, <1>6, <1>7, <1>8 DEF Next, OnDashboards, OnAlerts, OnQueries, Network, Asking

\* When every request of the dashboards page was answered in order, its list is the
\* table, and what is open and was not edited since is a row of it: creates and deletes
\* are followed by a reload, and the answers to saves and deletes replace what is open.
THEOREM DashboardsAreShown == Spec => []DashboardsSettle
<1>1. Init => SpinInv /\ LineInv /\ SaveInv /\ DashInv
  BY SpinInit, LineInit, SaveInit, DashInitTold
<1>2. SpinInv /\ LineInv /\ SaveInv /\ DashInv /\ [Next]_vars => SpinInv' /\ LineInv' /\ SaveInv' /\ DashInv'
  BY SpinStep, LineStep, SaveStep, DashStep, NetSteps DEF SpinInv
<1>3. SpinInv /\ LineInv /\ DashInv => DashboardsSettle
  <2> SUFFICES ASSUME SpinInv, LineInv, DashInv, page = "dashboards", Settled
               PROVE  /\ DashIdle /\ dash.list = DOMAIN stored
                      /\ IsOpen /\ ~dash.open.edited =>
                            dash.open.id \in DOMAIN stored /\ dash.open.panels = stored[dash.open.id]
    BY DEF DashboardsSettle
  <2>1. DOMAIN calls = {} /\ Orderly
    BY DEF Settled, Orderly, LineInv
  <2>2. DashIdle
    BY <2>1 DEF SpinInv, DashSpin, Pending, DashIdle
  <2>3. Led(calls, "dashboards", DOMAIN stored, dash.list) /\ OpenLed(calls, stored, dash.open)
    BY <2>1 DEF DashInv, DashTold
  <2>4. Opening(calls) = {}
    BY <2>1 DEF Opening
  <2> QED
    BY <2>1, <2>2, <2>3, <2>4, LedIsShown DEF OpenLed, IsRow, IsOpen
<1> QED
  BY <1>1, <1>2, <1>3, PTL DEF Spec

-----------------------------------------------------------------------------
(* The pages that only ask.                                                  *)

Allowed(required, to, q) == to = "health" \/ ~required \/ q.token = "right"

\* The requests that will fill box b; m is answered for it after n, since the health that
\* was asked for goes on to the stats.
Filling(cs, b) == {n \in DOMAIN cs : BoxFor(cs[n].to) = b}
Behind(cs, n, m) == IF cs[n].to = cs[m].to THEN n < m ELSE cs[m].to = "health"

BoxFields == {"shown", "loading", "err", "asked", "crossed"}

\* The last request that will fill the box asks the question that was asked last; when
\* none is left, the box shows its answer; and a banner is that of its refusal.
BoxTold(cs, b, box, required) ==
    /\ BoxFields \subseteq DOMAIN box
    /\ box.asked # Nothing =>
          \A n \in Filling(cs, b) :
              box.asked = <<cs[n].body>> \/ \E m \in Filling(cs, b) : Behind(cs, n, m)
    /\ box.asked # Nothing /\ Filling(cs, b) = {} =>
          IF Allowed(required, b, box.asked[1]) THEN box.shown = box.asked ELSE box.err
    /\ ~box.crossed /\ b # "names" =>
          /\ Filling(cs, b) # {} => box.loading /\ ~box.err
          /\ \A m, n \in Filling(cs, b) : m = n
          /\ box.err /\ box.asked # Nothing => ~Allowed(required, b, box.asked[1])

\* The middleware let pass what was answered, and nothing else.
Screened(cs, required) ==
    \A n \in DOMAIN cs : cs[n].at = "done" =>
        (cs[n].ok = TRUE <=> Allowed(required, cs[n].to, cs[n].body))

AskTold(cs, bs, required) ==
    /\ DOMAIN bs = BoxNames /\ bs["health"].asked = Nothing
    /\ Screened(cs, required)
    /\ \A b \in BoxNames : BoxTold(cs, b, bs[b], required)

\* The trace whose name is above the waterfall is the one asked for.
SpansAsked(bs, l) ==
    l.selected # None => bs["spans"].asked # Nothing /\ bs["spans"].asked[1].trace = l.selected

LookFields == {"required", "token", "name", "filter", "selected"} \subseteq DOMAIN look

\* What holds while nothing went wrong.
AskKept ==
    /\ LookFields
    /\ \A n \in DOMAIN calls : calls[n].to = "health" => page = "overview"
    /\ AskTold(calls, boxes, look.required)
    /\ SpansAsked(boxes, look)

AskInv == page \in Asking /\ Orderly => AskKept

\* rs holds one request for a box at most, and asks for the stats only where no health is
\* asked for.
Asks(rs, cs) ==
    /\ FreshSeq(rs)
    /\ \A i, j \in DOMAIN rs : BoxFor(rs[i].to) = BoxFor(rs[j].to) => i = j
    /\ (\E i \in DOMAIN rs : rs[i].to = "stats") => \A n \in DOMAIN cs : cs[n].to # "health"

\* New requests are for different boxes.
Single(cs, ds) ==
    \A m, n \in DOMAIN ds \ DOMAIN cs : BoxFor(ds[m].to) = BoxFor(ds[n].to) => m = n

LEMMA SendSingle ==
    ASSUME NetInv, NEW rs, Asks(rs, calls), Send(rs)
    PROVE  Single(calls, calls')
<1>1. /\ calls' = Plus(calls, rs) /\ FreshSeq(rs) /\ sent \in Int
      /\ \A n \in DOMAIN calls : n \in Int /\ n <= sent
  BY DEF Asks, Send, NetInv
<1>2. \A i \in DOMAIN rs : i \in Int /\ 0 < i
  BY <1>1 DEF FreshSeq
<1>3. ASSUME NEW n \in DOMAIN calls' \ DOMAIN calls
      PROVE  \E i \in DOMAIN rs : n = sent + i /\ calls'[n] = rs[i]
  <2>1. PICK i \in DOMAIN rs : n = sent + i
    BY <1>1, <1>3 DEF Plus
  <2>2. n - sent = i
    BY <1>1, <1>2, <2>1
  <2>3. calls'[n] = rs[n - sent]
    BY <1>1, <1>3 DEF Plus
  <2> QED
    BY <2>1, <2>2, <2>3
<1> QED
  BY <1>3 DEF Single, Asks

\* What happens to a box when rs is sent.
LEMMA BoxBegins ==
    ASSUME NEW cs, NEW ds, NEW rs, Asks(rs, cs), Joined(cs, {}, rs, ds), Single(cs, ds),
           NEW b, NEW box, NEW required, BoxTold(cs, b, box, required),
           NEW i \in DOMAIN rs, BoxFor(rs[i].to) = b, b # "health"
    PROVE  BoxTold(ds, b, Begin(box, b, rs[i].body), required)
<1> DEFINE q == rs[i].body
           now == Begin(box, b, q)
<1>1. /\ DOMAIN now = DOMAIN box /\ BoxFields \subseteq DOMAIN box
      /\ now.asked = <<q>> /\ now.loading = TRUE
      /\ now.err <=> (box.err /\ b = "names")
      /\ now.crossed <=> (box.crossed \/ box.loading)
  BY DEF Begin, BoxTold, BoxFields
<1>2. FreshSeq(rs) /\ \A j \in DOMAIN rs : Fresh(rs[j])
  BY DEF Asks, FreshSeq
<1>3. PICK k \in DOMAIN ds \ DOMAIN cs : ds[k] = rs[i]
  BY DEF Joined
<1>4. Filling(ds, b) = Filling(cs, b) \cup {k} /\ \A n \in Filling(cs, b) : ds[n] = cs[n]
  <2>1. \A n \in DOMAIN cs : n \in DOMAIN ds /\ ds[n] = cs[n]
    BY DEF Joined
  <2>2. k \in Filling(ds, b)
    BY <1>3 DEF Filling
  <2>3. \A n \in Filling(ds, b) \ DOMAIN cs : n = k
    BY <1>3 DEF Filling, Single
  <2> QED
    BY <2>1, <2>2, <2>3 DEF Filling
<1>5. ASSUME NEW n \in Filling(cs, b) PROVE Behind(ds, n, k)
  <2>1. n < k
    BY <1>3 DEF Joined, Filling
  <2>2. BoxFor(cs[n].to) = BoxFor(rs[i].to) /\ n \in DOMAIN cs
    BY DEF Filling
  <2>3. cs[n].to = rs[i].to \/ rs[i].to = "health"
    BY <2>2 DEF Asks, BoxFor
  <2> QED
    BY <1>3, <1>4, <2>1, <2>3 DEF Behind
<1>6. k \in Filling(ds, b) /\ ds[k].body = q
  BY <1>3, <1>4
<1> HIDE DEF now, q
<1>7. \A n \in Filling(ds, b) :
         now.asked = <<ds[n].body>> \/ \E m \in Filling(ds, b) : Behind(ds, n, m)
  BY <1>1, <1>4, <1>5, <1>6
<1>8. ASSUME ~now.crossed, b # "names"
      PROVE  now.loading /\ ~now.err /\ \A m, n \in Filling(ds, b) : m = n
  <2>1. ~box.crossed /\ ~box.loading
    BY <1>1, <1>8
  <2>2. Filling(cs, b) = {}
    BY <1>8, <2>1 DEF BoxTold
  <2> QED
    BY <1>1, <1>4, <1>8, <2>2
<1>9. BoxTold(ds, b, now, required)
  BY <1>1, <1>6, <1>7, <1>8 DEF BoxTold
<1> QED
  BY <1>9 DEF now, q

\* Another box stays as it is.
LEMMA BoxWaits ==
    ASSUME NEW cs, NEW ds, NEW rs, FreshSeq(rs), Joined(cs, {}, rs, ds),
           NEW b, NEW box, NEW required, BoxTold(cs, b, box, required),
           \A i \in DOMAIN rs : BoxFor(rs[i].to) # b
    PROVE  BoxTold(ds, b, box, required)
<1>1. Filling(ds, b) = Filling(cs, b) /\ \A n \in Filling(cs, b) : ds[n] = cs[n]
  BY DEF Joined, Filling
<1>2. \A m, n \in Filling(cs, b) : Behind(ds, n, m) <=> Behind(cs, n, m)
  BY <1>1 DEF Behind
<1> QED
  BY <1>1, <1>2 DEF BoxTold

\* So does every box while a request is handled.
LEMMA BoxServed ==
    ASSUME NEW cs, NEW ds, NEW m \in DOMAIN cs, NEW c, Becomes(cs, m, c, ds),
           c.to = cs[m].to, c.body = cs[m].body,
           NEW b, NEW box, NEW required, BoxTold(cs, b, box, required)
    PROVE  BoxTold(ds, b, box, required)
<1>1. \A n \in DOMAIN cs : ds[n].to = cs[n].to /\ ds[n].body = cs[n].body
  BY DEF Becomes
<1>2. Filling(ds, b) = Filling(cs, b) /\ \A n \in Filling(cs, b) : n \in DOMAIN cs
  BY <1>1 DEF Becomes, Filling
<1>3. \A k, n \in Filling(cs, b) : Behind(ds, n, k) <=> Behind(cs, n, k)
  BY <1>1, <1>2 DEF Behind
<1> QED
  BY <1>1, <1>2, <1>3 DEF BoxTold

\* A box after requests were sent: as before, or begun by a request that it is for.
LEMMA StartedIs ==
    ASSUME NEW bs, NEW rs, NEW b \in BoxNames
    PROVE  \/ Started(bs, rs)[b] = bs[b] /\ \A i \in DOMAIN rs : BoxFor(rs[i].to) # b
           \/ \E i \in DOMAIN rs : BoxFor(rs[i].to) = b /\ Started(bs, rs)[b] = Begin(bs[b], b, rs[i].body)
<1> DEFINE asked == {i \in DOMAIN rs : BoxFor(rs[i].to) = b}
<1>1. CASE asked = {}
  BY <1>1 DEF Started
<1>2. CASE asked # {}
  <2> PICK i : i = CHOOSE j \in asked : TRUE
    OBVIOUS
  <2>1. i \in asked
    BY <1>2
  <2>2. Started(bs, rs)[b] = Begin(bs[b], b, rs[i].body)
    BY <1>2 DEF Started
  <2> QED
    BY <2>1, <2>2
<1> QED
  BY <1>1, <1>2

\* The answer goes on to one request, whose number is new.
LEMMA ReceiveSingle ==
    ASSUME NetInv, NEW m, NEW r, Leaves(m, <<r>>), NEW k, NEW n,
           k \in DOMAIN calls' \ DOMAIN calls, n \in DOMAIN calls' \ DOMAIN calls
    PROVE  k = n
<1> DEFINE rs == <<r>>
           rest == Without(calls, m)
<1>1. DOMAIN rs = {1}
  OBVIOUS
<1>2. calls' = Plus(rest, rs)
  BY DEF Leaves, Receive
<1>3. DOMAIN rest = DOMAIN calls \ {m}
  BY DEF Without
<1> HIDE DEF rs, rest
<1>4. DOMAIN calls' = (DOMAIN calls \ {m}) \cup {sent + 1}
  BY <1>1, <1>2, <1>3 DEF Plus
<1>5. sent + 1 = sent + 1
  OBVIOUS
<1> QED
  BY <1>4

\* The answer of the request that box b waits for longest.
LEMMA BoxLands ==
    ASSUME NEW cs, NEW ds, NEW m \in DOMAIN cs, Joined(cs, {m}, <<>>, ds), Foremost(cs, m),
           \A n \in DOMAIN cs : n \in Int,
           NEW b, cs[m].to = b, b # "health",
           NEW required, cs[m].ok = TRUE <=> Allowed(required, b, cs[m].body),
           NEW box, BoxTold(cs, b, box, required)
    PROVE  BoxTold(ds, b, Land(box, cs[m]), required)
<1> DEFINE c == cs[m]
           now == Land(box, c)
<1>1. /\ DOMAIN now = DOMAIN box /\ BoxFields \subseteq DOMAIN box
      /\ now.asked = box.asked /\ now.crossed = box.crossed
      /\ now.err <=> (box.err \/ ~c.ok)
      /\ c.ok => now.shown = <<c.body>>
  BY DEF Land, BoxTold, BoxFields
<1>2. Filling(ds, b) = Filling(cs, b) \ {m} /\ \A n \in Filling(ds, b) : ds[n] = cs[n]
  <2>1. DOMAIN <<>> = {}
    OBVIOUS
  <2>2. DOMAIN ds = DOMAIN cs \ {m} /\ \A n \in DOMAIN ds : ds[n] = cs[n]
    BY <2>1 DEF Joined
  <2> QED
    BY <2>2 DEF Filling
<1>3. m \in Filling(cs, b)
  BY DEF Filling, BoxFor
<1>4. ASSUME NEW n \in Filling(cs, b) PROVE ~Behind(cs, n, m)
  <2>1. n \in DOMAIN cs /\ n \in Int /\ m \in Int
    BY DEF Filling
  <2>2. ~(n < m)
    BY <2>1 DEF Foremost
  <2> QED
    BY <2>2 DEF Behind
<1> HIDE DEF now
<1>5. ASSUME now.asked # Nothing, NEW n \in Filling(ds, b)
      PROVE  now.asked = <<ds[n].body>> \/ \E k \in Filling(ds, b) : Behind(ds, n, k)
  <2>1. \A k \in Filling(ds, b) : Behind(ds, n, k) <=> Behind(cs, n, k)
    BY <1>2 DEF Behind
  <2>2. n \in Filling(cs, b) /\ ds[n] = cs[n]
    BY <1>2
  <2>3. box.asked = <<cs[n].body>> \/ \E k \in Filling(cs, b) : Behind(cs, n, k)
    BY <1>1, <1>5, <2>2 DEF BoxTold
  <2> QED
    BY <1>1, <1>2, <1>4, <2>1, <2>2, <2>3
<1>6. ASSUME now.asked # Nothing, Filling(ds, b) = {} PROVE now.asked = <<c.body>>
  <2>1. \A k \in Filling(cs, b) : k = m
    BY <1>2, <1>6
  <2>2. box.asked = <<cs[m].body>> \/ \E k \in Filling(cs, b) : Behind(cs, m, k)
    BY <1>1, <1>3, <1>6 DEF BoxTold
  <2> QED
    BY <1>1, <1>3, <1>4, <2>1, <2>2
<1>7. ASSUME ~now.crossed, b # "names" PROVE Filling(ds, b) = {} /\ ~box.err
  <2>1. /\ Filling(cs, b) # {} => ~box.err
        /\ \A k, n \in Filling(cs, b) : k = n
    BY <1>1, <1>7 DEF BoxTold
  <2> QED
    BY <1>2, <1>3, <2>1
<1>8. now.asked # Nothing /\ Filling(ds, b) = {} =>
         IF Allowed(required, b, now.asked[1]) THEN now.shown = now.asked ELSE now.err
  <2> SUFFICES ASSUME now.asked = <<c.body>>
               PROVE IF Allowed(required, b, now.asked[1]) THEN now.shown = now.asked ELSE now.err
    BY <1>6
  <2>1. now.asked[1] = c.body
    OBVIOUS
  <2> QED
    BY <1>1, <2>1
<1>9. ~now.crossed /\ b # "names" /\ now.err /\ now.asked # Nothing => ~Allowed(required, b, now.asked[1])
  <2> SUFFICES ASSUME ~now.crossed, b # "names", now.err, now.asked # Nothing
               PROVE  ~Allowed(required, b, now.asked[1])
    OBVIOUS
  <2>1. now.asked[1] = c.body
    BY <1>6, <1>7
  <2> QED
    BY <1>1, <1>7, <2>1
<1>10. BoxTold(ds, b, now, required)
  BY <1>1, <1>5, <1>7, <1>8, <1>9 DEF BoxTold
<1> QED
  BY <1>10 DEF now

\* A box that it is not for.
LEMMA BoxPasses ==
    ASSUME NEW cs, NEW ds, NEW m \in DOMAIN cs, NEW rs, Joined(cs, {m}, rs, ds),
           NEW b, BoxFor(cs[m].to) # b, \A i \in DOMAIN rs : BoxFor(rs[i].to) # b,
           NEW box, NEW required, BoxTold(cs, b, box, required)
    PROVE  BoxTold(ds, b, box, required)
<1>1. Filling(ds, b) = Filling(cs, b) /\ \A n \in Filling(cs, b) : ds[n] = cs[n]
  BY DEF Joined, Filling
<1>2. \A k, n \in Filling(cs, b) : Behind(ds, n, k) <=> Behind(cs, n, k)
  BY <1>1 DEF Behind
<1> QED
  BY <1>1, <1>2 DEF BoxTold

\* The health that was asked for goes on to the stats, behind those that are under way.
LEMMA BoxGoesOn ==
    ASSUME NEW cs, NEW ds, NEW m \in DOMAIN cs, NEW r, Joined(cs, {m}, <<r>>, ds), Foremost(cs, m),
           \A n \in DOMAIN cs : n \in Int,
           \A k, n \in DOMAIN ds \ DOMAIN cs : k = n,
           cs[m].to = "health", r.to = "stats", r.body = cs[m].body,
           NEW box, NEW required, BoxTold(cs, "stats", box, required)
    PROVE  BoxTold(ds, "stats", box, required)
<1> DEFINE b == "stats"
           rs == <<r>>
<1>1. DOMAIN rs = {1} /\ rs[1] = r
  OBVIOUS
<1> HIDE DEF rs
<1>2. Joined(cs, {m}, rs, ds)
  BY DEF rs
<1>3. PICK k \in DOMAIN ds \ (DOMAIN cs \ {m}) : ds[k] = r
  BY <1>1, <1>2 DEF Joined
<1>4. k \notin DOMAIN cs /\ \A n \in DOMAIN cs : n < k
  BY <1>2, <1>3 DEF Joined
<1>5. Filling(ds, b) = (Filling(cs, b) \ {m}) \cup {k} /\ \A n \in Filling(cs, b) \ {m} : ds[n] = cs[n]
  <2>1. \A n \in DOMAIN cs \ {m} : n \in DOMAIN ds /\ ds[n] = cs[n]
    BY <1>2 DEF Joined
  <2>2. k \in Filling(ds, b)
    BY <1>3 DEF Filling, BoxFor
  <2>3. \A n \in DOMAIN ds : n \in DOMAIN cs \ {m} \/ n = k
    BY <1>2, <1>3, <1>4 DEF Joined
  <2> QED
    BY <2>1, <2>2, <2>3 DEF Filling
<1>6. m \in Filling(cs, b) /\ \A n \in Filling(cs, b) : n \in DOMAIN cs /\ cs[n].to \in {"health", "stats"}
  BY DEF Filling, BoxFor
<1>7. \A n \in Filling(cs, b) : ~(n < m)
  <2>1. \A n \in Filling(cs, b) : n \in Int /\ m \in Int /\ (n # m => m < n)
    BY <1>6 DEF Foremost
  <2> QED
    BY <2>1
<1>8. ASSUME box.asked # Nothing, NEW n \in Filling(ds, b)
      PROVE  box.asked = <<ds[n].body>> \/ \E i \in Filling(ds, b) : Behind(ds, n, i)
  <2>1. CASE n = k
    <3>1. box.asked = <<cs[m].body>> \/ \E i \in Filling(cs, b) : Behind(cs, m, i)
      BY <1>6, <1>8 DEF BoxTold
    <3>2. ASSUME NEW i \in Filling(cs, b), Behind(cs, m, i) PROVE i # m /\ Behind(ds, n, i)
      <4>1. cs[i].to = "health" /\ i # m
        BY <1>7, <3>2 DEF Behind
      <4>2. ds[i] = cs[i] /\ ds[n].to = "stats"
        BY <1>3, <1>5, <2>1, <4>1
      <4> QED
        BY <4>1, <4>2 DEF Behind
    <3> QED
      BY <1>3, <1>5, <2>1, <3>1, <3>2
  <2>2. CASE n # k
    <3>1. n \in Filling(cs, b) /\ n # m /\ ds[n] = cs[n]
      BY <1>5, <2>2
    <3>2. box.asked = <<cs[n].body>> \/ \E i \in Filling(cs, b) : Behind(cs, n, i)
      BY <1>8, <3>1 DEF BoxTold
    <3>3. ASSUME NEW i \in Filling(cs, b), Behind(cs, n, i), i # m PROVE i \in Filling(ds, b) /\ Behind(ds, n, i)
      BY <1>5, <3>1, <3>3 DEF Behind
    <3>4. ASSUME Behind(cs, n, m) PROVE Behind(ds, n, k)
      <4>1. cs[n].to = "stats"
        BY <1>6, <1>7, <3>1, <3>4 DEF Behind
      <4> QED
        BY <1>3, <1>4, <1>6, <3>1, <4>1 DEF Behind
    <3> QED
      BY <1>5, <3>1, <3>2, <3>3, <3>4
  <2> QED
    BY <2>1, <2>2
<1>9. ASSUME ~box.crossed PROVE box.loading /\ ~box.err /\ \A i, n \in Filling(ds, b) : i = n
  <2>1. /\ Filling(cs, b) # {} => box.loading /\ ~box.err
        /\ \A i, n \in Filling(cs, b) : i = n
    BY <1>9 DEF BoxTold
  <2> QED
    BY <1>5, <1>6, <2>1
<1>10. Filling(ds, b) # {} /\ BoxFields \subseteq DOMAIN box
  BY <1>5 DEF BoxTold
<1> QED
  BY <1>8, <1>9, <1>10 DEF BoxTold

\* A box for which nothing was asked, and nothing is under way that was not asked again.
LEMMA BoxUnasked ==
    ASSUME NEW cs, NEW b, NEW box, NEW required, BoxTold(cs, b, box, required),
           NEW now, BoxFields \subseteq DOMAIN now, now.asked = Nothing,
           now.err = box.err, now.loading = box.loading, now.crossed = box.crossed
    PROVE  BoxTold(cs, b, now, required)
BY DEF BoxTold

-----------------------------------------------------------------------------
(* All boxes of the page at once.                                            *)

LEMMA AllBegin ==
    ASSUME NEW cs, NEW ds, NEW rs, Asks(rs, cs), Joined(cs, {}, rs, ds), Single(cs, ds),
           NEW bs, NEW required, AskTold(cs, bs, required)
    PROVE  AskTold(ds, Started(bs, rs), required)
<1> DEFINE now == Started(bs, rs)
<1>1. DOMAIN now = BoxNames /\ "health" \in BoxNames
  BY DEF Started, BoxNames
<1>2. ASSUME NEW b \in BoxNames
      PROVE  \/ now[b] = bs[b] /\ \A i \in DOMAIN rs : BoxFor(rs[i].to) # b
             \/ b # "health" /\ \E i \in DOMAIN rs : BoxFor(rs[i].to) = b /\ now[b] = Begin(bs[b], b, rs[i].body)
  <2>1. \A i \in DOMAIN rs : BoxFor(rs[i].to) # "health"
    BY DEF BoxFor
  <2> HIDE DEF now
  <2>2. \/ now[b] = bs[b] /\ \A i \in DOMAIN rs : BoxFor(rs[i].to) # b
        \/ \E i \in DOMAIN rs : BoxFor(rs[i].to) = b /\ now[b] = Begin(bs[b], b, rs[i].body)
    BY StartedIs DEF now
  <2> QED
    BY <2>1, <2>2
<1> HIDE DEF now
<1>3. FreshSeq(rs) /\ \A i \in DOMAIN rs : rs[i].at = "sent"
  BY DEF Asks, FreshSeq, Fresh
<1>4. ASSUME NEW b \in BoxNames PROVE BoxTold(ds, b, now[b], required)
  <2>1. BoxTold(cs, b, bs[b], required)
    BY DEF AskTold
  <2>2. CASE now[b] = bs[b] /\ \A i \in DOMAIN rs : BoxFor(rs[i].to) # b
    BY <1>3, <2>1, <2>2, BoxWaits
  <2>3. ASSUME NEW i \in DOMAIN rs, b # "health", BoxFor(rs[i].to) = b, now[b] = Begin(bs[b], b, rs[i].body)
        PROVE  BoxTold(ds, b, now[b], required)
    BY <2>1, <2>3, BoxBegins
  <2> QED
    BY <1>2, <2>2, <2>3
<1>5. now["health"].asked = Nothing
  BY <1>1, <1>2 DEF AskTold
<1>6. Screened(ds, required)
  <2>1. \A n \in DOMAIN ds : (n \in DOMAIN cs /\ ds[n] = cs[n]) \/ ds[n].at = "sent"
    BY <1>3 DEF Joined
  <2> QED
    BY <2>1 DEF AskTold, Screened
<1>7. AskTold(ds, now, required)
  BY <1>1, <1>4, <1>5, <1>6 DEF AskTold
<1> QED
  BY <1>7 DEF now

\* The waterfall is closed: nothing is asked for it any more.
LEMMA SpansDropped ==
    ASSUME NEW cs, NEW bs, NEW required, AskTold(cs, bs, required)
    PROVE  AskTold(cs, NoSpans(bs), required) /\ NoSpans(bs)["spans"].asked = Nothing
<1> DEFINE now == NoSpans(bs)
           spans == [bs["spans"] EXCEPT !.shown = Nothing, !.asked = Nothing]
<1>1. "spans" \in BoxNames /\ "health" \in BoxNames /\ DOMAIN bs = BoxNames
  BY DEF BoxNames, AskTold
<1>2. DOMAIN now = BoxNames /\ now["spans"] = spans /\ \A b \in BoxNames \ {"spans"} : now[b] = bs[b]
  BY <1>1 DEF NoSpans
<1>3. BoxFields \subseteq DOMAIN bs["spans"] /\ BoxTold(cs, "spans", bs["spans"], required)
  BY <1>1 DEF AskTold, BoxTold
<1>4. /\ DOMAIN spans = DOMAIN bs["spans"] /\ spans.asked = Nothing
      /\ spans.err = bs["spans"].err /\ spans.loading = bs["spans"].loading /\ spans.crossed = bs["spans"].crossed
  BY <1>3 DEF BoxFields
<1> HIDE DEF now, spans
<1>5. BoxTold(cs, "spans", spans, required)
  BY <1>3, <1>4, BoxUnasked
<1>6. \A b \in BoxNames : BoxTold(cs, b, now[b], required)
  BY <1>2, <1>5 DEF AskTold
<1>7. AskTold(cs, now, required)
  BY <1>1, <1>2, <1>6 DEF AskTold
<1> QED
  BY <1>2, <1>4, <1>7 DEF now

\* A request was handled: answered, or refused.
LEMMA AllServed ==
    ASSUME NEW cs, NEW ds, NEW m \in DOMAIN cs, NEW c, Becomes(cs, m, c, ds),
           c.to = cs[m].to, c.body = cs[m].body,
           NEW bs, NEW required, AskTold(cs, bs, required),
           c.ok = TRUE <=> Allowed(required, c.to, c.body)
    PROVE  AskTold(ds, bs, required)
<1>1. \A b \in BoxNames : BoxTold(ds, b, bs[b], required)
  BY BoxServed DEF AskTold
<1>2. Screened(ds, required)
  BY DEF Becomes, Screened, AskTold
<1> QED
  BY <1>1, <1>2 DEF AskTold

\* An answer is shown.
LEMMA AllLand ==
    ASSUME NEW cs, NEW ds, NEW m \in DOMAIN cs, Joined(cs, {m}, <<>>, ds), Foremost(cs, m),
           \A n \in DOMAIN cs : n \in Int, cs[m].at = "done", cs[m].to \in BoxNames \ {"health"},
           NEW bs, NEW required, AskTold(cs, bs, required)
    PROVE  AskTold(ds, [bs EXCEPT ![cs[m].to] = Land(@, cs[m])], required)
<1> DEFINE to == cs[m].to
           now == [bs EXCEPT ![to] = Land(@, cs[m])]
<1>1. DOMAIN bs = BoxNames /\ DOMAIN now = BoxNames /\ now[to] = Land(bs[to], cs[m])
      /\ \A b \in BoxNames \ {to} : now[b] = bs[b]
  BY DEF AskTold
<1>2. BoxFor(to) = to /\ "health" \in BoxNames
  BY DEF BoxFor, BoxNames
<1> HIDE DEF now
<1>3. BoxTold(ds, to, now[to], required)
  <2>1. cs[m].ok = TRUE <=> Allowed(required, to, cs[m].body)
    BY DEF AskTold, Screened
  <2>2. BoxTold(cs, to, bs[to], required)
    BY DEF AskTold
  <2> QED
    BY <1>1, <2>1, <2>2, BoxLands
<1>4. ASSUME NEW b \in BoxNames \ {to} PROVE BoxTold(ds, b, now[b], required)
  <2>1. BoxTold(cs, b, bs[b], required)
    BY DEF AskTold
  <2>2. DOMAIN <<>> = {}
    OBVIOUS
  <2>3. \A i \in DOMAIN <<>> : BoxFor(<<>>[i].to) # b
    BY <2>2
  <2> QED
    BY <1>1, <1>2, <2>1, <2>3, BoxPasses
<1>5. Screened(ds, required)
  <2>1. DOMAIN <<>> = {}
    OBVIOUS
  <2>2. \A n \in DOMAIN ds : n \in DOMAIN cs /\ ds[n] = cs[n]
    BY <2>1 DEF Joined
  <2> QED
    BY <2>2 DEF AskTold, Screened
<1>6. AskTold(ds, now, required)
  BY <1>1, <1>2, <1>3, <1>4, <1>5 DEF AskTold
<1> QED
  BY <1>6 DEF now

\* The health is there, and the stats are asked for.
LEMMA AllGoOn ==
    ASSUME NEW cs, NEW ds, NEW m \in DOMAIN cs, NEW r, Fresh(r), Joined(cs, {m}, <<r>>, ds), Foremost(cs, m),
           \A n \in DOMAIN cs : n \in Int,
           \A k, n \in DOMAIN ds \ DOMAIN cs : k = n,
           cs[m].to = "health", r.to = "stats", r.body = cs[m].body,
           NEW bs, NEW required, AskTold(cs, bs, required), NEW shown
    PROVE  AskTold(ds, [bs EXCEPT !["health"].shown = shown], required)
<1> DEFINE now == [bs EXCEPT !["health"].shown = shown]
           health == [bs["health"] EXCEPT !.shown = shown]
<1>1. DOMAIN bs = BoxNames /\ "health" \in BoxNames /\ "stats" \in BoxNames
  BY DEF AskTold, BoxNames
<1>2. DOMAIN now = BoxNames /\ now["health"] = health /\ \A b \in BoxNames \ {"health"} : now[b] = bs[b]
  BY <1>1
<1>3. \A b \in BoxNames : BoxTold(cs, b, bs[b], required)
  BY DEF AskTold
<1>4. /\ BoxFields \subseteq DOMAIN bs["health"] /\ bs["health"].asked = Nothing
  BY <1>1, <1>3 DEF AskTold, BoxTold
<1>5. /\ BoxFields \subseteq DOMAIN health /\ health.asked = Nothing
      /\ health.err = bs["health"].err /\ health.loading = bs["health"].loading
      /\ health.crossed = bs["health"].crossed
  BY <1>4 DEF BoxFields
<1> HIDE DEF now, health
<1> DEFINE rs == <<r>>
<1>6. DOMAIN rs = {1} /\ rs[1] = r /\ BoxFor(r.to) = "stats" /\ BoxFor(cs[m].to) = "stats"
  BY DEF BoxFor
<1>7. Joined(cs, {m}, rs, ds)
  OBVIOUS
<1> HIDE DEF rs
<1>8. ASSUME NEW b \in BoxNames \ {"stats"} PROVE BoxTold(ds, b, bs[b], required)
  BY <1>3, <1>6, <1>7, BoxPasses
<1>9. BoxTold(ds, "stats", bs["stats"], required)
  BY <1>1, <1>3, BoxGoesOn
<1>10. BoxTold(ds, "health", health, required)
  BY <1>1, <1>5, <1>8, BoxUnasked
<1>11. \A b \in BoxNames : BoxTold(ds, b, now[b], required)
  BY <1>2, <1>8, <1>9, <1>10
<1>12. Screened(ds, required)
  <2>1. \A n \in DOMAIN ds : (n \in DOMAIN cs /\ ds[n] = cs[n]) \/ ds[n] = r
    BY <1>6, <1>7 DEF Joined
  <2> QED
    BY <2>1 DEF AskTold, Screened, Fresh
<1>13. AskTold(ds, now, required)
  BY <1>1, <1>2, <1>5, <1>11, <1>12 DEF AskTold
<1> QED
  BY <1>13 DEF now

\* What a page asks for when it opens, or when the token changes.
LEMMA LoadsAsk ==
    ASSUME NEW p, NEW l, NEW cs, \A n \in DOMAIN cs : cs[n].to = "health" => p = "overview"
    PROVE  /\ Asks(Loads(p, l), cs) /\ Asks(Opens(p, l), cs)
           /\ \A i \in DOMAIN Loads(p, l) : Loads(p, l)[i].to # "spans" /\ (Loads(p, l)[i].to = "health" => p = "overview")
           /\ \A i \in DOMAIN Opens(p, l) : Opens(p, l)[i].to = "health" => p = "overview"
<1> DEFINE ask(to) == GetJson(to, Now(l, None))
           Good(rs) == /\ Asks(rs, cs)
                       /\ \A i \in DOMAIN rs : rs[i].to # "spans" /\ (rs[i].to = "health" => p = "overview")
<1>1. \A to : Fresh(ask(to)) /\ ask(to).to = to
  BY GetJsonIsFresh
<1> HIDE DEF ask
<1>2. ASSUME NEW to \in {"health", "stats", "names", "map"},
             to = "health" => p = "overview", to = "stats" => p # "overview"
      PROVE  Good(<<ask(to)>>)
  <2> DEFINE rs == <<ask(to)>>
  <2>1. FreshSeq(rs) /\ DOMAIN rs = {1} /\ rs[1].to = to
    BY <1>1, FewRequests
  <2> HIDE DEF rs
  <2>2. Good(rs)
    BY <1>2, <2>1 DEF Asks
  <2> QED
    BY <2>2 DEF rs
<1>3. FreshSeq(Loads(p, l)) /\ FreshSeq(Opens(p, l))
  BY LoadsFresh
<1>4. Good(<<>>)
  BY FewRequests DEF Asks
<1>5. Good(Loads(p, l))
  <2>1. CASE p = "overview"
    BY <1>2, <2>1 DEF Loads, ask
  <2>2. CASE p = "retention"
    BY <1>2, <2>2 DEF Loads, ask
  <2>3. CASE p = "metrics" /\ l.name = None
    <3>1. Loads(p, l) = <<ask("names")>> \o <<>>
      BY <2>3 DEF Loads, ask
    <3>2. <<ask("names")>> \o <<>> = <<ask("names")>>
      OBVIOUS
    <3> QED
      BY <1>2, <2>3, <3>1, <3>2
  <2>4. CASE p = "metrics" /\ l.name # None
    <3> DEFINE rs == Loads(p, l)
    <3>1. rs = <<ask("names")>> \o <<ask("series")>>
      BY <2>4 DEF Loads, ask
    <3>2. DOMAIN rs = {1, 2} /\ rs[1] = ask("names") /\ rs[2] = ask("series")
      BY <3>1
    <3>3. DOMAIN rs = {1, 2} /\ rs[1].to = "names" /\ rs[2].to = "series" /\ FreshSeq(rs)
      BY <1>1, <1>3, <3>2
    <3> HIDE DEF rs
    <3>4. \A i, j \in DOMAIN rs : BoxFor(rs[i].to) = BoxFor(rs[j].to) => i = j
      BY <3>3 DEF BoxFor
    <3>5. \A i \in DOMAIN rs : rs[i].to \in {"names", "series"}
      BY <3>3
    <3> HIDE DEF Good
    <3>6. Good(rs)
      BY <3>3, <3>4, <3>5 DEF Asks, Good
    <3> QED
      BY <3>6 DEF rs
  <2>5. CASE p \notin {"overview", "retention", "metrics"}
    BY <1>4, <2>5 DEF Loads
  <2> QED
    BY <2>1, <2>2, <2>3, <2>4, <2>5
<1>6. Good(Opens(p, l))
  <2>1. CASE p \in {"services", "kubernetes"}
    BY <1>2, <2>1 DEF Opens, ask
  <2> QED
    BY <1>5, <2>1 DEF Opens
<1> QED
  BY <1>5, <1>6

\* One request that is not for the health.
LEMMA OneAsk ==
    ASSUME NEW to, NEW q, to \notin {"health", "stats"}, NEW cs
    PROVE  /\ Asks(<<GetJson(to, q)>>, cs)
           /\ DOMAIN <<GetJson(to, q)>> = {1} /\ <<GetJson(to, q)>>[1].to = to /\ <<GetJson(to, q)>>[1].body = q
<1> DEFINE rs == <<GetJson(to, q)>>
<1>1. FreshSeq(rs) /\ DOMAIN rs = {1} /\ rs[1].to = to /\ rs[1].body = q
  BY GetJsonIsFresh, FewRequests
<1> HIDE DEF rs
<1>2. Asks(rs, cs)
  BY <1>1 DEF Asks
<1> QED
  BY <1>1, <1>2 DEF rs

LEMMA AskInit ==
    ASSUME Init
    PROVE  AskInv
<1> SUFFICES ASSUME page \in Asking PROVE AskInv
  BY DEF AskInv
<1> DEFINE rs == Opens(page, look)
           cs == <<>>
           bs == [b \in BoxNames |-> EmptyBox]
<1>1. /\ boxes = Started(bs, rs) /\ BrowserInit(rs) /\ look.selected = None /\ LookFields
  BY DEF Init, QueriesInit, Asking, LookFields
<1>2. DOMAIN cs = {}
  OBVIOUS
<1> HIDE DEF cs
<1>3. Asks(rs, cs) /\ \A i \in DOMAIN rs : rs[i].to = "health" => page = "overview"
  BY <1>2, LoadsAsk
<1>4. bs["health"].asked = Nothing /\ DOMAIN bs = BoxNames
  BY DEF BoxNames, EmptyBox
<1>5. ASSUME NEW b \in BoxNames PROVE BoxTold(cs, b, bs[b], look.required)
  <2>1. Filling(cs, b) = {}
    BY <1>2 DEF Filling
  <2>2. bs[b] = EmptyBox
    OBVIOUS
  <2> HIDE DEF bs
  <2>3. EmptyBox.asked = Nothing /\ EmptyBox.err = FALSE /\ BoxFields \subseteq DOMAIN EmptyBox
    BY DEF EmptyBox, BoxFields
  <2> QED
    BY <2>1, <2>2, <2>3 DEF BoxTold
<1> HIDE DEF bs, rs
<1>6. AskTold(cs, bs, look.required)
  BY <1>2, <1>4, <1>5 DEF AskTold, Screened
<1>7. DOMAIN calls = DOMAIN rs /\ \A n \in DOMAIN rs : calls[n] = rs[n]
  BY <1>1 DEF BrowserInit
<1>8. Joined(cs, {}, rs, calls)
  <2>1. \A n \in DOMAIN rs : n \in Int /\ IsCall(rs[n])
    BY <1>3 DEF Asks, FreshSeq, Fresh
  <2> QED
    BY <1>2, <1>7, <2>1 DEF Joined
<1>9. Single(cs, calls)
  BY <1>3, <1>7 DEF Single, Asks
<1>10. AskTold(calls, boxes, look.required)
  BY <1>1, <1>3, <1>6, <1>8, <1>9, AllBegin
<1> QED
  BY <1>1, <1>3, <1>7, <1>10 DEF AskInv, AskKept, SpansAsked

\* The page sends rs, after it dropped what was in some boxes.
LEMMA SendsAsk ==
    ASSUME NetInv, NEW rs, Asks(rs, calls), Send(rs), NEW bs, NEW required, AskTold(calls, bs, required)
    PROVE  /\ AskTold(calls', Started(bs, rs), required)
           /\ \A n \in DOMAIN calls' :
                 (n \in DOMAIN calls /\ calls'[n] = calls[n]) \/ \E i \in DOMAIN rs : calls'[n] = rs[i]
<1>1. Joined(calls, {}, rs, calls') /\ Single(calls, calls')
  BY SendJoins, SendSingle DEF Asks
<1>2. AskTold(calls', Started(bs, rs), required)
  BY <1>1, AllBegin
<1> QED
  BY <1>1, <1>2 DEF Joined

LEMMA AskUserTells ==
    ASSUME NetInv, AskKept, page' = page, QueriesUser
    PROVE  AskKept'
<1> PICK req : req = look.required
  OBVIOUS
<1>1. LookFields /\ AskTold(calls, boxes, req) /\ SpansAsked(boxes, look)
      /\ \A n \in DOMAIN calls : calls[n].to = "health" => page = "overview"
  BY DEF AskKept
<1> DEFINE Same == LookFields' /\ look'.required = req /\ look'.selected = look.selected
\* A question that is not about the spans.
<1>2. ASSUME NEW rs, Asks(rs, calls), Send(rs), boxes' = Started(boxes, rs), Same,
             \A i \in DOMAIN rs : rs[i].to # "spans" /\ (rs[i].to = "health" => page = "overview")
      PROVE  AskKept'
  <2>1. /\ AskTold(calls', boxes', req)
        /\ \A n \in DOMAIN calls' :
              (n \in DOMAIN calls /\ calls'[n] = calls[n]) \/ \E i \in DOMAIN rs : calls'[n] = rs[i]
    BY <1>1, <1>2, SendsAsk
  <2>2. \A n \in DOMAIN calls' : calls'[n].to = "health" => page' = "overview"
    BY <1>1, <1>2, <2>1
  <2>3. \A i \in DOMAIN rs : BoxFor(rs[i].to) # "spans"
    BY <1>2 DEF BoxFor
  <2>4. "spans" \in BoxNames
    BY DEF BoxNames
  <2>5. boxes'["spans"] = boxes["spans"]
    BY <1>2, <2>3, <2>4, StartedIs
  <2>6. SpansAsked(boxes', look')
    BY <1>1, <1>2, <2>5 DEF SpansAsked
  <2> QED
    BY <1>2, <2>1, <2>2, <2>6 DEF AskKept
<1>3. ASSUME NEW to, NEW q, to \notin {"health", "stats", "spans"}, Ask(<<GetJson(to, q)>>), Same
      PROVE  AskKept'
  <2> DEFINE rs == <<GetJson(to, q)>>
  <2>1. Asks(rs, calls) /\ DOMAIN rs = {1} /\ rs[1].to = to
    BY <1>3, OneAsk
  <2>2. Send(rs) /\ boxes' = Started(boxes, rs)
    BY <1>3 DEF Ask
  <2> HIDE DEF rs
  <2> QED
    BY <1>2, <1>3, <2>1, <2>2
<1>4. ASSUME UNCHANGED <<calls, boxes>>, Same PROVE AskKept'
  BY <1>1, <1>4 DEF AskKept, SpansAsked
<1>5. ASSUME NEW t, TypeToken(t) PROVE AskKept'
  <2>1. look' = [look EXCEPT !.token = t]
    BY <1>5 DEF TypeToken
  <2>2. Same
    BY <1>1, <2>1 DEF LookFields
  <2> PICK l : l = look'
    OBVIOUS
  <2>3. CASE Loads(page, l) = <<>>
    BY <1>4, <1>5, <2>2, <2>3 DEF TypeToken, Local, net
  <2>4. CASE Loads(page, l) # <<>>
    <3> DEFINE rs == Loads(page, l)
    <3>1. Send(rs) /\ boxes' = Started(boxes, rs)
      BY <1>5, <2>4 DEF TypeToken, Ask
    <3>2. Asks(rs, calls) /\ \A i \in DOMAIN rs : rs[i].to # "spans" /\ (rs[i].to = "health" => page = "overview")
      BY <1>1, LoadsAsk
    <3> HIDE DEF rs
    <3> QED
      BY <1>2, <2>2, <3>1, <3>2
  <2> QED
    BY <2>3, <2>4
<1>6. ASSUME NEW n, SelectName(n) PROVE AskKept'
  <2>1. look' = [look EXCEPT !.name = n] /\ \E q : Ask(<<GetJson("series", q)>>)
    BY <1>6 DEF SelectName
  <2>2. Same
    BY <1>1, <2>1 DEF LookFields
  <2> QED
    BY <1>3, <2>1, <2>2
<1>7. ASSUME NEW t, FollowToLogs(t) PROVE AskKept'
  <2>1. look' = [look EXCEPT !.filter = t] /\ \E q : Ask(<<GetJson("logs", q)>>)
    BY <1>7 DEF FollowToLogs
  <2>2. Same
    BY <1>1, <2>1 DEF LookFields
  <2> QED
    BY <1>3, <2>1, <2>2
<1>8. CASE RunMetrics \/ RunLogs \/ RunMap
  <2>1. Same
    BY <1>1, <1>8 DEF RunMetrics, RunLogs, RunMap, LookFields
  <2>2. \E q : Ask(<<GetJson("points", q)>>) \/ Ask(<<GetJson("logs", q)>>) \/ Ask(<<GetJson("map", q)>>)
    BY <1>8 DEF RunMetrics, RunLogs, RunMap
  <2> QED
    BY <1>3, <2>1, <2>2
<1>9. CASE ClearFilter
  <2>1. look' = [look EXCEPT !.filter = None] /\ UNCHANGED <<calls, boxes>>
    BY <1>9 DEF ClearFilter, Local, net
  <2>2. Same
    BY <1>1, <2>1 DEF LookFields
  <2> QED
    BY <1>4, <2>1, <2>2
\* Requests on the page of the traces.
<1>10. ASSUME NEW rs, NEW to, DOMAIN rs = {1}, rs[1].to = to, to # "health", Asks(rs, calls), Send(rs),
              NEW bs, AskTold(calls, bs, req)
       PROVE  /\ AskTold(calls', Started(bs, rs), req)
              /\ \A n \in DOMAIN calls' : calls'[n].to = "health" => page' = "overview"
  BY <1>1, <1>10, SendsAsk
<1>11. CASE RunTraces
  <2> DEFINE rs == <<GetJson("traces", Now(look, None))>>
  <2>1. Asks(rs, calls) /\ DOMAIN rs = {1} /\ rs[1].to = "traces"
    BY OneAsk
  <2>2. Send(rs) /\ boxes' = NoSpans(Started(boxes, rs)) /\ look' = [look EXCEPT !.selected = None]
    BY <1>11 DEF RunTraces
  <2> HIDE DEF rs
  <2>3. /\ AskTold(calls', Started(boxes, rs), req)
        /\ \A n \in DOMAIN calls' : calls'[n].to = "health" => page' = "overview"
    BY <1>1, <1>10, <2>1, <2>2
  <2>4. AskTold(calls', boxes', req)
    BY <2>2, <2>3, SpansDropped
  <2>5. LookFields' /\ look'.required = req /\ look'.selected = None
    BY <1>1, <2>2 DEF LookFields
  <2> QED
    BY <2>3, <2>4, <2>5 DEF AskKept, SpansAsked
<1>12. ASSUME NEW t, load_spans(t) PROVE AskKept'
  <2> DEFINE q == Now(look, t)
             rs == <<GetJson("spans", q)>>
             bs == NoSpans(boxes)
  <2>1. Asks(rs, calls) /\ DOMAIN rs = {1} /\ rs[1].to = "spans" /\ rs[1].body = q
    BY OneAsk
  <2>2. Send(rs) /\ boxes' = Started(bs, rs) /\ look' = [look EXCEPT !.selected = t]
    BY <1>12 DEF load_spans
  <2>3. AskTold(calls, bs, req) /\ "spans" \in BoxNames
    BY <1>1, SpansDropped DEF BoxNames
  <2>4. q.trace = t
    BY DEF Now
  <2> HIDE DEF rs, bs, q
  <2>5. /\ AskTold(calls', boxes', req)
        /\ \A n \in DOMAIN calls' : calls'[n].to = "health" => page' = "overview"
    BY <1>10, <2>1, <2>2, <2>3
  <2>6. LookFields' /\ look'.required = req /\ look'.selected = t
    BY <1>1, <2>2 DEF LookFields
  <2>7. boxes'["spans"].asked = <<q>>
    <3>1. boxes'["spans"] = Begin(bs["spans"], "spans", q)
      BY <2>1, <2>2, <2>3, StartedIs DEF BoxFor
    <3>2. BoxFields \subseteq DOMAIN bs["spans"]
      BY <2>3 DEF AskTold, BoxTold
    <3> QED
      BY <3>1, <3>2 DEF Begin, BoxFields
  <2>8. boxes'["spans"].asked # Nothing /\ boxes'["spans"].asked[1].trace = t
    <3>1. <<q>> # Nothing /\ <<q>>[1] = q
      BY DEF Nothing
    <3> PICK asked : asked = boxes'["spans"].asked
      OBVIOUS
    <3>2. asked # Nothing /\ asked[1] = q
      BY <2>7, <3>1
    <3> QED
      BY <2>4, <3>2
  <2> QED
    BY <2>5, <2>6, <2>8 DEF AskKept, SpansAsked
<1> QED
  BY <1>5, <1>6, <1>7, <1>8, <1>9, <1>11, <1>12 DEF QueriesUser

LEMMA AskServesTells ==
    ASSUME NetInv, LineInv, AskKept, page' = page, NEW m, QueriesServe(m)
    PROVE  AskKept'
<1> PICK req : req = look.required
  OBVIOUS
<1>1. LookFields /\ AskTold(calls, boxes, req) /\ SpansAsked(boxes, look)
      /\ \A n \in DOMAIN calls : calls[n].to = "health" => page = "overview"
  BY DEF AskKept
<1>2. m \in DOMAIN calls /\ calls[m].at # "done" /\ calls[m].ok = FALSE /\ UNCHANGED <<look, boxes>>
  BY DEF QueriesServe, Serve, At, LineInv, queryVars
<1>3. Authorized(calls[m].to, calls[m].body) <=> Allowed(req, calls[m].to, calls[m].body)
  BY DEF Authorized, Allowed
<1>4. PICK c : /\ Handles(m, c) /\ c.body = calls[m].body
               /\ c.ok = TRUE <=> Allowed(req, calls[m].to, calls[m].body)
  <2>1. CASE Allowed(req, calls[m].to, calls[m].body)
    <3>1. Answer(m, Nothing)
      BY <1>3, <2>1 DEF QueriesServe, Serve
    <3> QED
      BY <1>2, <2>1, <3>1, AnswerHandles
  <2>2. CASE ~Allowed(req, calls[m].to, calls[m].body)
    <3>1. Refuse(m)
      BY <1>3, <2>2 DEF QueriesServe, Serve
    <3> QED
      BY <1>2, <2>2, <3>1, RefuseHandles
  <2> QED
    BY <2>1, <2>2
<1>5. Becomes(calls, m, c, calls') /\ c.to = calls[m].to
  BY <1>4 DEF Handles
<1>6. AskTold(calls', boxes, req)
  BY <1>1, <1>2, <1>4, <1>5, AllServed
<1>7. \A n \in DOMAIN calls' : calls'[n].to = "health" => page' = "overview"
  BY <1>1, <1>2, <1>5 DEF Becomes
<1> QED
  BY <1>1, <1>2, <1>6, <1>7 DEF AskKept, LookFields

LEMMA AskHearsTells ==
    ASSUME NetInv, overtaken' = FALSE, AskKept, page' = page, NEW m, QueriesHear(m)
    PROVE  AskKept'
<1> PICK req : req = look.required
  OBVIOUS
<1>1. LookFields /\ AskTold(calls, boxes, req) /\ SpansAsked(boxes, look)
      /\ \A n \in DOMAIN calls : calls[n].to = "health" => page = "overview"
  BY DEF AskKept
<1>2. m \in DOMAIN calls /\ calls[m].at = "done" /\ UNCHANGED look /\ \A n \in DOMAIN calls : n \in Int
  BY DEF QueriesHear, GotHealth, GotBox, At, NetInv
<1>3. ASSUME NEW bs, boxes' = bs, AskTold(calls', bs, req), bs["spans"].asked = boxes["spans"].asked,
             \A n \in DOMAIN calls' : calls'[n].to = "health" => page' = "overview"
      PROVE  AskKept'
  <2>1. SpansAsked(bs, look)
    BY <1>1, <1>3 DEF SpansAsked
  <2> QED
    BY <1>1, <1>2, <1>3, <2>1 DEF AskKept, LookFields
<1>4. CASE GotHealth(m)
  <2> DEFINE r == GetJson("stats", calls[m].body)
  <2>1. calls[m].to = "health" /\ Receive(m, <<r>>)
    BY <1>4 DEF GotHealth, At
  <2>2. Fresh(r) /\ r.to = "stats" /\ r.body = calls[m].body
    BY GetJsonIsFresh
  <2> HIDE DEF r
  <2>3. Leaves(m, <<r>>)
    BY <1>2, <2>1, <2>2, FewRequests DEF Leaves
  <2>4. Joined(calls, {m}, <<r>>, calls') /\ Foremost(calls, m)
    BY <2>3, LeavesJoins, FirstLeaves
  <2>5. \A k, n \in DOMAIN calls' \ DOMAIN calls : k = n
    BY <2>3, ReceiveSingle
  <2> PICK shown : boxes' = [boxes EXCEPT !["health"].shown = shown]
    BY <1>4 DEF GotHealth
  <2> DEFINE bs == [boxes EXCEPT !["health"].shown = shown]
  <2>6. AskTold(calls', bs, req)
    BY <1>1, <1>2, <2>1, <2>2, <2>4, <2>5, AllGoOn
  <2>7. bs["spans"] = boxes["spans"]
    BY <1>1 DEF AskTold, BoxNames
  <2>8. \A n \in DOMAIN calls' : calls'[n].to = "health" => page' = "overview"
    <3>1. page = "overview"
      BY <1>1, <1>2, <2>1
    <3> QED
      BY <3>1
  <2> HIDE DEF bs
  <2> QED
    BY <1>3, <2>6, <2>7, <2>8 DEF bs
<1>5. CASE GotBox(m)
  <2>1. calls[m].to \in BoxNames \ {"health"} /\ Receive(m, <<>>)
    BY <1>5 DEF GotBox, At
  <2>2. Leaves(m, <<>>)
    BY <1>2, <2>1, FewRequests DEF Leaves
  <2>3. Joined(calls, {m}, <<>>, calls') /\ Foremost(calls, m)
    BY <2>2, LeavesJoins, FirstLeaves
  <2> DEFINE to == calls[m].to
             bs == [boxes EXCEPT ![to] = Land(@, calls[m])]
  <2>4. boxes' = bs
    BY <1>5 DEF GotBox
  <2>5. AskTold(calls', bs, req)
    BY <1>1, <1>2, <2>1, <2>3, AllLand
  <2>6. bs["spans"].asked = boxes["spans"].asked
    <3>1. "spans" \in BoxNames /\ DOMAIN boxes = BoxNames
      BY <1>1 DEF AskTold, BoxNames
    <3>2. BoxFields \subseteq DOMAIN boxes["spans"]
      BY <1>1, <3>1 DEF AskTold, BoxTold
    <3>3. Land(boxes["spans"], calls[m]).asked = boxes["spans"].asked
      BY <3>2 DEF Land, BoxFields
    <3> QED
      BY <3>1, <3>3
  <2>7. \A n \in DOMAIN calls' : calls'[n].to = "health" => page' = "overview"
    <3>1. DOMAIN <<>> = {}
      OBVIOUS
    <3>2. \A n \in DOMAIN calls' : n \in DOMAIN calls /\ calls'[n] = calls[n]
      BY <2>3, <3>1 DEF Joined
    <3> QED
      BY <1>1, <3>2
  <2> HIDE DEF bs
  <2> QED
    BY <1>3, <2>4, <2>5, <2>6, <2>7
<1> QED
  BY <1>4, <1>5 DEF QueriesHear

LEMMA AskStep ==
    ASSUME NetInv, LineInv, AskInv, [Next]_vars
    PROVE  AskInv'
<1>1. page' = page /\ NetStep
  BY PageStays, NetSteps
<1> SUFFICES ASSUME page \in Asking, Orderly'
             PROVE  AskKept'
  BY <1>1 DEF AskInv
<1>2. Orderly /\ overtaken' = FALSE
  BY <1>1, LineStep DEF Orderly
<1>3. AskKept
  BY <1>2 DEF AskInv
<1>4. CASE Breaks
  <2>1. faults' = faults + 1 /\ faults = 0 /\ faults' = 0
    BY <1>2, <1>4 DEF Breaks, Fail, Orderly
  <2> QED
    BY <2>1
<1>5. CASE UNCHANGED vars
  BY <1>3, <1>5 DEF vars, net, queryVars, AskKept, LookFields
<1>6. CASE QueriesUser
  BY <1>1, <1>3, <1>6, AskUserTells
<1>7. ASSUME NEW n, QueriesServe(n) PROVE AskKept'
  BY <1>1, <1>3, <1>7, AskServesTells
<1>8. ASSUME NEW n, QueriesHear(n) PROVE AskKept'
  BY <1>1, <1>2, <1>3, <1>8, AskHearsTells
<1> QED
  BY <1>4, <1>5, <1>6, <1>7, <1>8 DEF Next, OnDashboards, OnAlerts, OnQueries, Network, Asking

\* When every request of a page that only asks was answered in order, each of its boxes
\* shows the answer to the last question that was asked for it, or the banner that it was
\* refused, and the waterfall is of the trace whose name is above it: of the requests that
\* fill a box the last one asks that question, and the health goes on to the stats.
THEOREM AnswersAreShown == Spec => []QueriesSettle
<1>1. Init => SpinInv /\ LineInv /\ AskInv
  BY SpinInit, LineInit, AskInit
<1>2. SpinInv /\ LineInv /\ AskInv /\ [Next]_vars => SpinInv' /\ LineInv' /\ AskInv'
  BY SpinStep, LineStep, AskStep, NetSteps DEF SpinInv
<1>3. SpinInv /\ LineInv /\ AskInv => QueriesSettle
  <2> SUFFICES ASSUME SpinInv, LineInv, AskInv, page \in Asking, Settled
               PROVE  /\ BoxesIdle
                      /\ \A b \in BoxNames : boxes[b].asked # Nothing =>
                            IF Authorized(b, boxes[b].asked[1])
                            THEN /\ boxes[b].shown = boxes[b].asked
                                 /\ boxes[b].err => b = "names" \/ boxes[b].crossed
                            ELSE boxes[b].err
                      /\ look.selected # None => boxes["spans"].asked[1].trace = look.selected
    BY DEF QueriesSettle
  <2>1. DOMAIN calls = {} /\ Orderly
    BY DEF Settled, Orderly, LineInv
  <2>2. BoxesIdle
    BY <2>1 DEF SpinInv, BoxSpin, Pending, BoxesIdle
  <2>3. AskTold(calls, boxes, look.required) /\ SpansAsked(boxes, look)
    BY <2>1 DEF AskInv, AskKept
  <2>4. ASSUME NEW b \in BoxNames, boxes[b].asked # Nothing
        PROVE  IF Authorized(b, boxes[b].asked[1])
               THEN /\ boxes[b].shown = boxes[b].asked
                    /\ boxes[b].err => b = "names" \/ boxes[b].crossed
               ELSE boxes[b].err
    <3>1. Filling(calls, b) = {} /\ BoxTold(calls, b, boxes[b], look.required)
      BY <2>1, <2>3 DEF AskTold, Filling
    <3>2. Authorized(b, boxes[b].asked[1]) <=> Allowed(look.required, b, boxes[b].asked[1])
      BY DEF Authorized, Allowed
    <3> QED
      BY <2>4, <3>1, <3>2 DEF BoxTold
  <2> QED
    BY <2>2, <2>3, <2>4 DEF SpansAsked
<1> QED
  BY <1>1, <1>2, <1>3, PTL DEF Spec
==============================================================================
