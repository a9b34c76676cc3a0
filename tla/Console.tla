------------------------------- MODULE Console -------------------------------
(***************************************************************************)
(* The console (dashboard/src): one of its pages is open, whose requests   *)
(* the server handles.  The router drops a page with all its signals when  *)
(* another one opens, so that every page starts as it does here.           *)
(***************************************************************************)
EXTENDS DashboardsPage, AlertsPage, QueryPages

ASSUME PagesAssumption == Pages \subseteq Asking \cup {"dashboards", "alerts"}

vars == <<net, dashVars, alertVars, queryVars>>

TypeOK ==
    /\ page \in Pages
    /\ \A n \in DOMAIN calls : calls[n].at \in {"sent", "write", "read", "done"}
    /\ sent \in Nat /\ faults \in Nat /\ others \in Nat /\ overtaken \in BOOLEAN
    /\ DOMAIN calls \subseteq 1..sent
    /\ DashTypeOK /\ AlertsTypeOK /\ QueriesTypeOK

\* The page that is not open has nothing in its tables to show.
NoDashboards == stored = <<>> /\ nextDash = 1 /\ dash = NewDash /\ kept = <<>>
NoRules == ruleTable = <<>> /\ nextRule = 1 /\ alarms = {} /\ desk = NewDesk
NoQueries == look = [required |-> FALSE, token |-> "right", name |-> None,
                     filter |-> None, selected |-> None]
             /\ boxes = [b \in BoxNames |-> EmptyBox] /\ waterfall = {}

Init ==
    /\ page \in Pages
    /\ \/ page = "dashboards" /\ DashInit /\ NoRules /\ NoQueries /\ BrowserInit(<<ListDashboards>>)
       \/ page = "alerts" /\ AlertsInit /\ NoDashboards /\ NoQueries /\ BrowserInit(<<ListRules>>)
       \/ page \in Asking /\ QueriesInit(page) /\ NoDashboards /\ NoRules /\ BrowserInit(Opens(page, look))

OnDashboards(A) == page = "dashboards" /\ A /\ UNCHANGED <<alertVars, queryVars>>
OnAlerts(A) == page = "alerts" /\ A /\ UNCHANGED <<dashVars, queryVars>>
OnQueries(A) == page \in Asking /\ A /\ UNCHANGED <<dashVars, alertVars>>

\* A request gets ahead: a statement of its handler, a failure, or its answer.
Network ==
    \E n \in DOMAIN calls :
        \/ OnDashboards(DashServes(n) \/ DashHears(n))
        \/ OnAlerts(AlertsServes(n) \/ AlertsHears(n))
        \/ OnQueries(QueriesServe(n) \/ QueriesHear(n))

Breaks == \E n \in DOMAIN calls : Fail(n) /\ UNCHANGED <<dashVars, alertVars, queryVars>>

Next ==
    \/ OnDashboards(DashUser) \/ OnAlerts(AlertsUser) \/ OnQueries(QueriesUser)
    \/ Network
    \/ Breaks

Spec == Init /\ [][Next]_vars

-----------------------------------------------------------------------------
\* Every spinner of every page goes, and every button that is disabled while a
\* request is under way can be pressed again, failures and refusals included: as
\* long as one is there, the request whose answer ends it is under way.
SpinnersEnd ==
    LET UnderWay(S) == \E n \in DOMAIN calls : calls[n].to \in S IN
    /\ page = "dashboards" =>
          /\ dash.loading => UnderWay({"dashboards"})
          /\ dash.saving => UnderWay({"save"})
    /\ page = "alerts" =>
          /\ desk.loading => UnderWay({"rules", "active"})
          /\ desk.submitting => UnderWay({"create_rule", "update_rule"})
          /\ desk.deleting => UnderWay({"delete_rule"})
    /\ page \in Asking =>
          \A b \in BoxNames : boxes[b].loading => UnderWay({b} \cup (IF b = "stats" THEN {"health"} ELSE {}))
==============================================================================
