--------------------------- MODULE DashboardsPage ---------------------------
(***************************************************************************)
(* The dashboards page (dashboard/src/pages/dashboards.rs), the handlers   *)
(* it calls (src/dashboards.rs) and their table.                           *)
(*                                                                         *)
(* A dashboard is its panels: its name goes wherever they go, and where    *)
(* the page shows a name the id stands for it.  Id 0 is no dashboard.  The *)
(* cards that draw the panels, the metric names to pick and the banner of  *)
(* a failed save are left out.                                             *)
(***************************************************************************)
EXTENDS Browser, FiniteSets

CONSTANTS Panels,     \* what the add-panel dialog can build
          MaxDash,    \* bounds of the checked instance: ids
          MaxPanels   \* and panels of a dashboard

ASSUME DashBounds == MaxDash \in Nat /\ MaxPanels \in Nat \ {0}

VARIABLES stored,    \* table dashboards: existing ids -> panels
          nextDash,  \* GENERATED ALWAYS AS IDENTITY
          dash,      \* the signals of the page
          kept       \* what the last save that was confirmed sent, of the dashboards there was one of

dashVars == <<stored, nextDash, dash, kept>>

DashIds == 1..MaxDash
Closed == [id |-> 0, panels |-> <<>>, edited |-> FALSE]
Layouts == UNION {[1..k -> Panels] : k \in 0..MaxPanels}

DashTypeOK ==
    /\ stored \in UNION {[S -> Layouts] : S \in SUBSET DashIds}
    /\ nextDash \in 1..MaxDash + 1
    /\ DOMAIN stored \subseteq 1..nextDash - 1
    /\ dash \in [list : SUBSET DashIds, loading : BOOLEAN, failed : BOOLEAN,
                 open : [id : DashIds \cup {0}, panels : Layouts, edited : BOOLEAN],
                 saving : BOOLEAN, dialog : BOOLEAN]
    /\ kept \in UNION {[S -> Layouts] : S \in SUBSET DashIds}

\* load_list has been called by the Effect.
NewDash == [list |-> {}, loading |-> TRUE, failed |-> FALSE, open |-> Closed,
            saving |-> FALSE, dialog |-> FALSE]

DashInit ==
    /\ \E k \in 0..MaxDash, p \in Layouts :
          /\ stored = [i \in 1..k |-> p]
          /\ nextDash = k + 1
    /\ dash = NewDash
    /\ kept = <<>>

-----------------------------------------------------------------------------
(* What the user does.  dialog: the question before a delete covers the page. *)

Uncovered == ~dash.dialog
IsOpen == dash.open.id # 0
ListDashboards == GetJson("dashboards", Nothing)

\* load_list sets the signals at once and sends ListDashboards.
Loading(d) == [d EXCEPT !.loading = TRUE, !.failed = FALSE]

DashOnly(d) == dash' = d /\ UNCHANGED <<stored, nextDash, kept>>

DashToken ==
    /\ Uncovered /\ CanSend
    /\ Send(<<ListDashboards>>)
    /\ DashOnly(Loading(dash))

OpenDashboard(i) ==
    /\ Uncovered /\ CanSend
    /\ i \in dash.list /\ ~dash.loading /\ ~dash.failed
    /\ Send(<<GetJson("dashboard", i)>>)
    /\ UNCHANGED dashVars

\* Bound of the checked instance: an id is left for every create under way.
IdLeft == nextDash + Cardinality({n \in DOMAIN calls : At(n, "create", "sent")}) <= MaxDash

CreateNew ==
    /\ Uncovered /\ CanSend /\ IdLeft
    /\ Send(<<SendJson("create", <<>>)>>)
    /\ UNCHANGED dashVars

\* The add-panel dialog is submitted, for whichever dashboard is open by now; when
\* none is, nothing happens.
AddPanel(p) ==
    /\ Uncovered /\ IsOpen
    /\ Len(dash.open.panels) < MaxPanels
    /\ Local
    /\ DashOnly([dash EXCEPT !.open.panels = Append(@, p), !.open.edited = TRUE])

RemovePanel(k) ==
    /\ Uncovered /\ k \in DOMAIN dash.open.panels
    /\ Local
    /\ DashOnly([dash EXCEPT !.open.panels = SubSeq(@, 1, k - 1) \o SubSeq(@, k + 1, Len(@)),
                             !.open.edited = TRUE])

\* (Altered for a check of LastSaveWins: the button stays enabled.)
SaveAgain ==
    /\ Uncovered /\ IsOpen /\ CanSend
    /\ Send(<<SendJson("save", [id |-> dash.open.id, panels |-> dash.open.panels])>>)
    /\ DashOnly([dash EXCEPT !.saving = TRUE])

Save ==
    /\ Uncovered /\ IsOpen /\ CanSend
    /\ ~dash.saving
    /\ Send(<<SendJson("save", [id |-> dash.open.id, panels |-> dash.open.panels])>>)
    /\ DashOnly([dash EXCEPT !.saving = TRUE])

AskDelete ==
    /\ Uncovered /\ IsOpen
    /\ Local
    /\ DashOnly([dash EXCEPT !.dialog = TRUE])

\* Deletes the dashboard that is open now, whatever the dialog names.
ConfirmDelete ==
    /\ dash.dialog /\ IsOpen /\ CanSend
    /\ Send(<<DeleteReq("remove", dash.open.id)>>)
    /\ DashOnly([dash EXCEPT !.dialog = FALSE])

CancelDash ==
    /\ ~Uncovered
    /\ Local
    /\ DashOnly([dash EXCEPT !.dialog = FALSE])

-----------------------------------------------------------------------------
(* What the server does, a statement at a time.                              *)

TableUnchanged == UNCHANGED dashVars

list_dashboards(n) ==
    /\ At(n, "dashboards", "sent")
    /\ Answer(n, DOMAIN stored)
    /\ TableUnchanged

\* GET itself, and the end of a POST or PUT: their second statement reads the row.
get_dashboard(n) ==
    /\ At(n, "dashboard", "sent") \/ At(n, "create", "read") \/ At(n, "save", "read")
    /\ LET i == IF calls[n].to = "save" THEN calls[n].body.id ELSE calls[n].body IN
       IF i \in DOMAIN stored THEN Answer(n, [id |-> i, panels |-> stored[i]]) ELSE Refuse(n)
    /\ TableUnchanged

InsertDashboard(panels) ==
    /\ stored' = With(stored, nextDash, panels)
    /\ nextDash' = nextDash + 1
    /\ UNCHANGED <<dash, kept>>

create_dashboard(n) ==
    /\ At(n, "create", "sent")
    /\ GoOn(n, "read", nextDash)
    /\ InsertDashboard(calls[n].body)

\* (Altered for a check of NoResurrection: an upsert.)
UpsertDashboard(i, panels) ==
    /\ stored' = With(stored, i, panels)
    /\ UNCHANGED <<nextDash, dash, kept>>

UpdateDashboard(i, panels) ==
    /\ stored' = IF i \in DOMAIN stored THEN With(stored, i, panels) ELSE stored
    /\ UNCHANGED <<nextDash, dash, kept>>

update_dashboard(n) ==
    /\ At(n, "save", "sent")
    /\ LET b == calls[n].body IN
       /\ UpdateDashboard(b.id, b.panels)
       /\ IF b.id \in DOMAIN stored THEN GoOn(n, "read", b) ELSE Refuse(n)

DeleteDashboard(i) ==
    /\ stored' = Without(stored, i)
    /\ UNCHANGED <<nextDash, dash, kept>>

delete_dashboard(n) ==
    /\ At(n, "remove", "sent")
    /\ DeleteDashboard(calls[n].body)
    /\ IF calls[n].body \in DOMAIN stored THEN Answer(n, Nothing) ELSE Refuse(n)

\* Another page, or a client of the API.
SomebodyChangesADashboard(i) ==
    /\ SomebodyElse
    /\ \/ \E p \in Panels : i \in DOMAIN stored /\ UpdateDashboard(i, <<p>>)
       \/ DeleteDashboard(i)
       \/ i = nextDash /\ IdLeft /\ InsertDashboard(<<>>)

-----------------------------------------------------------------------------
(* The answers.                                                              *)

Shown(d) == [id |-> d.id, panels |-> d.panels, edited |-> FALSE]

GotList(n) ==
    /\ At(n, "dashboards", "done")
    /\ Receive(n, <<>>)
    /\ DashOnly(IF calls[n].ok THEN [dash EXCEPT !.list = calls[n].got[1], !.loading = FALSE]
                               ELSE [dash EXCEPT !.failed = TRUE, !.loading = FALSE])

\* A 404 or a failure is silent.
GotDashboard(n) ==
    /\ At(n, "dashboard", "done")
    /\ Receive(n, <<>>)
    /\ DashOnly(IF calls[n].ok THEN [dash EXCEPT !.open = Shown(calls[n].got[1])] ELSE dash)

GotCreated(n) ==
    /\ At(n, "create", "done")
    /\ IF calls[n].ok
       THEN /\ Receive(n, <<ListDashboards, GetJson("dashboard", calls[n].got[1].id)>>)
            /\ DashOnly(Loading(dash))
       ELSE Receive(n, <<>>) /\ DashOnly(dash)

\* The answer replaces what is open, another dashboard or later edits included.
GotSaved(n) ==
    /\ At(n, "save", "done")
    /\ IF calls[n].ok
       THEN /\ Receive(n, <<ListDashboards>>)
            /\ dash' = [Loading(dash) EXCEPT !.saving = FALSE, !.open = Shown(calls[n].got[1])]
            /\ kept' = With(kept, calls[n].body.id, calls[n].body.panels)
            /\ UNCHANGED <<stored, nextDash>>
       ELSE /\ Receive(n, <<>>)
            /\ DashOnly([dash EXCEPT !.saving = FALSE])

\* (Altered for a check of DashboardsSettle: the list is not loaded again.)
GotDeletedQuietly(n) ==
    /\ At(n, "remove", "done")
    /\ Receive(n, <<>>)
    /\ DashOnly(IF calls[n].ok THEN [dash EXCEPT !.open = Closed] ELSE dash)

GotDeleted(n) ==
    /\ At(n, "remove", "done")
    /\ IF calls[n].ok
       THEN /\ Receive(n, <<ListDashboards>>)
            /\ DashOnly([Loading(dash) EXCEPT !.open = Closed])
       ELSE Receive(n, <<>>) /\ DashOnly(dash)

DashServes(n) ==
    \/ list_dashboards(n) \/ get_dashboard(n) \/ create_dashboard(n)
    \/ update_dashboard(n) \/ delete_dashboard(n)
DashHears(n) ==
    \/ GotList(n) \/ GotDashboard(n) \/ GotCreated(n) \/ GotSaved(n) \/ GotDeleted(n)

DashUser ==
    \/ DashToken \/ CreateNew \/ Save \/ AskDelete \/ ConfirmDelete \/ CancelDash
    \/ \E i \in DashIds : OpenDashboard(i) \/ SomebodyChangesADashboard(i)
    \/ \E p \in Panels : AddPanel(p)
    \/ \E k \in 1..MaxPanels : RemovePanel(k)

-----------------------------------------------------------------------------
DashIdle == ~dash.loading /\ ~dash.saving

\* When everything was answered in order, the list is the table, and what is
\* open and was not edited is its row: every change the page makes is followed
\* by the reloads that show it.
DashboardsSettle ==
    page = "dashboards" /\ Settled =>
        /\ DashIdle
        /\ dash.list = DOMAIN stored
        /\ IsOpen /\ ~dash.open.edited =>
              dash.open.id \in DOMAIN stored /\ dash.open.panels = stored[dash.open.id]

\* Whatever the order of the answers, unless a call failed or somebody else
\* wrote: once no save is under way, a dashboard holds what the last save of it
\* that was confirmed sent.  update_dashboard has no version to compare, so this
\* rests on the disabled button.
LastSaveWins ==
    page = "dashboards" /\ faults = 0 /\ others = 0
      /\ (\A n \in DOMAIN calls : calls[n].to # "save") =>
        \A i \in DOMAIN stored \cap DOMAIN kept : stored[i] = kept[i]

\* A dashboard that was deleted does not come back, although a save of it may be
\* on its way: PUT updates a row, and ids are not used again.
NoResurrection ==
    [][\A i \in 1..nextDash - 1 : i \notin DOMAIN stored => i \notin DOMAIN stored']_<<stored, nextDash>>
==============================================================================
