---------------------------- MODULE AlertLifecycle ----------------------------
(***************************************************************************)
(* What the header of src/alerts/eval.rs promises of every alert rule: its *)
(* state follows the diagram, and there is news to tell exactly when it    *)
(* enters firing or goes from firing to ok.  No clock, no database and no  *)
(* evaluator: the module Alerts is shown to implement it.                  *)
(***************************************************************************)
CONSTANT Ids

VARIABLES phase,  \* the state of each rule; a rule nobody evaluated yet is ok
          owed    \* what its webhook has not been told yet

lifecycle == <<phase, owed>>

\* The arrows of the diagram; the last one is a rule whose for_secs is 0.
Diagram == {<<"ok", "pending">>, <<"pending", "firing">>, <<"pending", "ok">>,
            <<"firing", "ok">>, <<"ok", "firing">>}

\* The news a step from one state to another makes, owed where it makes none.
NewsOf(i, to) ==
    IF to = "firing" THEN "firing" ELSE IF phase[i] = "firing" THEN "resolved" ELSE owed[i]

Init ==
    /\ phase = [i \in Ids |-> "ok"]
    /\ owed = [i \in Ids |-> "none"]

\* A rule without a webhook owes nothing.
Move(i, to) ==
    /\ <<phase[i], to>> \in Diagram
    /\ phase' = [phase EXCEPT ![i] = to]
    /\ \E news \in {NewsOf(i, to), "none"} : owed' = [owed EXCEPT ![i] = news]

Tell(i) ==
    /\ owed[i] # "none"
    /\ owed' = [owed EXCEPT ![i] = "none"]
    /\ UNCHANGED phase

\* The rule is deleted; what was on its way may still be told.
Forget(i) ==
    /\ phase' = [phase EXCEPT ![i] = "ok"]
    /\ UNCHANGED owed

Next == \E i \in Ids :
    \/ \E to \in {"ok", "pending", "firing"} : Move(i, to)
    \/ Tell(i)
    \/ Forget(i)

Spec == Init /\ [][Next]_lifecycle
===============================================================================
