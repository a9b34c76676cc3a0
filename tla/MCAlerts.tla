------------------------------- MODULE MCAlerts -------------------------------
(***************************************************************************)
(* Instances of Alerts for TLC.                                            *)
(***************************************************************************)
EXTENDS Alerts, TLC

CONSTANTS e1, e2,         \* model values for evaluators
          plain, counted  \* and for configs

OneId == {1}
TwoIds == {1, 2}
NowOrLater == {0, 2}
Later == {2}
BelowZeroOrLater == {-1, 2}
Either == BOOLEAN
Unset == {FALSE}
NoConfig == {}
===============================================================================
