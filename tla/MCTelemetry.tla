----------------------------- MODULE MCTelemetry -----------------------------
(***************************************************************************)
(* Instances of Partitions and TelemetryIngest for TLC.                    *)
(***************************************************************************)
EXTENDS TelemetryIngest, TLC

CONSTANTS r1,   \* model values for requests
          body  \* and for payloads

LogsAndSpans == <<"logs", "spans">>
KeepSpansLess == "logs" :> 3 @@ "spans" :> 1
SpansOnly == {"spans"}
LogsOnly == {"logs"}
FirstDay == {4}
FirstOfSix == {6}
==============================================================================
