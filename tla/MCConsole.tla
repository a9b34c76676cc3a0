------------------------------ MODULE MCConsole ------------------------------
(***************************************************************************)
(* An instance of Console for TLC: every page, two of everything, and the  *)
(* traces of up to three spans that are hard to draw.                      *)
(***************************************************************************)
EXTENDS Console

Span(i, p, from, to) == [id |-> i, parent |-> p, start |-> from, end |-> to]

\* Three spans, one of them possibly its own ancestor, 9 being a span that was not
\* received: chains, siblings, orphans, rings and what hangs from them.
Shapes == {{Span(1, p[1], 0, 2), Span(2, p[2], 1, 1), Span(3, p[3], 1, 2)} :
             p \in {0, 2, 9} \X {0, 1, 2, 3} \X {1, 2, 9}}

\* Two spans at all times, ends before starts included.
Timings == {{Span(1, 0, t[1], t[2]), Span(2, 1, t[3], t[4])} :
              t \in {0, 300} \X {0, 300} \X {0, 1, 300} \X {0, 1, 300}}

\* A span id that was received twice, under parents that may differ.
Repeated == {{Span(1, p[1], 0, 2), Span(1, p[2], 1, 2), Span(2, 1, 1, 2)} : p \in {0, 2, 9} \X {0, 2, 9}}

AllTrees == Shapes \cup Timings \cup Repeated
AllPages == Asking \cup {"dashboards", "alerts"}

\* The waterfalls multiply the states of the traces page.
SmallSteps ==
    [p \in AllPages |-> CASE p = "traces" -> 2
                          [] p = "logs" -> 3
                          [] OTHER -> 4]
==============================================================================
