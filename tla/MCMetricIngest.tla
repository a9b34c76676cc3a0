--------------------------- MODULE MCMetricIngest ---------------------------
(***************************************************************************)
(* Instances of MetricIngest for TLC: the keys of a run and their kinds,   *)
(* contents and hashes.                                                    *)
(***************************************************************************)
EXTENDS MetricIngest, TLC

CONSTANTS r1, r2,         \* model values for requests
          k1, k2, k3, k4, k5, k6, \* for SeriesKeys
          c1, c2, c3, c4  \* and for contents

\* A counter and a histogram.
PlainKeys == {k1, k2}
PlainKind == k1 :> "counter" @@ k2 :> "histogram"
PlainContent == k1 :> c1 @@ k2 :> c2
PlainHash == k1 :> 1 @@ k2 :> 2

\* A single one.
CounterKey == {k1}
CounterKind == k1 :> "counter"
CounterContent == k1 :> c1
CounterHash == k1 :> 1

\* k1 and k2 are one series to jsonb with two hashes; k3 collides with k1.
TwistedKeys == {k1, k2, k3}
TwistedKind == k1 :> "counter" @@ k2 :> "counter" @@ k3 :> "histogram"
TwistedContent == k1 :> c1 @@ k2 :> c1 @@ k3 :> c2
TwistedHash == k1 :> 1 @@ k2 :> 2 @@ k3 :> 1

\* One key of every kind; the two counters are one series to jsonb.
KindKeys == {k1, k2, k3, k4, k5, k6}
KindKind == k1 :> "counter" @@ k2 :> "counter" @@ k3 :> "gauge" @@ k4 :> "updown"
            @@ k5 :> "histogram" @@ k6 :> "unsupported"
KindContent == k1 :> c1 @@ k2 :> c1 @@ k3 :> c2 @@ k4 :> c3 @@ k5 :> c4 @@ k6 :> c4
KindHash == k1 :> 1 @@ k2 :> 2 @@ k3 :> 3 @@ k4 :> 4 @@ k5 :> 5 @@ k6 :> 6

ThreeIds == 1..3
SixIds == 1..6
JustOne == {1}
NoSkew == {0}
OneTwo == {1, 2}
OneTwoOrNone == {1, 2, NoReading}
RequestSymmetry == Permutations(Requests)
=============================================================================
