------------------------------ MODULE Waterfall ------------------------------
(***************************************************************************)
(* What the traces page draws of one trace (Waterfall and compute_depths   *)
(* in dashboard/src/pages/traces.rs): for every span its indentation and   *)
(* the place of its bar.  Times are in milliseconds; left and width are    *)
(* the percentages times 2 * scale, scale being the length of the trace.   *)
(***************************************************************************)
EXTENDS Integers, FiniteSetsExt

NoParent == 0

\* parent_of: a parent need not be among the spans.  Of spans with one id the last
\* counts, and they come by their start time.
ParentOf(spans) ==
    LET children == {s \in spans : s.parent # NoParent} IN
    [i \in {s.id : s \in children} |->
        (CHOOSE s \in children :
            s.id = i /\ \A t \in children : t.id = i => t.start <= s.start).parent]

\* The walk up from span i: where it is after k hops.
Walk(parents, i) ==
    LET up[k \in 0..Cardinality(DOMAIN parents)] ==
            IF k = 0 THEN i
            ELSE IF up[k - 1] \in DOMAIN parents THEN parents[up[k - 1]] ELSE up[k - 1]
    IN up

\* (Altered for a check of WaterfallNests: counts the hop, then looks for a cycle.)
DepthWithRing(parents, i) ==
    LET up == Walk(parents, i)
        ends == {k \in DOMAIN up : up[k] \notin DOMAIN parents}
    IN IF ends # {} THEN Min(ends)
       ELSE 1 + Min({k \in DOMAIN up : \E j \in 0..k - 1 : up[j] = up[k]})

\* It ends at a span without a parent, or at one it has been to.
Depth(parents, i) ==
    LET up == Walk(parents, i) IN
    Min({k \in DOMAIN up : up[k] \notin DOMAIN parents \/ \E j \in 0..k - 1 : up[j] = up[k]})

First(spans) == Min({s.start : s \in spans})
Last(spans) == Max({s.end : s \in spans})
Scale(spans) == Max({Last(spans) - First(spans), 1})

Left(spans, s) == 200 * (s.start - First(spans))

\* (Altered for a check of BarsFit: the smallest width is applied last.)
WidthAtLeast(spans, s) ==
    Max({Min({200 * (s.end - s.start), 200 * Scale(spans) - Left(spans, s)}), Scale(spans)})

\* At least half a percent, and not past the right edge.
Width(spans, s) ==
    Min({Max({200 * (s.end - s.start), Scale(spans)}),
              200 * Scale(spans) - Left(spans, s)})

Bars(spans) ==
    {[span |-> s, depth |-> Depth(ParentOf(spans), s.id), scale |-> Scale(spans),
      left |-> Left(spans, s), width |-> Width(spans, s)] : s \in spans}

-----------------------------------------------------------------------------
(* The same, said without a walk.                                            *)

\* The spans above i, i itself when it is on a ring: all that is in every set
\* that has i's parent and the parents of its members.
Above(parents, i) ==
    LET every == DOMAIN parents \cup {parents[j] : j \in DOMAIN parents}
        closed == {A \in SUBSET every :
                     \A j \in {i} \cup A : j \in DOMAIN parents => parents[j] \in A}
    IN {a \in every : \A A \in closed : a \in A}

OnRing(parents, i) == i \in Above(parents, i)

\* No span with the id of b started when it did or later.
LastOfItsId(bars, b) ==
    \A c \in bars : c.span.id = b.span.id => c = b \/ c.span.start < b.span.start

\* A span outside every ring is one step further in than its parent, the spans of
\* one ring stand at the same depth, and nothing is further in than spans are above.
DepthsNest(bars) ==
    LET parents == ParentOf({b.span : b \in bars}) IN
    /\ \A b \in bars :
          LET above == Above(parents, b.span.id) IN
          b.depth = Cardinality(IF \E a \in above : OnRing(parents, a)
                                THEN above \cup {b.span.id} ELSE above)
    /\ \A b, c \in bars :
          b.span.parent = c.span.id /\ LastOfItsId(bars, b) =>
              b.depth = c.depth + (IF OnRing(parents, b.span.id) THEN 0 ELSE 1)

\* No span starts after the last end.
InOrder(spans) == \A s \in spans : s.start <= Last(spans)

BarsInside(bars) ==
    InOrder({b.span : b \in bars}) =>
        \A b \in bars :
            /\ b.left >= 0 /\ b.width >= 0
            /\ b.left + b.width <= 200 * b.scale
            /\ b.width < 200 * (b.span.end - b.span.start) => b.left + b.width = 200 * b.scale
==============================================================================
