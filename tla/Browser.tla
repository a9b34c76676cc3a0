------------------------------- MODULE Browser -------------------------------
(***************************************************************************)
(* The requests of a page of the console (src/dashboard/src/api.rs).  The  *)
(* page runs on one thread: between two awaits its code is one step.  Its  *)
(* requests are handled concurrently, a statement at a time, and answers   *)
(* arrive in any order.  Nothing is cancelled and nothing times out.       *)
(***************************************************************************)
EXTENDS Integers, Sequences

CONSTANTS Pages,      \* the routes that may be open
          MaxSteps    \* bound of the checked instance: for every page, how many
                      \* requests, failures and changes by others there are

ASSUME BrowserBounds == MaxSteps \in [Pages -> Nat]

VARIABLES page,       \* the route that is open
          calls,      \* the requests in flight, by the order they were sent in
          sent,       \* how many were sent
          faults,     \* calls that failed
          overtaken,  \* a request got ahead of an earlier one, on either side
          others      \* changes that did not come from this page

net == <<page, calls, sent, faults, overtaken, others>>

Nothing == <<>>

\* at: how far the handler has come; ok and got: what handle_response makes of it.
GetJson(to, query) == [to |-> to, body |-> query, at |-> "sent", ok |-> FALSE, got |-> Nothing]
SendJson(to, body) == GetJson(to, body)
DeleteReq(to, id) == GetJson(to, id)

\* The effects of the page have run: what they sent is in flight.
BrowserInit(rs) ==
    /\ calls = [n \in DOMAIN rs |-> rs[n]]
    /\ sent = Len(rs)
    /\ faults = 0
    /\ overtaken = FALSE
    /\ others = 0

Without(f, i) == [j \in DOMAIN f \ {i} |-> f[j]]
With(f, i, v) == [j \in DOMAIN f \cup {i} |-> IF j = i THEN v ELSE f[j]]

Plus(cs, rs) ==
    [n \in DOMAIN cs \cup {sent + i : i \in DOMAIN rs} |->
        IF n \in DOMAIN cs THEN cs[n] ELSE rs[n - sent]]

CanSend == sent + faults + others < MaxSteps[page]

\* The page sends the requests rs.
Send(rs) ==
    /\ calls' = Plus(calls, rs)
    /\ sent' = sent + Len(rs)
    /\ UNCHANGED <<page, faults, overtaken, others>>

\* The answer of request n reaches the page, which goes on to send rs.
Receive(n, rs) ==
    /\ calls' = Plus(Without(calls, n), rs)
    /\ sent' = sent + Len(rs)
    /\ overtaken' = (overtaken \/ \E m \in DOMAIN calls : m < n)
    /\ UNCHANGED <<page, faults, others>>

\* The user does something that sends nothing.
Local == UNCHANGED net

At(n, to, step) == n \in DOMAIN calls /\ calls[n].to = to /\ calls[n].at = step

\* The server has run a statement for n, of which c is what is known now.
Handle(n, c) ==
    /\ calls' = [calls EXCEPT ![n] = c]
    /\ overtaken' = (overtaken \/ \E m \in DOMAIN calls : m < n /\ calls[m].at # "done")
    /\ UNCHANGED <<page, sent, faults, others>>

\* It was the last one, and the answer is a value, or an error status.
Answer(n, got) == Handle(n, [calls[n] EXCEPT !.at = "done", !.ok = TRUE, !.got = <<got>>])
Refuse(n) == Handle(n, [calls[n] EXCEPT !.at = "done"])

\* Another statement follows.
GoOn(n, step, body) == Handle(n, [calls[n] EXCEPT !.at = step, !.body = body])

\* The next statement of the handler fails, the server cannot be reached or the
\* connection breaks: an ApiError, whatever was written before.
Fail(n) ==
    /\ n \in DOMAIN calls
    /\ calls[n].at # "done"
    /\ CanSend
    /\ faults' = faults + 1
    /\ calls' = [calls EXCEPT ![n] = [@ EXCEPT !.at = "done"]]
    /\ UNCHANGED <<page, sent, overtaken, others>>

\* Another user, or the server itself, changes what the page shows.
SomebodyElse ==
    /\ CanSend
    /\ others' = others + 1
    /\ UNCHANGED <<page, calls, sent, faults, overtaken>>

\* Everything was answered, one request after the other, and nobody interfered.
Settled == DOMAIN calls = {} /\ ~overtaken /\ faults = 0 /\ others = 0
==============================================================================
