----------------------------- MODULE RouteData -----------------------------
(***************************************************************************)
(* The useRouteData hook of the web application (lib/route-data.ts): the   *)
(* state of one hook instance as a record, and what its functions do to    *)
(* it.  A load in flight is the number of the invocation that started it   *)
(* with the answer the gateway has given so far: a sequence, empty until   *)
(* the gateway has read the data, then holding the one answer.             *)
(***************************************************************************)
EXTENDS Naturals, Sequences

\* The state before any effect has run: the seed is on screen at once.
useRouteData(initialData) ==
    [status |-> "ok", data |-> initialData, invocation |-> 0, flights |-> {}]

\* Mutated form: the invocation is numbered before the counter moves.
runPostIncrement(hook) ==
    [hook EXCEPT !.invocation = @ + 1,
                 !.status = IF @ = "ok" THEN "ok" ELSE "loading",
                 !.flights = @ \cup {[invocation |-> hook.invocation, answer |-> <<>>]}]

\* run, which is also what the page calls as reload(): a new invocation, the
\* status kept when it is "ok".
run(hook) ==
    [hook EXCEPT !.invocation = @ + 1,
                 !.status = IF @ = "ok" THEN "ok" ELSE "loading",
                 !.flights = @ \cup {[invocation |-> hook.invocation + 1, answer |-> <<>>]}]

\* The cleanup of the mount effect: whatever is in flight becomes stale.
cleanup(hook) == [hook EXCEPT !.invocation = @ + 1]

\* The mount effect.  A development build renders under StrictMode, which runs
\* every effect, its cleanup and the effect again.
mountEffect(hook, strict) == IF strict THEN run(cleanup(run(hook))) ELSE run(hook)

Without(hook, flight) == [hook EXCEPT !.flights = @ \ {flight}]

\* The gateway reads its data for a load in flight.
Served(hook, flight, answer) ==
    [hook EXCEPT !.flights = (@ \ {flight}) \cup {[flight EXCEPT !.answer = <<answer>>]}]

\* Mutated form: a stale invocation is listened to as well.
CurrentOrStale(hook, flight) == TRUE

\* myInvocation === invocationRef.current: only the latest invocation is
\* listened to.
IsCurrent(hook, flight) == flight.invocation = hook.invocation

\* The then() of run.
resolve(hook, flight) ==
    IF IsCurrent(hook, flight)
    THEN [Without(hook, flight) EXCEPT !.data = flight.answer[1], !.status = "ok"]
    ELSE Without(hook, flight)

\* The catch() of run: the data stays, the status says so.
reject(hook, flight) ==
    IF IsCurrent(hook, flight)
    THEN [Without(hook, flight) EXCEPT !.status = "error"]
    ELSE Without(hook, flight)
=============================================================================
