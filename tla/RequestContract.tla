--------------------------- MODULE RequestContract ---------------------------
(***************************************************************************)
(* What the runtime client promises its callers, without children, pipes   *)
(* or goroutines: a request is refused, or it is open until it is answered,*)
(* failed or dropped, once and for all.  Work for it starts at most once   *)
(* (possibly after the caller was told it failed), and an answer is given  *)
(* only for work that was started.                                         *)
(***************************************************************************)
EXTENDS Integers

CONSTANT Requests

VARIABLES
    phase,   \* what the caller of each request may observe
    started  \* how often work on each request was started

vars == <<phase, started>>

Init ==
    /\ phase = [r \in Requests |-> "new"]
    /\ started = [r \in Requests |-> 0]

(* The client is no longer accepting work. *)
Refuse(r) ==
    /\ phase[r] = "new"
    /\ phase' = [phase EXCEPT ![r] = "refused"]
    /\ UNCHANGED started

Open(r) ==
    /\ phase[r] = "new"
    /\ phase' = [phase EXCEPT ![r] = "open"]
    /\ UNCHANGED started

(* The child takes the request up, at most once over all restarts. *)
Start(r) ==
    /\ phase[r] \notin {"new", "refused"}
    /\ started[r] = 0
    /\ started' = [started EXCEPT ![r] = 1]
    /\ UNCHANGED phase

Answer(r) ==
    /\ phase[r] = "open"
    /\ started[r] = 1
    /\ phase' = [phase EXCEPT ![r] = "answered"]
    /\ UNCHANGED started

(* A crash, a Close or a rejected envelope fails several open requests.    *)
Fail(S) ==
    /\ \A r \in S : phase[r] = "open"
    /\ phase' = [r \in Requests |-> IF r \in S THEN "failed" ELSE phase[r]]
    /\ UNCHANGED started

(* The caller's context ended and it unregistered. *)
Drop(r) ==
    /\ phase[r] = "open"
    /\ phase' = [phase EXCEPT ![r] = "dropped"]
    /\ UNCHANGED started

Next ==
    \/ \E r \in Requests : Refuse(r) \/ Open(r) \/ Start(r) \/ Answer(r) \/ Drop(r)
    \/ \E S \in SUBSET Requests : Fail(S)

Spec == Init /\ [][Next]_vars
=============================================================================
