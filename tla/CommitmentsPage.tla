-------------------------- MODULE CommitmentsPage --------------------------
(***************************************************************************)
(* The Commitments page (pages/v2/Commitments.tsx) against the gateway's   *)
(* commitments table: a list loaded with useRouteData, and Dismiss and     *)
(* Snooze buttons whose calls reload the list when they complete.          *)
(***************************************************************************)
EXTENDS WebShell, FiniteSetsExt

CONSTANTS
    CommitmentsSeed,     \* the mock's rows: id -> status; unknown to the gateway
    CommitmentFilters    \* bound: the filters the user picks, "all" or a status

CommitmentStatuses == {"pending", "sent", "dismissed", "snoozed", "expired"}

ASSUME CommitmentsPageInputs ==
    /\ DOMAIN CommitmentsSeed \cap CommitmentIds = {}
    /\ CommitmentFilters \subseteq CommitmentStatuses \cup {"all"}

CommitmentsSeedData == [live |-> FALSE, version |-> 0, rows |-> CommitmentsSeed]

\* The page's state when it is mounted.  mustShow is a history variable: the
\* version of the table at the latest of this page's calls that succeeded.
CommitmentsMounted == [filter |-> "all", pendingAction |-> "none", mustShow |-> 0]

\* What the list shows under the filter.
CommitmentsVisible ==
    LET items == load.data.rows
    IN  {id \in DOMAIN items : page.filter \in {"all", items[id]}}

\* The buttons of a card: Snooze and Dismiss on a pending row, disabled while
\* the row is the one being acted on.
CommitmentCard(id, status, pending) ==
    IF status = "pending" /\ ~pending THEN {"snooze", "dismiss"} ELSE {}

\* The list shown when nothing matches, in place of the cards.
EmptyState == CommitmentsVisible = {}

setCommitmentsFilter ==
    \E f \in CommitmentFilters :
        PageStep("commitments", [page EXCEPT !.filter = f])

\* handleDismiss and handleSnooze up to their await.  One slot remembers the
\* row acted on, so a second call unlocks the first row.  In mock mode both
\* functions return at once and the page is left as it was.
handleAction(op) ==
    /\ Shown("commitments") /\ ~EmptyState /\ made.calls < MaxCalls
    /\ isRealForRoute("commitments")
    /\ \E id \in CommitmentsVisible :
          /\ op \in CommitmentCard(id, load.data.rows[id], page.pendingAction = id)
          /\ page' = [page EXCEPT !.pendingAction = id]
          /\ calls' = calls \cup {[n |-> made.calls, id |-> id, op |-> op, mount |-> visits,
                                   stage |-> "sent", version |-> 0]}
    /\ made' = [made EXCEPT !.calls = @ + 1]
    /\ UNCHANGED <<env, route, visits, overflow, load, gateway>>

handleDismiss == handleAction("dismiss")
handleSnooze == handleAction("snooze")

\* Mutated form: the slot is cleared and the list reloaded only on success.
SettledIfOk(call, ok) ==
    IF route = "commitments" /\ call.mount = visits /\ ok
    THEN /\ page' = [page EXCEPT !.pendingAction = "none",
                                 !.mustShow = Max({@, call.version})]
         /\ load' = Reloaded("commitments", load)
    ELSE UNCHANGED <<page, load>>

\* The finally block: the slot is cleared and the list reloaded, whatever the
\* call's outcome.  On a page that is gone it changes nothing any more.
CallSettled(call, ok) ==
    IF route = "commitments" /\ call.mount = visits
    THEN /\ page' = [page EXCEPT !.pendingAction = "none",
                                 !.mustShow = IF ok THEN Max({@, call.version}) ELSE @]
         /\ load' = Reloaded("commitments", load)
    ELSE UNCHANGED <<page, load>>

\* A call completes: with success once the gateway has handled it, with a
\* failure at any time (refused, or the connection lost before or after).
CallLands ==
    /\ \E call \in calls, ok \in BOOLEAN :
          /\ ok => call.stage = "handled"
          /\ calls' = calls \ {call}
          /\ CallSettled(call, ok)
    /\ UNCHANGED <<env, route, visits, overflow, gateway, made>>

CommitmentsList ==
    [live |-> TRUE, version |-> gateway.version, rows |-> gateway.rows]

CommitmentsLoad ==
    Read("commitments", {CommitmentsList}) \/ Resolves("commitments", LAMBDA data : page)

CommitmentsNext ==
    /\ route = "commitments"
    /\ \/ setCommitmentsFilter \/ handleDismiss \/ handleSnooze
       \/ RouteError("commitments", page)

-----------------------------------------------------------------------------
\* A list of the gateway's that is on screen with nothing of this page still
\* in flight shows the effect of every dismiss and snooze this page made and
\* the gateway acknowledged: the reload after a call is never overtaken by the
\* answer of an older load (run's invocation check; handleDismiss's and
\* handleSnooze's finally).
CommitmentsShownFresh ==
    (/\ Shown("commitments") /\ load.data.live
     /\ load.flights = {} /\ \A call \in calls : call.mount # visits)
        => load.data.version >= page.mustShow

\* A row that is locked while its action runs is unlocked in the end, whether
\* the call succeeds, is refused or is lost (the finally of handleDismiss and
\* handleSnooze).
ButtonsUnlock ==
    \A id \in CommitmentIds \cup DOMAIN CommitmentsSeed :
        (route = "commitments" /\ page.pendingAction = id)
            ~> ~(route = "commitments" /\ page.pendingAction = id)
=============================================================================
