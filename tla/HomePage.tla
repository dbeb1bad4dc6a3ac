------------------------------ MODULE HomePage ------------------------------
(***************************************************************************)
(* The Home page (pages/v2/Home.tsx): the event timeline, copied from the  *)
(* load into the page's reducer, with its filter, the drawer explaining    *)
(* one event and the drawer of the safety rules.                           *)
(*                                                                         *)
(* An event is [id, status, cause], cause saying whether it carries one.   *)
(***************************************************************************)
EXTENDS WebShell, SequencesExt

CONSTANTS
    HomeSeed,    \* the mock's events, INITIAL_EVENTS
    HomeLists    \* the events the gateway may answer with

HomeFilters == {"all", "attention", "proposed", "blocked", "healed"}
HomeStatuses == {"proposed", "blocked", "quarantined", "taken", "healed",
                 "research-update", "squad-handoff"}
HomeEvent == [id : STRING, status : HomeStatuses, cause : BOOLEAN]

\* The gateway maps its events to these statuses and never gives a cause.
ASSUME HomeInputs ==
    /\ HomeSeed \in Seq(HomeEvent)
    /\ \A list \in HomeLists :
          /\ list \in Seq(HomeEvent)
          /\ \A i \in DOMAIN list :
                list[i].status \in {"proposed", "taken", "blocked"} /\ ~list[i].cause

HomeSeedData == [live |-> FALSE, events |-> HomeSeed]
HomeAnswers == {[live |-> TRUE, events |-> list] : list \in HomeLists}

\* STATUS_META[status].needsAttn
needsAttn(status) == status \in {"proposed", "blocked", "quarantined"}

FILTER_PREDICATE(filter, event) ==
    \/ filter = "all"
    \/ filter = "attention" /\ needsAttn(event.status)
    \/ filter = event.status

\* What "What happens next" in the drawer says the user can still do.
nextStepsFor(status) ==
    IF status = "proposed" THEN {"approve", "deny"} ELSE {}

\* eventsReducer's approve and deny.
approveEvent(events, id) ==
    [i \in DOMAIN events |->
        IF events[i].id = id THEN [events[i] EXCEPT !.status = "taken", !.cause = FALSE]
        ELSE events[i]]
denyEvent(events, id) ==
    [i \in DOMAIN events |->
        IF events[i].id = id THEN [events[i] EXCEPT !.status = "blocked", !.cause = TRUE]
        ELSE events[i]]

\* decided is a history variable: the decisions on the gateway's events.
HomeMounted == [events |-> HomeSeed, filter |-> "all", drawerEvent |-> <<>>,
                policyOpen |-> FALSE, decided |-> {}]

HomeLoaded(data) ==
    [page EXCEPT !.events = data.events,
                 !.decided = IF load.data.live THEN @ ELSE {}]

\* The buttons of a row.
EventRow(event) ==
    {"why"} \cup (IF event.status = "proposed" THEN {"approve", "deny"} ELSE {})

\* The rows the timeline shows.
Timeline == {e \in ToSet(page.events) : FILTER_PREDICATE(page.filter, e)}

HomeDecide(id, status) ==
    IF load.data.live THEN page.decided \cup {[id |-> id, status |-> status]} ELSE page.decided

onApproveEvent ==
    \E e \in Timeline :
        /\ "approve" \in EventRow(e)
        /\ PageStep("home", [page EXCEPT !.events = approveEvent(@, e.id),
                                         !.decided = HomeDecide(e.id, "taken")])

onDenyEvent ==
    \E e \in Timeline :
        /\ "deny" \in EventRow(e)
        /\ PageStep("home", [page EXCEPT !.events = denyEvent(@, e.id),
                                         !.decided = HomeDecide(e.id, "blocked")])

\* The topbar's Reset: the mock's events whatever the mode, on the error page too.
onResetDemo ==
    /\ route = "home"
    /\ page' = [page EXCEPT !.events = HomeSeed, !.decided = {}]
    /\ UNCHANGED <<env, route, visits, overflow, load, gateway, calls, made>>

HomeFilterChips == \E f \in HomeFilters : PageStep("home", [page EXCEPT !.filter = f])

\* The drawer keeps the event as it was when it was opened.
onOpenDrawer == \E e \in Timeline : PageStep("home", [page EXCEPT !.drawerEvent = <<e>>])

WhyDrawer ==
    /\ page.drawerEvent # <<>>
    /\ PageStep("home", [page EXCEPT !.drawerEvent = <<>>])

onOpenRules == PageStep("home", [page EXCEPT !.policyOpen = TRUE])

SafetyDrawer ==
    /\ page.policyOpen
    /\ PageStep("home", [page EXCEPT !.policyOpen = FALSE])

HomeLoad == Read("home", HomeAnswers) \/ Resolves("home", HomeLoaded)

HomeNext ==
    /\ route = "home"
    /\ \/ onApproveEvent \/ onDenyEvent \/ onResetDemo \/ HomeFilterChips
       \/ onOpenDrawer \/ WhyDrawer \/ onOpenRules \/ SafetyDrawer
       \/ RouteError("home", page)

-----------------------------------------------------------------------------
HomeTypeOK ==
    /\ page.filter \in HomeFilters /\ page.policyOpen \in BOOLEAN
    /\ \A e \in ToSet(page.events) : e.status \in HomeStatuses /\ e.cause \in BOOLEAN
=============================================================================
