----------------------------- MODULE HealthPage -----------------------------
(***************************************************************************)
(* The Health page (pages/v2/Health.tsx): components with a state, the     *)
(* self-healing log and the predictive warnings, copied from the load, and *)
(* which log entry and which graphs are open.                              *)
(***************************************************************************)
EXTENDS WebShell

CONSTANTS
    HealthSeed,    \* the mock: [components: name -> state, healEvents, predictive]
    HealthLists    \* what the gateway may answer with

HealthStates == {"healthy", "attention", "recovering", "quarantined", "paused"}

\* The gateway has no healing log and no predictive warnings to send.
ASSUME HealthInputs ==
    /\ \A c \in DOMAIN HealthSeed.components : HealthSeed.components[c] \in HealthStates
    /\ \A list \in HealthLists :
          /\ \A c \in DOMAIN list.components : list.components[c] \in HealthStates
          /\ list.healEvents = <<>> /\ list.predictive = {}

HealthSeedData == [live |-> FALSE, status |-> HealthSeed]
HealthAnswers == {[live |-> TRUE, status |-> list] : list \in HealthLists}

\* The entry HealLog opens by itself when it is mounted: the first.
HealLogOpen(healEvents) == IF healEvents = <<>> THEN "none" ELSE healEvents[1]

HealthMounted ==
    [components |-> HealthSeed.components, healEvents |-> HealthSeed.healEvents,
     predictive |-> HealthSeed.predictive, openGraphIds |-> {},
     openId |-> HealLogOpen(HealthSeed.healEvents)]

\* The effect on the load replaces the three lists and nothing else.
HealthLoaded(data) ==
    [page EXCEPT !.components = data.status.components,
                 !.healEvents = data.status.healEvents,
                 !.predictive = data.status.predictive]

\* overall: the headline state of a set of components.
overall(components) ==
    LET some(state) == \E c \in DOMAIN components : components[c] = state
    IN  CASE some("quarantined") -> "quarantined"
          [] ~some("quarantined") /\ some("attention") -> "attention"
          [] ~some("quarantined") /\ ~some("attention") /\ some("recovering") -> "recovering"
          [] \A c \in DOMAIN components : components[c] = "paused" -> "paused"
          [] OTHER -> "healthy"

\* The components that get a card of their own, apart from the healthy ones.
HeartbeatGrid(components) == {c \in DOMAIN components : components[c] # "healthy"}

\* Each warning's card shows or hides its graph.
PredictivePanel ==
    \E w \in page.predictive :
        PageStep("health", [page EXCEPT !.openGraphIds = IF w \in @ THEN @ \ {w} ELSE @ \cup {w}])

\* Each log entry shows or hides its recovery story.
HealLog ==
    \E i \in DOMAIN page.healEvents :
        PageStep("health", [page EXCEPT !.openId =
                                IF @ = page.healEvents[i] THEN "none" ELSE page.healEvents[i]])

\* The error page unmounts HealLog: after Retry it opens its first entry again.
HealthRetried == [page EXCEPT !.openId = HealLogOpen(page.healEvents)]

HealthLoad == Read("health", HealthAnswers) \/ Resolves("health", HealthLoaded)

HealthNext ==
    /\ route = "health"
    /\ PredictivePanel \/ HealLog \/ RouteError("health", HealthRetried)

-----------------------------------------------------------------------------
\* The headline says healthy only when no component has a card that asks for
\* attention, is recovering or is quarantined, and paused only when all are.
HealthTypeOK ==
    /\ \A c \in DOMAIN page.components : page.components[c] \in HealthStates
    /\ overall(page.components) = "healthy" =>
          \A c \in HeartbeatGrid(page.components) : page.components[c] = "paused"
=============================================================================
