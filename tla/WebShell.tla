------------------------------ MODULE WebShell ------------------------------
(***************************************************************************)
(* The shell of the web application: the build's environment, the route    *)
(* that is mounted, the useRouteData hook of the mounted page, the page's  *)
(* own state, and the part of the gateway the pages talk to.  One page is  *)
(* mounted at a time (App renders one Route); its state is created when    *)
(* the route is entered and lost when it is left.                          *)
(*                                                                         *)
(* Calls that change the gateway (dismiss, snooze) are not tied to the     *)
(* page's life: they stay in flight when the page is left and their        *)
(* completion still runs.                                                  *)
(***************************************************************************)
EXTENDS RouteData, FiniteSets

CONSTANTS
    Environments,   \* the builds considered: see EnvironmentType
    MayVisit(_, _), \* bound: the routes an environment's n-th visit may go to
    CommitmentIds,  \* the rows of the gateway's commitments table
    MaxCalls,       \* bound on dismiss and snooze calls
    MaxMoves,       \* bound on the scheduler's own changes to the rows
    MaxRetries      \* bound on the loads a user starts with Retry

\* V2_ROUTE_REGISTRY
Routes == {"home", "inbox", "recipes", "research", "memory", "health",
           "security", "settings", "commitments", "audit"}

\* Pages that load with useRouteData; the others render the mock directly.
LoadingRoutes == {"home", "inbox", "health", "commitments", "audit"}

EnvironmentType ==
    [mode: {"real", "mock"}, perRoute: [Routes -> {"real", "mock", "unset"}],
     baseUrl: {"/api/v1", "/api"}, token: BOOLEAN, strict: BOOLEAN]

ASSUME WebBounds ==
    /\ Environments \subseteq EnvironmentType
    /\ {MaxCalls, MaxMoves, MaxRetries} \subseteq Nat

VARIABLES
    env,      \* the environment the bundle was built with; never changes
    route,    \* the mounted route
    visits,   \* how many pages have been mounted
    load,     \* the hook of the mounted page
    page,     \* the mounted page's own state: a record, its fields per page
    overflow, \* the document's scroll lock, "hidden" or "", shared by every page
    gateway,  \* [rows, version]: the commitments table, and how often it changed
    calls,    \* dismiss and snooze calls in flight
    made      \* how many calls and retries were made, and moves of the scheduler

shellVars == <<env, route, visits, load, page, overflow, gateway, calls, made>>

-----------------------------------------------------------------------------
isRealForRoute(r) ==
    \/ env.perRoute[r] = "real"
    \/ env.perRoute[r] = "unset" /\ env.mode = "real"

\* request(): every API route of the gateway wants the bearer token, and the
\* path is the base URL followed by the page's path, "/v2/..." for commitments
\* and audit.  The gateway serves /api/v1/{inbox,home,health} and
\* /api/v2/{commitments,audit}; anything else is a 404, an ApiError here.
request(r) ==
    /\ env.token
    /\ r \in {"commitments", "audit"} => env.baseUrl = "/api"
    /\ r \in {"home", "inbox", "health"} => env.baseUrl = "/api/v1"

\* The hook of a page that has just been mounted.  In mock mode the loader
\* resolves with the seed before the user can act: nothing is left in flight.
MountedLoad(r, seed) ==
    IF r \in LoadingRoutes /\ isRealForRoute(r)
    THEN mountEffect(useRouteData(seed), env.strict)
    ELSE useRouteData(seed)

\* load.reload() of the mounted page.
Reloaded(r, hook) ==
    IF isRealForRoute(r) THEN run(hook) ELSE hook

\* The page is on screen (RouteError replaces it when a load failed).
Shown(r) == route = r /\ load.status # "error"

-----------------------------------------------------------------------------
\* The load a page shares with the others.  Read is the gateway answering a
\* load that reaches it with one of the given answers; the page decides what
\* a resolved load does to its own state.
Read(r, answers) ==
    /\ route = r /\ request(r)
    /\ \E flight \in {f \in load.flights : f.answer = <<>>}, a \in answers :
          load' = Served(load, flight, a)
    /\ UNCHANGED <<env, route, visits, page, overflow, gateway, calls, made>>

\* A load resolves.  A page that copies the data into state of its own does it
\* in an effect on the hook's data and status, which is what Effect gives; it
\* runs when the hook listened to the answer.
Resolves(r, Effect(_)) ==
    /\ route = r
    /\ \E flight \in {f \in load.flights : f.answer # <<>>} :
          /\ load' = resolve(load, flight)
          /\ page' = IF IsCurrent(load, flight) THEN Effect(flight.answer[1]) ELSE page
    /\ UNCHANGED <<env, route, visits, overflow, gateway, calls, made>>

\* A load fails: refused, or the connection was lost at any point.
LoadFails ==
    /\ \E flight \in load.flights : load' = reject(load, flight)
    /\ UNCHANGED <<env, route, visits, overflow, page, gateway, calls, made>>

\* RouteError's Retry: the page is on screen again while the load runs, with
\* next as its state.
RouteError(r, next) ==
    /\ route = r /\ load.status = "error" /\ made.retries < MaxRetries
    /\ load' = Reloaded(r, load)
    /\ page' = next
    /\ made' = [made EXCEPT !.retries = @ + 1]
    /\ UNCHANGED <<env, route, visits, overflow, gateway, calls>>

\* A step that only changes the mounted page.
PageStep(r, next) ==
    /\ Shown(r)
    /\ page' = next
    /\ UNCHANGED <<env, route, visits, overflow, load, gateway, calls, made>>

\* A step that opens, keeps or closes the page's drawer, with the effect that
\* locks the document's scroll while it is open.
DrawerStep(r, next, open) ==
    /\ Shown(r)
    /\ page' = next
    /\ overflow' = IF open THEN "hidden" ELSE ""
    /\ UNCHANGED <<env, route, visits, load, gateway, calls, made>>

-----------------------------------------------------------------------------
\* The gateway handles a dismiss or a snooze: both write the status whatever
\* it was, and a row it does not know is a 404.
CommitmentHandled ==
    \E call \in {c \in calls : c.stage = "sent"} :
        /\ request("commitments") /\ call.id \in DOMAIN gateway.rows
        /\ gateway' = [rows |-> [gateway.rows EXCEPT ![call.id] =
                                    IF call.op = "dismiss" THEN "dismissed" ELSE "pending"],
                       version |-> gateway.version + 1]
        /\ calls' = (calls \ {call}) \cup
                    {[call EXCEPT !.stage = "handled", !.version = gateway.version + 1]}
        /\ UNCHANGED <<env, route, visits, overflow, load, page, made>>

\* The commitment scheduler sends or expires a pending row on its own.  In a
\* build whose page cannot read the table nothing tells the moves apart, and
\* they are left out.
SchedulerMoves ==
    /\ made.moves < MaxMoves
    /\ isRealForRoute("commitments") /\ request("commitments")
    /\ \E id \in DOMAIN gateway.rows, status \in {"sent", "expired"} :
          /\ gateway.rows[id] = "pending"
          /\ gateway' = [rows |-> [gateway.rows EXCEPT ![id] = status],
                         version |-> gateway.version + 1]
    /\ made' = [made EXCEPT !.moves = @ + 1]
    /\ UNCHANGED <<env, route, visits, overflow, load, page, calls>>
=============================================================================
