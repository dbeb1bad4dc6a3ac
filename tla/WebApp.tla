------------------------------- MODULE WebApp -------------------------------
(***************************************************************************)
(* The web application as a whole: the ten pages of the v2 interface and   *)
(* the navigation between them, with loads that belong to the page that    *)
(* started them and calls that outlive it.                                 *)
(***************************************************************************)
EXTENDS CommitmentsPage, AuditPage, InboxPage, HomePage, HealthPage,
        MemoryPage, SettingsPage, RecipesPage, SecurityPage, ResearchPage

\* The data a page's first render shows.
Seed(r) ==
    CASE r = "commitments" -> CommitmentsSeedData
      [] r = "audit" -> AuditSeedData
      [] r = "inbox" -> InboxSeedData
      [] r = "home" -> HomeSeedData
      [] r = "health" -> HealthSeedData
      [] OTHER -> [live |-> FALSE]

\* The state of a page that has just been mounted.
Mounted(r) ==
    CASE r = "commitments" -> CommitmentsMounted
      [] r = "audit" -> AuditMounted
      [] r = "inbox" -> InboxMounted
      [] r = "home" -> HomeMounted
      [] r = "health" -> HealthMounted
      [] r = "memory" -> MemoryMounted
      [] r = "settings" -> SettingsMounted
      [] r = "recipes" -> RecipesMounted
      [] r = "security" -> SecurityMounted
      [] r = "research" -> ResearchMounted

WebInit ==
    /\ env \in Environments
    /\ route \in Routes \cap MayVisit(env, 1)
    /\ visits = 1
    /\ load = MountedLoad(route, Seed(route))
    /\ page = Mounted(route)
    /\ overflow = ""
    /\ gateway = [rows |-> [id \in CommitmentIds |-> "pending"], version |-> 1]
    /\ calls = {}
    /\ made = [calls |-> 0, moves |-> 0, retries |-> 0]

\* Mutated form: a page that is left keeps its lock on the scroll.
scrollLeftLocked == overflow

\* The cleanup of the effects that lock the scroll, when the page is left.
scrollReleased == IF route \in {"recipes", "security", "research"} THEN "" ELSE overflow

\* The router shows another page: the mounted one is unmounted, its load no
\* longer matters, its calls go on.
Navigate ==
    /\ \E r \in (Routes \cap MayVisit(env, visits + 1)) \ {route} :
          /\ route' = r
          /\ load' = MountedLoad(r, Seed(r))
          /\ page' = Mounted(r)
    /\ visits' = visits + 1
    /\ overflow' = scrollReleased
    /\ UNCHANGED <<env, gateway, calls, made>>

Loads ==
    \/ CommitmentsLoad \/ AuditLoad \/ InboxLoad \/ HomeLoad \/ HealthLoad
    \/ LoadFails

App ==
    \/ Navigate \/ Loads
    \/ CallLands \/ CommitmentHandled \/ SchedulerMoves
    \/ CommitmentsNext \/ AuditNext \/ InboxNext \/ HomeNext \/ HealthNext
    \/ MemoryNext \/ SettingsNext \/ RecipesNext \/ SecurityNext \/ ResearchNext

\* A fetch of the browser is answered or fails in the end.  The user and the
\* scheduler owe nothing.
WebSpec ==
    /\ WebInit /\ [][App]_shellVars
    /\ WF_shellVars(Loads) /\ WF_shellVars(CallLands)

-----------------------------------------------------------------------------
WebTypeOK ==
    /\ env \in Environments /\ route \in Routes /\ visits \in Nat \ {0}
    /\ load.status \in {"loading", "ok", "error"}
    /\ \A f \in load.flights : f.invocation \in 1..load.invocation
    /\ load.status = "loading" => \E f \in load.flights : IsCurrent(load, f)
    /\ overflow \in {"", "hidden"}
    /\ DOMAIN gateway.rows = CommitmentIds /\ gateway.version \in 1..(1 + MaxCalls + MaxMoves)
    /\ \A c \in calls : c.mount \in 1..visits /\ c.op \in {"dismiss", "snooze"}
    /\ CASE route = "inbox" -> InboxTypeOK
         [] route = "home" -> HomeTypeOK
         [] route = "health" -> HealthTypeOK
         [] route = "memory" -> MemoryTypeOK
         [] route = "settings" -> SettingsTypeOK
         [] route = "recipes" -> RecipesTypeOK
         [] route = "security" -> SecurityTypeOK
         [] route = "research" -> ResearchTypeOK
         [] OTHER -> TRUE

\* A decision the user took on an item or an event that came from the gateway
\* stays on screen while the page does: no load that was started earlier, by
\* the first of StrictMode's two mount effects or by a retry, replaces the list
\* it was taken on (run's invocation check; Inbox and Home copy every load they
\* listen to over their own state).
LiveDecisionsKept ==
    /\ route = "inbox" => \A d \in page.decided :
          \E it \in ToSet(page.items) : it.id = d.id /\ it.status = d.status
    /\ route = "home" => \A d \in page.decided :
          \E e \in ToSet(page.events) : e.id = d.id /\ e.status = d.status

\* The document can be scrolled exactly when the mounted page has no drawer
\* that locks it: a page left with its drawer open, by the browser's Back say,
\* gives the lock back (the cleanups of the overflow effects of Recipes,
\* Security and Research).
ScrollLockFollowsDrawer ==
    overflow = "hidden" <=>
        \/ route \in {"recipes", "research"} /\ page.openId # "none"
        \/ route = "security" /\ page.openPolicy # <<>>

\* A page in real mode does not go on showing the mock: it comes to the
\* gateway's data or to the error page, unless it is left (useRouteData's then
\* and catch under StrictMode's double effects; "Mock data is intentionally
\* hidden so the failure stays visible").
LoadsSettle ==
    \A r \in LoadingRoutes :
        (route = r /\ isRealForRoute(r))
            ~> (route # r \/ load.status = "error" \/ load.data.live)
=============================================================================
