--------------------------- MODULE WebShellProofs ---------------------------
(***************************************************************************)
(* Theorems about the part of WebApp that all pages share: the hook that   *)
(* loads a page's data, the calls in flight, the gateway's version and the *)
(* document's scroll lock; for any environments, navigation, data and      *)
(* bounds.                                                                 *)
(***************************************************************************)
EXTENDS WebApp, FiniteSetTheorems, TLAPS

-----------------------------------------------------------------------------
(* The hook. *)

Flight(f) == f = [invocation |-> f.invocation, answer |-> f.answer]

(* The hook's invariant: flights are numbered, no two alike, up to the       *)
(* current invocation, and a hook that says "loading" waits for the current  *)
(* one.                                                                      *)
HookOK(h) ==
    /\ h = [status |-> h.status, data |-> h.data, invocation |-> h.invocation,
            flights |-> h.flights]
    /\ h.status \in {"loading", "ok", "error"} /\ h.invocation \in Nat
    /\ \A f \in h.flights : Flight(f) /\ f.invocation \in 1..h.invocation
    /\ \A f, g \in h.flights : f.invocation = g.invocation => f = g
    /\ h.status = "loading" => \E f \in h.flights : f.invocation = h.invocation

(* No load that the hook would listen to is in flight. *)
Idle(h) == \A f \in h.flights : f.invocation # h.invocation

(* A hook that has just been called. *)
LEMMA NewHook ==
    ASSUME NEW d
    PROVE  /\ HookOK(useRouteData(d)) /\ Idle(useRouteData(d))
           /\ useRouteData(d).status = "ok" /\ useRouteData(d).data = d
           /\ useRouteData(d).flights = {}
BY DEF HookOK, Idle, useRouteData

(* run starts a load that has no answer yet and is the only current one. *)
LEMMA RunFacts ==
    ASSUME NEW h, HookOK(h)
    PROVE  /\ HookOK(run(h)) /\ run(h).data = h.data
           /\ run(h).status = IF h.status = "ok" THEN "ok" ELSE "loading"
           /\ run(h).invocation = h.invocation + 1
           /\ run(h).flights = h.flights \cup {[invocation |-> h.invocation + 1, answer |-> <<>>]}
           /\ \A f \in run(h).flights : f.invocation = run(h).invocation => f.answer = <<>>
           /\ ~Idle(run(h))
<1> DEFINE n == [invocation |-> h.invocation + 1, answer |-> <<>>]
<1>1. run(h) = [status |-> IF h.status = "ok" THEN "ok" ELSE "loading", data |-> h.data,
                invocation |-> h.invocation + 1, flights |-> h.flights \cup {n}]
  <2> DEFINE fl == h.flights \cup {n}
             st == IF h.status = "ok" THEN "ok" ELSE "loading"
             iv == h.invocation + 1
  <2>1. run(h) = [h EXCEPT !.invocation = iv, !.status = st, !.flights = fl]
    BY DEF run
  <2> HIDE DEF fl, st, iv
  <2>2. run(h) = [status |-> st, data |-> h.data, invocation |-> iv, flights |-> fl]
    BY <2>1 DEF HookOK
  <2> QED
    BY <2>2 DEF fl, st, iv
<1>2. h.invocation \in Nat /\ \A f \in h.flights : Flight(f) /\ f.invocation \in 1..h.invocation
  BY DEF HookOK
<1>3. Flight(n) /\ n.invocation = h.invocation + 1 /\ n.answer = <<>>
  BY DEF Flight
<1>4. \A f, g \in h.flights \cup {n} : f.invocation = g.invocation => f = g
  BY <1>2, <1>3 DEF HookOK
<1> HIDE DEF n
<1>5. HookOK(run(h))
  BY <1>1, <1>2, <1>3, <1>4 DEF HookOK
<1>6. \A f \in run(h).flights : f.invocation = run(h).invocation => f.answer = <<>>
  BY <1>1, <1>2, <1>3
<1> QED
  BY <1>1, <1>3, <1>5, <1>6 DEF Idle, n

(* Once mounted, with StrictMode or without, a hook has the seed on screen   *)
(* and only loads without an answer.                                         *)
LEMMA MountFacts ==
    ASSUME NEW d, NEW strict \in BOOLEAN
    PROVE  /\ HookOK(mountEffect(useRouteData(d), strict))
           /\ mountEffect(useRouteData(d), strict).status = "ok"
           /\ mountEffect(useRouteData(d), strict).data = d
           /\ \A f \in mountEffect(useRouteData(d), strict).flights : f.answer = <<>>
<1> DEFINE h0 == useRouteData(d)
           h1 == run(h0)
           h2 == cleanup(h1)
           h3 == run(h2)
<1>1. HookOK(h0) /\ h0.status = "ok" /\ h0.data = d /\ h0.flights = {}
  BY NewHook
<1> HIDE DEF h0
<1>2. /\ HookOK(h1) /\ h1.status = "ok" /\ h1.data = d
      /\ \A f \in h1.flights : f.answer = <<>>
  <2>1. h1.flights = {} \cup {[invocation |-> h0.invocation + 1, answer |-> <<>>]}
    BY <1>1, RunFacts
  <2> QED
    BY <1>1, <2>1, RunFacts
<1> HIDE DEF h1
<1>3. /\ HookOK(h2) /\ h2.status = "ok" /\ h2.data = d /\ h2.flights = h1.flights
  <2>1. h2 = [status |-> "ok", data |-> d, invocation |-> h1.invocation + 1,
              flights |-> h1.flights]
    BY <1>2 DEF HookOK, cleanup
  <2> HIDE DEF h2
  <2> QED
    BY <1>2, <2>1 DEF HookOK
<1> HIDE DEF h2
<1>4. /\ HookOK(h3) /\ h3.status = "ok" /\ h3.data = d
      /\ h3.flights = h2.flights \cup {[invocation |-> h2.invocation + 1, answer |-> <<>>]}
  BY <1>3, RunFacts
<1> HIDE DEF h3
<1>5. \A f \in h3.flights : f.answer = <<>>
  BY <1>2, <1>3, <1>4
<1>6. mountEffect(h0, strict) = IF strict THEN h3 ELSE h1
  BY DEF mountEffect, h3, h2, h1
<1> QED
  BY <1>2, <1>4, <1>5, <1>6 DEF h0

(* The gateway's answer changes nothing but the answer. *)
LEMMA ServedFacts ==
    ASSUME NEW h, HookOK(h), NEW f \in h.flights, NEW a
    PROVE  LET s == Served(h, f, a)
               g == [invocation |-> f.invocation, answer |-> <<a>>]
           IN  /\ HookOK(s) /\ s.status = h.status /\ s.data = h.data
               /\ s.invocation = h.invocation /\ s.flights = (h.flights \ {f}) \cup {g}
               /\ Idle(s) <=> Idle(h)
<1> DEFINE s == Served(h, f, a)
           g == [invocation |-> f.invocation, answer |-> <<a>>]
<1>1. [f EXCEPT !.answer = <<a>>] = g
  BY DEF HookOK, Flight
<1>2. s = [status |-> h.status, data |-> h.data, invocation |-> h.invocation,
           flights |-> (h.flights \ {f}) \cup {g}]
  <2> DEFINE fl == (h.flights \ {f}) \cup {g}
  <2>1. s = [h EXCEPT !.flights = fl]
    BY <1>1 DEF Served
  <2> HIDE DEF fl, s
  <2> QED
    BY <2>1 DEF HookOK, fl
<1>3. Flight(g) /\ g.invocation = f.invocation
  BY DEF Flight
<1> HIDE DEF g, s
<1>4. HookOK(s)
  BY <1>2, <1>3 DEF HookOK
<1>5. Idle(s) <=> Idle(h)
  BY <1>2, <1>3 DEF Idle
<1> QED
  BY <1>2, <1>4, <1>5 DEF s, g

(* A load that ends leaves the others; only the current one is listened to,  *)
(* and nothing current is left behind it.                                    *)
LEMMA ResolveFacts ==
    ASSUME NEW h, HookOK(h), NEW f \in h.flights
    PROVE  /\ HookOK(resolve(h, f))
           /\ resolve(h, f).invocation = h.invocation /\ resolve(h, f).flights = h.flights \ {f}
           /\ IsCurrent(h, f) => /\ resolve(h, f).data = f.answer[1]
                                 /\ resolve(h, f).status = "ok" /\ Idle(resolve(h, f))
           /\ ~IsCurrent(h, f) => /\ resolve(h, f).data = h.data
                                  /\ resolve(h, f).status = h.status
                                  /\ Idle(resolve(h, f)) <=> Idle(h)
<1> DEFINE s == resolve(h, f)
<1>1. CASE IsCurrent(h, f)
  <2>1. s = [status |-> "ok", data |-> f.answer[1], invocation |-> h.invocation,
             flights |-> h.flights \ {f}]
    BY <1>1 DEF HookOK, resolve, Without
  <2> HIDE DEF s
  <2>2. HookOK(s) /\ Idle(s)
    BY <1>1, <2>1 DEF HookOK, Idle, IsCurrent
  <2> QED
    BY <1>1, <2>1, <2>2 DEF s
<1>2. CASE ~IsCurrent(h, f)
  <2>1. s = [status |-> h.status, data |-> h.data, invocation |-> h.invocation,
             flights |-> h.flights \ {f}]
    BY <1>2 DEF HookOK, resolve, Without
  <2> HIDE DEF s
  <2>2. HookOK(s) /\ (Idle(s) <=> Idle(h))
    BY <1>2, <2>1 DEF HookOK, Idle, IsCurrent
  <2> QED
    BY <1>2, <2>1, <2>2 DEF s
<1> QED
  BY <1>1, <1>2

(* The same for a load that fails, which says so when it is current. *)
LEMMA RejectFacts ==
    ASSUME NEW h, HookOK(h), NEW f \in h.flights
    PROVE  /\ HookOK(reject(h, f)) /\ reject(h, f).data = h.data
           /\ reject(h, f).invocation = h.invocation /\ reject(h, f).flights = h.flights \ {f}
           /\ IsCurrent(h, f) => reject(h, f).status = "error" /\ Idle(reject(h, f))
           /\ ~IsCurrent(h, f) => /\ reject(h, f).status = h.status
                                  /\ Idle(reject(h, f)) <=> Idle(h)
<1> DEFINE s == reject(h, f)
<1>1. CASE IsCurrent(h, f)
  <2>1. s = [status |-> "error", data |-> h.data, invocation |-> h.invocation,
             flights |-> h.flights \ {f}]
    BY <1>1 DEF HookOK, reject, Without
  <2> HIDE DEF s
  <2>2. HookOK(s) /\ Idle(s)
    BY <1>1, <2>1 DEF HookOK, Idle, IsCurrent
  <2> QED
    BY <1>1, <2>1, <2>2 DEF s
<1>2. CASE ~IsCurrent(h, f)
  <2>1. s = [status |-> h.status, data |-> h.data, invocation |-> h.invocation,
             flights |-> h.flights \ {f}]
    BY <1>2 DEF HookOK, reject, Without
  <2> HIDE DEF s
  <2>2. HookOK(s) /\ (Idle(s) <=> Idle(h))
    BY <1>2, <2>1 DEF HookOK, Idle, IsCurrent
  <2> QED
    BY <1>2, <2>1, <2>2 DEF s
<1> QED
  BY <1>1, <1>2

-----------------------------------------------------------------------------
(* The steps. *)

(* A step of the mounted page that leaves everything but the page, and       *)
(* perhaps the scroll lock, as it is.                                        *)
PageOnly(r) == route = r /\ UNCHANGED <<env, route, visits, load, gateway, calls, made>>

(* What the gateway may answer a page's load with. *)
Answers(r) ==
    CASE r = "commitments" -> {CommitmentsList}
      [] r = "audit" -> AuditAnswers
      [] r = "inbox" -> InboxAnswers
      [] r = "home" -> HomeAnswers
      [] r = "health" -> HealthAnswers

LoadServed ==
    /\ UNCHANGED <<env, route, visits, page, overflow, gateway, calls, made>>
    /\ \E f \in load.flights : \E a \in Answers(route) : load' = Served(load, f, a)

LoadSettles ==
    /\ UNCHANGED <<env, route, visits, overflow, gateway, calls, made>>
    /\ \E f \in load.flights : f.answer # <<>> /\ load' = resolve(load, f)

Retried(r) ==
    /\ route = r /\ load.status = "error" /\ made.retries < MaxRetries
    /\ load' = Reloaded(r, load)
    /\ made' = [made EXCEPT !.retries = @ + 1]
    /\ UNCHANGED <<env, route, visits, overflow, gateway, calls>>

(* The disjuncts of a step. *)
LEMMA AppCases ==
    ASSUME NEW G, [App]_shellVars,
           UNCHANGED shellVars => G, Navigate => G,
           CommitmentsLoad => G, AuditLoad => G, InboxLoad => G, HomeLoad => G,
           HealthLoad => G, LoadFails => G,
           CallLands => G, CommitmentHandled => G, SchedulerMoves => G,
           CommitmentsNext => G, AuditNext => G, InboxNext => G, HomeNext => G,
           HealthNext => G, MemoryNext => G, SettingsNext => G, RecipesNext => G,
           SecurityNext => G, ResearchNext => G
    PROVE  G
BY Zenon DEF App, Loads

(* The loads of a page. *)
LEMMA LoadFrames ==
    /\ CommitmentsLoad => route = "commitments" /\ (LoadServed \/ LoadSettles)
    /\ AuditLoad => route = "audit" /\ (LoadServed \/ LoadSettles)
    /\ InboxLoad => route = "inbox" /\ (LoadServed \/ LoadSettles)
    /\ HomeLoad => route = "home" /\ (LoadServed \/ LoadSettles)
    /\ HealthLoad => route = "health" /\ (LoadServed \/ LoadSettles)
<1> DEFINE Ok(r) == route = r /\ (LoadServed \/ LoadSettles)
<1>1. ASSUME NEW r, NEW A, Read(r, A), A = Answers(r) PROVE Ok(r)
  BY <1>1 DEF Read, LoadServed
<1>2. CommitmentsLoad => Ok("commitments")
  <2>1. Read("commitments", {CommitmentsList}) => Ok("commitments")
    BY <1>1 DEF Answers
  <2>2. Resolves("commitments", LAMBDA data : page) => Ok("commitments")
    BY DEF Resolves, LoadSettles
  <2> QED
    BY <2>1, <2>2 DEF CommitmentsLoad
<1>3. AuditLoad => Ok("audit")
  <2>1. Read("audit", AuditAnswers) => Ok("audit")
    BY <1>1 DEF Answers
  <2>2. Resolves("audit", LAMBDA data : page) => Ok("audit")
    BY DEF Resolves, LoadSettles
  <2> QED
    BY <2>1, <2>2 DEF AuditLoad
<1>4. InboxLoad => Ok("inbox")
  <2>1. Read("inbox", InboxAnswers) => Ok("inbox")
    BY <1>1 DEF Answers
  <2>2. Resolves("inbox", InboxLoaded) => Ok("inbox")
    BY DEF Resolves, LoadSettles
  <2> QED
    BY <2>1, <2>2 DEF InboxLoad
<1>5. HomeLoad => Ok("home")
  <2>1. Read("home", HomeAnswers) => Ok("home")
    BY <1>1 DEF Answers
  <2>2. Resolves("home", HomeLoaded) => Ok("home")
    BY DEF Resolves, LoadSettles
  <2> QED
    BY <2>1, <2>2 DEF HomeLoad
<1>6. HealthLoad => Ok("health")
  <2>1. Read("health", HealthAnswers) => Ok("health")
    BY <1>1 DEF Answers
  <2>2. Resolves("health", HealthLoaded) => Ok("health")
    BY DEF Resolves, LoadSettles
  <2> QED
    BY <2>1, <2>2 DEF HealthLoad
<1> QED
  BY <1>2, <1>3, <1>4, <1>5, <1>6

(* The handlers of the pages that never load only change the page, and the   *)
(* scroll lock on the pages that have a drawer that takes it.                *)
LEMMA StaticFrames ==
    /\ MemoryNext => PageOnly("memory") /\ overflow' = overflow
    /\ SettingsNext => PageOnly("settings") /\ overflow' = overflow
    /\ RecipesNext => PageOnly("recipes")
    /\ SecurityNext => PageOnly("security")
    /\ ResearchNext => PageOnly("research")
<1>1. ASSUME NEW r, NEW next, PageStep(r, next)
      PROVE  PageOnly(r) /\ overflow' = overflow
  BY <1>1 DEF PageStep, PageOnly, Shown
<1>2. ASSUME NEW r, NEW next, NEW open, DrawerStep(r, next, open) PROVE PageOnly(r)
  BY <1>2 DEF DrawerStep, PageOnly, Shown
<1>3. MemoryNext => PageOnly("memory") /\ overflow' = overflow
  BY <1>1 DEF MemoryNext, handleForget, handleUndoForget, ForgetBanner, onToggleExpand,
              setMemoryFacet
<1>4. SettingsNext => PageOnly("settings") /\ overflow' = overflow
  <2>1. ASSUME NEW next, Prefer(next) PROVE PageOnly("settings") /\ overflow' = overflow
    BY <1>1, <2>1 DEF Prefer
  <2> QED
    BY <1>1, <2>1 DEF SettingsNext, ConnectorsSection, ModeOption, DeploymentSection,
              NotificationsSection, onVote, RecipesSection, AdvancedSection, onUndo,
              intervalFires, Passes
<1>5. RecipesNext => PageOnly("recipes")
  BY <1>1, <1>2 DEF RecipesNext, onToggleRecipe, onInspect, onCloseRecipe, CategoryTabs
<1>6. SecurityNext => PageOnly("security")
  BY <1>1, <1>2 DEF SecurityNext, AuditLog, AuditRow, PolicyLibrary, PolicyCardItem,
                    handlePause, PolicyDrawer, AuditFilterChips
<1>7. ResearchNext => PageOnly("research")
  BY <1>1, <1>2 DEF ResearchNext, ResearchCard, onCloseFinding, FilterBar
<1> QED
  BY <1>3, <1>4, <1>5, <1>6, <1>7

(* The handlers of the pages that load: the page alone, a retry, or on the   *)
(* commitments page a call.                                                  *)
LEMMA LoadingFrames ==
    /\ AuditNext => (PageOnly("audit") /\ overflow' = overflow) \/ Retried("audit")
    /\ InboxNext => (PageOnly("inbox") /\ overflow' = overflow) \/ Retried("inbox")
    /\ HomeNext => (PageOnly("home") /\ overflow' = overflow) \/ Retried("home")
    /\ HealthNext => (PageOnly("health") /\ overflow' = overflow) \/ Retried("health")
    /\ CommitmentsNext => \/ PageOnly("commitments") /\ overflow' = overflow
                          \/ Retried("commitments")
                          \/ \E op \in {"dismiss", "snooze"} : handleAction(op)
<1>1. ASSUME NEW r, NEW next, PageStep(r, next)
      PROVE  PageOnly(r) /\ overflow' = overflow
  BY <1>1 DEF PageStep, PageOnly, Shown
<1>2. ASSUME NEW r, NEW next, RouteError(r, next) PROVE Retried(r)
  BY <1>2 DEF RouteError, Retried
<1>3. AuditNext => (PageOnly("audit") /\ overflow' = overflow) \/ Retried("audit")
  BY <1>1, <1>2 DEF AuditNext, setAuditFilter, Audit
<1>4. InboxNext => (PageOnly("inbox") /\ overflow' = overflow) \/ Retried("inbox")
  BY <1>1, <1>2 DEF InboxNext, onSelect, setInboxChip, onApproveItem, onDenyItem,
                    onSnoozeItem, onEdit, onChangeBuffer, onCancelEdit, onCommitEdit
<1>5. HomeNext => (PageOnly("home") /\ overflow' = overflow) \/ Retried("home")
  <2>1. onResetDemo => PageOnly("home") /\ overflow' = overflow
    BY DEF onResetDemo, PageOnly
  <2> QED
    BY <1>1, <1>2, <2>1 DEF HomeNext, onApproveEvent, onDenyEvent, HomeFilterChips,
                    onOpenDrawer, WhyDrawer, onOpenRules, SafetyDrawer
<1>6. HealthNext => (PageOnly("health") /\ overflow' = overflow) \/ Retried("health")
  BY <1>1, <1>2 DEF HealthNext, PredictivePanel, HealLog
<1>7. CommitmentsNext => \/ PageOnly("commitments") /\ overflow' = overflow
                         \/ Retried("commitments")
                         \/ \E op \in {"dismiss", "snooze"} : handleAction(op)
  BY <1>1, <1>2 DEF CommitmentsNext, setCommitmentsFilter, handleDismiss, handleSnooze
<1> QED
  BY <1>3, <1>4, <1>5, <1>6, <1>7

-----------------------------------------------------------------------------
(* The shell. *)

Sent(cs) == {c \in cs : c.stage = "sent"}

CallOK(c) ==
    c \in [n : {c.n}, id : {c.id}, op : {"dismiss", "snooze"}, mount : Nat \ {0},
           stage : {"sent", "handled"}, version : Nat]

(* The build, the route and the hook. *)
HookInv ==
    /\ env \in Environments /\ route \in Routes /\ visits \in Nat \ {0}
    /\ HookOK(load)

(* The gateway and the calls.  Every version but the first was made by a     *)
(* call that is counted or by a move of the scheduler; a call still to be    *)
(* handled stands for a version to come.                                     *)
CallsInv ==
    /\ gateway = [rows |-> gateway.rows, version |-> gateway.version]
    /\ DOMAIN gateway.rows = CommitmentIds /\ gateway.version \in Nat \ {0}
    /\ made \in [calls : 0..MaxCalls, moves : 0..MaxMoves, retries : 0..MaxRetries]
    /\ IsFiniteSet(calls)
    /\ \A c \in calls : CallOK(c) /\ c.mount <= visits /\ c.version <= gateway.version
    /\ gateway.version + Cardinality(Sent(calls)) <= 1 + made.calls + made.moves
    /\ calls # {} => isRealForRoute("commitments")

(* The hook of a page that has just been mounted. *)
LEMMA MountedLoadFacts ==
    ASSUME env \in Environments, NEW r, NEW d
    PROVE  /\ HookOK(MountedLoad(r, d))
           /\ MountedLoad(r, d).status = "ok" /\ MountedLoad(r, d).data = d
           /\ \A f \in MountedLoad(r, d).flights : f.answer = <<>>
<1>1. env.strict \in BOOLEAN
  BY WebBounds DEF EnvironmentType
<1>2. CASE r \in LoadingRoutes /\ isRealForRoute(r)
  <2>1. MountedLoad(r, d) = mountEffect(useRouteData(d), env.strict)
    BY <1>2 DEF MountedLoad
  <2> QED
    BY <1>1, <2>1, MountFacts
<1>3. CASE ~(r \in LoadingRoutes /\ isRealForRoute(r))
  <2>1. MountedLoad(r, d) = useRouteData(d)
    BY <1>3 DEF MountedLoad
  <2> QED
    BY <2>1, NewHook
<1> QED
  BY <1>2, <1>3

(* reload() runs the hook in real mode and does nothing in mock mode. *)
LEMMA ReloadedFacts ==
    ASSUME NEW r, HookOK(load)
    PROVE  /\ HookOK(Reloaded(r, load)) /\ Reloaded(r, load).data = load.data
           /\ isRealForRoute(r) => Reloaded(r, load) = run(load)
           /\ ~isRealForRoute(r) => Reloaded(r, load) = load
BY RunFacts DEF Reloaded

LEMMA HookInit == WebInit => HookInv
<1> SUFFICES ASSUME WebInit PROVE HookInv
  OBVIOUS
<1>1. env \in Environments /\ route \in Routes /\ visits = 1
      /\ load = MountedLoad(route, Seed(route))
  BY DEF WebInit
<1> QED
  BY <1>1, MountedLoadFacts DEF HookInv

LEMMA HookStep == HookInv /\ [App]_shellVars => HookInv'
<1> SUFFICES ASSUME HookInv, [App]_shellVars PROVE HookInv'
  OBVIOUS
<1>0. env \in Environments /\ route \in Routes /\ visits \in Nat \ {0} /\ HookOK(load)
  BY DEF HookInv
<1>1. ASSUME UNCHANGED <<env, route, visits>>, HookOK(load') PROVE HookInv'
  BY <1>0, <1>1 DEF HookInv
<1>2. UNCHANGED shellVars => HookInv'
  BY <1>0 DEF shellVars, HookInv
<1>3. Navigate => HookInv'
  <2> SUFFICES ASSUME Navigate PROVE HookInv'
    OBVIOUS
  <2>1. PICK r \in Routes : route' = r /\ load' = MountedLoad(r, Seed(r))
    BY DEF Navigate
  <2>2. env' = env /\ visits' = visits + 1
    BY DEF Navigate
  <2>3. HookOK(load')
    BY <1>0, <2>1, MountedLoadFacts
  <2> QED
    BY <1>0, <2>1, <2>2, <2>3 DEF HookInv
<1>4. LoadServed => HookInv'
  <2> SUFFICES ASSUME LoadServed PROVE HookInv'
    OBVIOUS
  <2>1. PICK f \in load.flights, a \in Answers(route) : load' = Served(load, f, a)
    BY DEF LoadServed
  <2>2. HookOK(load')
    BY <1>0, <2>1, ServedFacts
  <2> QED
    BY <1>1, <2>2 DEF LoadServed
<1>5. LoadSettles => HookInv'
  BY <1>0, <1>1, ResolveFacts DEF LoadSettles
<1>6. LoadFails => HookInv'
  BY <1>0, <1>1, RejectFacts DEF LoadFails
<1>7. ASSUME NEW r, Retried(r) PROVE HookInv'
  BY <1>0, <1>1, <1>7, ReloadedFacts DEF Retried
<1>8. ASSUME NEW r, PageOnly(r) PROVE HookInv'
  BY <1>0, <1>1, <1>8 DEF PageOnly
<1>9. ASSUME NEW op, handleAction(op) PROVE HookInv'
  BY <1>0, <1>1, <1>9 DEF handleAction
<1>10. CallLands => HookInv'
  <2> SUFFICES ASSUME CallLands PROVE HookInv'
    OBVIOUS
  <2>1. PICK call \in calls, ok \in BOOLEAN : CallSettled(call, ok)
    BY DEF CallLands
  <2>2. load' = Reloaded("commitments", load) \/ load' = load
    BY <2>1 DEF CallSettled
  <2>3. HookOK(load')
    BY <1>0, <2>2, ReloadedFacts
  <2> QED
    BY <1>1, <2>3 DEF CallLands
<1>11. CommitmentHandled => HookInv'
  BY <1>0, <1>1 DEF CommitmentHandled
<1>12. SchedulerMoves => HookInv'
  BY <1>0, <1>1 DEF SchedulerMoves
<1>13. /\ CommitmentsNext => HookInv'
       /\ AuditNext => HookInv'
       /\ InboxNext => HookInv'
       /\ HomeNext => HookInv'
       /\ HealthNext => HookInv'
  BY <1>7, <1>8, <1>9, LoadingFrames
<1>14. /\ MemoryNext => HookInv'
       /\ SettingsNext => HookInv'
       /\ RecipesNext => HookInv'
       /\ SecurityNext => HookInv'
       /\ ResearchNext => HookInv'
  BY <1>8, StaticFrames
<1>15. /\ CommitmentsLoad => HookInv'
       /\ AuditLoad => HookInv'
       /\ InboxLoad => HookInv'
       /\ HomeLoad => HookInv'
       /\ HealthLoad => HookInv'
  BY <1>4, <1>5, LoadFrames
<1> HIDE DEF HookInv
<1> QED
  BY <1>2, <1>3, <1>6, <1>10, <1>11, <1>12, <1>13, <1>14, <1>15, AppCases, Zenon

(* The calls still to be handled, after each thing that happens to a call. *)
LEMMA SentFacts ==
    ASSUME IsFiniteSet(calls), NEW c
    PROVE  /\ IsFiniteSet(Sent(calls)) /\ Cardinality(Sent(calls)) \in Nat
           /\ Cardinality(Sent(calls \cup {c})) <= Cardinality(Sent(calls)) + 1
           /\ Cardinality(Sent(calls \ {c})) <= Cardinality(Sent(calls))
           /\ Cardinality(Sent(calls \cup {c})) \in Nat /\ Cardinality(Sent(calls \ {c})) \in Nat
           /\ IsFiniteSet(calls \cup {c}) /\ IsFiniteSet(calls \ {c})
           /\ \A h : c \in Sent(calls) /\ h.stage = "handled" =>
                 /\ Cardinality(Sent((calls \ {c}) \cup {h})) = Cardinality(Sent(calls)) - 1
                 /\ IsFiniteSet((calls \ {c}) \cup {h})
<1> DEFINE S == Sent(calls)
<1>1. IsFiniteSet(S) /\ Cardinality(S) \in Nat
  <2>1. S \in SUBSET calls
    BY DEF Sent
  <2> QED
    BY <2>1, FS_Subset, FS_CardinalityType
<1>2. IsFiniteSet(calls \cup {c}) /\ IsFiniteSet(calls \ {c})
  BY FS_AddElement, FS_RemoveElement
<1>3. Cardinality(Sent(calls \cup {c})) <= Cardinality(S) + 1
      /\ Cardinality(Sent(calls \cup {c})) \in Nat
  <2>1. Sent(calls \cup {c}) \in SUBSET (S \cup {c})
    BY DEF Sent
  <2>2. IsFiniteSet(S \cup {c}) /\ Cardinality(S \cup {c}) <= Cardinality(S) + 1
    <3>1. /\ IsFiniteSet(S \cup {c})
          /\ Cardinality(S \cup {c}) = IF c \in S THEN Cardinality(S) ELSE Cardinality(S) + 1
      BY <1>1, FS_AddElement
    <3> HIDE DEF S
    <3> QED
      BY <1>1, <3>1
  <2>3. /\ IsFiniteSet(Sent(calls \cup {c}))
        /\ Cardinality(Sent(calls \cup {c})) <= Cardinality(S \cup {c})
    BY <2>1, <2>2, FS_Subset
  <2>4. Cardinality(S \cup {c}) \in Nat /\ Cardinality(Sent(calls \cup {c})) \in Nat
    BY <2>2, <2>3, FS_CardinalityType
  <2> QED
    BY <1>1, <2>2, <2>3, <2>4
<1>4. Cardinality(Sent(calls \ {c})) <= Cardinality(S) /\ Cardinality(Sent(calls \ {c})) \in Nat
  <2>1. Sent(calls \ {c}) \in SUBSET S
    BY DEF Sent
  <2> QED
    BY <1>1, <2>1, FS_Subset, FS_CardinalityType
<1>5. ASSUME NEW h, c \in S, h.stage = "handled"
      PROVE  /\ Cardinality(Sent((calls \ {c}) \cup {h})) = Cardinality(S) - 1
             /\ IsFiniteSet((calls \ {c}) \cup {h})
  <2>1. Sent((calls \ {c}) \cup {h}) = S \ {c}
    BY <1>5 DEF Sent
  <2>2. Cardinality(S \ {c}) = Cardinality(S) - 1
    BY <1>1, <1>5, FS_RemoveElement
  <2> QED
    BY <1>2, <2>1, <2>2, FS_AddElement
<1> QED
  BY <1>1, <1>2, <1>3, <1>4, <1>5

LEMMA CallsInit == WebInit => CallsInv
<1> SUFFICES ASSUME WebInit PROVE CallsInv
  OBVIOUS
<1>1. /\ calls = {} /\ made = [calls |-> 0, moves |-> 0, retries |-> 0]
      /\ gateway = [rows |-> [id \in CommitmentIds |-> "pending"], version |-> 1]
  BY DEF WebInit
<1>2. IsFiniteSet(calls) /\ Cardinality(Sent(calls)) = 0
  <2>1. Sent(calls) = {}
    BY <1>1 DEF Sent
  <2> QED
    BY <1>1, <2>1, FS_EmptySet
<1>3. MaxCalls \in Nat /\ MaxMoves \in Nat /\ MaxRetries \in Nat
  BY WebBounds
<1> QED
  BY <1>1, <1>2, <1>3 DEF CallsInv

LEMMA CallsStep == HookInv /\ CallsInv /\ [App]_shellVars => CallsInv'
<1> SUFFICES ASSUME HookInv, CallsInv, [App]_shellVars PROVE CallsInv'
  OBVIOUS
<1>0. visits \in Nat \ {0} /\ MaxCalls \in Nat /\ MaxMoves \in Nat /\ MaxRetries \in Nat
  BY WebBounds DEF HookInv
<1>1. /\ gateway = [rows |-> gateway.rows, version |-> gateway.version]
      /\ DOMAIN gateway.rows = CommitmentIds /\ gateway.version \in Nat \ {0}
      /\ made \in [calls : 0..MaxCalls, moves : 0..MaxMoves, retries : 0..MaxRetries]
      /\ IsFiniteSet(calls)
      /\ gateway.version + Cardinality(Sent(calls)) <= 1 + made.calls + made.moves
  BY DEF CallsInv
<1>2. \A c \in calls : CallOK(c) /\ c.mount <= visits /\ c.version <= gateway.version
  BY DEF CallsInv
<1>3. calls # {} => isRealForRoute("commitments")
  BY DEF CallsInv
<1>4. Cardinality(Sent(calls)) \in Nat
  BY <1>1, SentFacts
<1>5. ASSUME UNCHANGED <<env, gateway, calls, made>>, visits' \in {visits, visits + 1}
      PROVE  CallsInv'
  <2>1. \A c \in calls : CallOK(c) /\ c.mount <= visits' /\ c.version <= gateway.version
    BY <1>0, <1>2, <1>5 DEF CallOK
  <2> QED
    BY <1>1, <1>3, <1>5, <2>1 DEF CallsInv, isRealForRoute
<1>6. ASSUME NEW r, Retried(r) PROVE CallsInv'
  <2>1. /\ made' = [made EXCEPT !.retries = @ + 1] /\ made.retries < MaxRetries
        /\ UNCHANGED <<env, visits, gateway, calls>>
    BY <1>6 DEF Retried
  <2>2. /\ made' \in [calls : 0..MaxCalls, moves : 0..MaxMoves, retries : 0..MaxRetries]
        /\ made'.calls = made.calls /\ made'.moves = made.moves
    BY <1>0, <1>1, <2>1
  <2> QED
    BY <1>1, <1>2, <1>3, <2>1, <2>2 DEF CallsInv, isRealForRoute
<1>7. ASSUME NEW op \in {"dismiss", "snooze"}, handleAction(op) PROVE CallsInv'
  <2>1. /\ made' = [made EXCEPT !.calls = @ + 1] /\ made.calls < MaxCalls
        /\ UNCHANGED <<env, visits, gateway>> /\ isRealForRoute("commitments")
    BY <1>7 DEF handleAction
  <2>2. PICK c : calls' = calls \cup {c} /\ CallOK(c) /\ c.mount = visits /\ c.version = 0
    <3>1. PICK id : calls' = calls \cup
                {[n |-> made.calls, id |-> id, op |-> op, mount |-> visits,
                  stage |-> "sent", version |-> 0]}
      BY <1>7 DEF handleAction
    <3> DEFINE c == [n |-> made.calls, id |-> id, op |-> op, mount |-> visits,
                     stage |-> "sent", version |-> 0]
    <3>2. CallOK(c) /\ c.mount = visits /\ c.version = 0
      BY <1>0 DEF CallOK
    <3> QED
      BY <3>1, <3>2
  <2>3. /\ made' \in [calls : 0..MaxCalls, moves : 0..MaxMoves, retries : 0..MaxRetries]
        /\ made'.calls = made.calls + 1 /\ made'.moves = made.moves
    BY <1>0, <1>1, <2>1
  <2>4. /\ Cardinality(Sent(calls')) <= Cardinality(Sent(calls)) + 1
        /\ Cardinality(Sent(calls')) \in Nat /\ IsFiniteSet(calls')
    BY <1>1, <2>2, SentFacts
  <2>5. \A d \in calls' : CallOK(d) /\ d.mount <= visits /\ d.version <= gateway.version
    BY <1>0, <1>1, <1>2, <2>2
  <2>6. gateway.version + Cardinality(Sent(calls')) <= 1 + made'.calls + made'.moves
    BY <1>1, <1>4, <2>3, <2>4
  <2> QED
    BY <1>1, <2>1, <2>3, <2>4, <2>5, <2>6 DEF CallsInv, isRealForRoute
<1>8. CallLands => CallsInv'
  <2> SUFFICES ASSUME CallLands PROVE CallsInv'
    OBVIOUS
  <2>1. PICK c \in calls : calls' = calls \ {c}
    BY DEF CallLands
  <2>2. UNCHANGED <<env, visits, gateway, made>>
    BY DEF CallLands
  <2>3. /\ Cardinality(Sent(calls')) <= Cardinality(Sent(calls))
        /\ Cardinality(Sent(calls')) \in Nat /\ IsFiniteSet(calls')
    BY <1>1, <2>1, SentFacts
  <2>4. gateway.version + Cardinality(Sent(calls')) <= 1 + made.calls + made.moves
    BY <1>1, <1>4, <2>3
  <2> QED
    BY <1>1, <1>2, <1>3, <2>1, <2>2, <2>3, <2>4 DEF CallsInv, isRealForRoute
<1>9. CommitmentHandled => CallsInv'
  <2> SUFFICES ASSUME CommitmentHandled PROVE CallsInv'
    OBVIOUS
  <2> DEFINE v == gateway.version + 1
  <2>1. PICK c \in calls :
           /\ c.stage = "sent"
           /\ gateway' = [rows |-> [gateway.rows EXCEPT ![c.id] =
                                      IF c.op = "dismiss" THEN "dismissed" ELSE "pending"],
                          version |-> v]
           /\ calls' = (calls \ {c}) \cup {[c EXCEPT !.stage = "handled", !.version = v]}
           /\ UNCHANGED <<env, visits, made>>
    BY DEF CommitmentHandled
  <2> DEFINE h == [c EXCEPT !.stage = "handled", !.version = v]
  <2>2. CallOK(h) /\ h.mount = c.mount /\ h.stage = "handled" /\ h.version = v
    <3>1. v \in Nat
      BY <1>1
    <3> HIDE DEF v
    <3> QED
      BY <1>2, <3>1 DEF CallOK
  <2>3. /\ gateway' = [rows |-> gateway'.rows, version |-> gateway'.version]
        /\ DOMAIN gateway'.rows = CommitmentIds /\ gateway'.version = v
    BY <1>1, <2>1
  <2> HIDE DEF h
  <2>4. calls' = (calls \ {c}) \cup {h} /\ c \in Sent(calls)
    BY <2>1 DEF h, Sent
  <2>5. Cardinality(Sent(calls')) = Cardinality(Sent(calls)) - 1 /\ IsFiniteSet(calls')
    BY <1>1, <2>2, <2>4, SentFacts
  <2>6. \A d \in calls' : CallOK(d) /\ d.mount <= visits /\ d.version <= gateway'.version
    BY <1>0, <1>1, <1>2, <2>2, <2>3, <2>4 DEF CallOK
  <2>7. gateway'.version + Cardinality(Sent(calls')) <= 1 + made.calls + made.moves
    BY <1>1, <1>4, <2>3, <2>5
  <2> QED
    BY <1>1, <1>3, <2>1, <2>3, <2>5, <2>6, <2>7 DEF CallsInv, isRealForRoute
<1>10. SchedulerMoves => CallsInv'
  <2> SUFFICES ASSUME SchedulerMoves PROVE CallsInv'
    OBVIOUS
  <2>1. /\ made' = [made EXCEPT !.moves = @ + 1] /\ made.moves < MaxMoves
        /\ UNCHANGED <<env, visits, calls>>
    BY DEF SchedulerMoves
  <2>2. PICK id, status : gateway' = [rows |-> [gateway.rows EXCEPT ![id] = status],
                                      version |-> gateway.version + 1]
    BY DEF SchedulerMoves
  <2>3. /\ gateway' = [rows |-> gateway'.rows, version |-> gateway'.version]
        /\ DOMAIN gateway'.rows = CommitmentIds /\ gateway'.version = gateway.version + 1
    BY <1>1, <2>2
  <2>4. /\ made' \in [calls : 0..MaxCalls, moves : 0..MaxMoves, retries : 0..MaxRetries]
        /\ made'.calls = made.calls /\ made'.moves = made.moves + 1
    BY <1>0, <1>1, <2>1
  <2>5. \A d \in calls' : CallOK(d) /\ d.mount <= visits /\ d.version <= gateway'.version
    BY <1>1, <1>2, <2>1, <2>3 DEF CallOK
  <2>6. gateway'.version + Cardinality(Sent(calls')) <= 1 + made'.calls + made'.moves
    BY <1>1, <1>4, <2>1, <2>3, <2>4
  <2> QED
    BY <1>1, <1>3, <2>1, <2>3, <2>4, <2>5, <2>6 DEF CallsInv, isRealForRoute
<1>11. UNCHANGED shellVars => CallsInv'
  BY <1>5 DEF shellVars
<1>12. Navigate => CallsInv'
  BY <1>5 DEF Navigate
<1>13. LoadServed \/ LoadSettles \/ LoadFails => CallsInv'
  BY <1>5 DEF LoadServed, LoadSettles, LoadFails
<1>14. ASSUME NEW r, PageOnly(r) PROVE CallsInv'
  BY <1>5, <1>14 DEF PageOnly
<1>15. /\ CommitmentsNext => CallsInv'
       /\ AuditNext => CallsInv'
       /\ InboxNext => CallsInv'
       /\ HomeNext => CallsInv'
       /\ HealthNext => CallsInv'
  BY <1>6, <1>7, <1>14, LoadingFrames
<1>16. /\ MemoryNext => CallsInv'
       /\ SettingsNext => CallsInv'
       /\ RecipesNext => CallsInv'
       /\ SecurityNext => CallsInv'
       /\ ResearchNext => CallsInv'
  BY <1>14, StaticFrames
<1>17. /\ CommitmentsLoad => CallsInv'
       /\ AuditLoad => CallsInv'
       /\ InboxLoad => CallsInv'
       /\ HomeLoad => CallsInv'
       /\ HealthLoad => CallsInv'
  BY <1>13, LoadFrames
<1> HIDE DEF CallsInv
<1> QED
  BY <1>8, <1>9, <1>10, <1>11, <1>12, <1>13, <1>15, <1>16, <1>17, AppCases, Zenon

LEMMA Shell == WebSpec => [](HookInv /\ CallsInv)
BY HookInit, HookStep, CallsInit, CallsStep, PTL DEF WebSpec

-----------------------------------------------------------------------------
(* The commitments page. *)

(* The inductive form of CommitmentsShownFresh, of the page p, its hook h    *)
(* and the gateway's version v: the load the page is waiting for brings, and *)
(* without one the list on screen has, what the page's calls did.            *)
FreshOK(p, h, v) ==
    /\ p \in [filter : {p.filter}, pendingAction : {p.pendingAction}, mustShow : Nat]
    /\ p.mustShow <= v
    /\ h.data.version \in Nat
    /\ \A f \in h.flights : f.answer # <<>> => f.answer[1].version \in Nat
    /\ \A f \in h.flights : f.answer # <<>> /\ f.invocation = h.invocation =>
          f.answer[1].version >= p.mustShow
    /\ Idle(h) /\ h.status # "error" => h.data.version >= p.mustShow

FreshInv == route = "commitments" => FreshOK(page, load, gateway.version)

LEMMA MaxOfTwo ==
    ASSUME NEW a \in Nat, NEW b \in Nat
    PROVE  Max({a, b}) \in {a, b}
<1> DEFINE P(x) == x \in {a, b} /\ \A y \in {a, b} : x >= y
<1>1. \E x : P(x)
  <2>1. CASE a >= b
    <3>1. P(a)
      BY <2>1
    <3> QED
      BY <3>1
  <2>2. CASE ~(a >= b)
    <3>1. P(b)
      BY <2>2
    <3> QED
      BY <3>1
  <2> QED
    BY <2>1, <2>2
<1>2. Max({a, b}) = CHOOSE x \in {a, b} : \A y \in {a, b} : x >= y
  BY Zenon DEF Max
<1> QED
  BY <1>1, <1>2

(* Nothing is promised on a page that has just been mounted. *)
LEMMA FreshMounted ==
    ASSUME env \in Environments, NEW v \in Nat
    PROVE  FreshOK(Mounted("commitments"), MountedLoad("commitments", Seed("commitments")), v)
<1>1. Mounted("commitments") = [filter |-> "all", pendingAction |-> "none", mustShow |-> 0]
  BY DEF Mounted, CommitmentsMounted
<1>2. Seed("commitments").version = 0
  BY DEF Seed, CommitmentsSeedData
<1> QED
  BY <1>1, <1>2, MountedLoadFacts DEF FreshOK

LEMMA FreshInit == WebInit => FreshInv
<1> SUFFICES ASSUME WebInit, route = "commitments" PROVE FreshOK(page, load, gateway.version)
  BY DEF FreshInv
<1>1. /\ env \in Environments /\ gateway.version = 1 /\ page = Mounted("commitments")
      /\ load = MountedLoad("commitments", Seed("commitments"))
  BY DEF WebInit
<1>2. FreshOK(Mounted("commitments"), MountedLoad("commitments", Seed("commitments")), 1)
  BY <1>1, FreshMounted
<1> QED
  BY <1>1, <1>2, Zenon

LEMMA FreshStep == HookInv /\ CallsInv /\ FreshInv /\ [App]_shellVars => FreshInv'
<1> SUFFICES ASSUME HookInv, CallsInv, FreshInv, [App]_shellVars PROVE FreshInv'
  OBVIOUS
<1> DEFINE v == gateway.version
           Fresh == FreshOK(page, load, v)
<1>0. env \in Environments /\ HookOK(load) /\ v \in Nat
  BY DEF HookInv, CallsInv
<1>1. route = "commitments" => Fresh
  BY DEF FreshInv
<1>2. ASSUME UNCHANGED <<route, page, load>>, gateway'.version \in Nat, gateway'.version >= v
      PROVE  FreshInv'
  <2>1. CASE route = "commitments"
    <3>1. FreshOK(page, load, gateway'.version)
      BY <1>0, <1>1, <1>2, <2>1 DEF FreshOK
    <3> QED
      BY <1>2, <3>1 DEF FreshInv
  <2> QED
    BY <1>2, <2>1 DEF FreshInv
<1>3. ASSUME NEW r, route = r, route' = route, r # "commitments" PROVE FreshInv'
  BY <1>3 DEF FreshInv
<1>4. UNCHANGED shellVars => FreshInv'
  BY <1>0, <1>2 DEF shellVars
<1>5. Navigate => FreshInv'
  <2> SUFFICES ASSUME Navigate, route' = "commitments" PROVE FreshOK(page', load', gateway'.version)
    BY DEF FreshInv
  <2> QED
    BY <1>0, FreshMounted DEF Navigate
<1>6. ASSUME route = "commitments", LoadServed PROVE FreshInv'
  <2>1. PICK f \in load.flights, a \in Answers(route) : load' = Served(load, f, a)
    BY <1>6 DEF LoadServed
  <2>2. a.version = v
    BY <1>6, <2>1 DEF Answers, CommitmentsList
  <2> DEFINE g == [invocation |-> f.invocation, answer |-> <<a>>]
  <2>3. /\ load'.status = load.status /\ load'.data = load.data
        /\ load'.invocation = load.invocation /\ load'.flights = (load.flights \ {f}) \cup {g}
        /\ Idle(load') <=> Idle(load)
    BY <1>0, <2>1, ServedFacts
  <2>4. g.answer[1] = a
    OBVIOUS
  <2> HIDE DEF g
  <2>5. FreshOK(page, load', v)
    BY <1>0, <1>1, <1>6, <2>2, <2>3, <2>4 DEF FreshOK
  <2> QED
    BY <1>6, <2>5 DEF FreshInv, LoadServed
<1>7. ASSUME route = "commitments", LoadSettles, page' = page PROVE FreshInv'
  <2>1. PICK f \in load.flights : f.answer # <<>> /\ load' = resolve(load, f)
    BY <1>7 DEF LoadSettles
  <2>2. load'.invocation = load.invocation /\ load'.flights = load.flights \ {f}
    BY <1>0, <2>1, ResolveFacts
  <2>3. CASE IsCurrent(load, f)
    <3>1. load'.data = f.answer[1]
      BY <1>0, <2>1, <2>3, ResolveFacts
    <3>2. FreshOK(page, load', v)
      BY <1>1, <1>7, <2>1, <2>2, <2>3, <3>1 DEF FreshOK, IsCurrent
    <3> QED
      BY <1>7, <3>2 DEF FreshInv, LoadSettles
  <2>4. CASE ~IsCurrent(load, f)
    <3>1. load'.data = load.data /\ load'.status = load.status /\ (Idle(load') <=> Idle(load))
      BY <1>0, <2>1, <2>4, ResolveFacts
    <3>2. FreshOK(page, load', v)
      BY <1>1, <1>7, <2>2, <3>1 DEF FreshOK
    <3> QED
      BY <1>7, <3>2 DEF FreshInv, LoadSettles
  <2> QED
    BY <2>3, <2>4
<1>8. LoadFails => FreshInv'
  <2> SUFFICES ASSUME LoadFails, route = "commitments" PROVE FreshInv'
    BY <1>3 DEF LoadFails, FreshInv
  <2>1. PICK f \in load.flights : load' = reject(load, f)
    BY DEF LoadFails
  <2>2. /\ load'.invocation = load.invocation /\ load'.flights = load.flights \ {f}
        /\ load'.data = load.data
        /\ load'.status # "error" => load'.status = load.status /\ (Idle(load') <=> Idle(load))
    BY <1>0, <2>1, RejectFacts
  <2>3. FreshOK(page, load', v)
    BY <1>1, <2>2 DEF FreshOK
  <2> QED
    BY <2>3 DEF FreshInv, LoadFails
<1>9. ASSUME NEW p, route = "commitments", isRealForRoute("commitments"),
             p \in [filter : {p.filter}, pendingAction : {p.pendingAction}, mustShow : Nat],
             p.mustShow <= v
      PROVE  FreshOK(p, Reloaded("commitments", load), v)
  <2> DEFINE h == run(load)
  <2>1. Reloaded("commitments", load) = h
    BY <1>9 DEF Reloaded
  <2>2. /\ h.data = load.data /\ h.invocation = load.invocation + 1
        /\ h.flights = load.flights \cup {[invocation |-> load.invocation + 1, answer |-> <<>>]}
        /\ \A f \in h.flights : f.invocation = h.invocation => f.answer = <<>>
        /\ ~Idle(h)
    BY <1>0, RunFacts
  <2>3. \A f \in h.flights : f.answer # <<>> => f \in load.flights
    BY <2>2
  <2> HIDE DEF h
  <2>4. FreshOK(p, h, v)
    BY <1>1, <1>9, <2>2, <2>3 DEF FreshOK
  <2> QED
    BY <2>1, <2>4
<1>10. ASSUME RouteError("commitments", page) PROVE FreshInv'
  <2>1. /\ route = "commitments" /\ route' = route /\ page' = page
        /\ load' = Reloaded("commitments", load) /\ gateway' = gateway
    BY <1>10 DEF RouteError
  <2>2. CASE isRealForRoute("commitments")
    <3>1. /\ page \in [filter : {page.filter}, pendingAction : {page.pendingAction}, mustShow : Nat]
          /\ page.mustShow <= v
      BY <1>1, <2>1 DEF FreshOK
    <3>2. FreshOK(page, Reloaded("commitments", load), v)
      BY <1>9, <2>1, <2>2, <3>1
    <3> QED
      BY <2>1, <3>2 DEF FreshInv
  <2>3. CASE ~isRealForRoute("commitments")
    <3>1. load' = load
      BY <2>1, <2>3 DEF Reloaded
    <3> QED
      BY <1>0, <1>2, <2>1, <3>1
  <2> QED
    BY <2>2, <2>3
<1>11. ASSUME NEW op, handleAction(op) PROVE FreshInv'
  <2>1. PICK id : page' = [page EXCEPT !.pendingAction = id]
    BY <1>11 DEF handleAction
  <2>2. route = "commitments" /\ UNCHANGED <<route, load, gateway>>
    BY <1>11 DEF handleAction, Shown
  <2>3. FreshOK(page', load, v)
    BY <1>1, <2>1, <2>2 DEF FreshOK
  <2> QED
    BY <2>2, <2>3 DEF FreshInv
<1>12. setCommitmentsFilter => FreshInv'
  <2> SUFFICES ASSUME setCommitmentsFilter PROVE FreshInv'
    OBVIOUS
  <2>1. PICK fl : page' = [page EXCEPT !.filter = fl]
    BY DEF setCommitmentsFilter, PageStep
  <2>2. route = "commitments" /\ UNCHANGED <<route, load, gateway>>
    BY DEF setCommitmentsFilter, PageStep, Shown
  <2>3. FreshOK(page', load, v)
    BY <1>1, <2>1, <2>2 DEF FreshOK
  <2> QED
    BY <2>2, <2>3 DEF FreshInv
<1>13. CommitmentsNext => FreshInv'
  BY <1>10, <1>11, <1>12 DEF CommitmentsNext, handleDismiss, handleSnooze
<1>14. CallLands => FreshInv'
  <2> SUFFICES ASSUME CallLands PROVE FreshInv'
    OBVIOUS
  <2>1. PICK c \in calls, ok \in BOOLEAN : CallSettled(c, ok)
    BY DEF CallLands
  <2>2. c.version \in Nat /\ c.version <= v /\ isRealForRoute("commitments")
    BY DEF CallsInv, CallOK
  <2>3. route' = route /\ gateway' = gateway
    BY DEF CallLands
  <2>4. CASE route = "commitments" /\ c.mount = visits
    <3> DEFINE m == IF ok THEN Max({page.mustShow, c.version}) ELSE page.mustShow
           q == [page EXCEPT !.pendingAction = "none", !.mustShow = m]
    <3>1. /\ page \in [filter : {page.filter}, pendingAction : {page.pendingAction}, mustShow : Nat]
          /\ page.mustShow <= v
      BY <1>1, <2>4 DEF FreshOK
    <3>2. m \in Nat /\ m <= v
      BY <2>2, <3>1, MaxOfTwo
    <3>3. page' = q /\ load' = Reloaded("commitments", load)
      BY <2>1, <2>4 DEF CallSettled
    <3> HIDE DEF m
    <3>4. /\ q \in [filter : {q.filter}, pendingAction : {q.pendingAction}, mustShow : Nat]
          /\ q.mustShow <= v
      BY <3>1, <3>2
    <3> HIDE DEF q
    <3>5. FreshOK(q, Reloaded("commitments", load), v)
      BY <1>9, <2>2, <2>4, <3>4
    <3> QED
      BY <2>3, <3>3, <3>5 DEF FreshInv
  <2>5. CASE ~(route = "commitments" /\ c.mount = visits)
    BY <1>0, <1>2, <2>1, <2>3, <2>5 DEF CallSettled
  <2> QED
    BY <2>4, <2>5
<1>15. CommitmentHandled => FreshInv'
  <2> SUFFICES ASSUME CommitmentHandled PROVE FreshInv'
    OBVIOUS
  <2>1. gateway'.version = v + 1 /\ UNCHANGED <<route, page, load>>
    BY DEF CommitmentHandled
  <2> QED
    BY <1>0, <1>2, <2>1
<1>16. SchedulerMoves => FreshInv'
  <2> SUFFICES ASSUME SchedulerMoves PROVE FreshInv'
    OBVIOUS
  <2>1. gateway'.version = v + 1 /\ UNCHANGED <<route, page, load>>
    BY DEF SchedulerMoves
  <2> QED
    BY <1>0, <1>2, <2>1
<1>17. CommitmentsLoad => FreshInv'
  <2>1. Resolves("commitments", LAMBDA data : page) =>
           route = "commitments" /\ LoadSettles /\ page' = page
    BY DEF Resolves, LoadSettles
  <2>2. Read("commitments", {CommitmentsList}) => route = "commitments" /\ LoadServed
    BY DEF Read, LoadServed, Answers
  <2> QED
    BY <1>6, <1>7, <2>1, <2>2 DEF CommitmentsLoad
<1>18. /\ AuditLoad => FreshInv'
       /\ InboxLoad => FreshInv'
       /\ HomeLoad => FreshInv'
       /\ HealthLoad => FreshInv'
  BY <1>3, LoadFrames DEF LoadServed, LoadSettles
<1>19. /\ AuditNext => FreshInv'
       /\ InboxNext => FreshInv'
       /\ HomeNext => FreshInv'
       /\ HealthNext => FreshInv'
  BY <1>3, LoadingFrames DEF PageOnly, Retried
<1>20. /\ MemoryNext => FreshInv'
       /\ SettingsNext => FreshInv'
       /\ RecipesNext => FreshInv'
       /\ SecurityNext => FreshInv'
       /\ ResearchNext => FreshInv'
  BY <1>3, StaticFrames DEF PageOnly
<1> HIDE DEF FreshInv
<1> QED
  BY <1>4, <1>5, <1>8, <1>13, <1>14, <1>15, <1>16, <1>17, <1>18, <1>19, <1>20, AppCases, Zenon

(* A list of the gateway's that is on screen with nothing in flight shows    *)
(* every dismiss and snooze the page made and the gateway acknowledged,      *)
(* whatever loads, retries and calls overlapped (useRouteData's invocation   *)
(* check; the finally of handleDismiss and handleSnooze).                    *)
THEOREM CommitmentsFresh == WebSpec => []CommitmentsShownFresh
<1>1. FreshInv => CommitmentsShownFresh
  BY DEF FreshInv, FreshOK, Idle, CommitmentsShownFresh, Shown
<1> QED
  BY <1>1, Shell, FreshInit, FreshStep, PTL DEF WebSpec
=============================================================================
