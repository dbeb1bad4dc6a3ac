# IronGolem OS: TLA+ models and proofs

IronGolem OS is a personal-assistant platform. A Go gateway takes messages from connectors and
HTTP, turns them into plans, has a Rust child process (`runtimed`) execute them, and keeps
commitments, approvals, policies and audit findings in SQLite; a React application shows them,
and a TypeScript SDK holds plugins. This project models the parts of it where the order of events
matters, checks them with TLC and proves their main invariants with TLAPS. Paths below are
relative to `src/`.

Contents: 1 inventory, 2 modules and code, 3 runs, 4 bounds, 5 fairness, 6 proofs, 7 findings,
8 what is left out, 9 plan.

## 1. Inventory

| Component | State | Operations | Interacts with |
|---|---|---|---|
| Runtime client, `services/gateway/internal/runtime/client.go` | pending map, outbound channel, client state, crash counter, the child's pipes | Execute, LlmCall, Ping, ListProviders, Close; writer, reader and supervisor goroutines | `runtimed` by NDJSON over stdin and stdout; called by handlers, planner, extractor |
| `runtimed` main loop, `runtime/runtimed/src/main.rs`, `loop_io.rs` | in-flight tasks | parse a line, answer inline, spawn a task, shut down and drain | the client; the plan engine |
| Plan engine, `runtime/workflow/src/engine.rs`, `core/src/plan.rs`, `runtimed/src/executor.rs` | node statuses, outputs, event log | execute a plan, execute a step per node kind, verify | tools, models, checkpoints |
| Commitments, `services/gateway/internal/commitments` | rows (status, window), event log | Enqueue/Insert, DueNow, MarkSent, ExpireOverdue, dismiss, snooze, delete | inbound messages, the connectors, SQLite |
| Connector manager, `services/gateway/internal/connector` | health state, last heartbeat, missed beats, registered sources and their pumps | Connect, Disconnect, RecordHeartbeat, RegisterSource, health check, DisconnectAll | connectors, inbound handling, HTTP routes |
| Inbound handling, `internal/handler/handler.go`, `internal/planner` | none of its own | HandleInbound: plan, execute, wait, answer | client, connector manager, commitments |
| Approvals, `internal/handler/approvals.go` | approval rows | approve, deny, list | SQLite, users |
| Audit runtime, `internal/audit` | findings | probes, open/resolve | SQLite |
| Middleware and policy, `internal/middleware`, `internal/policy` | layered rules | allow or deny a request | every route |
| Connectors, `connectors/` | worker status | poll, back off, send | remote services |
| Checkpoints, `runtime/checkpoints` | git store | take, restore, prune | plan engine |
| Deferred services, `services/_deferred` | in-memory registries | scheduler, health, defense, optimizer, research, tenancy, fleet | not in the gateway's build |
| Web data loading, `apps/web/src/lib` | per mounted page: status, data, invocation counter, loads in flight | mount, reload, resolve, reject, cleanup | gateway over HTTP; every page with live data |
| Web pages, `apps/web/src/pages/v2` | ten pages: lists, filters, drawers, an edit buffer, undo slots and timers; the document's scroll lock is shared | one handler per control | the loader; dismiss and snooze calls; navigation |
| Plugin SDK, `packages/plugin-sdk` | records and instances by id, hook entries | register, unregister, activate, deactivate, enable, disable; hook register, unregisterPlugin, trigger | a host (none exists yet), plugin code |
| Other front ends and packages | view state, declarations | none that change state elsewhere | gateway |

What is hard in this code:

* *Runtime client.* Four goroutines and any number of callers share a map and a channel; the
  child may die with requests anywhere between the channel and an unread line of its stdout.
  Correct: a request is settled once, run at most once, never forgotten; the gateway never
  panics; a crash is noticed; Close ends.
* *Plan engine.* Plans come over the wire with any graph and any statuses. Correct: a step runs
  after its dependencies, one at a time, nothing after a failure; the response agrees with the
  log; the engine answers.
* *Commitments.* A ticker works through a snapshot while users change the rows, every SQL
  statement commits by itself, and the gateway may die between the message and the UPDATE.
  Correct: sent means delivered; a repeat has a reason; a dismissal takes effect; expiry events
  tell the truth; nothing is pending for ever; one pending row per promise.
* *Connector manager.* The health loop, pumps, HTTP routes and shutdown interleave, and
  Disconnect gives up the lock between the map and the cancel. Correct: a health state is true;
  no pump outlives its registration unnoticed; shutdown ends.

* *Web application.* A page may have several loads in flight (StrictMode runs each mount effect
  twice, a call reloads the list when it ends, the user retries), answers come in any order or
  not at all, and a call outlives the page that made it. Correct: the list on screen shows what
  this page's calls did; a decision or a draft stays with its item; every load settles; a locked
  row is unlocked; what pages share (the scroll lock) is given back.
* *Plugin SDK.* Lifecycle calls and pipelines await plugin code while the host goes on calling.
  Correct: only granted permissions are registered; a result is written to the plugin it is
  about; a pipeline runs what it found, in order.

`PROJECT.json` lists every component with its status and every hazard at its line.

## 2. Modules and the code they model

**`RuntimeClient`** models the client and the child as one system, because each property is
about both.

| Variables | Code |
|---|---|
| `state`, `sup`, `attempts` | `clientState`, the program point and crash counter of `supervise` |
| `writer`, `reader`, `hold` | the goroutines of the current child; `hold` is the `pr` that `deliverEvent` looked up before it released `pendingMu` |
| `outbound`, `pending`, `result`, `call` | the channel, the map's keys, what was sent on `pr.done`, where the caller is |
| `child`, `inbox`, `task`, `stdout` | the process, its pipes, its tasks |
| `closer`, `panicked` | Close's progress; the gateway died of a Go panic |
| `respawns`, `runs` | history: children started, starts per request |

Actions end where the code releases a lock, blocks or hands over. Callers: `register`, `Admit`,
`send`, `SendFails`, `Return`, `GiveUp`, `AbandonInbound` (HandleInbound's timeout, which leaves
the entry in the map). Writer: `runWriter`, `WriterStops`. Reader: one action per kind of line,
`deliverEvent` in two steps, the 1 MB scanner limit, EOF. Child: the line loop, rejection with
the nil id, inline answers, tasks, shutdown, crash. Supervisor: every wait, `failAllPending`, the
budget, respawn and its failure. Message contents are abstracted to the id and the kind of line.

**`RequestContract`** is what a caller may rely on, without goroutines or pipes: a request is
refused or opened, started at most once, answered only after a start, failed, or dropped by a
caller that gave up. `RuntimeClient` implements it with `Contract == INSTANCE RequestContract`,
where `Observed(r)` reads the request's state from the map, the result and the caller.

**`PlanEngine`** models one `ExecutePlanRequest`: `Begin`, `SkipNode` (the `continue` on unmet
dependencies), `StartNode`, `StepCompletes`, `StepFails`, `Finish`, `Respond`. Node ids are
positions in `plan.nodes`; outputs are none, empty or a value, which is all that
`NonEmptyVerifier` tells apart. Tools and models may succeed, fail or return nothing.

**`Commitments`** models the store, one action per SQL statement, the ticker (`DueNow`,
`Dispatch`..., `MarkSent`, `EmitFired`, `ExpireSelect`, `ExpireUpdate`, `EmitExpired`, and the
failures of each), `Enqueue` goroutines in two statements, the user's `MarkDismissed`,
`MarkSnoozed` and `Delete`, the clock, and a `Crash` that keeps rows, messages and events and
loses goroutines. `expirations`, `renewals` and `late` are history variables; `expirations` and
`expiredEvents` are totals, since the events may name other rows than the ones that expired
(section 7).

**`ConnectorManager`** models `states` (`health`, `age`, `missed`), the health check loop, one
pump per source (open, receive, handle, record the heartbeat, end), the Telegram adapter's
goroutine and its bounded channel, Connect and Disconnect (map and cancel in two steps) and the
boot, serve and shutdown phases of `main`. Time is the age of the last heartbeat in periods of
the health check, saturated one period after `DegradedTimeout`.

**`RouteData`** is the `useRouteData` hook as a record and operators on it: `run` (also
`reload`), the mount effect with StrictMode's second run, its cleanup, `resolve`, `reject` and
`IsCurrent`, the comparison with `invocationRef` that everything rests on. A load in flight is
its invocation number and the answer the gateway has given, if any: the gateway reads when it
answers, the page learns of it later.

**`WebShell`** holds what all pages share: the build's environment (mock or real per route, base
URL, token, StrictMode), the mounted route, its hook and state, the document's scroll lock, the
gateway's commitments table and the calls in flight. `request` is what the gateway does with a
path and a token: 401 without one, 404 for a path it does not serve. `Read`, `Resolves`,
`LoadFails` and `RouteError` are the life of a load; a page supplies the answers and the effect
that copies them. `CommitmentHandled` is the gateway's side of dismiss and snooze, and
`SchedulerMoves` its ticker as a page sees it (the ticker itself is `Commitments`).

**`CommitmentsPage`, `AuditPage`, `InboxPage`, `HomePage`, `HealthPage`, `MemoryPage`,
`SettingsPage`, `RecipesPage`, `SecurityPage`, `ResearchPage`** are the ten pages: one operator
per handler, named after it, enabled for what the page shows (`applyChip`, `Timeline`,
`MemoryCards`, `applyFilters`...) and for the buttons it offers there (`CommitmentCard`,
`DetailDrawer`, `EventRow`...). Items keep the fields that decide what is offered; texts, icons,
toasts and layout are left out. `mustShow`, `decided` and `closedBy` are history.

**`WebApp`** composes them: navigation unmounts a page with its load and mounts another, calls go
on. `Navigate` releases the scroll lock the way the effects' cleanups do.

**`PluginRegistry`** models `PluginRegistry` and `HookManager` under a host that does not wait.
A registration is an object with an identity (its position in `records`), so that a call that
holds a record across an await can be told from one that looks it up again. A pipeline keeps the
entries it found, those it has run, the results and the payload; handlers continue, abort,
modify or throw. `activated` and `owed` are history.

**`Arrays`** is JavaScript's `Array.prototype.filter`, which the SDK and the Inbox and Memory pages
use on their lists: the entries at the kept indices, in their order.

`MC*` modules give constants their values. `*Proofs` modules hold theorems. Definitions marked
*Mutant* or *Mutated form* in a comment are plausible bugs; `PROJECT.json` says which property each one breaks.

## 3. Runs

| Run | Result | Shows |
|---|---|---|
| `client_crash` | pass | Two Execute calls and a model call with a rejected envelope, through every crash up to a spent budget: `AtMostOnce`, `NoRequestForgotten`, `NoPanic`, `DeadIsFinal`, `SettledOnce` |
| `client_close` | pass | A full channel, an oversized response, failing respawns and Close at any time: `KeepsContract` (refinement) and the liveness properties `PlainCallsReturn`, `CloseCompletes`, `CrashNoticedWithTraffic` |
| `client_hang` | violation | `CrashSettlesInFlight`, finding 1 |
| `client_respawn` | violation | `NoPanic` with failing respawns, finding 2 |
| `plan_engine` | pass | Every small plan: `DependenciesFirst`, `StrictSequence`, `ResponseFaithful`, `VerifiedHasOutput`, `OrderedPlansTerminate` |
| `plan_dag` | violation | `AcyclicPlansTerminate`, finding 3 |
| `commitments` | pass | Two rows with one key under ticks, users, failures and a crash: `SentWasDelivered`, `RepeatsExplained`, `DismissTakesEffect`, `ExpiredCountHonest`, and `PendingResolves`: no row is pending for ever, with due batches of one row |
| `commitments_dedupe` | violation | `OnePendingPerKey`, finding 4 |
| `connectors` | pass | `HealthHonest`, `NoPumpLost`, `ShutdownCompletes`, `RecoveringResolves`, `DeadPumpSurfaces` |
| `connectors_drift` | violation | `MessageIsHeartbeat`, finding 5 |
| `web_app` | pass | Ten pages in four builds, with lost and late answers, retries and calls that outlive their page: `CommitmentsShownFresh`, `LiveDecisionsKept`, `InboxDraftOwn`, `MemoryNothingLost`, `ScrollLockFollowsDrawer`, `SettingsUndoTimely`, `ButtonsUnlock`, `LoadsSettle` |
| `plugins` | pass | Any order of five host calls, replies in any order: `PluginTypeOK` (deny by default), `RunningWasActivated`, `TriggerFaithful` |

Deadlock is not checked: each system may stop (the client is dead or closed, the plan is
answered, the clock has reached its bound, the gateway has shut down, the user or the plugin
host has nothing more to do). The liveness properties
say which stops are good ones.

## 4. Bounds

* *Client.* Three requests in `client_crash`: a crash is noticed only when there is traffic, so
  each restart costs a message and three requests reach exactly a budget of 3. Two children with
  old and new requests at once, a channel with room and a full one all occur. `client_close` has
  capacity 1 so that senders and Close meet a full channel, and a budget of 2. Execute calls are
  symmetric in `client_crash`, which checks no liveness.
* *Plans.* All plans of up to two nodes over all kinds, dependencies on an earlier, later, same
  or unknown node and Verify targets; all graphs of three nodes, which is where a node can be
  passed over for its dependency's dependency.
* *Commitments.* Two rows with one key whose windows overlap; a clock of 0..3 with a grace of 1
  lets both open, close and expire; one snooze and one crash. A due batch has one row, so that one
  row can stand in front of the other; an expiry batch has two, so that one can change in between.
* *Connectors.* One connector with a pump and one without; 2 and 3 periods for the timeouts (3
  and 12 in the code), which keeps healthy, degraded and disconnected apart; a channel of 2.
* *Web application.* Four builds: all mock; all real with StrictMode; commitments and audit real
  in production; the same without a token. Pages without live data are visited in the first, and
  each page is left once; the commitments page, whose calls outlive it, is left and come back to
  (`MayVisit`). One gateway row, two calls, one move of the scheduler and one retry put three
  loads and more in flight at once, which is where an older answer can come last. Settings' 30 and 7 days are 2
  and 1 ticks of a clock of 3: a banner can replace one that would end earlier, and both can end.
  Seeds have one entry of each kind the handlers tell apart.
* *Plugins.* Five host calls: enough to activate a plugin, replace it and activate its successor
  with both calls open, and to register three hooks around a pipeline. Handlers and replies are
  not bounded.

## 5. Fairness

Weak fairness is given to what a scheduler or a deadline guarantees: goroutines and tokio tasks
that are able to run, callers whose contexts have deadlines, the ticker and the clock.

* *Client.* Nothing is assumed of plans or model calls, of the child's staying alive, of its
  crashing, or of anybody calling Close. The child reads its lines and ends after its stdin is
  closed and its tasks are done; Close is finished once begun.
* *Plan engine.* `WF(Next)`: tools and model calls end, one way or the other.
* *Commitments.* The ticker and the clock go on; the two statements of ExpireOverdue are strongly
  fair, that is, the database does not fail each time for ever. Nothing is assumed of dispatches,
  users or Enqueue.
* *Connectors.* The health check runs once per period (it is a local loop with no blocking
  call), pumps and the shutdown's goroutines run. Nothing is assumed of messages, heartbeats,
  routes or remote ends.
* *Web application.* A fetch of the browser is answered or fails (`Loads`, `CallLands`); the
  network stack has timeouts, and a failure is always a possible outcome. Nothing is assumed of
  users, of the scheduler, or that any answer is a success.
* *Plugins.* No liveness is stated: a plugin's promise may never settle, and nothing in the SDK
  bounds it.

## 6. Proofs

All theorems hold for every value of the constants that satisfies the named assumptions.

**`RuntimeClientProofs`** (from `ConstantsAssumption`: request kinds are disjoint, capacity and
budget positive). `TypeCorrect`, `AtMostOnceHolds`, `NothingForgotten`, `DeadLeavesNothing`,
`SettledOnceHolds`, `CrashNeverPanics`, `ContractKept`. The stated invariants are not inductive.
`Structure` ties the supervisor's program point to the crash counter, the number of children
started and the goroutines that are left. `Settlement` ties the map to results and callers: a
request in the map is registered and not settled. `Tokens` says that a request waits in the channel or in the child's stdin at most once, in one
of them only, and only before it was started, which gives at-most-once over restarts. `Custody` accounts for each entry of the
map, which gives `NoRequestForgotten`. `HoldFresh` says that the request `deliverEvent` holds is
still open; it is true only where nobody fails requests beside the reader, so `CrashNeverPanics`
assumes that Close is not called and respawns succeed. Both assumptions are needed (finding 2,
and section 8 on Close). `ContractKept` shows that the initial states agree and that each action
is a step of `RequestContract` or leaves `Observed` alone.

**`PlanEngineProofs`** (from `PlansAssumption`: plans are sequences of nodes, and a pending node
has no output). `TypeCorrect`, `DependenciesFirstHolds`, `StrictSequenceHolds`,
`ResponseFaithfulHolds`, `VerifiedHasOutputHolds`. The inductive invariant adds to the types that
a node completed here is logged as such (`CompletedLogged`), a started node is no longer pending
(`StartedLeft`), what the last event was at each program point (`LastEvent`, `Progress`), that
outputs are written only while their node runs (`OutputLast`), and that the current node is the
running one (`CurRuns`). Without these the log's order cannot be derived from the statuses.

**`ConnectorManagerProofs`** (from `TimeoutsAssumption`: the first timeout is at least two
periods and below the second). `TypeCorrect`, `HealthHonestHolds` (with
`RecoveringYoung`: while the check runs, a recovering connector's heartbeat is at most one period
old, so that it is promoted before it can miss a beat), `NoPumpLostHolds` (with `ClosingOnce`: what DisconnectAll took from the map is in nobody else's
hands and belongs to the shutdown phase).

**`CommitmentsProofs`** (from `WindowsAssumption`: finitely many rows, as any table has, windows in
the naturals with an end, positive batches). `TypeCorrect`, `SentTruthful`, `RepeatsHaveReasons`,
`DismissHolds`, `ExpiredCountsHonest`. All of them need `QueueInv`: the tick's snapshot names no row
twice and only rows that were inserted, which rests on lemmas about the batch a SELECT returns
(`DueNowFacts`, `SnapshotFacts`, `StillPendingFacts`), and on `InsertInv`: a row is absent until its
INSERT. `SentInv` adds that between the message and `EmitFired` the row has one message more than
events. `RepeatsInv` and `DismissInv` extend the count from pending rows to the rows that wait in
the snapshot (`Waiting`), which a user may have changed since the SELECT: that is where a message can
follow a dismissal, and why at most one can.

**`PluginRegistryProofs`** (from `PluginInputs`). `PluginTypes`, `RunningIsOwn`, `TriggersFaithful`.
`RegistryInv` says that the map leads to a record of that id, that every record passed the two
checks, and that a call in flight holds a record that exists; `AllowedWasGranted` turns the checker's
merged map back into the host's grants. `RunningInv` is about all records, replaced ones included,
because a late reply may still write to them. `HooksInv` keeps the entries sorted by priority and
age (`InsertSorted`, `FilterSorted`), and `PipelineInv` makes what a pipeline has run a prefix of
what it found, cut short only by a result that stops its hook type (`Stops`).

**`ArraysProofs`**: what `Filter` returns. It has as many entries as indices are kept (`PlaceFacts`
counts them without induction, by a bijection with an interval) and picks them in increasing order
(`OrderedPick`), so it preserves order and uniqueness.

**`WebShellProofs`** and **`WebPagesProofs`** are about the whole of `WebApp` (from the bounds and
from what each page assumes of its mock and of the gateway's answers: `WebBounds`, `InboxInputs`,
`HomeInputs`, `HealthInputs`, `MemoryInputs`, `SettingsBounds`, `RecipeInputs`, `ResearchInputs`,
`PoliciesHaveStates`). `CommitmentsFresh`, `DecisionsKept`, `InboxDraftsOwn`,
`MemoryKeepsAll`, `ScrollLockFollows`, `WebTypes`, and the action property `UndoTimely`.

* The hook first: `RunFacts`, `MountFacts`, `ServedFacts`, `ResolveFacts` and `RejectFacts` say what
  the operators of `RouteData` do to a well-formed hook. `HookInv` (invocations are unique, a
  loading hook has its load in flight) and `CallsInv` (a version of the table was made by a call or
  a move that is counted) follow. `AppCases` and the frame lemmas say what each kind of step leaves
  alone, so that a page's proof is about its own handlers.
* `CommitmentsFresh` rests on `FreshInv`: the load the page listens to brings what its calls did, and
  without one the list on screen has it. `CommitmentsShownFresh` alone is not inductive, since it
  says nothing while a load runs.
* `LoadsInv`: on a page that copies its load, the gateway's data, once there, is there with nothing
  to listen to; only an error offers a reload. Hence the effect that replaces a list runs with the
  seed on screen, and no decision on live data can be lost.
* `PagesInv` has the state of the mounted page (`InboxOK`, `HomeOK`, `MemoryOK`, ...), established by
  mounting it and kept by its handlers and its effect, and the scroll lock. On the inbox the buffer
  belongs to the selected item while it is edited, unless a load has replaced the list; then no item
  has a draft and nothing can be saved (`BufferOwn`). On the home page every event with a decided id
  shows the decision, so none of them is offered again. On the memory page the two lists share no id
  and their lengths add up to the seed's. On the settings page only the visible banner's timer runs
  (`BannerOK`).

Every invariant and every action property of the passing runs is stated by a theorem, the
refinement included. `NoPanic` is proved under the two assumptions named above.

Only model-checked: the liveness properties `PlainCallsReturn`, `CloseCompletes`,
`CrashNoticedWithTraffic`, `OrderedPlansTerminate`, `PendingResolves`, `ShutdownCompletes`,
`RecoveringResolves`, `DeadPumpSurfaces`, `ButtonsUnlock` and `LoadsSettle`, because they need
fairness and ENABLED, which this prover does not handle; and what happens with Close or failing
respawns beyond the contract.

## 7. Findings

1. *A crash does not settle requests in flight* (`client.go:248`, `client_hang`). The supervisor
   waits for a writer that leaves its `select` only for a message or for stop; `client.go:290`
   says it exits when stdin closes, and `client.go:654` that `Done` returns when the child
   crashes. The next message repairs it: `CrashNoticedWithTraffic` holds.
2. *A failed respawn panics* (`client.go:283`, `client_respawn`). `continue` starts goroutines on
   nil handles; the comment above it announces another attempt.
3. *An acyclic plan may never be answered* (`engine.rs:58`, `plan_dag`). The first pending node
   is picked again and again while its dependency, listed later, waits. Plans in dependency order
   end (`OrderedPlansTerminate`).
4. *Two pending rows for one promise* (`store.go:148`, `commitments_dedupe`). SELECT and INSERT
   are two statements without a transaction or a unique index, run by a goroutine per message.
5. *A quiet connector stays disconnected* (`manager.go:340`, `connectors_drift`). After
   `DegradedTimeout` the messages of its running pump no longer count as heartbeats, although
   `manager.go:218` records them so that a healthy producer does not drift.

Five places where a comment says more than, or something other than, what the code does. The
properties of the passing runs claim what the code keeps; the comment's own claim is refuted by a
behaviour of the same model.

6. *One re-spawn fewer than announced* (`client.go:253`, `DeadIsFinal`). The budget counts exits
   of the child, the first one's included, so the default of 5 gives four re-spawns after 1, 2, 4
   and 8 s; `client.go:13-14` says "up to 5 attempts with backoff 1,2,4,8,16s". A dead client has
   `respawns < attempts`.
7. *The output of a plan whose last node did not complete* (`loop_io.rs:57`, `ResponseFaithful`).
   The code takes the last node listed; the comment above it says "the last completed node". They
   differ when the last node was received as skipped or failed: then an earlier node's output is
   not returned. `ResponseFaithful` claims the output only where they agree.
8. *A dismissed commitment can still be sent* (`runtime.go:129`, `DismissTakesEffect`). The tick
   goes through its snapshot without reading the status again, so a row dismissed before its
   dispatch begins is fired; `types.go:22` says "dismiss (don't fire)". What the code keeps is that
   at most one message follows, and none from a later tick.
9. *DegradedTimeout is measured from the last heartbeat* (`manager.go:434`, `HealthHonest`), so
   that a connector is degraded for the difference of the two timeouts (about 90 s);
   `manager.go:77-78` calls it "how long a connector can stay degraded". The message and the log
   line beside the code speak of prolonged silence, as the code does.
10. *A handler that throws ends a pipeline of any type* (`hooks.ts:118`, `TriggerFaithful`), and
   the results collected so far are lost; `hooks.ts:103-104` calls all types but before_action
   "fire-and-forget". An abort ends a before_action pipeline only.

Observations that no run states as a property, all of them behaviours of the models:

* *Expiry events may name the wrong row* (`store.go:343`). When a row changed between the SELECT
  and the UPDATE, the snapshot is cut from its tail by a count. The number of events is right
  (`ExpiredCountHonest`).
* *The real mode is unreachable as shipped.* Nothing calls `configure` of `api.ts`, so there is
  no token and every live request is a 401; with the default base `/api/v1` the paths of
  commitments and audit (`/v2/...`) are 404s, since the gateway serves `/api/v2`. `web_app`
  includes builds where both are right, to have something to check.
* *The seed can be acted on while the first load runs*, and after Retry; decisions taken on it are
  lost when the live list lands. `RouteError.tsx:43` speaks of mock data being hidden.
  `LiveDecisionsKept` is therefore about the gateway's items only.
* *Commitments page.* One slot holds the row being acted on: acting on a second row unlocks the
  first, and the first call to land unlocks the second. The gateway writes dismiss and snooze
  whatever the status is, so the last one wins.
* *Inbox.* Approving while editing drops the edit. *Home.* Reset puts the mock events back in real
  mode too; the drawer shows the event as it was when it was opened. *Memory.* Only the last
  forgotten fact can be restored. *Settings.* The banner's Undo only closes the banner, and a
  later banner replaces an earlier one. *Security.* Pausing and resuming a policy under review
  makes it active. *Research.* The featured finding is hidden under its own topic's chip.
* *Plugin SDK.* Registering an id again replaces a running plugin without `onDeactivate`;
  a plugin unregistered while it is activated stays activated with nobody to deactivate it;
  of two lifecycle calls the last to settle wins; a failed deactivation leaves `enabled` TRUE;
  `onActivate` runs at every activation, although `types.ts:116` says "Called once when the
  plugin is first loaded"; unregistering a plugin leaves its hooks in place.

## 8. Left out, and why

* *Client.* The supervisor's ctx branch does what its stop branch does, and `main` cancels that
  context only after Close. On the Close path `failAllPending` closes event channels beside a
  running reader, which may panic; `client_close` contains those states and checks the contract
  and liveness up to them. The pipes are unbounded: a write that blocks because the other end
  has stopped reading (a full pipe behind a reader that ended early) is not modelled. Of the lines over 1 MB only
  responses are modelled; an oversized event ends the reader in the same way. A task of the child
  that panics, or cannot write to stdout, is one that never answers. `list_providers` always
  succeeds in building its response: serialising the constant profiles cannot fail.
* *Commitments.* `MarkExpired` has no caller. The `commitment.extracted` event is written after
  the INSERT and read by nothing modelled. Rows with `latest_ms = 0` (no end) never expire.
* *Connector manager.* `SendOutbound`, `Status` and `List` only read. `main` registers each
  source once, before it listens. HTTP handlers that outlive the server's Shutdown are modelled
  until DisconnectAll has taken its lock; after that Disconnect finds no source, and what Connect
  and heartbeats do to a health state is read by nobody before the process ends. The adapter closes
  its channel without a cancellation only if its poller ended by itself, which it does not.
* *Plan engine.* Node ids are unique by construction. A node received as running, and a pending
  one that brings an output, are excluded.
* *Web application.* Toasts, mobile layout, scroll positions, icons, the error boundary and the
  fallback of lazy chunks. Pages whose routes have no endpoint (Recipes, Research, Memory,
  Security, Settings) keep everything in the page, and so do their models. Sorting is left out:
  no handler depends on the order. The legacy pages behind the build flag only show sample data
  (their endpoints are missing or answer another shape); the admin console is a set of static
  views and the desktop application a window.
* *Design hand-off copies.* `apps/web/src/_design-inbox` is three quarters of the repository's
  TypeScript, some 55,000 of 75,000 lines: prototypes as they were delivered, the same page several
  times, imported by nothing. They run nowhere, so there is nothing to model; the share of
  TypeScript lines the map covers is small for that reason. Of the rest, mocks, tests,
  translations, tokens, icons and styling have no behaviour of their own.
* *Plugin SDK.* The sandboxes are placeholders that refuse every call; list, getById,
  countByType and getPluginHookTypes only read.
* *Everything else* is listed in `PROJECT.json` with its reason: read views and single-statement
  CRUD, text heuristics, protocol adapters, services outside the gateway's build, declarations;
  and the parts of the plan below that are not modelled yet.

## 9. Plan

Written so far, in the order of importance: `RuntimeClient` with `RequestContract`,
`PlanEngine`, `Commitments`, `ConnectorManager`, the web application, the plugin SDK, each with
proofs of its invariants.

Next, in this order:

1. The safety core of the liveness arguments, as theorems: that a child's crash leaves the
   supervisor waiting only for the writer (what finding 1 and `CrashNoticedWithTraffic` turn on),
   that in a plan in dependency order a pending node whose predecessors are completed can start
   (`OrderedPlansTerminate`), that a locked row of the commitments page has a call in flight
   (`ButtonsUnlock`).
2. `CrashNeverPanics` for a client that is closed: what exactly must hold of the reader when
   `failAllPending` runs beside it.
3. Further modules: `Approvals` (two decisions at once), HandleInbound over `RequestContract`,
   the connector worker's backoff, checkpoints, policy layers, the audit runtime, the deferred
   services. Each would share a run with others of its kind.
