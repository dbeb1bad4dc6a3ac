--------------------------- MODULE PluginRegistry ---------------------------
(***************************************************************************)
(* The plugin SDK (packages/plugin-sdk): the registry with its manifest    *)
(* and permission checks and its asynchronous lifecycle calls, and the     *)
(* hook manager with its asynchronous pipelines.  The host that calls them *)
(* is external: it makes the calls of both in any order, and does not wait *)
(* for one to finish before it makes the next.                             *)
(*                                                                         *)
(* Objects have an identity: a registration is its index in records, and   *)
(* stands for the record and for the plugin instance stored with it, which *)
(* the registry puts into its two maps and takes out of them together.     *)
(***************************************************************************)
EXTENDS Naturals, Sequences, SequencesExt, FiniteSets, Arrays

CONSTANTS
    Manifests,    \* the manifests offered: [id, complete, permissions]
    Granted,      \* the permissions the host granted: <<[resource, actions]>>
    HookTypes,    \* the hook types used
    Priorities,   \* the priorities hooks are registered with
    MaxCalls      \* bound on the calls the host makes

BeforeAction == "before_action"
Ids == {m.id : m \in Manifests}

ASSUME PluginInputs ==
    /\ HookTypes \subseteq {"before_action", "after_action", "on_event", "on_schedule",
                            "on_approval"}
    /\ Priorities \subseteq Nat /\ MaxCalls \in Nat

VARIABLES
    records,     \* every record made: [manifest, state, enabled, hooked]
    plugins,     \* the registry's maps: id -> registration
    lifecycle,   \* onActivate and onDeactivate calls being awaited
    hooks,       \* the hook manager's entries, in the order they run
    triggers,    \* the pipelines started, as sequence of records
    calls,       \* how many calls the host has made
    activated,   \* history: registrations whose own activation has succeeded
    owed         \* history: the entries each pipeline found when it started

pluginVars == <<records, plugins, lifecycle, hooks, triggers, calls, activated, owed>>

-----------------------------------------------------------------------------
(* Manifests and permissions. *)

PLUGIN_PERMISSION_RESOURCES == {"connectors", "events", "llm", "storage", "network",
                                "commitments", "audit", "ui"}
PLUGIN_PERMISSION_ACTIONS == {"read", "write", "execute", "subscribe"}

\* Whether the list has no issue: known resources, each once, with known
\* actions and at least one.
validatePluginPermissions(permissions) ==
    \A i \in DOMAIN permissions :
        /\ permissions[i].resource \in PLUGIN_PERMISSION_RESOURCES
        /\ \A j \in 1..(i - 1) : permissions[j].resource # permissions[i].resource
        /\ permissions[i].actions # {}
        /\ permissions[i].actions \subseteq PLUGIN_PERMISSION_ACTIONS

\* complete stands for the six fields that must be filled in.
validateManifest(m) == m.complete /\ validatePluginPermissions(m.permissions)

\* The checker's map: a resource granted twice has the actions of both.
grants ==
    [r \in {Granted[i].resource : i \in DOMAIN Granted} |->
        UNION {Granted[i].actions : i \in {j \in DOMAIN Granted : Granted[j].resource = r}}]

\* Mutated form: a granted resource is granted with every action.
grantedResourcesOnly(permissions) ==
    \A i \in DOMAIN permissions : permissions[i].resource \in DOMAIN grants

arePermissionsAllowed(permissions) ==
    \A i \in DOMAIN permissions :
        /\ permissions[i].resource \in DOMAIN grants
        /\ permissions[i].actions \subseteq grants[permissions[i].resource]

-----------------------------------------------------------------------------
(* The registry. *)

\* A call of the host.
HostCall == calls < MaxCalls /\ calls' = calls + 1

HooksUntouched == UNCHANGED <<hooks, triggers, owed>>

\* Registering an id again replaces the record and the instance, whatever
\* state they are in.  A refused manifest throws and leaves everything as it
\* was.
register(m, hooked) ==
    /\ HostCall
    /\ validateManifest(m) /\ arePermissionsAllowed(m.permissions)
    /\ records' = Append(records, [manifest |-> m, state |-> "validated", enabled |-> FALSE,
                                   hooked |-> hooked])
    /\ plugins' = [id \in DOMAIN plugins \cup {m.id} |->
                      IF id = m.id THEN Len(records) + 1 ELSE plugins[id]]
    /\ UNCHANGED <<lifecycle, activated>> /\ HooksUntouched

\* The maps forget the plugin; calls that hold its record go on.
unregister(id) ==
    /\ HostCall
    /\ id \in DOMAIN plugins
    /\ plugins' = [i \in DOMAIN plugins \ {id} |-> plugins[i]]
    /\ UNCHANGED <<records, lifecycle, activated>> /\ HooksUntouched

\* What the end of activate or deactivate does to the record: on failure only
\* the state changes.
Settled(record, op, ok) ==
    IF ~ok THEN [record EXCEPT !.state = "error"]
    ELSE IF op = "activate" THEN [record EXCEPT !.state = "running", !.enabled = TRUE]
    ELSE [record EXCEPT !.state = "deactivated", !.enabled = FALSE]

Activated(op, ok, reg) ==
    IF op = "activate" /\ ok THEN activated \cup {reg} ELSE activated

\* activate and deactivate up to their await, whatever state the plugin is
\* in; a plugin without the hook is settled in the same step.
Begin(op, id) ==
    /\ HostCall
    /\ id \in DOMAIN plugins
    /\ LET reg == plugins[id]
       IN  IF records[reg].hooked
           THEN /\ lifecycle' = lifecycle \cup {[n |-> calls, op |-> op, id |-> id, reg |-> reg]}
                /\ UNCHANGED <<records, activated>>
           ELSE /\ records' = [records EXCEPT ![reg] = Settled(@, op, TRUE)]
                /\ activated' = Activated(op, TRUE, reg)
                /\ UNCHANGED lifecycle
    /\ UNCHANGED plugins /\ HooksUntouched

activate(id) == Begin("activate", id)
deactivate(id) == Begin("deactivate", id)

\* Mutated form: the record is looked up again after the await.
RecordByName(call) == IF call.id \in DOMAIN plugins THEN plugins[call.id] ELSE call.reg

\* The record a settled call writes to: the one it looked up before the await.
RecordHeld(call) == call.reg

\* The awaited hook settles, in any order among the calls, or throws.
HookSettles(ok) ==
    /\ \E call \in lifecycle :
          /\ lifecycle' = lifecycle \ {call}
          /\ records' = [records EXCEPT ![RecordHeld(call)] = Settled(@, call.op, ok)]
          /\ activated' = Activated(call.op, ok, call.reg)
    /\ UNCHANGED <<plugins, calls>> /\ HooksUntouched

\* enable and disable set the flag and nothing else.
setEnabled(id, flag) ==
    /\ HostCall
    /\ id \in DOMAIN plugins
    /\ records' = [records EXCEPT ![plugins[id]].enabled = flag]
    /\ UNCHANGED <<plugins, lifecycle, activated>> /\ HooksUntouched

enable(id) == setEnabled(id, TRUE)
disable(id) == setEnabled(id, FALSE)

-----------------------------------------------------------------------------
(* The hook manager.  The registry knows nothing of it. *)

RegistryUntouched == UNCHANGED <<records, plugins, lifecycle, activated>>

\* push and the stable sort by priority: behind every entry that is not after it.
registerHook(id, type, priority) ==
    /\ HostCall
    /\ LET entry == [n |-> calls + 1, pluginId |-> id, hookType |-> type, priority |-> priority]
           before == Cardinality({i \in DOMAIN hooks : hooks[i].priority <= priority})
       IN  hooks' = InsertAt(hooks, before + 1, entry)
    /\ UNCHANGED <<triggers, owed>> /\ RegistryUntouched

unregisterPlugin(id) ==
    /\ HostCall
    /\ \E i \in DOMAIN hooks : hooks[i].pluginId = id
    /\ hooks' = Filter(hooks, {i \in DOMAIN hooks : hooks[i].pluginId # id})
    /\ UNCHANGED <<triggers, owed>> /\ RegistryUntouched

OfType(entries, type) == Filter(entries, {i \in DOMAIN entries : entries[i].hookType = type})

\* A pipeline is what it has run, with the handlers' results, and the payload:
\* 0 for the one it was given, else the handler that replaced it.
trigger(type) ==
    /\ HostCall
    /\ LET relevant == OfType(hooks, type)
       IN  triggers' = Append(triggers,
               [hookType |-> type, relevant |-> relevant, ran |-> <<>>, results |-> <<>>,
                payload |-> 0, done |-> relevant = <<>>])
    /\ owed' = Append(owed, {h \in ToSet(hooks) : h.hookType = type})
    /\ UNCHANGED hooks /\ RegistryUntouched

\* Mutated form: the loop runs over the manager's own list.
relevantLive(t) == OfType(hooks, t.hookType)

\* What the loop of a pipeline runs over: the entries it found at its start.
relevantOf(t) == t.relevant

\* The next handler's answer.  Only a before_action pipeline looks at it: it
\* stops at an abort and passes on a replaced payload (a modify that brings none
\* is a continue).  A handler that throws ends the pipeline (its result
\* is then the exception).
Answered(t, entry, result) ==
    LET looks == t.hookType = BeforeAction
        ran == Append(t.ran, entry)
    IN  [t EXCEPT !.ran = ran,
                  !.results = Append(@, result),
                  !.payload = IF looks /\ result = "modify" THEN entry.n ELSE @,
                  !.done = \/ Len(ran) >= Len(relevantOf(t))
                           \/ looks /\ result = "abort"
                           \/ result = "throws"]

HandlerAnswers(result) ==
    /\ \E k \in {i \in DOMAIN triggers : ~triggers[i].done} :
          LET next == Len(triggers[k].ran) + 1
              relevant == relevantOf(triggers[k])
          IN  /\ next \in DOMAIN relevant
              /\ triggers' = [triggers EXCEPT ![k] = Answered(@, relevant[next], result)]
    /\ UNCHANGED <<hooks, calls, owed>> /\ RegistryUntouched

-----------------------------------------------------------------------------
PluginInit ==
    /\ records = <<>> /\ plugins = <<>> /\ lifecycle = {}
    /\ hooks = <<>> /\ triggers = <<>> /\ calls = 0
    /\ activated = {} /\ owed = <<>>

PluginNext ==
    \/ \E m \in Manifests, hooked \in BOOLEAN : register(m, hooked)
    \/ \E id \in Ids : unregister(id) \/ activate(id) \/ deactivate(id) \/ enable(id) \/ disable(id)
    \/ \E ok \in BOOLEAN : HookSettles(ok)
    \/ \E id \in Ids, type \in HookTypes, p \in Priorities : registerHook(id, type, p)
    \/ \E id \in Ids : unregisterPlugin(id)
    \/ \E type \in HookTypes : trigger(type)
    \/ \E result \in {"continue", "abort", "modify", "throws"} : HandlerAnswers(result)

PluginSpec == PluginInit /\ [][PluginNext]_pluginVars

-----------------------------------------------------------------------------
\* Types, and deny-by-default as pairs: no registered plugin has an action on a
\* resource, or an unknown or unfinished manifest, that the host did not grant
\* (GrantedPermissionsPolicyChecker, validatePluginPermissions).
PluginTypeOK ==
    /\ \A id \in DOMAIN plugins : records[plugins[id]].manifest.id = id
    /\ \A call \in lifecycle : call.reg \in DOMAIN records
    /\ \A r \in ToSet(records) :
          /\ r.state \in {"validated", "running", "deactivated", "error"}
          /\ r.manifest.complete
          /\ \A p \in ToSet(r.manifest.permissions) : \A a \in p.actions :
                \E g \in ToSet(Granted) : g.resource = p.resource /\ a \in g.actions

\* A registered plugin is said to run only when its own activation succeeded:
\* the activation of a plugin that was replaced or removed while its onActivate
\* was awaited never marks its successor (activate writes to the record it
\* looked up before the await).
RunningWasActivated ==
    \A id \in DOMAIN plugins :
        records[plugins[id]].state = "running" => plugins[id] \in activated

\* A pipeline runs the handlers that were registered when it started, each at
\* most once, by priority and then by age, and all of them unless one aborts a
\* before_action or throws: an abort of any other type alters nothing
\* (hooks.ts:103-104).  Its payload is the one the last handler put there,
\* whatever is registered and unregistered meanwhile (trigger, register,
\* unregisterPlugin).  A throw ends pipelines of every type, those that are to
\* be "fire-and-forget" too (README, finding 10).
TriggerFaithful ==
    \A k \in DOMAIN triggers :
        LET t == triggers[k]
            stopped == /\ t.results # <<>>
                       /\ \/ Last(t.results) = "throws"
                          \/ Last(t.results) = "abort" /\ t.hookType = BeforeAction
            modifiers == {i \in DOMAIN t.ran : t.results[i] = "modify"}
        IN  /\ ToSet(t.ran) \subseteq owed[k]
            /\ t.done /\ ~stopped => ToSet(t.ran) = owed[k]
            /\ \A i, j \in DOMAIN t.ran : i < j =>
                  \/ t.ran[i].priority < t.ran[j].priority
                  \/ t.ran[i].priority = t.ran[j].priority /\ t.ran[i].n < t.ran[j].n
            /\ t.hookType # BeforeAction => t.payload = 0
            /\ t.hookType = BeforeAction =>
                  /\ modifiers = {} => t.payload = 0
                  /\ \A i \in modifiers : (\A j \in modifiers : j <= i) => t.payload = t.ran[i].n
=============================================================================
