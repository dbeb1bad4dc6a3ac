SPECIFICATION PluginSpec
\* A host that makes no call leaves everything as it is.
CHECK_DEADLOCK FALSE
CONSTANTS
    Manifests <- MCManifests
    Granted <- MCGranted
    HookTypes = {"before_action", "on_event"}
    Priorities = {10, 100}
    MaxCalls = 5
INVARIANTS
    PluginTypeOK
    RunningWasActivated
    TriggerFaithful
