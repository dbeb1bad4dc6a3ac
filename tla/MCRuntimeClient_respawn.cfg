CONSTANTS
    ExecuteCalls = {e1}
    LlmCalls = {}
    PingCalls = {p1}
    BadEnvelopes = {}
    Oversized = {}
    Shutdown = Shutdown
    OutboundCap = 2
    MaxRestartAttempts = 2
    MayClose = FALSE
    MayFailSpawn = TRUE
SPECIFICATION Spec
INVARIANTS
    NoPanic
CHECK_DEADLOCK FALSE
