CONSTANTS
    ExecuteCalls = {e1}
    LlmCalls = {}
    PingCalls = {p1}
    BadEnvelopes = {}
    Oversized = {}
    Shutdown = Shutdown
    OutboundCap = 2
    MaxRestartAttempts = 2
    MayClose = FALSE
    MayFailSpawn = FALSE
SPECIFICATION FairSpec
PROPERTIES
    CrashSettlesInFlight
CHECK_DEADLOCK FALSE
