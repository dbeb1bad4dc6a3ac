CONSTANTS
    ExecuteCalls = {e1}
    LlmCalls = {}
    PingCalls = {p1}
    BadEnvelopes = {}
    Oversized = {e1}
    Shutdown = Shutdown
    OutboundCap = 1
    MaxRestartAttempts = 2
    MayClose = TRUE
    MayFailSpawn = TRUE
SPECIFICATION FairSpec
PROPERTIES
    KeepsContract
    PlainCallsReturn
    CloseCompletes
    CrashNoticedWithTraffic
CHECK_DEADLOCK FALSE
