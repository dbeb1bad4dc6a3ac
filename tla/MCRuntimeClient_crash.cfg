CONSTANTS
    ExecuteCalls = {e1, e2}
    LlmCalls = {l1}
    PingCalls = {}
    BadEnvelopes = {l1}
    Oversized = {}
    Shutdown = Shutdown
    OutboundCap = 2
    MaxRestartAttempts = 3
    MayClose = FALSE
    MayFailSpawn = FALSE
SPECIFICATION Spec
SYMMETRY Sym
INVARIANTS
    TypeOK
    AtMostOnce
    NoRequestForgotten
    NoPanic
    DeadIsFinal
PROPERTIES
    SettledOnce
CHECK_DEADLOCK FALSE
