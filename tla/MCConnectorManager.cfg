CONSTANTS
    Connectors = {telegram, custom}
    Sourced = {telegram}
    HeartbeatTimeout = 2
    DegradedTimeout = 3
    ChannelCap = 2
SPECIFICATION FairSpec
INVARIANTS
    TypeOK
    HealthHonest
    NoPumpLost
PROPERTIES
    ShutdownCompletes
    RecoveringResolves
    DeadPumpSurfaces
CHECK_DEADLOCK FALSE
