CONSTANTS
    Connectors = {telegram, custom}
    Sourced = {telegram}
    HeartbeatTimeout = 2
    DegradedTimeout = 3
    ChannelCap = 2
SPECIFICATION Spec
PROPERTIES
    MessageIsHeartbeat
CHECK_DEADLOCK FALSE
