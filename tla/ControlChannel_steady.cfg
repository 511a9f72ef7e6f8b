SPECIFICATION SteadySpec
CONSTANTS
    PingInterval = 3
    DeadAfter = 9
    WriteTimeout = 2
    Latency = 1
    Capacity = 1
    WireSize = 2
    MaxOpens = 3
INVARIANTS
    LivePeerIsKept
PROPERTIES
    OpensReachAgent
