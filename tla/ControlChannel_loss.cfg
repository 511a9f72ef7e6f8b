SPECIFICATION Spec
CONSTANTS
    PingInterval = 2
    DeadAfter = 5
    WriteTimeout = 2
    Latency = 1
    Capacity = 1
    WireSize = 2
    MaxOpens = 1
INVARIANTS
    FramesStayAligned
    DeadPeerIsNoticed
