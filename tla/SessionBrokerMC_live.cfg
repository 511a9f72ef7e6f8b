\* Own session ids.  Controllers and agents are scheduled fairly, sessions and
\* control connections are not: the deadlines must do the rest.
SPECIFICATION FairSpec
CONSTANTS
    Devices <- OneDevice
    Ids <- OwnIds
    Agents = {a1, a2}
    Attachers = {s1}
    Controllers = {c1, c2}
    DeviceOf <- AllAgents
    Target <- AllTargets
    IdOf <- OwnId
    MaxConnections = 3
    MaxPending = 1
    WriterCapacity = 1
    None = None
    SharedId = x
    TheDevice = d
INVARIANTS
    StreamsMatchRequests
PROPERTIES
    RequestsEnd
    StoppedHandlersLeave
