\* The claim that an ended control connection fails its waiting requests.
SPECIFICATION Spec
CONSTANTS
    Devices <- OneDevice
    Ids <- OwnIds
    Agents = {a1}
    Attachers = {s1}
    Controllers = {c1}
    DeviceOf <- AllAgents
    Target <- AllTargets
    IdOf <- OwnId
    MaxConnections = 3
    MaxPending = 1
    WriterCapacity = 1
    None = None
    SharedId = x
    TheDevice = d
INVARIANT
    EndedControlFailsItsRequests
