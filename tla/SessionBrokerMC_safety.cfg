\* Two generations of one device; both controllers name the same session id.
SPECIFICATION Spec
CONSTANTS
    Devices <- OneDevice
    Ids <- OneIdSet
    Agents = {a1, a2}
    Attachers = {s1, s2}
    Controllers = {c1, c2}
    DeviceOf <- AllAgents
    Target <- AllTargets
    IdOf <- OneId
    MaxConnections = 5
    MaxPending = 2
    WriterCapacity = 1
    None = None
    SharedId = x
    TheDevice = d
SYMMETRY Symmetry
INVARIANTS
    RegistryIsServed
    UnstoppedIsReachable
    SendersHaveOneOwner
    PermitsMatchConnections
PROPERTIES
    PromiseKept
