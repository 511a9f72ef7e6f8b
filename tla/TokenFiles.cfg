SPECIFICATION Spec
CONSTANTS
    Devices = {d1, d2}
    Keygens = {k1, k2}
    Adders = {a1, a2}
    Secrets = {s1}
    MaxMoves = 2
INVARIANTS PrintedCodesWork
PROPERTIES LoadsSeeSteadyFiles ReloadCatchesUp
CHECK_DEADLOCK FALSE
