SPECIFICATION Spec
CONSTANTS
    Codes = {c1, c2}
    Devices = {d1, d2}
    None = None
INVARIANTS TypeOK SearchIsShown
PROPERTIES ListCatchesUp
\* The window is closed for good.
CHECK_DEADLOCK FALSE
