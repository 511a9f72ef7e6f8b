\* A window on Windows that finds the files of v0.5.5.
SPECIFICATION Spec
CONSTANTS
    Devices = {d1, d2}
    Nicks = {nick}
    Lines = {line}
    Legacy = TRUE
    MaxTears = 2
    None = None
    Partial = Partial
INVARIANTS TypeOK ConfiguredHostsWork NamesAreUnique
PROPERTIES UserLinesKept
