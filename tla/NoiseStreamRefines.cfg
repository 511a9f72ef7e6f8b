SPECIFICATION FairSpec
CONSTANTS
    MaxInput = 5
    MaxBuffer = 3
    PipeSize = 4
    HeaderSize = 2
    TagSize = 1
    MaxPlaintextChunk = 2
INVARIANTS
    EndIsComplete
    ErrorsMeanTruncation
PROPERTIES
    PipeKept
    AcceptedArrives
