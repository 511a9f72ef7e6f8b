\* The unit of time is five seconds: the deadlines are the program's own.
SPECIFICATION Spec
CONSTANTS
    HandshakeTime = 2
    HelloTime = 2
    RequestTime = 2
    AnswerTime = 3
    MaxInput = 1
    MaxOutput = 2
INVARIANTS TypeOK SlotsAreBrief ReadyMeansReached CleanExitIsComplete
PROPERTIES SetupsEnd HalfSessionsEnd
\* A session ends, and no other begins.
CHECK_DEADLOCK FALSE
