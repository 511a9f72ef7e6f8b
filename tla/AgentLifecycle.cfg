SPECIFICATION FairSpec
CONSTANTS
    Sessions = {s1, s2}
    InitialDelay = 1
    MaxDelay = 3
    MaxRuns = 2
    MaxUnread = 2
    CountTo = 4
INVARIANTS
    TypeOK
    OneAgentAtATime
    DisplayAgrees
    StoppedIsQuiet
    BackoffFollowsFailures
PROPERTIES
    SessionsSurviveReconnect
    StopEnds
    KeepsTrying
