SPECIFICATION LinkSpec
CONSTANTS
    Sock = {s1}
    NoSock = NoSock
    Backlog = 2
    FdsSize = 5
    MAX_WORKERS = 20
    SlowHandler = FALSE
INVARIANTS
    NoEndWithoutCause
    AbortHasCause
PROPERTIES
    StopReachesClient
    StopReachesServer
    ReportedGone
CHECK_DEADLOCK FALSE
