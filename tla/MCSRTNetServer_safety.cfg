SPECIFICATION Spec
CONSTANTS
    Sock = {s1, s2, s3}
    NoSock = NoSock
    Backlog = 2
    FdsSize = 2
    MAX_WORKERS = 4
    SlowHandler = TRUE
INVARIANTS
    TypeOK
    NoTerminate
    StoppedQuiescent
    Accounted
    RestartSheds
    AtMostOneLeft
    RefusedIgnored
PROPERTIES
    ListStable
    RegistrySpec
SYMMETRY Symmetry
