SPECIFICATION FairSpec
CONSTANTS
    Sock = {s1}
    NoSock = NoSock
    Backlog = 2
    FdsSize = 5
    MAX_WORKERS = 20
    SlowHandler = FALSE
PROPERTY
    DisconnectReported
