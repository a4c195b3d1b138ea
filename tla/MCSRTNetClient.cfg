SPECIFICATION ReadersSpec
INVARIANTS
    TypeOK
    ActiveMeansReceiving
    ReportedOnce
    StoppedClean
    TerminateOnlyAfterFailedStop
    OneConnection
PROPERTIES
    CallReturns
    LossReported
CHECK_DEADLOCK FALSE
