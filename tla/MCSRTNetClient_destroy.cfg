SPECIFICATION ReadersSpec
INVARIANT
    NoTerminate
CHECK_DEADLOCK FALSE
