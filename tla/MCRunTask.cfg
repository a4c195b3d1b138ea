SPECIFICATION Spec
CONSTANTS
    Limits = {0, 1, 2}
    Counts = {0, 1, 3}
    MaxClock = 5
    MaxCalls = 4
INVARIANTS
    FiresOnce
    FiresWhenDue
