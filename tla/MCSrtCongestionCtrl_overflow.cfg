SPECIFICATION Spec
CONSTANTS
    RTT_LIST_MAX = 6
    BW_LIST_MAX = 6
    STATE_LIST_MAX = 6
    RTT_INIT = 100
    RTT_MIN = 35
    SRT_CHECK_INTERVAL = 1
    VIDEO_UPDATE_INTERVAL = 2
    Rtts = {100}
    Rates = {204800, 409600}
    Flights = {0}
    StreamBitrate = 1000
    StartBitrates = {1000}
    IntHalf = 2097152
    SizeRange = 67108864
    MaxClock = 2
    MaxWindows = 1
    MaxCalls = 2
INVARIANT
    EstimateInRange
CHECK_DEADLOCK FALSE
