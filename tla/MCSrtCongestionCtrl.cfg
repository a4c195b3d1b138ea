SPECIFICATION Spec
CONSTANTS
    RTT_LIST_MAX = 2
    BW_LIST_MAX = 2
    STATE_LIST_MAX = 2
    RTT_INIT = 100
    RTT_MIN = 35
    SRT_CHECK_INTERVAL = 1
    VIDEO_UPDATE_INTERVAL = 2
    Rtts = {20, 100}
    Rates = {200000, 1000000}
    Flights = {0, 30}
    StreamBitrate = 1000
    StartBitrates = {1000}
    IntHalf = 536870912
    SizeRange = 1073741824
    MaxClock = 2
    MaxWindows = 3
    MaxCalls = 2
INVARIANTS
    TypeOK
    WindowsAligned
    DecisionOnFullWindow
    EstimateInRange
    BitrateBounded
CHECK_DEADLOCK FALSE
