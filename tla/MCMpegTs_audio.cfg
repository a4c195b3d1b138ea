SPECIFICATION Spec
CONSTANTS
    PacketSize = 188
    PesMax = 400
    PcrPid = 256
    CcMod = 4
    PatInterval = 2
    Configs <- AudioVideo
    Sizes <- FeedSizes
    Stamps = {5}
    MaxFrames = 2
    Chunks = {470}
    MaxLoss = 0
INVARIANT RoundTrip
CHECK_DEADLOCK FALSE
