SPECIFICATION Spec
CONSTANTS
    PacketSize = 188
    PesMax = 400
    PcrPid = 256
    CcMod = 4
    PatInterval = 2
    Configs <- SoundConfigs
    Sizes <- FeedSizes
    Stamps = {5}
    MaxFrames = 3
    Chunks = {470}
    MaxLoss = 1
INVARIANTS
    TypeOK
    Continuity
    TablesRecur
    RoundTrip
    NothingWithheld
    OneLossNoticed
CHECK_DEADLOCK FALSE
