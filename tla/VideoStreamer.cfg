SPECIFICATION FairSpec
CONSTANTS
    NumChunks = 2
    MaxPayload = 2
    VstrmIds = 4
    MaxPushes = 2
    EncodedSizes <- Sizes
    ChunkPushes <- OwnChunks
    TimestampMod = 8
    Period = 2
    MinDelay = 1
    BusyTimes = {0, 3}
    MaxBehind = 3
    NoChunks = NoChunks
    FrameRates <- Rates
INVARIANTS TypeOK PaceKept FrameReassembles NoSequenceGap HeadersDecode
PROPERTIES ResyncAnswered NewestFrameShown
