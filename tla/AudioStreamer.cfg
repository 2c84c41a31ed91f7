SPECIFICATION AudioSpec
CONSTANTS
    Count = 2
    Limit = 7
    PushSizes = {2, 4}
    SeqIdMod = 3
    MaxSamples = 14
INVARIANTS AudioTypeOK InOrder ChannelsKept
