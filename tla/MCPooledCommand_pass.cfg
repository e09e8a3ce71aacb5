CONSTANTS
    Frames <- MixedFrames
    Keys <- MixedKeys
    Values <- OneValue
    MaxReads = 2
    KvsCap = 4
    AsyncModes = {FALSE, TRUE}
INIT Init
NEXT Next
INVARIANTS
    TypeOK
    FrameConsumed
CHECK_DEADLOCK FALSE
