\* Async handlers that only Del headers; requests go back to requestPool.
CONSTANTS
    Frames <- V2Frames
    Keys <- V2Keys
    Values <- NoValues
    MaxReads = 2
    KvsCap = 4
    AsyncModes = {TRUE}
INIT Init
NEXT Next
PROPERTY
    RefinesCommand
CHECK_DEADLOCK FALSE
