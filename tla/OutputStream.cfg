CONSTANTS
    Streams = {"stdout", "stderr"}
    QueueCap = 2
    PipeCap = 2
    MaxChunks = 3
    Heirs = TRUE
SPECIFICATION FairSpec
CHECK_DEADLOCK FALSE
INVARIANTS
    DeliveredPrefix
    DrainedIsComplete
PROPERTIES
    ExitAlwaysSent
    ReadersEnd
