SPECIFICATION FairSpec
CONSTANTS
    BufNum = 3
    BufLen = 2
    MaxFrames = 4
    MaxQueue = 2
    CancelLatches = TRUE
INVARIANTS
    FrameIntact
    AcquireSafe
PROPERTIES
    ExitEnds
CHECK_DEADLOCK FALSE
