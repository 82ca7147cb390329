SPECIFICATION Spec
CONSTANTS
    BufNum = 3
    BufLen = 1
    MaxFrames = 2
    MaxQueue = 2
    CancelLatches = TRUE
INVARIANTS
    RestartGoesOn
CHECK_DEADLOCK FALSE
