SPECIFICATION FairSpec
CONSTANTS
    Starters = {s1}
    Queriers = {}
    Fds = {fd1}
    Options <- PlainOnly
    MaxCalls = 1
    CancelLatches = TRUE
    NoFd = NoFd
CHECK_DEADLOCK FALSE
PROPERTY
    CloseEndsSession
