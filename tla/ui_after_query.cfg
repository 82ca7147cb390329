SPECIFICATION Spec
CONSTANTS
    Starters = {s1}
    Queriers = {q1}
    Fds = {fd1}
    Options <- PlainOnly
    MaxCalls = 1
    CancelLatches = TRUE
    NoFd = NoFd
CHECK_DEADLOCK FALSE
PROPERTY
    UiReflectsState
