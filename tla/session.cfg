SPECIFICATION FairSpec
CONSTANTS
    Starters = {s1, s2}
    Queriers = {q1}
    Fds = {fd1}
    Options <- PlainOnly
    MaxCalls = 2
    CancelLatches = TRUE
    NoFd = NoFd
INVARIANTS
    TypeOK
    OneSession
    AcquireSafe
    NothingLeftBehind
    QuietWhenStopped
    UiShowsStopped
PROPERTIES
    KeepsContract
    StopEndsSession
    DeadDeviceStops
CHECK_DEADLOCK FALSE
