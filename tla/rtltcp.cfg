SPECIFICATION FairSpec
CONSTANTS
    CountSize = 12
    Skew = 9
    Backlog = 1
    MaxInbox = 2
    MaxBehind = 10
INVARIANTS
    NotHeldBack
PROPERTIES
    NoFrameTwice
    DisconnectNoticed
