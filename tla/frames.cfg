SPECIFICATION Spec
CONSTANTS
    RingSize = 20
    BLOCK_SIZE = 4
    SampleSize = 2
    PadDivisor = 4
    BufferLens = {2, 4}
    CallLen = 4
    Modes = {0, 1, 2, 3}
    Marks = {0, 2, 4, 5, 7, 9, 10, 12, 14, 15, 17, 18}
    MaxSamples = 20
INVARIANTS
    RingExact
    FrameExact
    GrabWhole
PROPERTIES
    SignalsSaved
CHECK_DEADLOCK FALSE
