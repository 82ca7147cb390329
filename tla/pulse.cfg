SPECIFICATION Spec
CONSTANTS
    PD_MAX_PULSES = 3
    PD_MIN_PULSE_SAMPLES = 2
    SkipSamples = 1
    FmSamples = {"up", "flat", "down"}
    PD_MIN_PULSES = 1
    PD_MAX_GAP_RATIO = 1
    MinGap = 2
    MaxGap = 4
    OOK_EST_LOW_RATIO = 0
    BufferSizes = {1, 4}
    MaxSamples = 15
INVARIANTS
    IndexSafe
    AgeExact
    FskSpanExact
CHECK_DEADLOCK FALSE
