SPECIFICATION Spec
CONSTANTS
    Threads = {j1, j2, n1}
    JavaThreads = {j1, j2}
    Refs = {r1, r2, r3}
    NoRef = NoRef
    MaxCalls = 3
SYMMETRY Symmetry
INVARIANT UsesLiveRef
CHECK_DEADLOCK FALSE
