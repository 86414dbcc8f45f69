SPECIFICATION Spec
CONSTANTS
    Worker = {w1}
    RingCap = 1
    Window = 3
    MaxStored = 0
    MaxNew = 3
    MaxPhase = 1
    MaxFault = 0
    MaxLoad = 2
    MaxOpen = 2
CHECK_DEADLOCK FALSE
INVARIANTS
    NoSilentGap
