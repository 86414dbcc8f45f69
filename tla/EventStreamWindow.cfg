SPECIFICATION Spec
CONSTANTS
    Worker = {w1}
    RingCap = 3
    Window = 1
    MaxStored = 1
    MaxNew = 2
    MaxPhase = 0
    MaxFault = 0
    MaxLoad = 2
    MaxOpen = 2
CHECK_DEADLOCK FALSE
INVARIANTS
    ShownIsATail
