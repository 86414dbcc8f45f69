SPECIFICATION Spec
CONSTANTS
    Worker = {w1}
    RingCap = 1
    Window = 1
    MaxStored = 0
    MaxNew = 3
    MaxPhase = 1
    MaxFault = 1
    MaxLoad = 2
    MaxOpen = 2
CHECK_DEADLOCK FALSE
INVARIANTS
    TypeOK
    NoLoss
    NothingSkipped
PROPERTIES
    CursorAdvances
