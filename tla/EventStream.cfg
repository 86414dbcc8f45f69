SPECIFICATION FairSpec
CONSTANTS
    Worker = {w1}
    RingCap = 1
    Window = 1
    MaxStored = 1
    MaxNew = 2
    MaxPhase = 1
    MaxFault = 1
    MaxLoad = 2
    MaxOpen = 3
CHECK_DEADLOCK FALSE
INVARIANTS
    NoLoss
    NothingSkipped
PROPERTIES
    StreamSettles
