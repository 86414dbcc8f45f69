SPECIFICATION FairSpec
CONSTANTS
    Conv = {c1, c2}
    SubAgent = {c2}
    Restricted = {c2}
    MaxRun = 3
    Call = {x1}
    Cap = 2
    MaxCleanup = 2
    MaxFault = 1
    MaxLoad = 4
CHECK_DEADLOCK FALSE
INVARIANTS
    TypeOK
    CapRespected
    NoGhostHandles
    TombstoneKeepsKill
    ClosedOnlyWhileCleaning
PROPERTIES
    TeardownEnds
