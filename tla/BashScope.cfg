SPECIFICATION FairSpec
CONSTANTS
    Conv = {c1, c2}
    SubAgent = {c2}
    Restricted = {c2}
    MaxRun = 2
    Call = {x1}
    Cap = 2
    MaxCleanup = 2
    MaxFault = 1
    MaxLoad = 4
CHECK_DEADLOCK FALSE
INVARIANTS
    NothingEscapesTeardown
PROPERTIES
    LiveOwnerKeepsHandles
    ObserversWake
