SPECIFICATION Spec
CONSTANTS
    Conv = {c1, c2}
    SubAgent = {c2}
    Restricted = {c2}
    MaxRun = 3
    Call = {x1}
    Cap = 2
    MaxCleanup = 2
    MaxFault = 0
    MaxLoad = 4
INVARIANT NoOrphans
CHECK_DEADLOCK FALSE
