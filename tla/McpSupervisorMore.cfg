SPECIFICATION Spec
CONSTANTS
    Caller = {k1, k2}
    Config = {c1, c2}
    Stdio = {c2}
    MaxReload = 2
    MaxFlow = 1
    MaxActor = 2
    MaxTimeout = 1
    MaxLoad = 4
SYMMETRY CallerSymmetry
CHECK_DEADLOCK FALSE
INVARIANTS
    TypeOK
    OneConnectorPerEpoch
    SentAtMostTwice
    StdioQueueMoves
