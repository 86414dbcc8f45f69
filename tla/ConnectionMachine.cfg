SPECIFICATION FairSpec
CONSTANTS
    Conv = {c1, c2}
    NoConv = NoConv
    Threshold = 3
    MaxFail = 4
    MaxFlip = 2
    MaxMove = 3
CHECK_DEADLOCK FALSE
INVARIANTS
    ConnectedIsCurrent
    NeverStranded
PROPERTIES
    Reconnects
