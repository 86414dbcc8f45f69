SPECIFICATION Spec
CONSTANTS
    Msg = {m1, m2}
    MaxDepth = 2
    MaxCrashes = 1
    NoMsg = NoMsg
INVARIANTS
    NothingLost
    NoDoubleInsertion
PROPERTIES
    CancelEffective
    QueuedWhileBusyIsDrained
