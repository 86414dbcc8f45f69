SPECIFICATION LiveSpec
CONSTANTS
    t1 = t1
    t2 = t2
    ToolId = {t1, t2}
    ToolLists <- OneOrTwo
    MaxAttempts = 3
    CycleCap = 3
    QueueCap = 8
    MaxMessages = 2
    MaxCancels = 2
    MaxRounds = 9
    MaxFaults = 1
CHECK_DEADLOCK FALSE
INVARIANTS
    OwnResults
    SingleRequest
    NeverStranded
PROPERTIES
    OutcomeOfThisTurn
    TurnEnds
