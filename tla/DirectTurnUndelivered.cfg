SPECIFICATION Spec
CONSTANTS
    MaxKey = 2
    MaxAttempt = 4
    MaxRound = 1
    MaxTrouble = 2
INVARIANT CompletedWasDelivered
CHECK_DEADLOCK FALSE
