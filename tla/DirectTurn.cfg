SPECIFICATION FairSpec
CONSTANTS
    MaxKey = 2
    MaxAttempt = 4
    MaxRound = 1
    MaxTrouble = 2
CHECK_DEADLOCK FALSE
INVARIANTS
    OwnerIsWorked
    RestIsReleased
PROPERTIES
    AcceptedSettles
    WakeIsHeard
