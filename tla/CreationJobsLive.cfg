SPECIFICATION LiveSpec
CONSTANTS
    Process = {p1}
    Intents <- MCIntents
    MaxAttempts = 2
    MaxLapses = 1
    MaxMishaps = 1
    MaxClaims = 5
CHECK_DEADLOCK FALSE
PROPERTIES
    CreationProgresses
    CancelCompletes
