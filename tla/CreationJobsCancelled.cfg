SPECIFICATION Spec
CONSTANTS
    Process = {p1}
    Intents <- MCManaged
    MaxAttempts = 1
    MaxLapses = 0
    MaxMishaps = 0
    MaxClaims = 2
CHECK_DEADLOCK FALSE
PROPERTIES CancelledStays
