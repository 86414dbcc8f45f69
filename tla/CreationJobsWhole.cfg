SPECIFICATION Spec
CONSTANTS
    Process = {p1}
    Intents <- MCManaged
    MaxAttempts = 2
    MaxLapses = 1
    MaxMishaps = 1
    MaxClaims = 2
CHECK_DEADLOCK FALSE
INVARIANTS
    ReadyIsWhole
