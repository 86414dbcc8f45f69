SPECIFICATION Spec
CONSTANTS
    Process = {p1, p2}
    Intents <- MCManaged
    MaxAttempts = 2
    MaxLapses = 1
    MaxMishaps = 1
    MaxClaims = 2
SYMMETRY ProcessSymmetry
CHECK_DEADLOCK FALSE
INVARIANTS
    ReadyMeansStarted
    ReadyHasWorktree
PROPERTIES
    ImplementsFencedJob
