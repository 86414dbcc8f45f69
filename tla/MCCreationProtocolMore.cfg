SPECIFICATION Spec
CONSTANTS
    Worker = {w1, w2}
    Token = {k1}
    LastStage = 2
    MaxAttempts = 3
    RetryDelay <- MCRetryDelay
    LeaseDuration = {0, 1, 2}
    NoClaim = NoClaim
    MaxNow = 4
    MaxGeneration = 4
CHECK_DEADLOCK FALSE
INVARIANTS
    TypeOK
    IssuedClaims
