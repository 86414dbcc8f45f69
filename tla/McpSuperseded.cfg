SPECIFICATION Spec
CONSTANTS
    Caller = {k1}
    Config = {c1, c2}
    Stdio = {c2}
    MaxReload = 2
    MaxFlow = 1
    MaxActor = 2
    MaxTimeout = 1
    MaxLoad = 4
INVARIANT SupersededCannotOverwrite
CHECK_DEADLOCK FALSE
