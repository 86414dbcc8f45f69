SPECIFICATION FairSpec
CONSTANTS
    MaxKey = 2
    MaxAttempt = 4
    MaxRound = 1
    MaxTrouble = 2
INVARIANTS TurnInv
    TypeOK BusyRowHasWork
PROPERTIES NothingAfterTheEnd CancelStopsWork
CHECK_DEADLOCK FALSE
