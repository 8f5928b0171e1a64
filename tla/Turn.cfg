SPECIFICATION FairSpec
CONSTANTS
    MaxTurns = 2
    MaxCalls = 1
    Inputs = {1, 2}
CHECK_DEADLOCK FALSE
INVARIANTS
    TypeOK
    NoSilentLoss
    AskerReachable
    TurnAccounted
PROPERTIES
    OnlyOwnerClears
    LoopReturns
    AbortedTaskStops
