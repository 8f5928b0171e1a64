SPECIFICATION LiveSpec
CONSTANTS
    MaxTurns = 2
    MaxCalls = 1
    Inputs = {1}
CHECK_DEADLOCK FALSE
PROPERTIES
    TurnEnds
