SPECIFICATION FairSpec
CONSTANTS
    MaxCalls = 2
    MaxMessages = 1
    Capacity = 1
CHECK_DEADLOCK FALSE
INVARIANTS
    ConsentCounted
    EventsInOrder
    ReviewLeft
PROPERTIES
    CancelStops
    ReviewReturns
