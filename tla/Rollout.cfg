SPECIFICATION FairSpec
CONSTANTS
    Clients = {c1, c2}
    MaxItems = 2
    MaxBatch = 2
    MaxSessions = 3
    QueueSize = 2
    NoClient = NoClient
CHECK_DEADLOCK FALSE
INVARIANTS
    ThreadLoads
    DamageBounded
PROPERTIES
    CallsReturn
    ImplementsLog
