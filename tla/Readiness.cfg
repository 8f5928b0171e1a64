SPECIFICATION FairSpec
CONSTANTS
    Subscribers = {s1, s2}
    Waiters = {w1, w2}
    TokenModulus = 3
    LockTimeouts = TRUE
    None = None
CHECK_DEADLOCK FALSE
INVARIANTS
    TypeOK
    NoBypass
    MarkedOnce
PROPERTIES
    EarlyWaitersWake
