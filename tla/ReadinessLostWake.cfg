SPECIFICATION FairSpec
CONSTANTS
    Subscribers = {s1, s2}
    Waiters = {w1, w2}
    TokenModulus = 3
    LockTimeouts = FALSE
    None = None
CHECK_DEADLOCK FALSE
PROPERTIES
    WaitersWake
