SPECIFICATION Spec
CONSTANTS
    Calls = {c1, c2, c3}
    Ids = {i1, i2, i3}
    MaxProcesses = 2
    Warning = 2
    Protected = 1
    NoCall = NoCall
SYMMETRY Symmetry
CHECK_DEADLOCK FALSE
INVARIANTS
    Reachable
    IdsAccounted
    OneEnd
    PollSameProcess
    TableBounded
PROPERTIES
    RecentKept
