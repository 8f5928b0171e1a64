SPECIFICATION Spec
CONSTANTS
    command = command
    file1 = file1
    file2 = file2
    Calls = {c1, c2}
    Keys = {command, file1, file2}
    Tools <- MCTools
    MaxRequests = 2
    NoCall = NoCall
SYMMETRY Symmetry
CHECK_DEADLOCK FALSE
INVARIANTS
    ApprovedByUser
