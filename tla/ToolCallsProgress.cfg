SPECIFICATION FairSpec
CONSTANTS
    command = command
    file1 = file1
    file2 = file2
    Calls = {c1, c2}
    Keys = {command, file1, file2}
    Tools <- MCFewTools
    MaxRequests = 1
    NoCall = NoCall
CHECK_DEADLOCK FALSE
PROPERTIES
    AbandonedCallsEnd
    
