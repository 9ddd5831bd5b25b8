SPECIFICATION FairSpec
CONSTANTS
    Jobs = {1}
    Streams = {s1}
    Cancels = {c1}
    ListLimit = 1
    Faults = {}
PROPERTY TerminalJobEndsStream
CHECK_DEADLOCK FALSE
