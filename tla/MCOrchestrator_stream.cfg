SPECIFICATION FairSpec
CONSTANTS
    Jobs = {1}
    Streams = {s1, s2}
    Cancels = {}
    ListLimit = 1
    Faults = {"downstream", "timeout", "disconnect"}
INVARIANTS StreamCurrent 
PROPERTIES TerminalStays StreamsEnd
CHECK_DEADLOCK FALSE
