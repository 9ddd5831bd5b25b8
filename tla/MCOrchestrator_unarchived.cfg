SPECIFICATION Spec
CONSTANTS
    Jobs = {1}
    Streams = {}
    Cancels = {}
    ListLimit = 1
    Faults = {"timeout"}
INVARIANT FailureArchived
CHECK_DEADLOCK FALSE
