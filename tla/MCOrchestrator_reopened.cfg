SPECIFICATION Spec
CONSTANTS
    Jobs = {1}
    Streams = {}
    Cancels = {c1}
    ListLimit = 1
    Faults = {}
PROPERTY CancelAnswersTerminal
CHECK_DEADLOCK FALSE
