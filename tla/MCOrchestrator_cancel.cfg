SPECIFICATION FairSpec
CONSTANTS
    Jobs = {1, 2}
    Streams = {}
    Cancels = {c1}
    ListLimit = 2
    Faults = {"timeout"}
INVARIANTS NoOrphan
PROPERTIES PromiseKept JobsSettle
CHECK_DEADLOCK FALSE
