SPECIFICATION Spec
CONSTANTS
    Jobs = {1}
    Streams = {s1}
    Cancels = {c1}
    ListLimit = 1
    Faults = {"downstream", "timeout", "loss", "delay", "redis", "crash", "evict", "disconnect"}
INVARIANTS TypeOK DoneHasReport StreamDoneHasReport SnapshotSound
PROPERTIES DoneNeverReopens
CHECK_DEADLOCK FALSE
