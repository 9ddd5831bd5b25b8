SPECIFICATION Spec
CONSTANTS
    Items = {i1, i2}
    Jobs = {1, 2}
    MaxAttempts = 1
    MaxAnswers = 2
    MaxFaults = 1
INVARIANTS TypeOK DiagnosedIsReal FollowsLatest
PROPERTIES FixedStaysFixed
SYMMETRY Symmetry
CHECK_DEADLOCK FALSE
