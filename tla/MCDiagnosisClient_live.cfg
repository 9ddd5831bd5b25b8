SPECIFICATION FairSpec
CONSTANTS
    Items = {i1}
    Jobs = {1, 2}
    MaxAttempts = 1
    MaxAnswers = 1
    MaxFaults = 1
PROPERTIES DiagnosesEnd PhaseSettles
CHECK_DEADLOCK FALSE
