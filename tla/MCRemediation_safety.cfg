SPECIFICATION FairSpec
CONSTANTS
    Approvals = {a1, a2}
    Rejections = {r1}
INVARIANTS TypeOK MutualExclusion PendingIsUntouched AppliedIsRolledOut
PROPERTIES DecidedIsFinal Settles
CHECK_DEADLOCK FALSE
