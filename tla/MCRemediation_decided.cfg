SPECIFICATION Spec
CONSTANTS
    Approvals = {a1, a2}
    Rejections = {r1}
PROPERTY ClaimsUndecided
CHECK_DEADLOCK FALSE
