SPECIFICATION Spec
CONSTANTS
    r1 = r1
    r2 = r2
    Requests <- TwoRequests
    MaxEdits = 1
INVARIANTS
    AnsweredReloadIsInUse
