CONSTANTS
    r1 = r1  r2 = r2  r3 = r3
    Requests <- TwoRequests
    Max = 2
    LockFor = 2
    StaleAfter = 2
SPECIFICATION Spec
PROPERTIES LockHolds
