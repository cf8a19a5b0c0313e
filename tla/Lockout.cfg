CONSTANTS
    r1 = r1  r2 = r2  r3 = r3
    Requests <- ThreeRequests
    Max = 3
    LockFor = 2
    StaleAfter = 2
SPECIFICATION FairSpec
INVARIANTS LInv BoundedOvershoot
PROPERTIES SweepSparesLocks LockRunsOut
