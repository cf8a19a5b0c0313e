CONSTANTS
    t1 = t1  t2 = t2  e1 = e1  c1 = c1  c2 = c2
    p1 = p1  p2 = p2  p3 = p3  r1 = r1  r2 = r2
    None = None
    Tenants <- OneTenant
    Emails <- OneEmail
    Clients <- OneClient
    Registered <- OneAccount
    Pairs <- TwoPairs
    Requests <- TwoRequests
    AccessTTL = 1
    RefreshTTL = 2
    Horizon = 0
    MaxClock = 1
    MaxChanges = 1
SPECIFICATION Spec
INVARIANTS OldTokenIsDead
