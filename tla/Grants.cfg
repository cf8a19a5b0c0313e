CONSTANTS
    a1 = a1  c1 = c1  i1 = i1  i2 = i2  k1 = k1  t1 = t1  t2 = t2  t3 = t3
    x1 = x1  x2 = x2  r1 = r1  r2 = r2
    None = None  Moving = Moving
    Accounts <- OneAccount
    Clients <- OneClient
    Requests <- TwoRequests
    AuthIds <- OneId
    Cookies <- OneCookie
    Refreshes <- TwoRefreshes
    Accesses <- TwoAccesses
    MaxChanges = 1
SYMMETRY Symmetry
SPECIFICATION Spec
INVARIANTS OneHeir AccessFollows GrantsAfterChange CodeUsesCounted GInv
PROPERTIES ImplementsFamilies LogoutEndsClient
CHECK_DEADLOCK FALSE
