CONSTANTS
    s1 = s1  s2 = s2  s3 = s3  s4 = s4  r1 = r1  r2 = r2  r3 = r3
    None = None
    Secrets <- FourSecrets
    Requests <- ThreeRequests
SPECIFICATION Spec
SYMMETRY Symmetry
INVARIANTS BoundedReuse SInv
PROPERTIES NoLateUse
CHECK_DEADLOCK FALSE
