CONSTANTS
    t1 = t1  t2 = t2  k1 = k1  k2 = k2  p1 = p1  n1 = n1
    c = c  paddedC = paddedC  g = g  paddedG = paddedG
    x1 = x1  x2 = x2  r1 = r1  r2 = r2
    Empty = Empty  Root = Root  None = None  ConfiguredSecret = ConfiguredSecret
    Tenants <- TwoTenants
    Default = t1
    Keys <- TwoKeys
    Prefixes <- OnePrefix
    Prefix <- SamePrefix
    Names <- OneName
    ClientIds <- Ids
    Trim <- Trimmed
    Configured = g
    Secrets <- TwoSecrets
    Requests <- OneRequest
SPECIFICATION FairSpec
INVARIANTS WInv CredentialsConfined HandedOutWorks
PROPERTIES RevocationDrains
