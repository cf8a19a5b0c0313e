CONSTANTS
    a = a  b = b
    Replica <- TwoReplicas
    Operator = op
    Migrations = 2
    MaxKeys = 2
    MaxTokens = 1
    MaxFaults = 1
SPECIFICATION FairSpec
INVARIANTS RInv MigrationsInOrder ServesReady OwnTokensVerify PublishedBeforeUse
PROPERTIES RotationReachesAll SigningConverges StartupSettles
