SPECIFICATION Spec
CONSTANTS
    n1 = n1
    n2 = n2
    Node = {n1, n2}
    Seeds <- StarSeeds
    MayCopy = {n2}
    FirstIssuer = {n1}
    MaxGen = 4
    MaxAttempts = 2
    MaxCrashes = 3
    MaxChanges = 1
INVARIANTS
    TypeOK
    IdentityKept
    HandedCaKept
    AcceptedBundleWhole
    RevocationKept
CHECK_DEADLOCK FALSE
