SPECIFICATION Spec
CONSTANTS
    a = a
    b = b
    k1 = k1
    k2 = k2
    Nil = Nil
    o1 = o1
    o2 = o2
    o3 = o3
    Node = {a}
    Op = {o1, o2, o3}
    Key = {k1, k2}
    ObjectId <- SameId
    Frontends = {a}
    Peers <- NoPeers
    Kinds = {"put", "get", "delete"}
    Policies = {"hot", "warm"}
    WarmShards = 2
    Opened = {}
    Overlap = TRUE
    MaxFaults = 1
    MaxCrashes = 1
SYMMETRY OpSymmetry
INVARIANTS GetIntegrity DamageNeedsRival
CHECK_DEADLOCK FALSE
