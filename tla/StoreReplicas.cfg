SPECIFICATION Spec
CONSTANTS
    a = a
    b = b
    k1 = k1
    k2 = k2
    Nil = Nil
    o1 = o1
    o2 = o2
    Node = {a, b}
    Op = {o1, o2}
    Key = {k1, k2}
    ObjectId <- DistinctIds
    Frontends = {a, b}
    Peers <- PeerB
    Kinds = {"put", "get", "delete"}
    Policies = {"hot", "warm"}
    WarmShards = 2
    Opened = {a, b}
    Overlap = FALSE
    MaxFaults = 1
    MaxCrashes = 1
SYMMETRY OpSymmetry
INVARIANTS TypeOK GetIntegrity SerialPutsReadable SinglePutReplicated
CHECK_DEADLOCK FALSE
