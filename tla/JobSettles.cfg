SPECIFICATION FairSpec
CONSTANTS
    n1 = n1
    n2 = n2
    j1 = j1
    j2 = j2
    NoNode = NoNode
    Node = {n1, n2}
    Job = {j1, j2}
    Origins = {n1}
    Cancellable = {j1}
    Picks <- AnyPick
    MaxRetries = 2
    MaxFaults = 0
    MaxCrashes = 0
PROPERTIES EventuallySettled
CHECK_DEADLOCK FALSE
