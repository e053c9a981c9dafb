SPECIFICATION FairSpec
CONSTANTS
    n1 = n1
    n2 = n2
    j1 = j1
    j2 = j2
    NoNode = NoNode
    Node = {n1, n2}
    Job = {j1, j2}
    Origins = {n1, n2}
    Cancellable = {}
    Picks <- AlwaysANode
    MaxRetries = 0
    MaxFaults = 0
    MaxCrashes = 0
PROPERTIES ResultPropagates
CHECK_DEADLOCK FALSE
