SPECIFICATION Spec
CONSTANTS
    n1 = n1
    n2 = n2
    n3 = n3
    j1 = j1
    NoNode = NoNode
    Node = {n1, n2, n3}
    Job = {j1}
    Origins = {n1}
    Cancellable = {j1}
    Picks <- AnyPick
    MaxRetries = 2
    MaxFaults = 2
    MaxCrashes = 1
INVARIANTS TypeOK TerminalTruth VerdictExact DuplicateNeedsLostAck
PROPERTIES OnceDispatchFinal CancelBeatsRetry JobPromiseKept
CHECK_DEADLOCK FALSE
