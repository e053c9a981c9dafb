SPECIFICATION Spec
CONSTANTS
    j1 = j1
    t1 = t1
    n1 = n1
    n2 = n2
    Job = {j1}
    Node = {n1, n2}
    JobStatus = {"completed"}
    Token = {t1}
    NoNode = NoNode
    NoEntry = NoEntry
    Candidate = {1, 2}
    Sent <- JobCommands
    MaxTerm = 1
    MaxIndex = 3
    MaxBatch = 2
    MaxCrashes = 2
SYMMETRY NodeSymmetry
INVARIANTS
    TypeOK
    RestartCanReplay
    AckedSurvives
    HoleNeedsCut
PROPERTIES
    VotesGoUp
    JobOwnerKept
    RegistryPromise
CHECK_DEADLOCK FALSE
