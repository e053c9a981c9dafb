SPECIFICATION FairSpec
CONSTANTS
    a1 = a1
    a2 = a2
    l1 = l1
    p1 = p1
    p2 = p2
    Launch = {a1, a2}
    Listener = {l1}
    Peer = {p1, p2}
    Capacity = 2
    Lines <- FewLines
    MaxMoves = 4
    MaxJobs = 1
INVARIANTS
    TypeOK
    NothingMissed
    ResultAfterOutput
    FeedTracksWatcher
PROPERTIES
    FeedCatchesUp
ACTION_CONSTRAINT OneFeed
CHECK_DEADLOCK FALSE
