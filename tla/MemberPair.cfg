SPECIFICATION FairSpec
CONSTANTS
    Node = {1, 2}
    Seeds <- StarSeeds
    Tier <- BootstrapTier
    Founders = {}
    SuspectAfter = 3
    OfflineAfter = 4
    MaxKills = 1
    MaxFreezes = 1
    MaxGlitches = 1
INVARIANTS TypeOK WrongSuspicionIsShort SightingFollowsEntry
PROPERTIES DeadShownOffline
