SPECIFICATION FairSpec
CONSTANTS
    Node = {1, 2, 3}
    Seeds <- StarSeeds
    Tier <- BootstrapTier
    Founders = {1, 2, 3}
    SuspectAfter = 2
    OfflineAfter = 3
    MaxKills = 1
    MaxFreezes = 0
    MaxGlitches = 0
PROPERTIES DeadShownOffline
