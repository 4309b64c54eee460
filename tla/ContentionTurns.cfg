SPECIFICATION MCSaturatedSpec
CONSTANTS
    w1 = w1
    w2 = w2
    w3 = w3
    Node = {w1, w2, w3}
    Kind <- KindDb
    Alpha = 3
    PrimaryM = 3
    PrimaryBeta = 1
    DefaultProfile <- LongProfile
    Profiles <- TwoProfiles
    CwMin = 0
    CwMax <- CwMaxTwo
    InitialBackoff = 2
    MaxRetries = 3
    MaxInterruptions = 6
INVARIANT NobodyStarves
PROPERTY TakesTurns
CHECK_DEADLOCK FALSE
