SPECIFICATION MCChannelSpec
CONSTANTS
    w1 = w1
    w2 = w2
    Node = {w1, w2}
    Nru = {w1}
    Kind <- KindPair
    Alpha = 2
    PrimaryM = 2
    PrimaryBeta = 1
    DefaultProfile <- ShortProfile
    Profiles <- TwoProfiles
    CwMin = 0
    CwMax <- CwMaxTwo
    InitialBackoff = 1
    SlotUs = 1
    TxUs = 3
    WifiAckUs = 1
    NruSyncUs = 3
    BusyDurations = {2}
    MaxNow = 14
    MaxRetries = 3
    MaxInterruptions = 3
INVARIANTS RecoveryState SuccessesAreExclusive RoundsAreWaitedFor NruStartsSynchronised
PROPERTIES InterruptionsArePaid ConvergedRotates
CHECK_DEADLOCK FALSE
