SPECIFICATION MCReadSpec
CONSTANTS
    w1 = w1
    w2 = w2
    a0 = a0
    a1 = a1
    NoArm = none
    Node = {w1, w2}
    Index <- IndexOf
    Alpha = 1
    PrimaryM = 2
    PrimaryBeta = 1
    DefaultProfile <- Profile
    CwMin = 0
    CwMax <- CwMaxOne
    InitialBackoff = 1
    SlotUs = 1
    TxUs = 2
    WifiAckUs = 0
    NruSyncUs = 2
    Nru = {w2}
    Kind <- KindTmc
    Profiles <- Only
    BusyDurations = {2}
    Arms = {a0}
    ArmProfile <- OnlyArm
    DecisionInterval = 2
    ReadyAttempts = 1
    Jobs <- AllJobs
    QueueCapacity = 2
    MaxIdleTicks = 2
    MaxArrivals = 1
    Policies = {"tmc_db_lbt"}
    RequiredArm = a0
    MaxNow = 1000
INVARIANTS QueueMatchesBacklog TimeSampledOnce RowIsAccepted SomebodyActive
PROPERTIES JobEnds
CHECK_DEADLOCK FALSE
