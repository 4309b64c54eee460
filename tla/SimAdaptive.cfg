SPECIFICATION MCReadSpec
CONSTANTS
    w1 = w1
    w2 = w2
    a0 = a0
    a1 = a1
    NoArm = none
    Node = {w1, w2}
    Index <- IndexOf
    Alpha = 1
    PrimaryM = 2
    PrimaryBeta = 1
    DefaultProfile <- Profile
    CwMin = 0
    CwMax <- CwMaxOne
    InitialBackoff = 1
    SlotUs = 1
    TxUs = 2
    WifiAckUs = 0
    NruSyncUs = 2
    Nru = {w2}
    Kind <- KindAdaptive
    Profiles <- Both
    BusyDurations = {2}
    Arms = {a0, a1}
    ArmProfile <- BothArms
    DecisionInterval = 2
    ReadyAttempts = 1
    Jobs <- Adaptives
    QueueCapacity = 2
    MaxIdleTicks = 1
    MaxArrivals = 1
    Policies = {"adaptive_db_lbt", "pretrain_arm"}
    RequiredArm = a0
    MaxNow = 1000
INVARIANTS NeverRaises ArrivalsRecordedOnce RowIsAccepted SamplesPrecedeRewards AgentsReplay AccountsFit RewardsOwnDraws
PROPERTIES DrivesController
CHECK_DEADLOCK FALSE
