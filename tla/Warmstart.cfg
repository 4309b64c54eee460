SPECIFICATION MCWarmSpec
CONSTANTS
    Arm = {0, 1}
    MinPhaseRounds = 2
    RunId <- RunIdOf
    Matrices <- AllMatrices
    PretrainingSeeds = {1, 2}
    Contents <- RecordsOf
    Float <- Floats
    Spacing = 2
    Grid = grid
    OldGrid = other
    Contender = {c1, c2}
    Nothing = nothing
INVARIANTS AcceptedIsPaired LearnsTheRecords OracleIsBest
CHECK_DEADLOCK FALSE
