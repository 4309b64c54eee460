SPECIFICATION MCNs3Spec
CONSTANTS
    Formal <- ThreeJobs
    Smoke <- SmokePair
    Workers = 2
    Version = {"a", "b"}
    Export <- SameModel
    Learning = {2, 3, 9}
    Spoilt <- SpoiltInA
    Nothing = nothing
    MaxFaults = 2
INVARIANTS MatrixIsAccounted EvidenceIsHonest
PROPERTIES Completes
