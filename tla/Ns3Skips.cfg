SPECIFICATION MCNs3Spec
CONSTANTS
    Formal <- TwoJobs
    Smoke <- SmokePair
    Workers = 2
    Version = {"a", "b"}
    Export <- SameModel
    Learning = {2, 3, 9}
    Spoilt <- SpoiltInA
    Nothing = nothing
    MaxFaults = 2
PROPERTIES SkipsOnlyComplete
