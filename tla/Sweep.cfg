SPECIFICATION MCSweepSpec
CONSTANTS
    s1 = s1
    s2 = s2
    Sweeper = {s1, s2}
    Matrix <- ThreeAndTwo
    MaxWorkers = 2
    Learners = {2}
    Models = {"a", "b"}
    Nothing = nothing
    MaxFaults = 2
INVARIANTS PoolIsFull NothingOutlives OneAgent ReturnIsComplete
PROPERTIES Resumes
