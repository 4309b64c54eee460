SPECIFICATION MCPretrainingSpec
CONSTANTS
    p1 = p1
    p2 = p2
    v0 = v0
    v1 = v1
    v2 = v2
    Publisher = {p1, p2}
    Reader = {r1}
    Version = {v0, v1, v2}
    Makes <- MakesOwn
    Initially = {v0, absent}
    Absent = absent
    MaxFaults = 3
INVARIANTS AcceptedIsConsistent RollsBack
PROPERTIES Repairs
