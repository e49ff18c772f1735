SPECIFICATION Spec
CONSTANTS
    d1 = d1
    d2 = d2
    d3 = d3
    t1 = t1
    t2 = t2
    Donations = {d1, d2, d3}
    FirstMonth = 23
    LastMonth = 25
    Thresholds <- Close
    Tasks = {t1, t2}
    MaxFaults = 1
    None = None
SYMMETRY StreakSymmetry
INVARIANTS
    NothingUnearned
PROPERTIES
    LoneRecomputeIsExact
