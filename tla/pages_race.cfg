SPECIFICATION FairSpec
CONSTANTS
    k1 = k1
    k2 = k2
    s1 = s1
    s2 = s2
    Keys = {k1, k2}
    Slots = {s1, s2}
    MaxVersion = 2
    MaxMoves = 2
    None = None
INVARIANTS
    LastWordIsKeys
    AbsenceIsAnswered
PROPERTIES
    NeverOlder
    CatchesUp
CHECK_DEADLOCK FALSE
