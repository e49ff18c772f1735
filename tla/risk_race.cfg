SPECIFICATION AuditSpec
CONSTANTS
    p1 = p1
    s1 = s1
    s2 = s2
    Proofs = {p1}
    Claimed <- Amounts
    Requested <- Asked
    Purposes = {"vague", "short"}
    OtherFlags <- Odd
    Answers <- Sayings
    NaN = NaN
    MaxDecided = 1
    NoAnswer = NoAnswer
    Scans = {s1, s2}
    Nothing = Nothing
SYMMETRY ScanSymmetry
PROPERTIES
    LoneScanIsComplete
