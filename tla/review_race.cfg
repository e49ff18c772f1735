SPECIFICATION Spec
CONSTANTS
    relief = relief
    school = school
    flood = flood
    gift = gift
    grant = grant
    k1 = k1
    k2 = k2
    Campaigns = {relief, school}
    FirstImage <- Covers
    Images = {flood}
    NoImage = NoImage
    Donations = {gift, grant}
    PurposeOf <- GivenTo
    Slots = {k1, k2}
    MaxLog = 2
    MaxFaults = 1
    Idle = Idle
SYMMETRY SlotSymmetry
INVARIANTS
    OnePending
    CoverIsReviewed
    DeletedIsHidden
    DisbursedByRelease
PROPERTIES
    DecidedOnce
