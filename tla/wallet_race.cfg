SPECIFICATION FairSpec
CONSTANTS
    slug = slug
    card = card
    modal = modal
    k1 = k1
    k2 = k2
    k3 = k3
    h1 = h1
    Pages = {slug, card, modal}
    Via <- PaidBy
    Attempts = {k1, k2}
    Old = {h1}
    None = None
INVARIANTS
    RecordedIsPaid
    LostOnlyWhenTold
PROPERTIES
    KeptUntilRecorded
    PaymentsResolve
