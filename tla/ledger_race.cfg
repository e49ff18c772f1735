SPECIFICATION Spec
CONSTANTS
    Users = {ann, ben}
    Hashes = {h1}
    References = {ref1}
    Amounts = {1, 2}
    Requests = {r1, r2}
    MaxRows = 1
    MaxAborts = 1
    NoHash = NoHash
    NoBody = NoBody
SYMMETRY LedgerSymmetry
INVARIANTS
    DebitsMatchDonations
    ConfirmedIsBacked
    CreditsArePayments
