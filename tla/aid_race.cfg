SPECIFICATION Spec
CONSTANTS
    aid = aid
    family = family
    receipt = receipt
    photo = photo
    again = again
    k1 = k1
    k2 = k2
    AidRequests = {aid}
    Beneficiaries = {family}
    BeneficiaryOf <- OfFamily
    Amount <- OneEach
    Wallets = {family}
    Proofs = {receipt, again, photo}
    RequestOf <- ForAid
    FileOf <- Contents
    Slots = {k1, k2}
    ENFORCE_PROOF_GATE = TRUE
    MIN_PROOFS_FOR_DISBURSE = 2
    EnforcesForeignKeys = FALSE
    MaxPayments = 2
    MaxFaults = 1
    NoProof = NoProof
    Idle = Idle
SYMMETRY SlotSymmetry
INVARIANTS
    PaidOnApproval
    GateEvidence
    BooksNotInflated
    ProofsCounted
PROPERTIES
    
    RejectionStays
