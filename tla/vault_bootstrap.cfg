SPECIFICATION Spec
CONSTANTS
    alice = alice
    bob = bob
    hospital = hospital
    Donors = {alice, bob}
    Recipients = {hospital}
    Vault = Vault
    MaxCampaigns = 1
    MilestonePlans <- OneCampaignPlans
    DepositAmounts = {1}
    InitialFunds <- TwoEach
SYMMETRY DonorSymmetry
INVARIANTS
    DonorListExact
    MilestonesInOrder
