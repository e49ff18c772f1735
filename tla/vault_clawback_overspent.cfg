SPECIFICATION DeployedSpec
CONSTANTS
    alice = alice
    bob = bob
    hospital = hospital
    Donors = {alice, bob}
    Recipients = {hospital}
    Vault = Vault
    MaxCampaigns = 2
    MilestonePlans <- TwoCampaignPlans
    DepositAmounts = {1, 2}
    InitialFunds <- TwoEach
SYMMETRY DonorSymmetry
INVARIANTS
    ClawedBackWithinDeposits
