SPECIFICATION DeployedSpec
CONSTANTS
    alice = alice
    bob = bob
    hospital = hospital
    Donors = {alice, bob}
    Recipients = {hospital}
    Vault = Vault
    MaxCampaigns = 2
    MilestonePlans <- TwoCampaignPlans
    DepositAmounts = {0, 1, 2}
    InitialFunds <- Uneven
INVARIANTS
    TotalsAgree
    PoolAccounts
    ClawbackHasMajority
    RefundsFair
PROPERTIES
    ProgressNeverReset
    ClawbackIsFinal
    PayoutsAreEarned
    ImplementsEscrow
