-------------------------- MODULE VaultRefinement --------------------------
(***************************************************************************)
(* The refinement mapping from DonationVault to EscrowLifecycle.           *)
(***************************************************************************)
EXTENDS DonationVault

\* The current milestone is waiting to be released.
CurrentVerified(c) ==
    /\ HasCurrentMilestone(c)
    /\ milestone[c][CurrentIndex(c)].status = "Verified"

AccountOf(c) ==
    [raised   |-> campaign[c].total_deposited,
     spent    |-> campaign[c].total_released,
     stage    |-> campaign[c].current_milestone,
     approved |-> CurrentVerified(c),
     frozen   |-> campaign[c].paused,
     settled  |-> campaign[c].clawback_executed]

Escrow == INSTANCE EscrowLifecycle
          WITH Ids <- CampaignIds, escrow <- [c \in CampaignIds |-> AccountOf(c)]

\* Every invocation of a deployed vault is, for each campaign, a step the
\* escrow's promise allows.
ImplementsEscrow == Escrow!Spec
=============================================================================
