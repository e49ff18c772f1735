-------------------------- MODULE MCDonationVault --------------------------
(***************************************************************************)
(* DonationVault on small instances.                                       *)
(***************************************************************************)
EXTENDS VaultRefinement, TLC

CONSTANTS alice, bob, hospital

\* A submitted milestone that pays the hospital.
Pay(n) == [amount |-> n, recipient |-> hospital]

\* The plans of the bootstrap run: two milestones, and one milestone whose
\* amount create_campaign should have refused.
OneCampaignPlans == {<<Pay(1), Pay(1)>>, <<Pay(-1)>>}

\* The plans of the runs with two campaigns: a cheap milestone followed by one
\* that asks for more than the campaign is likely to raise, and an empty one.
TwoCampaignPlans == {<<Pay(1), Pay(2)>>, <<>>}

\* Each donor's tokens.
TwoEach   == [d \in Donors |-> 2]
Uneven    == [d \in Donors |-> IF d = alice THEN 3 ELSE 1]

DonorSymmetry == Permutations(Donors)
=============================================================================
