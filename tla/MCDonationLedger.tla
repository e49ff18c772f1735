-------------------------- MODULE MCDonationLedger --------------------------
(***************************************************************************)
(* DonationLedger on small instances.                                      *)
(***************************************************************************)
EXTENDS DonationLedger, TLC

\* Users, slots and references are interchangeable.
LedgerSymmetry ==
    Permutations(Users) \cup Permutations(Requests) \cup Permutations(References)
=============================================================================
