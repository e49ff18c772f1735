---------------------------- MODULE MCDonorWallet ----------------------------
(***************************************************************************)
(* DonorWallet on a small instance: one card that pays from the wallet,    *)
(* one that spends the balance, one top-up modal.                          *)
(***************************************************************************)
EXTENDS DonorWallet, TLC

CONSTANTS slug, card, modal, k1, k2, k3, h1

PaidBy == slug :> "stellar" @@ card :> "balance" @@ modal :> "topup"
=============================================================================
