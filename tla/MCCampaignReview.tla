-------------------------- MODULE MCCampaignReview --------------------------
(***************************************************************************)
(* CampaignReview on a small instance: two campaigns without a cover, one  *)
(* image either may ask for and then ask to remove, and one donation each, *)
(* so that one campaign's release can be mistaken for the other's.         *)
(***************************************************************************)
EXTENDS CampaignReview, TLC

CONSTANTS relief, school, flood, k1, k2, gift, grant

Covers == relief :> NoImage @@ school :> NoImage

GivenTo == gift :> relief @@ grant :> school

SlotSymmetry == Permutations(Slots)
=============================================================================
