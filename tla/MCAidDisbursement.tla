------------------------- MODULE MCAidDisbursement -------------------------
(***************************************************************************)
(* AidDisbursement on small instances: one beneficiary, and proofs of      *)
(* which two hold the same file.                                           *)
(***************************************************************************)
EXTENDS AidDisbursement, TLC

CONSTANTS aid, family, receipt, photo, again, k1, k2

OfFamily  == [q \in AidRequests |-> family]
OneEach   == [q \in AidRequests |-> 1]
ForAid    == [p \in Proofs |-> aid]
Contents  == [p \in Proofs |-> IF p = again THEN receipt ELSE p]

SlotSymmetry == Permutations(Slots)
=============================================================================
