---------------------------- MODULE MCReviewDesk -----------------------------
(***************************************************************************)
(* ReviewDesk on a small instance.  The page and the kinds of the rows are *)
(* chosen by Init, so that one run covers the three pages and every pair   *)
(* of kinds.  No property of the run is about overlapping calls of the     *)
(* console, so it is given one at a time (with others', from Elsewhere).   *)
(***************************************************************************)
EXTENDS ReviewDesk, TLC

CONSTANTS r1, r2, c1, c2, k1, k2

OneConsoleCall ==
    page = "console" => \A j, k \in Slots : call[j] # None /\ call[k] # None => j = k

Symmetry == Permutations({k1, k2}) \cup Permutations({r1, r2})
=============================================================================
