----------------------------- MODULE MCLivePages -----------------------------
(***************************************************************************)
(* LivePages on a small instance: two keys and two loads at a time, for an *)
(* answer about the other key and for one overtaken by a later one.        *)
(***************************************************************************)
EXTENDS LivePages

CONSTANTS k1, k2, s1, s2
=============================================================================
