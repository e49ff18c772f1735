--------------------------- MODULE MCDonorStreaks ----------------------------
EXTENDS DonorStreaks, TLC

CONSTANTS d1, d2, d3, t1, t2

\* Every month may reach the next tier.
Close == <<1, 2, 3>>

StreakSymmetry == Permutations({d1, d2, d3}) \cup Permutations({t1, t2})
=============================================================================
