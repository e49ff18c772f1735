----------------------------- MODULE MCRiskAudit ------------------------------
EXTENDS RiskAudit, TLC

CONSTANTS p1, s1, s2

Asked == 100

\* 60% less than requested.
Amounts == p1 :> 40

Odd == {Flag("other", High)}

Says(score, level, flags) == [score |-> score, level |-> level, flags |-> flags]

\* The model is alarmed, at length, or answers with a score that is no number,
\* a level above what that comes to, and less than the rules find.
Alarmed == Says(70, Low, <<Flag("other", High), Flag("other", High)>>)
Garbled == Says(NaN, Medium, <<Flag("spending_variance", Medium)>>)

Sayings == {Alarmed, Garbled}

ScanSymmetry == Permutations({s1, s2})
=============================================================================
