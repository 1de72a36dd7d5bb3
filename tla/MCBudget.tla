------------------------------ MODULE MCBudget ------------------------------
\* Budget alone for TLC: two visitors, three turns in flight, two days.
EXTENDS Budget, TLC
CONSTANTS s1, s2, t1, t2, t3
MCSymmetry == Permutations({s1, s2}) \cup Permutations({t1, t2, t3})
=============================================================================
