---------------------------- MODULE MCTableOrdering ----------------------------
EXTENDS TableOrdering, TLC

CONSTANTS s1, s2, c1, c2, i1, k1, k2, w1, w2

OneSession == [k \in Keys |-> s1]
Symmetric == Permutations(Keys) \cup Permutations(Workers)
=============================================================================
