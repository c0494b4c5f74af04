---------------------------- MODULE MCCashierShifts ----------------------------
EXTENDS CashierShifts, TLC

CONSTANTS s1, s2, b1, b2, w1, w2

AmountOf == (b1 :> 2) @@ (b2 :> 2)
SomeAdjustments == {-1}
Symmetric == Permutations(Shifts) \cup Permutations(Bills) \cup Permutations(Workers)
=============================================================================
