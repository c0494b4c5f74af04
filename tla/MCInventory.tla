------------------------------ MODULE MCInventory ------------------------------
EXTENDS Inventory, TLC

CONSTANTS i1, i2, o1, o2, p1, w1, w2

\* Both orders need both items; the purchase order brings one or two of each.
NeedsOf == [o \in Orders |-> [i \in Items |-> 1]]
OrderedOf == [p \in Purchases |-> [i \in Items |-> IF i = i1 THEN 2 ELSE 1]]

MinusOne == {-1}

Symmetric == Permutations(Workers)
=============================================================================
