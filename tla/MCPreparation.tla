----------------------------- MODULE MCPreparation -----------------------------
(* Instance of Preparation for TLC. *)
EXTENDS Preparation, TLC

CONSTANTS o1, o2, t1, t2, w1, w2

\* One order with two items for one station; the other order has nothing to prepare.
OrderOfItem == [t \in Tasks |-> o1]
StationOfItem == [t \in Tasks |-> "kitchen"]

Symmetric == Permutations(Workers)
=============================================================================
