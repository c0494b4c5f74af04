--------------------------- MODULE MCBillPayments ---------------------------
(* Instances of BillPayments for TLC. *)
EXTENDS BillPaymentsInductive, TLC

OneTotal == [b \in Bills |-> 7]
Symmetric == Permutations(Workers)
=============================================================================
