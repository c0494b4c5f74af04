------------------------- MODULE MCPaymentOperations -------------------------
(* Instances of PaymentOperations for TLC. *)
EXTENDS PaymentOperations, TLC

CONSTANTS p1, p2

\* Payments of 2, made with Paymob, the second with Fawry.
ProviderOf == [i \in Payments |-> IF i = p2 THEN "fawry" ELSE "paymob"]
Two == [i \in Payments |-> 2]

Refunds == {"refund"} \X {1, 2}
RefundsAndVoids == Refunds \cup {<<"void", 2>>}
Everything == RefundsAndVoids \cup {<<"capture", 2>>}

Symmetric == Permutations(Workers) \cup Permutations(Keys)
=============================================================================
