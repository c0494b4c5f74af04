----------------------------- MODULE BillLedger -----------------------------
(***************************************************************************)
(* What the payment of bills promises to the books, however the requests   *)
(* that pay interleave: a bill is collected once, by the cashier or by one *)
(* online payment; an online payment that went through at the provider     *)
(* gets one result and keeps it: it settled its bill, or it was skipped    *)
(* and is money to give back.                                              *)
(***************************************************************************)
CONSTANTS Bills, Intents

VARIABLES collected,  \* the bills that have been paid
          result      \* of each online payment: none, settled or skipped

Init == collected = {} /\ result = [i \in Intents |-> "none"]

CollectAtCounter(b) ==
  /\ b \notin collected
  /\ collected' = collected \cup {b}
  /\ UNCHANGED result

CollectOnline(b, i) ==
  /\ b \notin collected /\ result[i] = "none"
  /\ collected' = collected \cup {b}
  /\ result' = [result EXCEPT ![i] = "settled"]

Skip(i) ==
  /\ result[i] = "none"
  /\ result' = [result EXCEPT ![i] = "skipped"]
  /\ UNCHANGED collected

Next == \/ \E b \in Bills : CollectAtCounter(b) \/ \E i \in Intents : CollectOnline(b, i)
        \/ \E i \in Intents : Skip(i)

Spec == Init /\ [][Next]_<<collected, result>>
=============================================================================
