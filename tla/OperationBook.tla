----------------------------- MODULE OperationBook -----------------------------
(***************************************************************************)
(* What refunds, voids and captures promise to the books: each is asked    *)
(* for once, one at a time for a payment, gets one result and keeps it,    *)
(* and no more than the payment is ever given back.                        *)
(***************************************************************************)
EXTENDS Integers

CONSTANTS Payments, Keys, Amount, None

VARIABLES status,  \* of the operation of each key
          of,      \* the payment it is for
          given    \* what has been given back of each payment

Init == /\ status = [k \in Keys |-> "unborn"] /\ of = [k \in Keys |-> None]
        /\ given = [i \in Payments |-> 0]

Ask(k, i) ==
  /\ status[k] = "unborn"
  /\ \A j \in Keys : of[j] = i => status[j] # "pending"
  /\ status' = [status EXCEPT ![k] = "pending"] /\ of' = [of EXCEPT ![k] = i]
  /\ UNCHANGED given

Fail(k) ==
  /\ status[k] = "pending"
  /\ status' = [status EXCEPT ![k] = "failed"]
  /\ UNCHANGED <<of, given>>

\* A capture gives nothing back.
Succeed(k) ==
  /\ status[k] = "pending"
  /\ status' = [status EXCEPT ![k] = "succeeded"]
  /\ \E a \in 0 .. (Amount[of[k]] - given[of[k]]) :
       given' = [given EXCEPT ![of[k]] = @ + a]
  /\ UNCHANGED of

Next == \E k \in Keys : Fail(k) \/ Succeed(k) \/ \E i \in Payments : Ask(k, i)

Spec == Init /\ [][Next]_<<status, of, given>>
=============================================================================
