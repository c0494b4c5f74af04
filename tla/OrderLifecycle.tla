---------------------------- MODULE OrderLifecycle ----------------------------
(***************************************************************************)
(* What the life of an order promises: it moves forward along its          *)
(* lifecycle one status at a time, it is accepted once, by the cashier or  *)
(* by the smart cashier, and its stock is taken in that very step.         *)
(***************************************************************************)
EXTENDS Integers

CONSTANT Orders

VARIABLES status,   \* of each order
          taken     \* how often its stock has been taken

Init == /\ status = [o \in Orders |-> "submitted"]
        /\ taken = [o \in Orders |-> 0]

\* An order with nothing to prepare is ready as soon as it is accepted.
Accept(o) ==
  /\ status[o] = "submitted" /\ taken[o] = 0
  /\ \E s \in {"accepted", "ready"} : status' = [status EXCEPT ![o] = s]
  /\ taken' = [taken EXCEPT ![o] = 1]

Edges == {<<"submitted", "rejected">>, <<"submitted", "cancelled">>,
          <<"accepted", "preparing">>, <<"accepted", "ready">>, <<"accepted", "cancelled">>,
          <<"preparing", "ready">>, <<"preparing", "cancelled">>,
          <<"ready", "served">>, <<"served", "completed">>}

Move(o) ==
  /\ \E s \in {e[2] : e \in {e \in Edges : e[1] = status[o]}} :
       status' = [status EXCEPT ![o] = s]
  /\ UNCHANGED taken

Next == \E o \in Orders : Accept(o) \/ Move(o)

Spec == Init /\ [][Next]_<<status, taken>>
=============================================================================
