------------------------ MODULE BillPaymentsInductive ------------------------
(***************************************************************************)
(* The inductive invariant behind the safety properties of BillPayments:   *)
(* what a request's local variables and the provider's records say about   *)
(* the tables, at every step of every request.                             *)
(***************************************************************************)
EXTENDS BillPayments

\* The intent has been inserted.
Born(i) == intent[i].status # "unborn"

\* The steps at which a request is about a bill, and about an intent.
BillSteps == {"readBill", "lock", "insert", "manual", "cancel", "present", "close"}
IntentSteps == {"insert", "call", "ready", "initfail", "inquire", "expire",
                "apply", "succeed", "update", "revive", "restore"}

\* A request refers to rows that exist.
RefersToRows(r) ==
  /\ r.step \in BillSteps \/ r.source = "retry" => r.bill \in Bills
  /\ r.step \in IntentSteps => r.intent \in Intents
  /\ r.step \in IntentSteps \ {"insert"} => Born(r.intent)

\* What it has read of a bill is still true where it matters: a balance that
\* was due was the whole total, and a paid bill has a payment.
BillReadsHold(r) ==
  /\ r.step \in {"lock", "insert"} => r.due = Total[r.bill] /\ r.due > 0
  /\ r.step = "manual" => r.due > 0
  /\ r.step = "close" => bill[r.bill].paid = 1

\* What it has learnt about an intent: a success at the provider is final, and
\* a row that an open transaction has updated is as the transaction found it.
IntentReadsHold(r) ==
  /\ r.step \in {"readBill", "lock", "insert", "call", "ready", "initfail"}
       => r.version = NoVersion
  /\ r.step = "insert" => ~Born(r.intent)
  /\ r.step = "call" => psp[r.intent].status = "unknown"
  /\ r.step \in IntentSteps /\ r.version.status = "succeeded"
       => psp[r.intent].status = "succeeded"
  /\ r.step = "succeed" => r.version.status = "succeeded" /\ psp[r.intent].ok
  /\ r.step = "restore" /\ r.write # "none" => Active(r.intent)

RequestOK(r) == RefersToRows(r) /\ BillReadsHold(r) /\ IntentReadsHold(r)

\* Two requests never create, nor give up, the same intent.
Creates(r, i) == r.step \in {"insert", "call"} /\ r.intent = i
HoldsRow(r, i) == r.step = "restore" /\ r.write # "none" /\ r.intent = i

NoTwoOwners ==
  \A v, w \in Workers : v # w =>
    \A i \in Intents : /\ ~(Creates(op[v], i) /\ Creates(op[w], i))
                       /\ ~(HoldsRow(op[v], i) /\ HoldsRow(op[w], i))

\* An intent is for the whole of its bill, has a result exactly when it has
\* succeeded, and is known to the provider only once it exists.
IntentOK(i) ==
  /\ Born(i) => /\ intent[i].bill \in Bills
                /\ intent[i].amount = Total[intent[i].bill]
                /\ intent[i].amount > 0
  /\ intent[i].outcome = "none" <=> intent[i].status # "succeeded"
  /\ psp[i].status # "unknown" => Born(i)
  /\ psp[i].n > 0 => psp[i].status # "unknown"

RequestsOK == \A w \in Workers : RequestOK(op[w])
IntentsOK == \A i \in Intents : IntentOK(i)

\* The invariant: the reads and the rows as above, and the safety properties.
IInv == /\ TypeOK /\ RequestsOK /\ NoTwoOwners /\ IntentsOK
        /\ BooksBalance /\ SettledOnce /\ OneActiveIntent /\ SuccessIsReal
=============================================================================
