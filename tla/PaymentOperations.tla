--------------------------- MODULE PaymentOperations ---------------------------
(***************************************************************************)
(* Refunds, voids and captures of online payments: what staff ask for,     *)
(* what the provider is told and answers, and how an operation whose       *)
(* answer was lost is recovered, by asking the provider or by the webhook  *)
(* of the child transaction it made.                                       *)
(*                                                                         *)
(* Source: apps/api/src/online-payments/online-payments.service.ts.        *)
(*                                                                         *)
(* A worker serves one request at a time; op[w] holds its local variables. *)
(* The steps of a request are cut as in BillPayments: where another        *)
(* request could commit between two statements and be noticed.             *)
(***************************************************************************)
EXTENDS Integers, FiniteSets, Functions

CONSTANTS
  Payments,     \* online payment intents the provider has charged or authorized
  Keys,         \* idempotency keys; a key names the one operation it creates
  Workers,      \* requests served at the same time
  Provider,     \* [Payments -> {"paymob", "fawry"}]
  Authorized,   \* the payments that are authorized only, and not captured yet
  Amount,       \* [Payments -> Nat], OnlinePaymentIntent.amountMinor
  Requests,     \* what staff ask for: set of <<type, amount>>
  PartialFlag,  \* does a partial refund set the provider's is_refunded?
  Nameless,     \* may the provider's answer leave out the child's id?
  MaxCrashes,   \* bound: requests that die half way
  None          \* no payment, no key, no transaction

ASSUME OperationAssumption ==
  /\ Provider \in [Payments -> {"paymob", "fawry"}]
  /\ Authorized \subseteq {i \in Payments : Provider[i] = "paymob"}
  /\ Amount \in [Payments -> Nat \ {0}]
  /\ Requests \subseteq ({"refund", "void", "capture"} \X Nat)
  /\ IsFiniteSet(Keys)
  /\ {PartialFlag, Nameless} \subseteq BOOLEAN
  /\ MaxCrashes \in Nat
  /\ Payments \cap Keys = {} /\ None \notin Payments \cup Keys

VARIABLES
  payment,    \* OnlinePaymentIntent.status
  operation,  \* table OnlinePaymentOperation, by idempotency key
  made,       \* the provider's transaction for each operation
  op,         \* the request each worker is serving
  crashes     \* requests that have died so far

vars == <<payment, operation, made, op, crashes>>

-----------------------------------------------------------------------------
\* Values.

Type == {"refund", "void", "capture"}
PaymentStatus == {"requires_action", "succeeded", "cancelled"}
OperationStatus == {"unborn", "pending", "succeeded", "failed"}

\* The provider's transactions: the sale or authorization of a payment is named
\* by the payment, the child that an operation made by the operation's key.
Transaction == Payments \cup Keys

\* "none": the provider has not been asked, or has refused.
ChildStatus == {"none", "pending", "succeeded", "failed"}

\* parent and child are parentProviderTransactionId and providerTransactionId,
\* expected is expectedRefundedMinor.
OperationRow == [status : OperationStatus, payment : Payments \cup {None},
                 type : Type, amount : Nat, expected : Nat,
                 parent : Transaction \cup {None}, child : Transaction \cup {None}]

Unborn == [status |-> "unborn", payment |-> None, type |-> "refund", amount |-> 0,
           expected |-> 0, parent |-> None, child |-> None]

\* What an inquiry tells of a transaction: of a child its status, of a sale
\* what has been done to it.
Answer == [tx : Transaction \cup {None}, child : ChildStatus, refunded : Nat,
           full : BOOLEAN, voided : BOOLEAN, captured : BOOLEAN]
NoAnswer == [tx |-> None, child |-> "none", refunded |-> 0, full |-> FALSE,
             voided |-> FALSE, captured |-> FALSE]

Step == {"idle", "prepare", "preflight", "call", "reject", "store", "verify",
         "match", "finalize", "record"}

\* read is the status of the intent when the request read it; a webhook links
\* the child it is about to the operation it matches.
Request == [step : Step, key : Keys \cup {None}, payment : Payments \cup {None},
            type : Type, amount : Nat, read : PaymentStatus, answer : Answer,
            links : BOOLEAN]
Idle == [step |-> "idle", key |-> None, payment |-> None, type |-> "refund",
         amount |-> 0, read |-> "succeeded", answer |-> NoAnswer, links |-> FALSE]

TypeOK ==
  /\ payment \in [Payments -> PaymentStatus]
  /\ operation \in [Keys -> OperationRow]
  /\ made \in [Keys -> ChildStatus]
  /\ op \in [Workers -> Request]
  /\ crashes \in 0 .. MaxCrashes

-----------------------------------------------------------------------------
\* Queries.

Of(i, t, s) == {k \in Keys : /\ operation[k].payment = i /\ operation[k].type = t
                             /\ operation[k].status = s}
PendingOf(i) == UNION {Of(i, t, "pending") : t \in Type}

AmountOf(S) == SumFunctionOnSet([k \in Keys |-> operation[k].amount], S)
Refunded(i) == AmountOf(Of(i, "refund", "succeeded"))

\* The provider's books: the children that have been made on a transaction.
Children(tx, t, S) == {k \in Keys : /\ operation[k].parent = tx
                                    /\ operation[k].type = t /\ made[k] \in S}
Voided(tx) == Children(tx, "void", {"succeeded"}) # {}
Captured(tx) == Children(tx, "capture", {"succeeded"}) # {}

Abort(w) == op' = [op EXCEPT ![w] = Idle]
Goto(w, s) == op' = [op EXCEPT ![w].step = s]
Keep == UNCHANGED <<payment, operation, made, crashes>>

-----------------------------------------------------------------------------
\* Preparation, in one transaction under an advisory lock of the payment.

\* The intent is read before the lock is waited for.
StartOperation(w, i, k) ==
  /\ op[w].step = "idle"
  /\ \E r \in Requests :
       /\ Provider[i] = "paymob" \/ (r[1] = "refund" /\ payment[i] = "succeeded")
       /\ op' = [op EXCEPT ![w] = [Idle EXCEPT !.step = "prepare", !.key = k,
                                     !.payment = i, !.type = r[1],
                                     !.amount = IF r[1] = "void" THEN Amount[i]
                                                                 ELSE r[2],
                                     !.read = payment[i]]]
  /\ Keep

Eligible(r) ==
  LET i == r.payment
  IN  /\ r.amount > 0
      /\ CASE r.type = "refund" ->
                /\ r.read = "succeeded"
                /\ Of(i, "void", "succeeded") = {}
                /\ r.amount <= Amount[i] - Refunded(i)
           [] r.type = "void" ->
                /\ r.read \in {"succeeded", "requires_action"}
                /\ Refunded(i) = 0 /\ Of(i, "void", "succeeded") = {}
           [] r.type = "capture" ->
                /\ r.read = "requires_action"
                /\ Of(i, "void", "succeeded") = {} /\ Of(i, "capture", "succeeded") = {}
                /\ r.amount = Amount[i]

\* The transaction an operation is done on: the capture's, if there is one.
Target(i) ==
  LET captures == {k \in Of(i, "capture", "succeeded") : operation[k].child # None}
  IN  IF captures = {} THEN i ELSE operation[CHOOSE k \in captures : TRUE].child

\* Mutant: a new operation does not wait for the pending one.
MayPrepareAnytime(r) == operation[r.key].status = "unborn" /\ Eligible(r)

\* A key that has been used is answered with its operation, or refused.
MayPrepare(r) ==
  /\ operation[r.key].status = "unborn"
  /\ PendingOf(r.payment) = {}
  /\ Eligible(r)

Prepare(w) ==
  /\ op[w].step = "prepare"
  /\ LET r == op[w]
     IN  IF MayPrepare(r)
           THEN /\ operation' = [operation EXCEPT ![r.key] =
                     [status |-> "pending", payment |-> r.payment, type |-> r.type,
                      amount |-> r.amount,
                      expected |-> Refunded(r.payment) + r.amount,
                      parent |-> Target(r.payment), child |-> None]]
                /\ Goto(w, IF Provider[r.payment] = "paymob" THEN "preflight"
                                                              ELSE "call")
           ELSE Abort(w) /\ UNCHANGED operation
  /\ UNCHANGED <<payment, made, crashes>>

-----------------------------------------------------------------------------
\* The provider is asked to do it.

\* The state of a sale or a capture: an authorization stays one, whatever is
\* done to it, until it is voided.
StatusOf(tx) == CASE Voided(tx) -> "cancelled"
                  [] ~Voided(tx) /\ tx \in Authorized -> "requires_action"
                  [] OTHER -> "succeeded"

\* Paymob is first asked about the target transaction: an error or an answer
\* that does not allow the operation fails it.
Preflight(w) ==
  /\ op[w].step = "preflight"
  /\ LET o == operation[op[w].key]  s == StatusOf(o.parent)
         allowed == CASE o.type = "refund" -> s = "succeeded"
                      [] o.type = "capture" -> s = "requires_action"
                      [] o.type = "void" -> s \in {"succeeded", "requires_action"}
     IN  \/ allowed /\ Goto(w, "call")
         \/ Goto(w, "reject")
  /\ Keep

\* What the provider would agree to.
Accepts(k) ==
  LET o == operation[k]
      there == {"pending", "succeeded"}
  IN  /\ Children(o.parent, "void", there) = {}
      /\ CASE o.type = "refund" ->
                AmountOf(Children(o.parent, "refund", there)) + o.amount
                  <= Amount[o.payment]
           [] o.type = "void" -> Children(o.parent, "refund", there) = {}
           [] o.type = "capture" -> Children(o.parent, "capture", there) = {}

\* Mutant: a request that has timed out is taken for refused.
CallProviderTimeoutFails(w) ==
  /\ op[w].step = "call"
  /\ LET k == op[w].key
         fawry == Provider[op[w].payment] = "fawry"
     IN  /\ Accepts(k)
         /\ made' = [made EXCEPT ![k] = IF fawry THEN "succeeded" ELSE "pending"]
         /\ Goto(w, "reject")
  /\ UNCHANGED <<payment, operation, crashes>>

\* It is done and answered, done and not answered, not done and not answered,
\* or refused. Fawry decides at once, and its answer is final.
CallProvider(w) ==
  /\ op[w].step = "call"
  /\ LET k == op[w].key
         fawry == Provider[op[w].payment] = "fawry"
         done == [made EXCEPT ![k] = IF fawry THEN "succeeded" ELSE "pending"]
     IN  \/ /\ Accepts(k) /\ made' = done
            /\ op' = [op EXCEPT ![w].step = IF fawry THEN "finalize" ELSE "store",
                        ![w].answer = [NoAnswer EXCEPT !.tx = k,
                           !.child = IF fawry THEN "succeeded" ELSE "none"]]
         \/ Accepts(k) /\ made' = done /\ Abort(w)
         \/ UNCHANGED made /\ Abort(w)
         \/ UNCHANGED made /\ Goto(w, "reject")
  /\ UNCHANGED <<payment, operation, crashes>>

Reject(w) ==
  /\ op[w].step = "reject"
  /\ operation' = [operation EXCEPT ![op[w].key].status =
                     IF @ = "pending" THEN "failed" ELSE @]
  /\ Abort(w)
  /\ UNCHANGED <<payment, made, crashes>>

\* The unique index on provider and providerTransactionId.
Taken(tx, k) == \E j \in Keys \ {k} : operation[j].child = tx

\* The transaction that tells of an operation: its child, when that is known.
Asked(o) == IF o.child = None THEN o.parent ELSE o.child

\* The id of the child is stored on the pending operation; an answer without
\* one stands for the parent.
StoreChild(w) ==
  /\ op[w].step = "store"
  /\ LET k == op[w].key
         hit == operation[k].status = "pending"
     IN  \E tx \in {k} \cup (IF Nameless THEN {operation[k].parent} ELSE {}) :
           LET row == [operation[k] EXCEPT !.child = IF hit THEN tx ELSE @]
           IN  IF hit /\ Taken(tx, k)
                 THEN Abort(w) /\ UNCHANGED operation
                 ELSE /\ operation' = [operation EXCEPT ![k] = row]
                      /\ op' = [op EXCEPT ![w].step = "verify",
                                          ![w].answer = [NoAnswer EXCEPT !.tx = Asked(row)]]
  /\ UNCHANGED <<payment, made, crashes>>

-----------------------------------------------------------------------------
\* The provider's truth about an operation is looked up and recorded.

\* Staff, the timer: any operation that is pending (the timer leaves Fawry's
\* partial refunds alone: their outcome cannot be told). The operation is read
\* before the provider is asked.
StartRecovery(w, k) ==
  /\ op[w].step = "idle" /\ operation[k].status = "pending"
  /\ op' = [op EXCEPT ![w] = [Idle EXCEPT !.step = "verify", !.key = k,
                 !.payment = operation[k].payment,
                 !.answer = [NoAnswer EXCEPT !.tx = Asked(operation[k])]]]
  /\ Keep

\* The flags of a sale, or of a captured transaction.
Look(tx) ==
  LET total == AmountOf(Children(tx, "refund", {"succeeded"}))
      sale == IF tx \in Payments THEN tx ELSE operation[tx].payment
  IN  [NoAnswer EXCEPT !.tx = tx, !.refunded = total,
         !.full = total > 0 /\ (PartialFlag \/ total = Amount[sale]),
         !.voided = Voided(tx), !.captured = Captured(tx)]

LookAtChild(k) == [NoAnswer EXCEPT !.tx = k, !.child = made[k]]

Verify(w) ==
  /\ op[w].step = "verify"
  /\ LET tx == op[w].answer.tx
     IN  op' = [op EXCEPT ![w].step = "finalize",
                          ![w].answer = IF tx = operation[op[w].key].parent
                                          THEN Look(tx) ELSE LookAtChild(tx)]
  /\ Keep

\* The inquiry fails: the operation stays as it is.
VerifyUnavailable(w) ==
  /\ op[w].step = "verify" /\ Abort(w) /\ Keep

\* Paymob tells of a child, with or without a state that is final; the state
\* that counts is asked for.
StartChildWebhook(w, k) ==
  /\ op[w].step = "idle"
  /\ made[k] # "none" /\ Provider[operation[k].payment] = "paymob"
  /\ op' = [op EXCEPT ![w] = [Idle EXCEPT !.step = "match",
                                          !.payment = operation[k].payment,
                                          !.answer = LookAtChild(k)]]
  /\ Keep

\* The operation a child belongs to: one that is pending, of its type, on its
\* parent, and not known to have another child.
Matches(k, c) ==
  /\ operation[k].status = "pending"
  /\ operation[k].payment = operation[c].payment
  /\ operation[k].type = operation[c].type
  /\ operation[k].parent = operation[c].parent
  /\ operation[k].child \in {c, None}

MatchChild(w) ==
  /\ op[w].step = "match"
  /\ LET c == op[w].answer.tx
         done == \E k \in Keys : /\ operation[k].child = c
                                 /\ operation[k].status # "pending"
         found == {k \in Keys : Matches(k, c)}
     IN  IF done \/ found = {}
           THEN Abort(w)
           ELSE \E k \in found :
                  op' = [op EXCEPT ![w].step = "finalize", ![w].key = k,
                                   ![w].links = operation[k].child = None]
  /\ Keep

\* Mutant: a refund is confirmed by any refund of its parent.
OutcomeAnyRefund(k, a) ==
  IF a.tx = operation[k].parent /\ operation[k].type = "refund"
    THEN IF a.refunded > 0 THEN "succeeded" ELSE "wait"
    ELSE IF a.child \in {"succeeded", "failed"} THEN a.child ELSE "wait"

\* Mutant: only the child can confirm an operation.
OutcomeOfChild(k, a) ==
  IF a.tx # operation[k].parent /\ a.child \in {"succeeded", "failed"} THEN a.child
                                                                      ELSE "wait"

\* What an answer says of operation k: "mismatch" and "wait" change nothing.
\* (Fawry's refunds can only be told when the whole payment is refunded.)
Outcome(k, a) ==
  LET o == operation[k]
      confirmed == CASE Provider[o.payment] = "fawry" ->
                          /\ o.expected = Amount[o.payment]
                          /\ a.refunded = Amount[o.payment]
                     [] Provider[o.payment] = "paymob" /\ o.type = "refund" ->
                          a.full \/ a.refunded >= o.expected
                     [] o.type = "void" -> a.voided
                     [] o.type = "capture" -> a.captured
      same == /\ operation[a.tx].parent = o.parent /\ operation[a.tx].type = o.type
              /\ o.type = "void" \/ operation[a.tx].amount = o.amount
  IN  IF a.tx = o.parent THEN IF confirmed THEN "succeeded" ELSE "wait"
      ELSE CASE ~same -> "mismatch"
             [] same /\ a.child \in {"succeeded", "failed"} -> a.child
             [] OTHER -> "wait"

\* Mutant: a capture is taken for done without its outcome.
RecordCollects(w, k, a) ==
  /\ operation' = [operation EXCEPT ![k].status = Outcome(k, a)]
  /\ payment' = [payment EXCEPT ![operation[k].payment] =
                   IF operation[k].type = "capture" THEN "succeeded" ELSE @]
  /\ Abort(w)
  /\ UNCHANGED <<made, crashes>>

\* The conditional update of the operation, and what follows it whether or not
\* it has matched: a capture collects the payment, the void of an authorization
\* cancels it. A child that another operation has is refused by the index, and
\* everything is rolled back.
Record(w, k, a) ==
  LET o == operation[k]
      out == Outcome(k, a)
      hit == o.status = "pending"
      links == op[w].links /\ o.child = None
      child == IF Provider[o.payment] = "paymob" /\ (out = "succeeded" \/ links)
                 THEN a.tx ELSE o.child
  IN  /\ IF hit /\ child # None /\ Taken(child, k)
           THEN UNCHANGED <<operation, payment>>
           ELSE /\ operation' = IF hit THEN [operation EXCEPT ![k].status = out,
                                                              ![k].child = child]
                                       ELSE operation
                /\ payment' = [payment EXCEPT ![o.payment] =
                     CASE out = "succeeded" /\ o.type = "capture" -> "succeeded"
                       [] out = "succeeded" /\ o.type = "void"
                            /\ @ = "requires_action" -> "cancelled"
                       [] OTHER -> @]
      /\ Abort(w)
      /\ UNCHANGED <<made, crashes>>

\* Mutant: any answer is recorded, of an operation of any status.
FinalizeAnyAnswer(w) ==
  /\ op[w].step = "finalize"
  /\ operation' = [operation EXCEPT ![op[w].key].status =
                     Outcome(op[w].key, op[w].answer)]
  /\ Abort(w)
  /\ UNCHANGED <<payment, made, crashes>>

\* The transaction that finalizes reads the operation. When it has just linked
\* the child, the row is its own until it commits.
Finalize(w) ==
  /\ op[w].step = "finalize"
  /\ LET k == op[w].key  a == op[w].answer
         out == Outcome(k, a)
         links == op[w].links /\ operation[k].child = None
     IN  CASE operation[k].status # "pending" \/ out = "mismatch" ->
                Abort(w) /\ Keep
           [] operation[k].status = "pending" /\ out = "wait" ->
                /\ operation' = IF links /\ ~Taken(a.tx, k) THEN [operation EXCEPT ![k].child = a.tx]
                                  ELSE operation
                /\ Abort(w)
                /\ UNCHANGED <<payment, made, crashes>>
           [] OTHER -> IF links THEN Record(w, k, a)
                                      ELSE Goto(w, "record") /\ Keep

CommitRecord(w) ==
  /\ op[w].step = "record"
  /\ Record(w, op[w].key, op[w].answer)

-----------------------------------------------------------------------------
\* The provider, and what else happens to a payment.

ProviderDecides(k) ==
  /\ made[k] = "pending"
  /\ \E s \in {"succeeded", "failed"} : made' = [made EXCEPT ![k] = s]
  /\ UNCHANGED <<payment, operation, op, crashes>>

\* The recovery of the intent itself learns that its authorization is voided.
LearnVoided(i) ==
  /\ payment[i] = "requires_action" /\ Voided(i)
  /\ payment' = [payment EXCEPT ![i] = "cancelled"]
  /\ UNCHANGED <<operation, made, op, crashes>>

Crash(w) ==
  /\ op[w].step # "idle" /\ crashes < MaxCrashes
  /\ crashes' = crashes + 1
  /\ Abort(w)
  /\ UNCHANGED <<payment, operation, made>>

Init ==
  /\ payment = [i \in Payments |-> IF i \in Authorized THEN "requires_action"
                                                       ELSE "succeeded"]
  /\ operation = [k \in Keys |-> Unborn]
  /\ made = [k \in Keys |-> "none"]
  /\ op = [w \in Workers |-> Idle]
  /\ crashes = 0

Proceed(w) ==
  \/ Prepare(w) \/ Preflight(w) \/ CallProvider(w) \/ Reject(w) \/ StoreChild(w)
  \/ Verify(w) \/ VerifyUnavailable(w) \/ MatchChild(w) \/ Finalize(w)
  \/ CommitRecord(w)

Arrive(w) == \E k \in Keys : \/ \E i \in Payments : StartOperation(w, i, k)
                             \/ StartRecovery(w, k) \/ StartChildWebhook(w, k)

Next == \/ \E w \in Workers : Arrive(w) \/ Proceed(w) \/ Crash(w)
        \/ \E k \in Keys : ProviderDecides(k)
        \/ \E i \in Payments : LearnVoided(i)

Spec == Init /\ [][Next]_vars

-----------------------------------------------------------------------------
\* Fairness: requests go on, the timer keeps asking about pending operations and
\* is answered, children are decided.
Asks(k) == \E w \in Workers : StartRecovery(w, k)
Answers(k) == \E w \in Workers : op[w].key = k /\ Verify(w)

FairSpec ==
  /\ Spec
  /\ \A w \in Workers : WF_vars(Proceed(w))
  /\ \A k \in Keys : /\ SF_vars(Asks(k)) /\ SF_vars(Answers(k))
                     /\ WF_vars(ProviderDecides(k))

-----------------------------------------------------------------------------
\* Properties.

\* What the books say has been given back never exceeds what was paid, however
\* refunds, retries of a key and recoveries interleave; a payment that has been
\* voided has no refund.
RefundsWithinPayment ==
  \A i \in Payments :
    /\ Refunded(i) <= Amount[i]
    /\ Of(i, "void", "succeeded") # {} => Refunded(i) = 0

\* One operation of a payment at a time awaits the provider.
OnePending == \A i \in Payments : \A j, k \in PendingOf(i) : j = k

\* An operation that is over, though its row does not name the child that the provider
\* made for it: the answer with the name was lost, or left it out, and then the parent, or
\* the child of another operation, told how it ended.
Unnamed(j) ==
  /\ operation[j].status \in {"succeeded", "failed"} /\ made[j] # "none"
  /\ operation[j].child # j /\ Provider[operation[j].payment] = "paymob"

\* Such a child, when the provider tells of it, may be taken for that of operation k.
Confusable(k) ==
  \E j \in Keys \ {k} : /\ operation[j].parent = operation[k].parent
                        /\ operation[j].type = operation[k].type /\ Unnamed(j)

\* The flag of a refunded sale may have been set by another refund than k.
FlagOfAnother(k) ==
  /\ PartialFlag /\ operation[k].type = "refund"
  /\ Children(operation[k].parent, "refund", {"succeeded"}) \ {k} # {}

\* A failed operation has not been done: nobody is told to refund again what the provider
\* has given back. Unless an earlier operation of the same kind on the same transaction
\* is over without the name of its child: about the outcome of applyPaymobChildState,
\* whose webhook finds its operation by type and parent only.
FailureIsNotDone ==
  \A k \in Keys : operation[k].status = "failed" =>
                    made[k] \in {"none", "failed"} \/ Confusable(k)

\* An operation that has succeeded has been done, by its own child or by what the parent
\* shows; with the same exception, and that of a flag that any refund sets.
SuccessIsDone ==
  \A k \in Keys : operation[k].status = "succeeded" =>
                    made[k] = "succeeded" \/ Confusable(k) \/ FlagOfAnother(k)

\* A result is final, whoever else was about to record another.
ResultIsFinal ==
  [][\A k \in Keys : operation[k].status \in {"succeeded", "failed"} =>
        operation'[k].status = operation[k].status]_vars

\* An authorization is collected only when the provider has captured it, by a capture that
\* the books have too, or that is over without the name of its child (it may have been
\* recorded as failed). It is cancelled only when it is voided.
CollectedIfCaptured ==
  \A i \in Authorized :
    /\ payment[i] = "succeeded" =>
         /\ Captured(i)
         /\ \/ Of(i, "capture", "succeeded") # {}
            \/ \E j \in Of(i, "capture", "failed") : Unnamed(j)
    /\ payment[i] = "cancelled" => Voided(i)

\* The operations, as the books see them: what has been given back of a payment
\* is the sum of its refunds, or all of it when it has been voided.
Given(i) == IF Of(i, "void", "succeeded") # {} THEN Refunded(i) + Amount[i]
                                               ELSE Refunded(i)
Book == INSTANCE OperationBook
          WITH status <- [k \in Keys |-> operation[k].status],
               of <- [k \in Keys |-> operation[k].payment],
               given <- [i \in Payments |-> Given(i)]
BookSpec == Book!Spec

\* What the provider has done reaches the books.
DoneIsRecorded ==
  \A k \in Keys : made[k] = "succeeded" ~> operation[k].status = "succeeded"
=============================================================================
