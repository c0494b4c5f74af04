---------------------------- MODULE BillPayments ----------------------------
(***************************************************************************)
(* How a bill gets paid: the cashier's commands on a bill, the customer's  *)
(* online payment intents and everything that can answer such an intent    *)
(* (verified webhooks, inquiries of the provider, checkouts that expire).  *)
(*                                                                         *)
(* Sources: apps/api/src/bills/bills.service.ts and                        *)
(* apps/api/src/online-payments/online-payments.service.ts.                *)
(*                                                                         *)
(* Every request is served by a worker, whose local variables are op[w].   *)
(* The code opens every transaction at the database's default isolation,   *)
(* READ COMMITTED, and takes no row lock when it reads: a transaction is   *)
(* therefore several steps, each of which sees what is committed when it   *)
(* runs, and a value read by one step may be stale when the next uses it.  *)
(* Statements are merged into one step only where no other step can tell:  *)
(* a conditional UPDATE, the UPDATEs after it and the COMMIT are one step, *)
(* unless the transaction reads rows of others in between, in which case   *)
(* the rows it has updated stay locked from one step to the next.          *)
(***************************************************************************)
EXTENDS Integers, FiniteSets

CONSTANTS
  Bills,        \* bills that have been created for a bill request
  Intents,      \* ids of online payment intents, handed out in order
  Workers,      \* requests served at the same time
  Providers,    \* payment providers of the branch: "paymob", "fawry"
  Total,        \* [Bills -> Nat], Bill.totalMinor
  Genuine,      \* may a provider's transaction match the intent: set of BOOLEAN
  Commands,     \* what the environment asks for in this instance
  MaxAttempts,  \* bound: payment attempts a customer makes on one checkout
  MaxCrashes,   \* bound: requests that die half way
  None          \* no bill, no intent, no provider

ASSUME InstanceAssumption ==
  /\ Intents \subseteq Nat /\ IsFiniteSet(Intents)
  /\ Providers \subseteq {"paymob", "fawry"}
  /\ Total \in [Bills -> Nat]
  /\ Genuine \subseteq BOOLEAN /\ TRUE \in Genuine
  /\ Commands \subseteq {"pay", "manual", "cancel", "present", "represent",
                         "close", "webhook", "recover", "schedule"}
  /\ MaxAttempts \in Nat /\ MaxCrashes \in Nat
  /\ None \notin Bills /\ None \notin Intents /\ None \notin Providers

VARIABLES
  bill,     \* table Bill
  intent,   \* table OnlinePaymentIntent
  overdue,  \* intents whose checkoutExpiresAt has passed
  seen,     \* providerEventIds in table OnlinePaymentEvent
  psp,      \* what the provider itself knows of each intent's order
  op,       \* the request each worker is serving
  crashes   \* requests that have died so far

vars == <<bill, intent, overdue, seen, psp, op, crashes>>

-----------------------------------------------------------------------------
\* Values.

BillStatus == {"requested", "presented", "payment_pending", "paid",
               "cancelled", "closed"}

\* PAYABLE_BILL_STATUSES
Payable == {"presented", "payment_pending"}

\* "pending" stands for the two ACTIVE_ONLINE_PAYMENT_STATUSES (pending and
\* requires_action), "failed" for failed and cancelled: no statement of the
\* services modelled here treats the members of a pair differently.
IntentStatus == {"unborn", "pending", "succeeded", "failed", "expired"}

\* The settlement_completed / settlement_skipped event of an intent.
Outcome == {"none", "settled", "skipped"}

\* "open": the order exists at the provider, nobody has tried to pay it.
PspStatus == {"unknown", "open", "pending", "failed", "succeeded"}

\* A state of the provider's latest transaction for an order, numbered by the
\* customer's attempt.
Version == [n : 0 .. MaxAttempts, status : PspStatus]
NoVersion == [n |-> 0, status |-> "unknown"]

\* paid counts the BillEvents of type "paid" of a bill.
BillRow == [status : BillStatus, due : Nat, paid : Nat]

\* ready: providerIntentId and providerCheckoutUrl have been stored.
IntentRow == [status : IntentStatus, bill : Bills \cup {None}, amount : Nat,
              provider : Providers \cup {None}, ready : BOOLEAN,
              outcome : Outcome]

PspRow == [n : 0 .. MaxAttempts, status : PspStatus, ok : BOOLEAN]

Step == {"idle", "readBill", "lock", "insert", "call", "ready", "initfail",
         "inquire", "expire", "apply", "succeed", "update", "revive", "restore",
         "manual", "cancel", "present", "close"}

\* The local variables of a request: the bill and the intent it is about; what
\* it has read of them, the balance (due) and whether the status was pending or
\* payment_pending (pending); the provider's answer (version), who asked
\* (source) and the status it has written and not committed (write).
Request == [step : Step, bill : Bills \cup {None}, intent : Intents \cup {None},
            provider : Providers \cup {None}, due : Nat,
            pending : BOOLEAN, version : Version,
            source : {"none", "webhook", "retry", "staff"},
            write : {"none", "failed", "expired"}]

Idle == [step |-> "idle", bill |-> None, intent |-> None, provider |-> None,
         due |-> 0, pending |-> FALSE, version |-> NoVersion, source |-> "none",
         write |-> "none"]

TypeOK ==
  /\ bill \in [Bills -> BillRow]
  /\ intent \in [Intents -> IntentRow]
  /\ overdue \subseteq Intents
  /\ seen \subseteq (Intents \X Version \X {"webhook", "inquiry"})
  /\ psp \in [Intents -> PspRow]
  /\ op \in [Workers -> Request]
  /\ crashes \in 0 .. MaxCrashes

-----------------------------------------------------------------------------
\* Queries.

Active(i) == intent[i].status = "pending"
ActiveOf(b) == {i \in Intents : Active(i) /\ intent[i].bill = b}

\* providerOrderId: Fawry's is the local id, Paymob's comes with the checkout.
HasOrderId(i) == /\ intent[i].status # "unborn"
                 /\ intent[i].provider = "fawry" \/ intent[i].ready

\* The latest intent of the bill that the provider can be asked about, if any.
Latest(b, p) ==
  LET asked == {i \in Intents : /\ intent[i].bill = b
                                /\ intent[i].provider = p
                                /\ HasOrderId(i)}
  IN  {i \in asked : \A j \in asked : j <= i}

\* Does a new payment first need an inquiry of the previous one?
NeedsPreflight(i) == \/ intent[i].status \in {"failed", "expired"}
                     \/ Active(i) /\ i \in overdue

\* The row of intent i is locked by the open transaction of a worker other
\* than w.
RowFree(w, i) ==
  \A v \in Workers \ {w} :
    ~(op[v].step = "restore" /\ op[v].intent = i /\ op[v].write # "none")

Channel(r) == IF r.source = "webhook" THEN "webhook" ELSE "inquiry"
EventOf(r) == <<r.intent, r.version, Channel(r)>>

\* The providerEventIds once r has committed; a request that no provider
\* state has started records none.
Recorded(r) == IF r.version = NoVersion THEN seen ELSE seen \cup {EventOf(r)}

\* Mutant: requests wait for one another before either has inserted the event.
EventFreeEarly(w) ==
  \A v \in Workers \ {w} :
    ~(/\ op[v].step \in {"apply", "succeed", "update", "revive", "restore"}
      /\ op[v].version # NoVersion
      /\ EventOf(op[v]) = EventOf(op[w]))

\* Another open transaction has inserted the same providerEventId: the unique
\* index makes this one wait.
EventFree(w) ==
  \A v \in Workers \ {w} :
    ~(/\ op[v].step \in {"succeed", "update", "revive", "restore"}
      /\ op[v].version # NoVersion
      /\ EventOf(op[v]) = EventOf(op[w]))

\* Where a request goes when its recovery of an intent is over: a retry goes
\* on to create the new payment, whatever its inquiry has answered.
After(r) ==
  IF r.source = "retry"
    THEN [Idle EXCEPT !.step = "readBill", !.bill = r.bill,
                      !.provider = r.provider]
    ELSE Idle

Finish(w) == op' = [op EXCEPT ![w] = After(op[w])]
Abort(w)  == op' = [op EXCEPT ![w] = Idle]
Goto(w, s) == op' = [op EXCEPT ![w].step = s]

-----------------------------------------------------------------------------
\* The cashier's commands on a bill.

StartManualPayment(w, b) ==
  /\ op[w].step = "idle" /\ "manual" \in Commands
  /\ bill[b].status \in Payable /\ bill[b].due > 0
  /\ op' = [op EXCEPT ![w] = [Idle EXCEPT !.step = "manual", !.bill = b,
                                          !.due = bill[b].due]]
  /\ UNCHANGED <<bill, intent, overdue, seen, psp, crashes>>

\* Mutants: settlement guarded by less, or by more, than the payable statuses
\* and the balance.
CanSettleUnguarded(b, amount) == bill[b].status # "cancelled"
CanSettlePendingOnly(b, amount) ==
  bill[b].status = "payment_pending" /\ bill[b].due = amount

CanSettle(b, amount) == bill[b].status \in Payable /\ bill[b].due = amount

\* Mutant: the balance is left as it was.
SettledKeepingBalance(b) ==
  [bill EXCEPT ![b].status = "paid", ![b].paid = @ + 1]

Settled(b) == [bill EXCEPT ![b] = [status |-> "paid", due |-> 0,
                                   paid |-> @.paid + 1]]

CommitManualPayment(w) ==
  /\ op[w].step = "manual"
  /\ bill' = IF CanSettle(op[w].bill, op[w].due) THEN Settled(op[w].bill)
                                                 ELSE bill
  /\ Abort(w)
  /\ UNCHANGED <<intent, overdue, seen, psp, crashes>>

\* cancel, present and close read the status, check it, and then write a
\* status unconditionally. (Without "represent", the staff of this instance
\* asks for a bill to be presented only while it has not been.)
Unpaid == BillStatus \ {"paid", "closed", "cancelled"}

Permits(b, s) ==
  CASE s = "close"   -> bill[b].status = "paid"
    [] s = "cancel"  -> bill[b].status \in Unpaid
    [] s = "present" -> bill[b].status \in
         IF "represent" \in Commands THEN Unpaid ELSE {"requested"}

StartStatusChange(w, b) ==
  /\ op[w].step = "idle"
  /\ \E s \in {"cancel", "present", "close"} :
       /\ s \in Commands \/ (s = "present" /\ "represent" \in Commands)
       /\ Permits(b, s)
       /\ op' = [op EXCEPT ![w] =
            [Idle EXCEPT !.step = s, !.bill = b,
               !.pending = s = "present" /\ bill[b].status = "payment_pending"]]
  /\ UNCHANGED <<bill, intent, overdue, seen, psp, crashes>>

NewBillStatus(r) ==
  CASE r.step = "cancel"  -> "cancelled"
    [] r.step = "close"   -> "closed"
    [] r.step = "present" -> IF r.pending THEN "payment_pending" ELSE "presented"

CommitStatusChange(w) ==
  /\ op[w].step \in {"cancel", "present", "close"}
  /\ bill' = [bill EXCEPT ![op[w].bill].status = NewBillStatus(op[w])]
  /\ Abort(w)
  /\ UNCHANGED <<intent, overdue, seen, psp, crashes>>

-----------------------------------------------------------------------------
\* The customer starts an online payment.

\* The bill is read before the lock is taken.
ToLock(b, p) ==
  [Idle EXCEPT !.step = "lock", !.bill = b, !.provider = p, !.due = bill[b].due]

Startable(b) == bill[b].status \in Payable /\ bill[b].due > 0

StartPayment(w, b, p) ==
  /\ op[w].step = "idle" /\ "pay" \in Commands
  /\ \/ \E i \in Latest(b, p) :
          /\ NeedsPreflight(i)
          /\ op' = [op EXCEPT ![w] =
               [Idle EXCEPT !.step = "inquire", !.bill = b, !.provider = p,
                            !.intent = i, !.pending = Active(i),
                            !.source = "retry"]]
     \/ /\ \A i \in Latest(b, p) : ~NeedsPreflight(i)
        /\ Startable(b)
        /\ op' = [op EXCEPT ![w] = ToLock(b, p)]
  /\ UNCHANGED <<bill, intent, overdue, seen, psp, crashes>>

\* The preflight of a retry is over.
ReadBill(w) ==
  /\ op[w].step = "readBill"
  /\ op' = [op EXCEPT ![w] = IF Startable(@.bill)
                              THEN ToLock(@.bill, @.provider) ELSE Idle]
  /\ UNCHANGED <<bill, intent, overdue, seen, psp, crashes>>

Reserved == {op[v].intent : v \in {v \in Workers : op[v].step = "insert"}}
Unused == {i \in Intents : intent[i].status = "unborn"} \ Reserved

\* pg_advisory_xact_lock('online-payment:' || billId), then the search for an
\* active intent: the bill's, which the request returns, or none. (Bound: the
\* request also ends here when the ids of this instance have run out.)
LockBill(w) ==
  /\ op[w].step = "lock"
  /\ \A v \in Workers : ~(op[v].step = "insert" /\ op[v].bill = op[w].bill)
  /\ IF ActiveOf(op[w].bill) # {} \/ Unused = {}
       THEN Abort(w)
       ELSE \E i \in Unused :
              /\ \A j \in Unused : i <= j
              /\ op' = [op EXCEPT ![w].step = "insert", ![w].intent = i]
  /\ UNCHANGED <<bill, intent, overdue, seen, psp, crashes>>

\* The partial unique index on active intents rejects the insertion of a
\* second one.
\* Mutant: no such index.
IndexAllowsAll(i, b) == TRUE

IndexAllows(i, b) == ActiveOf(b) \subseteq {i}

InsertIntent(w) ==
  /\ op[w].step = "insert"
  /\ LET b == op[w].bill  i == op[w].intent
     IN  IF IndexAllows(i, b)
           THEN /\ intent' = [intent EXCEPT ![i] =
                     [status |-> "pending", bill |-> b, amount |-> op[w].due,
                      provider |-> op[w].provider, ready |-> FALSE,
                      outcome |-> "none"]]
                /\ bill' = IF bill[b].status = "presented"
                                /\ bill[b].due = op[w].due
                             THEN [bill EXCEPT ![b].status = "payment_pending"]
                             ELSE bill
                /\ Goto(w, "call")
           ELSE Abort(w) /\ UNCHANGED <<bill, intent>>
  /\ UNCHANGED <<overdue, seen, psp, crashes>>

\* The provider's createPayment, outside any transaction. An error may hide an
\* order that was created.
CallProvider(w) ==
  /\ op[w].step = "call"
  /\ \E made \in BOOLEAN, answered \in BOOLEAN, ok \in Genuine :
       /\ answered => made
       /\ psp' = IF made THEN [psp EXCEPT ![op[w].intent] =
                                 [n |-> 0, status |-> "open", ok |-> ok]]
                         ELSE psp
       /\ Goto(w, IF answered THEN "ready" ELSE "initfail")
  /\ UNCHANGED <<bill, intent, overdue, seen, crashes>>

\* The checkout is stored on an intent that is still active; the request fails
\* without a trace when it no longer is.
StoreCheckout(w) ==
  /\ op[w].step = "ready"
  /\ LET i == op[w].intent
     IN  /\ Active(i) => RowFree(w, i)
         /\ intent' = [intent EXCEPT ![i].ready = @ \/ Active(i)]
  /\ Abort(w)
  /\ UNCHANGED <<bill, overdue, seen, psp, crashes>>

-----------------------------------------------------------------------------
\* Giving an intent up returns the bill to "presented", unless another intent
\* of the bill is active. The request has read the intents when it gets to
\* "restore", and writes the bill there.

\* The part of the transaction up to the count of active intents: row i
\* changes to s when hit.
GiveUp(w, i, hit, s) ==
  /\ hit => RowFree(w, i)
  /\ IF ActiveOf(intent[i].bill) \ (IF hit THEN {i} ELSE {}) = {}
       THEN /\ op' = [op EXCEPT ![w].step = "restore",
                                ![w].write = IF hit THEN s ELSE "none"]
            /\ UNCHANGED <<intent, seen>>
       ELSE /\ intent' = IF hit THEN [intent EXCEPT ![i].status = s] ELSE intent
            /\ seen' = Recorded(op[w])
            /\ Finish(w)
  /\ UNCHANGED <<bill, overdue, psp, crashes>>

\* Mutant: the status is written whether or not the update has matched.
RestoreBillUnchecked(w) ==
  /\ op[w].step = "restore"
  /\ LET i == op[w].intent  b == intent[i].bill
     IN  /\ intent' = [intent EXCEPT ![i].status = op[w].write]
         /\ bill' = IF bill[b].status = "payment_pending"
                      THEN [bill EXCEPT ![b].status = "presented"] ELSE bill
  /\ seen' = Recorded(op[w])
  /\ Finish(w)
  /\ UNCHANGED <<overdue, psp, crashes>>

RestoreBill(w) ==
  /\ op[w].step = "restore"
  /\ LET i == op[w].intent  b == intent[i].bill
     IN  /\ intent' = IF op[w].write = "none" THEN intent
                      ELSE [intent EXCEPT ![i].status = op[w].write]
         /\ bill' = IF bill[b].status = "payment_pending"
                      THEN [bill EXCEPT ![b].status = "presented"] ELSE bill
  /\ seen' = Recorded(op[w])
  /\ Finish(w)
  /\ UNCHANGED <<overdue, psp, crashes>>

\* The provider could not create the checkout.
FailInitialization(w) ==
  /\ op[w].step = "initfail"
  /\ LET i == op[w].intent  hit == Active(i) /\ ~intent[i].ready
     IN  IF hit \/ intent[i].status = "failed"
           THEN GiveUp(w, i, hit, "failed")
           ELSE /\ Abort(w)
                /\ UNCHANGED <<bill, intent, overdue, seen, psp, crashes>>

-----------------------------------------------------------------------------
\* The provider's side, and time.

\* The customer pays, or tries again after a failure. A Paymob customer has
\* only the checkout URL to pay with; a Fawry order can be paid by its
\* reference once it exists.
CustomerPays(i) ==
  /\ psp[i].status \in {"open", "failed"} /\ psp[i].n < MaxAttempts
  /\ intent[i].provider = "fawry" \/ intent[i].ready
  /\ psp' = [psp EXCEPT ![i].status = "pending", ![i].n = @ + 1]
  /\ UNCHANGED <<bill, intent, overdue, seen, op, crashes>>

ProviderDecides(i) ==
  /\ psp[i].status = "pending"
  /\ \E s \in {"succeeded", "failed"} : psp' = [psp EXCEPT ![i].status = s]
  /\ UNCHANGED <<bill, intent, overdue, seen, op, crashes>>

\* checkoutExpiresAt passes; it is looked at only while the intent is active.
CheckoutExpires(i) ==
  /\ intent[i].ready /\ Active(i) /\ i \notin overdue
  /\ overdue' = overdue \cup {i}
  /\ UNCHANGED <<bill, intent, seen, psp, op, crashes>>

\* Every state the provider's transaction has been in may be in a webhook,
\* delivered once, often, late or never. (Webhooks that say "pending" are left
\* out: they make nothing active again, and leave what is active as it is.)
Emitted(i) ==
  {v \in Version :
     /\ v.n \in 1 .. psp[i].n
     /\ v.status = IF v.n < psp[i].n THEN "failed" ELSE psp[i].status
     /\ v.status # "pending"}

-----------------------------------------------------------------------------
\* Learning the provider's state.

StartWebhook(w, i, v) ==
  /\ op[w].step = "idle" /\ "webhook" \in Commands
  /\ v \in Emitted(i)
  /\ op' = [op EXCEPT ![w] = [Idle EXCEPT !.step = "apply", !.intent = i,
                                          !.version = v, !.source = "webhook"]]
  /\ UNCHANGED <<bill, intent, overdue, seen, psp, crashes>>

\* The recovery of an intent asked for by staff or by the scheduler.
StartRecovery(w, i) ==
  /\ op[w].step = "idle"
  /\ "recover" \in Commands \/ ("schedule" \in Commands /\ Active(i))
  /\ HasOrderId(i)
  /\ op' = [op EXCEPT ![w] = [Idle EXCEPT !.step = "inquire", !.intent = i,
                                          !.pending = Active(i),
                                          !.source = "staff"]]
  /\ UNCHANGED <<bill, intent, overdue, seen, psp, crashes>>

InquiryFinds(w) ==
  /\ op[w].step = "inquire"
  /\ LET p == psp[op[w].intent]
     IN  /\ p.n > 0
         /\ op' = [op EXCEPT ![w].step = "apply",
                             ![w].version = [n |-> p.n, status |-> p.status]]
  /\ UNCHANGED <<bill, intent, overdue, seen, psp, crashes>>

\* Mutant: an intent without a transaction is left alone for ever.
InquiryFindsNothingInert(w) ==
  /\ op[w].step = "inquire"
  /\ psp[op[w].intent].n = 0
  /\ Finish(w)
  /\ UNCHANGED <<bill, intent, overdue, seen, psp, crashes>>

InquiryFindsNothing(w) ==
  /\ op[w].step = "inquire"
  /\ psp[op[w].intent].n = 0
  /\ IF op[w].pending /\ op[w].intent \in overdue
       THEN Goto(w, "expire") ELSE Finish(w)
  /\ UNCHANGED <<bill, intent, overdue, seen, psp, crashes>>

InquiryUnavailable(w) ==
  /\ op[w].step = "inquire"
  /\ Abort(w)
  /\ UNCHANGED <<bill, intent, overdue, seen, psp, crashes>>

\* Mutants: the status is not checked again when it is written, and the bill
\* is not restored.
ExpireIntentBlindly(w) ==
  /\ op[w].step = "expire"
  /\ GiveUp(w, op[w].intent, TRUE, "expired")
ExpireIntentOnly(w) ==
  /\ op[w].step = "expire"
  /\ LET i == op[w].intent
     IN  /\ Active(i) => RowFree(w, i)
         /\ intent' = IF Active(i) THEN [intent EXCEPT ![i].status = "expired"]
                                   ELSE intent
  /\ Finish(w)
  /\ UNCHANGED <<bill, overdue, seen, psp, crashes>>

\* The provider has no transaction for a checkout that has expired. Paymob's
\* handler restores the bill only when it has expired the intent itself.
ExpireIntent(w) ==
  /\ op[w].step = "expire"
  /\ LET i == op[w].intent
     IN  IF Active(i) \/ intent[i].provider = "fawry"
           THEN GiveUp(w, i, Active(i), "expired")
           ELSE /\ Finish(w)
                /\ UNCHANGED <<bill, intent, overdue, seen, psp, crashes>>

\* The transaction that applies a provider state begins: a duplicate or an
\* order nobody knows changes nothing, a record of another amount, currency or
\* reference is only recorded, and the rest depends on the intent as read now.
Competing(i) == ActiveOf(intent[i].bill) \ {i}

\* Mutants: the amount is not compared, and a success is ignored once the
\* intent has failed or expired.
ReactionUnmatched(r) ==
  IF intent[r.intent].status # "succeeded" /\ r.version.status = "succeeded"
    THEN "succeed" ELSE "none"
ReactionActiveOnly(r) ==
  CASE ~psp[r.intent].ok \/ ~Active(r.intent) -> "none"
    [] r.version.status = "succeeded" /\ Active(r.intent) -> "succeed"
    [] OTHER -> "update"

\* The step that follows the read, or "none" when there is nothing to do. Fawry's
\* handler looks for an intent that has succeeded only when the answer is a success.
Reaction(r) ==
  LET i == r.intent  s == r.version.status
      settled == /\ intent[i].status = "succeeded"
                 /\ intent[i].provider = "paymob" \/ s = "succeeded"
  IN  CASE ~psp[i].ok \/ settled -> "none"
        [] OTHER ->
           CASE s = "succeeded" -> "succeed"
             [] s # "succeeded" /\ Active(i) -> "update"
             [] s = "pending" /\ ~Active(i) /\ r.source # "webhook"
                  /\ Competing(i) = {} -> "revive"
             [] OTHER -> "none"

ReadIntent(w) ==
  /\ op[w].step = "apply"
  /\ EventFree(w)
  /\ LET next == Reaction(op[w])
     IN  CASE EventOf(op[w]) \in seen \/ ~HasOrderId(op[w].intent) ->
                Finish(w) /\ UNCHANGED seen
           [] EventOf(op[w]) \notin seen /\ HasOrderId(op[w].intent)
                /\ next = "none" ->
                Finish(w) /\ seen' = Recorded(op[w])
           [] OTHER -> Goto(w, next) /\ UNCHANGED seen
  /\ UNCHANGED <<bill, intent, overdue, psp, crashes>>

\* Mutant: a second success of an intent settles, or is skipped, again.
ApplySuccessAgain(w) ==
  /\ op[w].step = "succeed"
  /\ LET i == op[w].intent
         b == intent[i].bill
         settles == CanSettle(b, intent[i].amount)
     IN  /\ RowFree(w, i)
         /\ intent' = [intent EXCEPT
                         ![i].status = "succeeded",
                         ![i].outcome = IF settles THEN "settled" ELSE "skipped"]
         /\ bill' = IF settles THEN Settled(b) ELSE bill
  /\ seen' = Recorded(op[w])
  /\ Finish(w)
  /\ UNCHANGED <<overdue, psp, crashes>>

\* updateMany where status # succeeded, then settleBillWithOnlinePayment.
ApplySuccess(w) ==
  /\ op[w].step = "succeed"
  /\ LET i == op[w].intent
         hit == intent[i].status # "succeeded"
         b == intent[i].bill
         settles == CanSettle(b, intent[i].amount)
     IN  /\ hit => RowFree(w, i)
         /\ intent' = IF hit
                        THEN [intent EXCEPT
                                ![i].status = "succeeded",
                                ![i].outcome = IF settles THEN "settled"
                                                          ELSE "skipped"]
                        ELSE intent
         /\ bill' = IF hit /\ settles THEN Settled(b) ELSE bill
  /\ seen' = Recorded(op[w])
  /\ Finish(w)
  /\ UNCHANGED <<overdue, psp, crashes>>

\* A state that is not a success, of an intent that was active when read.
ApplyStatus(w) ==
  /\ op[w].step = "update"
  /\ LET i == op[w].intent
     IN  IF Active(i) /\ op[w].version.status = "failed"
           THEN GiveUp(w, i, TRUE, "failed")
           ELSE /\ Active(i) => RowFree(w, i)
                /\ seen' = Recorded(op[w])
                /\ Finish(w)
                /\ UNCHANGED <<bill, intent, overdue, psp, crashes>>

\* An inquiry found the payment of a failed or expired intent still under way:
\* the intent becomes active again, unless the unique index forbids it. Fawry's
\* handler goes on to the bill even when the intent has succeeded meanwhile.
ReviveIntent(w) ==
  /\ op[w].step = "revive"
  /\ LET i == op[w].intent
         b == intent[i].bill
         hit == intent[i].status # "succeeded"
     IN  /\ hit => RowFree(w, i)
         /\ IF hit /\ ~IndexAllows(i, b)
              THEN Abort(w) /\ UNCHANGED <<bill, intent, seen>>
              ELSE /\ intent' = IF hit THEN [intent EXCEPT ![i].status = "pending"]
                                       ELSE intent
                   /\ bill' = IF /\ hit \/ intent[i].provider = "fawry"
                                 /\ bill[b].status = "presented"
                                 /\ bill[b].due = intent[i].amount
                                THEN [bill EXCEPT ![b].status = "payment_pending"]
                                ELSE bill
                   /\ seen' = Recorded(op[w])
                   /\ Finish(w)
  /\ UNCHANGED <<overdue, psp, crashes>>

\* The process serving a request dies: its transaction rolls back and its
\* advisory lock is gone.
Crash(w) ==
  /\ op[w].step # "idle" /\ crashes < MaxCrashes
  /\ crashes' = crashes + 1
  /\ Abort(w)
  /\ UNCHANGED <<bill, intent, overdue, seen, psp>>

-----------------------------------------------------------------------------
Init ==
  /\ bill = [b \in Bills |-> [status |-> "requested", due |-> Total[b],
                              paid |-> 0]]
  /\ intent = [i \in Intents |-> [status |-> "unborn", bill |-> None,
                                  amount |-> 0, provider |-> None,
                                  ready |-> FALSE, outcome |-> "none"]]
  /\ overdue = {} /\ seen = {}
  /\ psp = [i \in Intents |-> [n |-> 0, status |-> "unknown", ok |-> TRUE]]
  /\ op = [w \in Workers |-> Idle]
  /\ crashes = 0

\* A request arrives at an idle worker.
Arrive(w) ==
  \/ \E b \in Bills : \/ StartManualPayment(w, b)
                      \/ StartStatusChange(w, b)
                      \/ \E p \in Providers : StartPayment(w, b, p)
  \/ \E i \in Intents : \/ StartRecovery(w, i)
                        \/ \E v \in Version : StartWebhook(w, i, v)

\* A worker takes the next step of its request.
Proceed(w) ==
  \/ CommitManualPayment(w) \/ CommitStatusChange(w)
  \/ ReadBill(w) \/ LockBill(w) \/ InsertIntent(w) \/ CallProvider(w)
  \/ StoreCheckout(w) \/ FailInitialization(w) \/ RestoreBill(w)
  \/ InquiryFinds(w) \/ InquiryFindsNothing(w) \/ InquiryUnavailable(w)
  \/ ExpireIntent(w) \/ ReadIntent(w) \/ ApplySuccess(w) \/ ApplyStatus(w)
  \/ ReviveIntent(w)

Environment(i) == CustomerPays(i) \/ ProviderDecides(i) \/ CheckoutExpires(i)

Next == \/ \E w \in Workers : Arrive(w) \/ Proceed(w) \/ Crash(w)
        \/ \E i \in Intents : Environment(i)

Spec == Init /\ [][Next]_vars

-----------------------------------------------------------------------------
\* Fairness, for the liveness properties: the database and the event loop let
\* every open request go on, the reconciliation timer keeps asking about each
\* active intent, the provider answers some of the inquiries about it and
\* decides every payment, and time passes.
InquiryAnswers(i) ==
  \E w \in Workers : op[w].intent = i /\ (InquiryFinds(w) \/ InquiryFindsNothing(w))

Fairness ==
  /\ \A w \in Workers : WF_vars(Proceed(w))
  /\ \A i \in Intents : /\ SF_vars(\E w \in Workers : StartRecovery(w, i))
                        /\ SF_vars(InquiryAnswers(i))
                        /\ WF_vars(ProviderDecides(i))
                        /\ WF_vars(CheckoutExpires(i))

FairSpec == Spec /\ Fairness

\* The provider sends the webhook of its latest state until it is answered.
LatestWebhook(i) ==
  \E w \in Workers :
    StartWebhook(w, i, [n |-> psp[i].n, status |-> psp[i].status])

DeliverySpec == FairSpec /\ \A i \in Intents : SF_vars(LatestWebhook(i))

-----------------------------------------------------------------------------
\* Properties.

\* However webhooks, inquiries, retries and the cashier race for a bill, it is
\* paid once: one "paid" event, at most one intent that settled it, and never
\* both a settled intent and a bill without its payment.
SettledOnce ==
  /\ \A b \in Bills : bill[b].paid <= 1
  /\ \A i, j \in Intents :
       /\ intent[i].outcome = "settled" => bill[intent[i].bill].paid = 1
       /\ /\ intent[i].outcome = "settled" /\ intent[j].outcome = "settled"
          /\ intent[i].bill = intent[j].bill
          => i = j

\* The balance due is the whole total until the bill is paid and nothing from
\* then on, also when a stale write has moved the bill's status meanwhile, and
\* a bill shows as paid or closed only after a payment.
BooksBalance ==
  \A b \in Bills :
    /\ bill[b].due = IF bill[b].paid = 0 THEN Total[b] ELSE 0
    /\ bill[b].status \in {"paid", "closed"} => bill[b].paid = 1

\* At most one intent of a bill is active, although the recovery of an old
\* intent takes no lock against the creation of a new one.
OneActiveIntent ==
  \A i, j \in Intents :
    Active(i) /\ Active(j) /\ intent[i].bill = intent[j].bill => i = j

\* Only what the provider has really collected, for the right amount, is ever
\* booked as a success, whatever the order and number of the notifications.
SuccessIsReal ==
  \A i \in Intents :
    intent[i].status = "succeeded" =>
      psp[i].status = "succeeded" /\ psp[i].ok /\ intent[i].outcome # "none"

\* A success is never undone, nor its outcome rewritten, by a late failure, an
\* expired checkout, an initialization error or a recovery.
SuccessIsFinal ==
  [][\A i \in Intents : intent[i].status = "succeeded" =>
        /\ intent'[i].status = "succeeded"
        /\ intent'[i].outcome = intent[i].outcome]_vars

\* Money that arrives for a bill that still waits for it is never skipped.
NoMoneySkipped ==
  [][\A i \in Intents :
        intent[i].outcome = "none" /\ intent'[i].outcome = "skipped" =>
          LET b == bill[intent[i].bill]
          IN  b.status \notin Payable \/ b.due = 0]_vars

\* A bill waits for an online payment only while one of its intents is active:
\* whoever gives the last one up restores the bill in the same transaction, whatever
\* the others who are about to create, revive or settle have read.
PendingHasIntent ==
  \A b \in Bills : bill[b].status = "payment_pending" => ActiveOf(b) # {}

\* The payments of the bills, as the ledger's clients see them.
Ledger == INSTANCE BillLedger
            WITH collected <- {b \in Bills : bill[b].paid > 0},
                 result <- [i \in Intents |-> intent[i].outcome]
LedgerSpec == Ledger!Spec

\* Every request ends: no two of them wait for each other's locks or for each
\* other's rows in the unique indexes.
EveryRequestEnds == \A w \in Workers : op[w].step # "idle" ~> op[w].step = "idle"

\* The reconciliation of stale intents gives every active intent an end.
ActiveIntentEnds == \A i \in Intents : Active(i) ~> ~Active(i)

\* What the provider has collected for a matching order reaches the books.
ChargeReachesBooks ==
  \A i \in Intents :
    psp[i].status = "succeeded" /\ psp[i].ok ~> intent[i].status = "succeeded"

\* Paid bills cannot be cancelled nor presented again, cancelled bills cannot be
\* presented.
FinalStatusStays ==
  [][\A b \in Bills :
        /\ bill[b].status \in {"paid", "closed"} => bill'[b].status \in {"paid", "closed"}
        /\ bill[b].status = "cancelled" => bill'[b].status = "cancelled"]_vars
=============================================================================
