--------------------------- MODULE BillLedgerProofs ---------------------------
(***************************************************************************)
(* What a step of BillPayments may do to the books: it leaves them, takes  *)
(* a payment at the counter, settles a bill with an online payment or      *)
(* skips one. From this follow that BillPayments implements BillLedger and *)
(* the two action properties about results, and that a bill which waits    *)
(* for an online payment has an intent to wait for.                        *)
(***************************************************************************)
EXTENDS BillPaymentsProofs

SameResults == \A i \in Intents : intent'[i].outcome = intent[i].outcome
SamePayments == \A b \in Bills : bill'[b].paid = bill[b].paid

\* No success is taken back.
SuccessesStay == \A i \in Intents : intent[i].status = "succeeded" =>
                                      intent'[i].status = "succeeded"

Pays(b) == /\ bill[b].paid = 0 /\ bill'[b].paid = 1
           /\ \A c \in Bills \ {b} : bill'[c].paid = bill[c].paid

GetsResult(i, result) ==
  /\ intent[i].outcome = "none" /\ intent'[i].outcome = result
  /\ \A j \in Intents \ {i} : intent'[j].outcome = intent[j].outcome

BooksStay == SamePayments /\ SameResults
PaidAtCounter == SameResults /\ \E b \in Bills : Pays(b)
PaidOnline == \E i \in Intents, b \in Bills : Pays(b) /\ GetsResult(i, "settled")
Skipped == \E i \in Intents :
             /\ SamePayments /\ GetsResult(i, "skipped")
             /\ bill[intent[i].bill].status \notin Payable \/ bill[intent[i].bill].due = 0

BooksStep == SuccessesStay /\ (BooksStay \/ PaidAtCounter \/ PaidOnline \/ Skipped)

LEMMA NoTables ==
  ASSUME UNCHANGED <<bill, intent>>
  PROVE  BooksStep
  BY DEF BooksStep, SuccessesStay, BooksStay, SamePayments, SameResults

\* Only the status of a bill is written.
LEMMA BillStatusWritten ==
  ASSUME IInv, NEW b, NEW s, UNCHANGED intent,
         UNCHANGED bill \/ bill' = [bill EXCEPT ![b].status = s]
  PROVE  BooksStep
  <1>1. SamePayments
    BY DEF SamePayments, IInv, TypeOK, BillRow
  <1>2. QED
    BY <1>1 DEF BooksStep, SuccessesStay, BooksStay, SameResults

\* An intent is written that keeps its result, and has not succeeded.
LEMMA IntentStatusWritten ==
  ASSUME IInv, NEW i \in Intents, intent[i].status # "succeeded",
         \A j \in Intents \ {i} : intent'[j] = intent[j],
         intent'[i].outcome = intent[i].outcome,
         NEW b, NEW s, UNCHANGED bill \/ bill' = [bill EXCEPT ![b].status = s]
  PROVE  BooksStep
  <1>1. SamePayments
    BY DEF SamePayments, IInv, TypeOK, BillRow
  <1>2. QED
    BY <1>1 DEF BooksStep, SuccessesStay, BooksStay, SameResults

LEMMA GiveUpBooks ==
  ASSUME IInv, NEW w \in Workers, op[w].intent \in Intents,
         NEW hit \in BOOLEAN, NEW s, hit => Active(op[w].intent),
         GiveUp(w, op[w].intent, hit, s)
  PROVE  BooksStep
  <1> DEFINE i == op[w].intent
  <1>1. UNCHANGED bill
    BY DEF GiveUp
  <1>2. CASE UNCHANGED intent
    BY <1>1, <1>2, NoTables
  <1>3. CASE hit /\ intent' = [intent EXCEPT ![i].status = s]
    <2>1. /\ intent[i].status # "succeeded"
          /\ \A j \in Intents \ {i} : intent'[j] = intent[j]
          /\ intent'[i].outcome = intent[i].outcome
      BY <1>3 DEF Active, IInv, TypeOK, IntentRow
    <2>2. QED
      BY <1>1, <2>1, IntentStatusWritten
  <1>4. QED
    BY <1>2, <1>3 DEF GiveUp

LEMMA CommitManualPaymentBooks ==
  ASSUME IInv, NEW w \in Workers, CommitManualPayment(w)
  PROVE  BooksStep
  <1> DEFINE b == op[w].bill  due == op[w].due
  <1>1. /\ op[w].step = "manual" /\ UNCHANGED intent
        /\ bill' = IF CanSettle(b, due) THEN Settled(b) ELSE bill
    BY DEF CommitManualPayment
  <1>2. b \in Bills /\ due > 0
    BY <1>1, Current DEF RequestOK, BillReadsHold, BillSteps
  <1>3. CASE CanSettle(b, due)
    <2>1. Pays(b)
      BY <1>1, <1>2, <1>3, SettledBooks DEF Pays
    <2>2. QED
      BY <1>1, <1>2, <2>1 DEF BooksStep, SuccessesStay, PaidAtCounter, SameResults
  <1>4. CASE ~CanSettle(b, due)
    BY <1>1, <1>4, NoTables
  <1>5. QED
    BY <1>3, <1>4

LEMMA ApplySuccessBooks ==
  ASSUME IInv, NEW w \in Workers, ApplySuccess(w)
  PROVE  BooksStep
  <1> DEFINE i == op[w].intent
             b == intent[i].bill
             settles == CanSettle(b, intent[i].amount)
             result == IF settles THEN "settled" ELSE "skipped"
  <1>1. i \in Intents /\ Born(i)
    BY Current DEF ApplySuccess, IntentSteps
  <1>2. CASE intent[i].status = "succeeded"
    BY <1>2, NoTables DEF ApplySuccess
  <1>3. CASE intent[i].status # "succeeded"
    <2>1. /\ intent' = [intent EXCEPT ![i].status = "succeeded", ![i].outcome = result]
          /\ bill' = IF settles THEN Settled(b) ELSE bill
      BY <1>3 DEF ApplySuccess
    <2>2. /\ b \in Bills /\ intent[i].amount > 0 /\ intent[i].amount = Total[b]
          /\ intent[i].outcome = "none"
      BY <1>1, <1>3 DEF IInv, IntentsOK, IntentOK
    <2>3. SuccessesStay /\ GetsResult(i, result)
      BY <1>1, <2>1, <2>2 DEF SuccessesStay, GetsResult, IInv, TypeOK, IntentRow
    <2>4. CASE settles
      <3>1. Pays(b)
        BY <2>1, <2>2, <2>4, SettledBooks DEF Pays
      <3>2. QED
        BY <1>1, <2>2, <2>3, <2>4, <3>1 DEF BooksStep, PaidOnline
    <2>5. CASE ~settles
      <3>1. SamePayments
        BY <2>1, <2>5 DEF SamePayments
      <3>2. bill[b].status \notin Payable \/ bill[b].due = 0
        BY <2>2, <2>5 DEF CanSettle, IInv, BooksBalance
      <3>3. Skipped
        BY <1>1, <2>3, <2>5, <3>1, <3>2 DEF Skipped
      <3>4. QED
        BY <2>3, <3>3 DEF BooksStep
    <2>6. QED
      BY <2>4, <2>5
  <1>4. QED
    BY <1>2, <1>3

LEMMA ReviveIntentBooks ==
  ASSUME IInv, NEW w \in Workers, ReviveIntent(w)
  PROVE  BooksStep
  <1> DEFINE i == op[w].intent  b == intent[i].bill
  <1>1. i \in Intents
    BY Current DEF ReviveIntent, IntentSteps
  <1>2. UNCHANGED bill \/ bill' = [bill EXCEPT ![b].status = "payment_pending"]
    BY DEF ReviveIntent
  <1>3. CASE UNCHANGED intent
    <2> HIDE DEF b
    <2> QED BY <1>2, <1>3, BillStatusWritten
  <1>4. CASE /\ intent[i].status # "succeeded"
             /\ intent' = [intent EXCEPT ![i].status = "pending"]
    <2>1. /\ \A j \in Intents \ {i} : intent'[j] = intent[j]
          /\ intent'[i].outcome = intent[i].outcome
      BY <1>1, <1>4 DEF IInv, TypeOK, IntentRow
    <2> HIDE DEF b, i
    <2>2. QED
      BY <1>1, <1>2, <1>4, <2>1, IntentStatusWritten
  <1>5. QED
    BY <1>3, <1>4 DEF ReviveIntent

LEMMA InsertIntentBooks ==
  ASSUME IInv, NEW w \in Workers, InsertIntent(w)
  PROVE  BooksStep
  <1> DEFINE i == op[w].intent  b == op[w].bill
  <1>1. i \in Intents /\ ~Born(i) /\ intent[i].status # "succeeded"
        /\ intent[i].outcome = "none"
    BY Current DEF InsertIntent, IntentSteps, RequestOK, IntentReadsHold, Born,
       IInv, IntentsOK, IntentOK
  <1>2. UNCHANGED bill \/ bill' = [bill EXCEPT ![b].status = "payment_pending"]
    BY DEF InsertIntent
  <1>3. CASE UNCHANGED intent
    <2> HIDE DEF b
    <2> QED BY <1>2, <1>3, BillStatusWritten
  <1>4. CASE intent' = [intent EXCEPT ![i] =
                          [status |-> "pending", bill |-> b, amount |-> op[w].due,
                           provider |-> op[w].provider, ready |-> FALSE,
                           outcome |-> "none"]]
    <2>1. /\ \A j \in Intents \ {i} : intent'[j] = intent[j]
          /\ intent'[i].outcome = intent[i].outcome
      BY <1>1, <1>4 DEF IInv, TypeOK
    <2> HIDE DEF b, i
    <2>2. QED
      BY <1>1, <1>2, <2>1, IntentStatusWritten
  <1>5. QED
    BY <1>3, <1>4 DEF InsertIntent

LEMMA RestoreBillBooks ==
  ASSUME IInv, NEW w \in Workers, RestoreBill(w)
  PROVE  BooksStep
  <1> DEFINE i == op[w].intent  b == intent[i].bill
  <1>1. i \in Intents
    BY Current DEF RestoreBill, IntentSteps
  <1>2. UNCHANGED bill \/ bill' = [bill EXCEPT ![b].status = "presented"]
    BY DEF RestoreBill
  <1>3. CASE op[w].write = "none"
    <2>1. UNCHANGED intent
      BY <1>3 DEF RestoreBill
    <2> HIDE DEF b
    <2> QED BY <1>2, <2>1, BillStatusWritten
  <1>4. CASE op[w].write # "none"
    <2>1. Active(i)
      BY <1>4, Current DEF RestoreBill, RequestOK, IntentReadsHold
    <2>2. /\ intent[i].status # "succeeded"
          /\ \A j \in Intents \ {i} : intent'[j] = intent[j]
          /\ intent'[i].outcome = intent[i].outcome
      BY <1>1, <1>4, <2>1 DEF RestoreBill, Active, IInv, TypeOK, IntentRow
    <2> HIDE DEF b, i
    <2>3. QED
      BY <1>1, <1>2, <2>2, IntentStatusWritten
  <1>5. QED
    BY <1>3, <1>4

LEMMA StoreCheckoutBooks ==
  ASSUME IInv, NEW w \in Workers, StoreCheckout(w)
  PROVE  BooksStep
  <1> DEFINE i == op[w].intent
  <1>1. /\ i \in Intents /\ UNCHANGED bill
        /\ intent' = [intent EXCEPT ![i].ready = @ \/ Active(i)]
    BY Current DEF StoreCheckout, IntentSteps
  <1>2. \A j \in Intents : /\ intent'[j].status = intent[j].status
                           /\ intent'[j].outcome = intent[j].outcome
    BY <1>1 DEF IInv, TypeOK, IntentRow
  <1>3. QED
    BY <1>1, <1>2 DEF BooksStep, SuccessesStay, BooksStay, SamePayments, SameResults

LEMMA EveryStepIsABooksStep ==
  ASSUME IInv, [Next]_vars
  PROVE  BooksStep
  <1>1. ASSUME NEW w \in Workers, Arrive(w) PROVE BooksStep
    BY <1>1, NoTables DEF Arrive, StartManualPayment, StartStatusChange,
       StartPayment, StartRecovery, StartWebhook
  <1>2. ASSUME NEW w \in Workers, Proceed(w) PROVE BooksStep
    <2>1. CASE CommitStatusChange(w)
      BY <2>1, BillStatusWritten DEF CommitStatusChange
    <2>2. CASE \/ ReadBill(w) \/ LockBill(w) \/ CallProvider(w) \/ InquiryFinds(w)
               \/ InquiryFindsNothing(w) \/ InquiryUnavailable(w) \/ ReadIntent(w)
      BY <2>2, NoTables DEF ReadBill, LockBill, CallProvider, InquiryFinds,
         InquiryFindsNothing, InquiryUnavailable, ReadIntent
    <2>3. CASE FailInitialization(w) \/ ExpireIntent(w) \/ ApplyStatus(w)
      <3> DEFINE i == op[w].intent
      <3>1. i \in Intents
        BY <2>3, Current DEF FailInitialization, ExpireIntent, ApplyStatus, IntentSteps
      <3>2. CASE \E hit \in BOOLEAN, s \in {"failed", "expired"} :
                   (hit => Active(i)) /\ GiveUp(w, i, hit, s)
        BY <3>1, <3>2, GiveUpBooks
      <3>3. CASE UNCHANGED <<bill, intent>>
        BY <3>3, NoTables
      <3>4. QED
        BY <2>3, <3>2, <3>3 DEF FailInitialization, ExpireIntent, ApplyStatus, Active
    <2>4. QED
      BY <1>2, <2>1, <2>2, <2>3, CommitManualPaymentBooks, InsertIntentBooks,
         StoreCheckoutBooks, RestoreBillBooks, ApplySuccessBooks,
         ReviveIntentBooks DEF Proceed
  <1>3. ASSUME NEW w \in Workers, Crash(w) PROVE BooksStep
    BY <1>3, NoTables DEF Crash
  <1>4. ASSUME NEW i \in Intents, Environment(i) PROVE BooksStep
    BY <1>4, NoTables DEF Environment, CustomerPays, ProviderDecides, CheckoutExpires
  <1>5. CASE UNCHANGED vars
    BY <1>5, NoTables DEF vars
  <1>6. QED
    BY <1>1, <1>2, <1>3, <1>4, <1>5 DEF Next

-----------------------------------------------------------------------------
\* A recorded success and its result survive every later failure notice,
\* expiry, initialization error and recovery.
THEOREM SuccessesAreFinal == Spec => SuccessIsFinal
  <1>1. ASSUME IInv, [Next]_vars, NEW i \in Intents, intent[i].status = "succeeded"
        PROVE  /\ intent'[i].status = "succeeded"
               /\ intent'[i].outcome = intent[i].outcome
    <2>1. BooksStep /\ intent[i].outcome # "none"
      BY <1>1, EveryStepIsABooksStep DEF IInv, IntentsOK, IntentOK
    <2>2. QED
      BY <1>1, <2>1 DEF BooksStep, SuccessesStay, BooksStay, PaidAtCounter,
         PaidOnline, Skipped, SameResults, GetsResult
  <1>2. IInv /\ [Next]_vars =>
          [\A i \in Intents : intent[i].status = "succeeded" =>
             /\ intent'[i].status = "succeeded"
             /\ intent'[i].outcome = intent[i].outcome]_vars
    BY <1>1
  <1>3. QED
    BY <1>2, InvariantHolds, PTL DEF Spec, SuccessIsFinal

\* An online payment is skipped only when its bill has nothing to pay or can no
\* longer be paid.
THEOREM NoMoneyIsSkipped == Spec => NoMoneySkipped
  <1>1. ASSUME IInv, [Next]_vars, NEW i \in Intents,
               intent[i].outcome = "none", intent'[i].outcome = "skipped"
        PROVE  LET b == bill[intent[i].bill]
               IN  b.status \notin Payable \/ b.due = 0
    BY <1>1, EveryStepIsABooksStep DEF BooksStep, BooksStay, PaidAtCounter,
       PaidOnline, Skipped, SameResults, GetsResult
  <1>2. IInv /\ [Next]_vars =>
          [\A i \in Intents :
             intent[i].outcome = "none" /\ intent'[i].outcome = "skipped" =>
               LET b == bill[intent[i].bill]
               IN  b.status \notin Payable \/ b.due = 0]_vars
    BY <1>1
  <1>3. QED
    BY <1>2, InvariantHolds, PTL DEF Spec, NoMoneySkipped

-----------------------------------------------------------------------------
\* The refinement.

LEMMA LedgerStep ==
  ASSUME IInv, IInv', [Next]_vars
  PROVE  [Ledger!Next]_<<{b \in Bills : bill[b].paid > 0},
                         [i \in Intents |-> intent[i].outcome]>>
  <1> DEFINE collected == {b \in Bills : bill[b].paid > 0}
             result == [i \in Intents |-> intent[i].outcome]
  <1>1. CASE BooksStay
    BY <1>1 DEF BooksStay, SamePayments, SameResults
  <1>2. ASSUME NEW b \in Bills, Pays(b)
        PROVE  b \notin collected /\ collected' = collected \cup {b}
    BY <1>2 DEF Pays
  <1>3. ASSUME NEW i \in Intents, NEW r, GetsResult(i, r)
        PROVE  result[i] = "none" /\ result' = [result EXCEPT ![i] = r]
    BY <1>3 DEF GetsResult
  <1>4. SameResults => UNCHANGED result
    BY DEF SameResults
  <1>5. SamePayments => UNCHANGED collected
    BY DEF SamePayments
  <1>6. CASE PaidAtCounter
    <2>1. PICK b \in Bills : Pays(b)
      BY <1>6 DEF PaidAtCounter
    <2>2. Ledger!CollectAtCounter(b)
      BY <1>2, <1>4, <1>6, <2>1 DEF PaidAtCounter, Ledger!CollectAtCounter
    <2>3. QED
      BY <2>2 DEF Ledger!Next
  <1>7. CASE PaidOnline
    <2>1. PICK i \in Intents, b \in Bills : Pays(b) /\ GetsResult(i, "settled")
      BY <1>7 DEF PaidOnline
    <2>2. Ledger!CollectOnline(b, i)
      BY <1>2, <1>3, <2>1 DEF Ledger!CollectOnline
    <2>3. QED
      BY <2>2 DEF Ledger!Next
  <1>8. CASE Skipped
    <2>1. PICK i \in Intents : SamePayments /\ GetsResult(i, "skipped")
      BY <1>8 DEF Skipped
    <2>2. Ledger!Skip(i)
      BY <1>3, <1>5, <2>1 DEF Ledger!Skip
    <2>3. QED
      BY <2>2 DEF Ledger!Next
  <1>9. QED
    BY <1>1, <1>6, <1>7, <1>8, EveryStepIsABooksStep DEF BooksStep

\* The payment of bills implements the ledger: every execution, however its
\* requests interleave, is one in which each bill is collected once and each
\* online payment gets one result.
THEOREM ImplementsLedger == Spec => LedgerSpec
  <1>1. Init => Ledger!Init
    BY DEF Init, Ledger!Init
  <1>2. QED
    BY <1>1, LedgerStep, InvariantHolds, PTL DEF Spec, LedgerSpec, Ledger!Spec

-----------------------------------------------------------------------------
\* A bill that waits for an online payment has an active intent, when staff do not
\* present a bill again. Fawry's handler may move a bill on for an intent that has
\* succeeded: that this one has paid its bill needs that no bill is cancelled.

Waits ==
  \A b \in Bills : bill[b].status = "payment_pending" => bill[b].paid = 0 /\ ActiveOf(b) # {}

\* Bills that customers pay have been presented, and nobody cancels them.
Shown(b) == bill[b].status \notin {"requested", "cancelled"}

SuccessPays ==
  /\ \A w \in Workers : op[w].step \in {"lock", "insert"} => Shown(op[w].bill)
  /\ \A i \in Intents : Born(i) => Shown(intent[i].bill)
  /\ \A i \in Intents : intent[i].status = "succeeded" => bill[intent[i].bill].paid = 1

\* A request to present a bill has found it only requested.
StatusReads ==
  \A w \in Workers : /\ op[w].step = "present" => op[w].pending = FALSE
                     /\ op[w].step = "cancel" => "cancel" \in Commands

WaitInv == Waits /\ StatusReads /\ ("cancel" \notin Commands => SuccessPays)

\* What a step does to the request of a worker.
LEMMA RequestBecomes ==
  ASSUME IInv, [Next]_vars, NEW w \in Workers
  PROVE  LET r == op[w]  n == op'[w]
         IN  \/ n = r
             \/ n.step \notin {"present", "cancel", "lock", "insert"}
             \/ n.step = "present" /\ ("represent" \notin Commands => n.pending = FALSE)
             \/ n.step = "cancel" /\ "cancel" \in Commands
             \/ n.step = "lock" /\ n.bill \in Bills /\ Startable(n.bill)
             \/ n.step = "insert" /\ r.step = "lock" /\ n.bill = r.bill
  <1> DEFINE Becomes(v) ==
               LET r == op[v]  n == op'[v]
               IN  \/ n = r
                   \/ n.step \notin {"present", "cancel", "lock", "insert"}
                   \/ n.step = "present" /\ ("represent" \notin Commands => n.pending = FALSE)
                   \/ n.step = "cancel" /\ "cancel" \in Commands
                   \/ n.step = "lock" /\ n.bill \in Bills /\ Startable(n.bill)
                   \/ n.step = "insert" /\ r.step = "lock" /\ n.bill = r.bill
  <1>0. op \in [Workers -> Request]
    BY DEF IInv, TypeOK
  \* The frequent cases.
  <1>1. ASSUME NEW v \in Workers, NEW r, op' = [op EXCEPT ![v] = r],
               r.step \notin {"present", "cancel", "lock", "insert"}
        PROVE  Becomes(w)
    BY <1>0, <1>1
  <1>2. ASSUME NEW v \in Workers, NEW s, Goto(v, s),
               s \notin {"present", "cancel", "lock", "insert"}
        PROVE  Becomes(w)
    <2>1. [op[v] EXCEPT !.step = s].step = s
      BY <1>0 DEF Request
    <2>2. op' = [op EXCEPT ![v] = [op[v] EXCEPT !.step = s]]
      BY <1>0, <1>2 DEF Goto
    <2> HIDE DEF Becomes
    <2>3. QED BY <1>1, <1>2, <2>1, <2>2
  <1>3. ASSUME NEW v \in Workers, Abort(v)
        PROVE  Becomes(w)
    BY <1>0, <1>3 DEF Abort, Idle
  <1>4. ASSUME NEW v \in Workers, Finish(v)
        PROVE  Becomes(w)
    <2>1. After(op[v]).step \in {"idle", "readBill"}
      BY DEF After, Idle
    <2>2. op' = [op EXCEPT ![v] = After(op[v])]
      BY <1>4 DEF Finish
    <2> HIDE DEF Becomes
    <2>3. QED BY <1>1, <2>1, <2>2
  <1>5. ASSUME NEW v \in Workers, NEW b \in Bills, NEW p,
               Startable(b), op' = [op EXCEPT ![v] = ToLock(b, p)]
        PROVE  Becomes(w)
    <2>1. ToLock(b, p).step = "lock" /\ ToLock(b, p).bill = b
      BY DEF ToLock, Idle
    <2>2. op'[w] = op[w] \/ op'[w] = ToLock(b, p)
      BY <1>0, <1>5
    <2>3. QED BY <1>5, <2>1, <2>2
  <1>6. ASSUME NEW v \in Workers, Arrive(v)
        PROVE  Becomes(w)
    <2>1. ASSUME NEW b \in Bills, StartManualPayment(v, b)
          PROVE  Becomes(w)
      BY <1>0, <2>1 DEF StartManualPayment, Idle
    <2>2. ASSUME NEW b \in Bills, StartStatusChange(v, b)
          PROVE  Becomes(w)
      <3>1. PICK s \in {"cancel", "present", "close"} :
               /\ s \in Commands \/ (s = "present" /\ "represent" \in Commands)
               /\ Permits(b, s)
               /\ op' = [op EXCEPT ![v] =
                    [Idle EXCEPT !.step = s, !.bill = b,
                       !.pending = s = "present" /\ bill[b].status = "payment_pending"]]
        BY <2>2 DEF StartStatusChange
      <3>2. PICK pending :
              pending = (s = "present" /\ bill[b].status = "payment_pending")
        OBVIOUS
      <3>3. s = "present" /\ "represent" \notin Commands => pending = FALSE
        BY <3>1, <3>2 DEF Permits
      <3>4. op' = [op EXCEPT ![v] = [Idle EXCEPT !.step = s, !.bill = b, !.pending = pending]]
        BY <3>1, <3>2
      <3>5. op'[w] = op[w] \/ (op'[w].step = s /\ op'[w].pending = pending)
        BY <1>0, <3>4 DEF Idle
      <3>6. QED BY <3>1, <3>3, <3>5
    <2>3. ASSUME NEW b \in Bills, NEW p \in Providers, StartPayment(v, b, p)
          PROVE  Becomes(w)
      <3>1. CASE Startable(b) /\ op' = [op EXCEPT ![v] = ToLock(b, p)]
        BY <1>5, <3>1
      <3>2. CASE \E i \in Latest(b, p) : op' = [op EXCEPT ![v] =
                   [Idle EXCEPT !.step = "inquire", !.bill = b, !.provider = p,
                                !.intent = i, !.pending = Active(i), !.source = "retry"]]
        BY <1>0, <3>2 DEF Idle
      <3>3. QED BY <2>3, <3>1, <3>2 DEF StartPayment
    <2>4. ASSUME NEW i \in Intents, StartRecovery(v, i)
          PROVE  Becomes(w)
      BY <1>0, <2>4 DEF StartRecovery, Idle
    <2>5. ASSUME NEW i \in Intents, NEW x \in Version, StartWebhook(v, i, x)
          PROVE  Becomes(w)
      BY <1>0, <2>5 DEF StartWebhook, Idle
    <2> HIDE DEF Becomes
    <2>6. QED BY <1>6, <2>1, <2>2, <2>3, <2>4, <2>5 DEF Arrive
  <1>7. ASSUME NEW v \in Workers, NEW i, NEW hit, NEW s, GiveUp(v, i, hit, s)
        PROVE  Becomes(w)
    <2>1. \/ Finish(v)
          \/ \E x : op' = [op EXCEPT ![v].step = "restore", ![v].write = x]
      BY <1>7 DEF GiveUp
    <2>2. ASSUME NEW x, op' = [op EXCEPT ![v].step = "restore", ![v].write = x]
          PROVE  Becomes(w)
      BY <1>0, <2>2 DEF Request
    <2> HIDE DEF Becomes
    <2>3. QED BY <1>4, <2>1, <2>2
  <1>8. ASSUME NEW v \in Workers, Proceed(v)
        PROVE  Becomes(w)
    <2>1. CASE \/ CommitManualPayment(v) \/ CommitStatusChange(v) \/ StoreCheckout(v)
               \/ InquiryUnavailable(v)
      <3> HIDE DEF Becomes
      <3> QED BY <1>3, <2>1 DEF CommitManualPayment, CommitStatusChange, StoreCheckout,
                               InquiryUnavailable
    <2>2. CASE ReadBill(v)
      <3>1. op[v].bill \in Bills
        BY <2>2, Current DEF ReadBill, BillSteps
      <3>2. \/ Abort(v)
            \/ /\ Startable(op[v].bill)
               /\ op' = [op EXCEPT ![v] = ToLock(op[v].bill, op[v].provider)]
        BY <1>0, <2>2 DEF ReadBill, Abort
      <3> HIDE DEF Becomes
      <3>3. QED BY <1>3, <1>5, <3>1, <3>2
    <2>3. CASE LockBill(v)
      <3>1. ASSUME NEW i, op' = [op EXCEPT ![v].step = "insert", ![v].intent = i]
            PROVE  Becomes(w)
        <4>1. op'[v] = [op[v] EXCEPT !.step = "insert", !.intent = i] /\ op[v].step = "lock"
          BY <1>0, <2>3, <3>1 DEF LockBill
        <4>2. op'[v].step = "insert" /\ op'[v].bill = op[v].bill
          BY <1>0, <4>1 DEF Request
        <4>3. w # v => op'[w] = op[w]
          BY <1>0, <3>1
        <4>4. QED BY <4>1, <4>2, <4>3
      <3> HIDE DEF Becomes
      <3>2. QED BY <1>3, <2>3, <3>1 DEF LockBill
    <2>4. CASE InsertIntent(v)
      <3> HIDE DEF Becomes
      <3> QED BY <1>2, <1>3, <2>4 DEF InsertIntent
    <2>5. CASE CallProvider(v)
      <3>1. Goto(v, "ready") \/ Goto(v, "initfail")
        BY <2>5 DEF CallProvider
      <3> HIDE DEF Becomes
      <3>2. QED BY <1>2, <3>1
    <2>6. CASE FailInitialization(v) \/ ExpireIntent(v) \/ ApplyStatus(v)
      <3>1. \/ \E i, hit, s : GiveUp(v, i, hit, s)
            \/ Abort(v) \/ Finish(v)
        BY <2>6 DEF FailInitialization, ExpireIntent, ApplyStatus
      <3> HIDE DEF Becomes
      <3>2. QED BY <1>3, <1>4, <1>7, <3>1
    <2>7. CASE RestoreBill(v) \/ ApplySuccess(v) \/ ReviveIntent(v)
      <3> HIDE DEF Becomes
      <3> QED BY <1>3, <1>4, <2>7 DEF RestoreBill, ApplySuccess, ReviveIntent
    <2>8. CASE InquiryFinds(v)
      <3>1. PICK x : op' = [op EXCEPT ![v].step = "apply", ![v].version = x]
        BY <2>8 DEF InquiryFinds
      <3>2. QED BY <1>0, <3>1 DEF Request
    <2>9. CASE InquiryFindsNothing(v)
      <3> HIDE DEF Becomes
      <3> QED BY <1>2, <1>4, <2>9 DEF InquiryFindsNothing
    <2>10. CASE ReadIntent(v)
      <3>1. \/ Finish(v)
            \/ \E s \in {"succeed", "update", "revive"} : Goto(v, s)
        BY <2>10 DEF ReadIntent, Reaction
      <3> HIDE DEF Becomes
      <3>2. QED BY <1>2, <1>4, <3>1
    <2> HIDE DEF Becomes
    <2>11. QED BY <1>8, <2>1, <2>2, <2>3, <2>4, <2>5, <2>6, <2>7, <2>8, <2>9, <2>10 DEF Proceed
  <1>9. ASSUME NEW v \in Workers, Crash(v)
        PROVE  Becomes(w)
    <2> HIDE DEF Becomes
    <2> QED BY <1>3, <1>9 DEF Crash
  <1>10. CASE UNCHANGED op
    BY <1>10
  <1>11. Becomes(w)
    <2>1. \/ UNCHANGED op
          \/ \E v \in Workers : Arrive(v) \/ Proceed(v) \/ Crash(v)
      BY DEF Next, vars, Environment, CustomerPays, ProviderDecides, CheckoutExpires
    <2>2. ASSUME NEW v \in Workers, Arrive(v) \/ Proceed(v) \/ Crash(v)
          PROVE  Becomes(w)
      <3> HIDE DEF Becomes
      <3> QED BY <1>6, <1>8, <1>9, <2>2
    <2>3. QED BY <1>10, <2>1, <2>2
  <1>12. QED BY <1>11

\* Nothing but a cancellation takes a bill back.
LEMMA BillBecomes ==
  ASSUME IInv, [Next]_vars, NEW b \in Bills,
         bill'[b].status \in {"requested", "cancelled"}
  PROVE  \/ bill'[b].status = bill[b].status
         \/ \E w \in Workers : op[w].step = "cancel"
  <1> DEFINE Good == \/ bill'[b].status = bill[b].status
                     \/ \E w \in Workers : op[w].step = "cancel"
  <1>0. bill \in [Bills -> BillRow]
    BY DEF IInv, TypeOK
  <1>1. ASSUME NEW c, NEW s, s \notin {"requested", "cancelled"},
               bill' = [bill EXCEPT ![c].status = s]
        PROVE  Good
    BY <1>0, <1>1 DEF BillRow
  <1>2. ASSUME NEW w \in Workers, Proceed(w)
        PROVE  Good
    <2>1. CASE CommitManualPayment(w)
      BY <1>0, <2>1 DEF CommitManualPayment, Settled
    <2>2. CASE CommitStatusChange(w)
      <3>1. op[w].step = "cancel" \/ \E c : \E s \in {"closed", "payment_pending", "presented"} :
              bill' = [bill EXCEPT ![c].status = s]
        BY <2>2 DEF CommitStatusChange, NewBillStatus
      <3>2. QED BY <1>1, <3>1
    <2>3. CASE \/ ReadBill(w) \/ LockBill(w) \/ CallProvider(w) \/ InquiryFinds(w)
               \/ InquiryFindsNothing(w) \/ InquiryUnavailable(w) \/ ReadIntent(w)
               \/ StoreCheckout(w)
      BY <2>3 DEF ReadBill, LockBill, CallProvider, InquiryFinds, InquiryFindsNothing,
         InquiryUnavailable, ReadIntent, StoreCheckout
    <2>4. CASE FailInitialization(w) \/ ExpireIntent(w) \/ ApplyStatus(w)
      BY <2>4 DEF FailInitialization, ExpireIntent, ApplyStatus, GiveUp
    <2>5. CASE InsertIntent(w) \/ RestoreBill(w) \/ ReviveIntent(w)
      <3>1. UNCHANGED bill \/ \E c : \E s \in {"payment_pending", "presented"} :
              bill' = [bill EXCEPT ![c].status = s]
        BY <2>5 DEF InsertIntent, RestoreBill, ReviveIntent
      <3>2. QED BY <1>1, <3>1
    <2>6. CASE ApplySuccess(w)
      BY <1>0, <2>6 DEF ApplySuccess, Settled
    <2>7. QED BY <1>2, <2>1, <2>2, <2>3, <2>4, <2>5, <2>6 DEF Proceed
  <1>3. CASE UNCHANGED bill
    BY <1>3
  <1>4. UNCHANGED bill \/ \E w \in Workers : Proceed(w)
    BY DEF Next, vars, Environment, CustomerPays, ProviderDecides, CheckoutExpires, Crash,
       Arrive, StartManualPayment, StartStatusChange, StartPayment, StartRecovery, StartWebhook
  <1>5. QED BY <1>2, <1>3, <1>4

-----------------------------------------------------------------------------
\* The steps that write bills or intents keep it.

\* A bill that waits after a step has waited before it and lost no active intent, or
\* got one that it owes for.
LEMMA WaitsOn ==
  ASSUME IInv, Waits,
         \A b \in Bills : bill'[b].status = "payment_pending" =>
           \/ /\ bill[b].status = "payment_pending" /\ bill'[b].paid = bill[b].paid
              /\ ActiveOf(b) \subseteq ActiveOf(b)'
           \/ bill'[b].paid = 0 /\ ActiveOf(b)' # {}
  PROVE  Waits'
  BY DEF Waits

\* Intents and the statuses of bills do not matter to bills that they are not of.
LEMMA ActiveStay ==
  ASSUME IInv, NEW i \in Intents,
         \A j \in Intents \ {i} : intent'[j] = intent[j],
         NEW b, ~Active(i) \/ intent[i].bill # b \/ (Active(i)' /\ intent'[i].bill = b)
  PROVE  ActiveOf(b) \subseteq ActiveOf(b)'
  BY DEF ActiveOf, Active

LEMMA Unpaid0 ==
  ASSUME IInv, NEW b \in Bills
  PROVE  /\ bill[b].due # 0 => bill[b].paid = 0 /\ bill[b].due = Total[b]
         /\ bill[b].paid = 0 => bill[b].due = Total[b]
         /\ bill[b].paid # 0 => bill[b].paid = 1 /\ bill[b].due = 0
  <1>1. bill[b].paid \in Nat /\ bill[b].paid <= 1
    BY DEF IInv, TypeOK, BillRow, SettledOnce
  <1>2. QED BY <1>1 DEF IInv, BooksBalance

LEMMA InsertIntentWaits ==
  ASSUME IInv, Waits, NEW w \in Workers, InsertIntent(w)
  PROVE  Waits'
  <1> PICK b : b = op[w].bill
    OBVIOUS
  <1> PICK i : i = op[w].intent
    OBVIOUS
  <1>1. /\ i \in Intents /\ b \in Bills /\ ~Active(i) /\ op[w].due > 0
    BY Current DEF InsertIntent, IntentSteps, BillSteps, RequestOK, BillReadsHold,
       IntentReadsHold, Born, Active
  <1>2. CASE UNCHANGED <<bill, intent>>
    BY <1>2 DEF Waits, ActiveOf, Active
  <1>3. CASE /\ intent' = [intent EXCEPT ![i] =
                  [status |-> "pending", bill |-> b, amount |-> op[w].due,
                   provider |-> op[w].provider, ready |-> FALSE, outcome |-> "none"]]
             /\ bill' = IF bill[b].status = "presented" /\ bill[b].due = op[w].due
                          THEN [bill EXCEPT ![b].status = "payment_pending"] ELSE bill
    <2>1. /\ \A j \in Intents \ {i} : intent'[j] = intent[j]
          /\ Active(i)' /\ intent'[i].bill = b
      BY <1>1, <1>3 DEF IInv, TypeOK, Active
    <2>2. i \in ActiveOf(b)'
      BY <1>1, <2>1 DEF ActiveOf
    <2>3. \A c : ActiveOf(c) \subseteq ActiveOf(c)'
      BY <1>1, <2>1, ActiveStay
    <2>4. \A c \in Bills : bill'[c] = bill[c] \/
            (c = b /\ bill[b].due = op[w].due /\ bill'[b].paid = bill[b].paid)
      BY <1>1, <1>3 DEF IInv, TypeOK, BillRow
    <2>5. bill[b].due = op[w].due => bill[b].paid = 0
      BY <1>1, Unpaid0
    <2>6. QED BY <2>2, <2>3, <2>4, <2>5, WaitsOn
  <1>4. QED BY <1>2, <1>3 DEF InsertIntent

\* Whoever gives an intent up while another one of its bill is active has found it
\* given up already.
LEMMA GiveUpWaits ==
  ASSUME IInv, Waits, NEW w \in Workers, op[w].intent \in Intents, NEW hit \in BOOLEAN,
         NEW s, hit => Active(op[w].intent), GiveUp(w, op[w].intent, hit, s)
  PROVE  UNCHANGED <<bill, intent>>
  <1> PICK i : i = op[w].intent
    OBVIOUS
  <1>1. ASSUME hit
        PROVE  ActiveOf(intent[i].bill) \ {i} = {}
    BY <1>1 DEF IInv, OneActiveIntent, ActiveOf
  <1>2. QED BY <1>1 DEF GiveUp

LEMMA RestoreBillWaits ==
  ASSUME IInv, Waits, NEW w \in Workers, RestoreBill(w)
  PROVE  Waits'
  <1> PICK i : i = op[w].intent
    OBVIOUS
  <1> PICK b : b = intent[i].bill
    OBVIOUS
  <1>1. i \in Intents /\ b \in Bills
    BY Current DEF RestoreBill, IntentSteps, IInv, IntentsOK, IntentOK
  <1>2. /\ \A j \in Intents \ {i} : intent'[j] = intent[j]
        /\ bill'[b].status # "payment_pending"
        /\ \A c \in Bills \ {b} : bill'[c] = bill[c]
    BY <1>1 DEF RestoreBill, IInv, TypeOK, BillRow
  <1>3. \A c \in Bills \ {b} : ActiveOf(c) \subseteq ActiveOf(c)'
    BY <1>1, <1>2, ActiveStay
  <1>4. QED BY <1>1, <1>2, <1>3, WaitsOn

LEMMA ApplySuccessWaits ==
  ASSUME IInv, Waits, NEW w \in Workers, ApplySuccess(w)
  PROVE  Waits'
  <1> PICK i : i = op[w].intent
    OBVIOUS
  <1> PICK b : b = intent[i].bill
    OBVIOUS
  <1>1. /\ i \in Intents /\ b \in Bills /\ intent[i].amount = Total[b]
    BY Current DEF ApplySuccess, IntentSteps, IInv, IntentsOK, IntentOK
  <1>2. CASE UNCHANGED <<bill, intent>>
    BY <1>2 DEF Waits, ActiveOf, Active
  <1>3. CASE ~UNCHANGED <<bill, intent>>
    <2>1. /\ \A j \in Intents \ {i} : intent'[j] = intent[j]
          /\ bill' = IF CanSettle(b, intent[i].amount) THEN Settled(b) ELSE bill
      BY <1>1, <1>3 DEF ApplySuccess, IInv, TypeOK
    <2>2. bill[b].status = "payment_pending" => CanSettle(b, intent[i].amount)
      BY <1>1, Unpaid0 DEF Waits, CanSettle, Payable
    <2>3. /\ bill'[b].status # "payment_pending"
          /\ \A c \in Bills \ {b} : bill'[c] = bill[c]
      BY <1>1, <2>1, <2>2 DEF Settled, IInv, TypeOK
    <2>4. \A c \in Bills \ {b} : ActiveOf(c) \subseteq ActiveOf(c)'
      BY <1>1, <2>1, ActiveStay
    <2>5. QED BY <1>1, <2>3, <2>4, WaitsOn
  <1>4. QED BY <1>2, <1>3

LEMMA ReviveIntentWaits ==
  ASSUME "fawry" \notin Providers \cup {None} \/ SuccessPays,
         IInv, Waits, NEW w \in Workers, ReviveIntent(w)
  PROVE  Waits'
  <1> PICK i : i = op[w].intent
    OBVIOUS
  <1> PICK b : b = intent[i].bill
    OBVIOUS
  <1>1. /\ i \in Intents /\ b \in Bills /\ intent[i].amount = Total[b]
        /\ intent[i].amount > 0 /\ intent[i].provider \in Providers \cup {None}
    BY Current DEF ReviveIntent, IntentSteps, IInv, IntentsOK, IntentOK, TypeOK, IntentRow
  <1>2. CASE UNCHANGED <<bill, intent>>
    BY <1>2 DEF Waits, ActiveOf, Active
  <1>3. CASE /\ intent[i].status # "succeeded"
             /\ intent' = [intent EXCEPT ![i].status = "pending"]
    <2>1. /\ \A j \in Intents \ {i} : intent'[j] = intent[j]
          /\ Active(i)' /\ intent'[i].bill = b
      BY <1>1, <1>3 DEF IInv, TypeOK, IntentRow, Active
    <2>2. i \in ActiveOf(b)' /\ \A c : ActiveOf(c) \subseteq ActiveOf(c)'
      BY <1>1, <2>1, ActiveStay DEF ActiveOf
    <2>3. \A c \in Bills : bill'[c] = bill[c] \/
            (c = b /\ bill[b].due = intent[i].amount /\ bill'[b].paid = bill[b].paid)
      BY <1>1, <1>3 DEF ReviveIntent, IInv, TypeOK, BillRow
    <2>4. bill[b].due = intent[i].amount => bill[b].paid = 0
      BY <1>1, Unpaid0
    <2>5. QED BY <2>2, <2>3, <2>4, WaitsOn
  <1>4. CASE intent[i].status = "succeeded"
    <2>1. UNCHANGED intent
      BY <1>4 DEF ReviveIntent
    <2>2. CASE intent[i].provider = "fawry"
      <3>1. bill[b].paid = 1
        BY <1>1, <1>4, <2>2 DEF SuccessPays
      <3>2. bill[b].due # intent[i].amount
        BY <1>1, <3>1, Unpaid0
      <3>3. UNCHANGED bill
        BY <1>4, <3>2 DEF ReviveIntent
      <3>4. QED BY <1>2, <2>1, <3>3
    <2>3. CASE intent[i].provider # "fawry"
      BY <1>2, <1>4, <2>1, <2>3 DEF ReviveIntent
    <2>4. QED BY <2>2, <2>3
  <1>5. QED BY <1>2, <1>3, <1>4 DEF ReviveIntent

LEMMA WaitsStep ==
  ASSUME "represent" \notin Commands,
         "fawry" \notin Providers \cup {None} \/ "cancel" \notin Commands,
         IInv, WaitInv, [Next]_vars
  PROVE  Waits'
  <1>0. Waits /\ ("fawry" \notin Providers \cup {None} \/ SuccessPays)
    BY DEF WaitInv
  <1>1. CASE UNCHANGED <<bill, intent>>
    BY <1>0, <1>1 DEF Waits, ActiveOf, Active
  <1>2. ASSUME NEW w \in Workers, Proceed(w)
        PROVE  Waits'
    <2>1. CASE CommitManualPayment(w)
      <3>1. UNCHANGED intent /\ (UNCHANGED bill \/ bill' = Settled(op[w].bill))
        BY <2>1 DEF CommitManualPayment
      <3>2. \A b \in Bills : bill'[b] = bill[b] \/ bill'[b].status = "paid"
        BY <3>1 DEF Settled, IInv, TypeOK
      <3>3. QED BY <1>0, <3>1, <3>2, WaitsOn DEF ActiveOf, Active
    <2>2. CASE CommitStatusChange(w)
      <3>1. UNCHANGED intent
            /\ bill' = [bill EXCEPT ![op[w].bill].status = NewBillStatus(op[w])]
        BY <2>2 DEF CommitStatusChange
      <3>2. NewBillStatus(op[w]) # "payment_pending"
        BY <2>2 DEF CommitStatusChange, NewBillStatus, WaitInv, StatusReads
      <3>3. \A b \in Bills : bill'[b] = bill[b] \/ bill'[b].status # "payment_pending"
        BY <3>1, <3>2 DEF IInv, TypeOK, BillRow
      <3>4. QED BY <1>0, <3>1, <3>3, WaitsOn DEF ActiveOf, Active
    <2>3. CASE \/ ReadBill(w) \/ LockBill(w) \/ CallProvider(w) \/ InquiryFinds(w)
               \/ InquiryFindsNothing(w) \/ InquiryUnavailable(w) \/ ReadIntent(w)
      BY <1>1, <2>3 DEF ReadBill, LockBill, CallProvider, InquiryFinds,
         InquiryFindsNothing, InquiryUnavailable, ReadIntent
    <2>4. CASE StoreCheckout(w)
      <3>1. /\ UNCHANGED bill
            /\ \A j \in Intents : /\ intent'[j].status = intent[j].status
                                  /\ intent'[j].bill = intent[j].bill
        BY <2>4 DEF StoreCheckout, IInv, TypeOK, IntentRow
      <3>2. QED BY <1>0, <3>1, WaitsOn DEF ActiveOf, Active
    <2>5. CASE FailInitialization(w) \/ ExpireIntent(w) \/ ApplyStatus(w)
      <3>1. op[w].intent \in Intents
        BY <2>5, Current DEF FailInitialization, ExpireIntent, ApplyStatus, IntentSteps
      <3>2. \/ UNCHANGED <<bill, intent>>
            \/ \E hit \in BOOLEAN : \E s : /\ hit => Active(op[w].intent)
                                           /\ GiveUp(w, op[w].intent, hit, s)
        BY <2>5 DEF FailInitialization, ExpireIntent, ApplyStatus, Active
      <3>3. QED BY <1>0, <1>1, <3>1, <3>2, GiveUpWaits
    <2>6. QED
      BY <1>0, <1>2, <2>1, <2>2, <2>3, <2>4, <2>5, InsertIntentWaits, RestoreBillWaits,
         ApplySuccessWaits, ReviveIntentWaits DEF Proceed
  <1>3. UNCHANGED <<bill, intent>> \/ \E w \in Workers : Proceed(w)
    BY DEF Next, vars, Environment, CustomerPays, ProviderDecides, CheckoutExpires, Crash,
       Arrive, StartManualPayment, StartStatusChange, StartPayment, StartRecovery, StartWebhook
  <1>4. QED BY <1>1, <1>2, <1>3

LEMMA StatusReadsStep ==
  ASSUME "represent" \notin Commands, IInv, WaitInv, [Next]_vars
  PROVE  StatusReads'
  BY RequestBecomes DEF WaitInv, StatusReads

\* An intent stays with its bill; a new one is that of a request.
LEMMA IntentBecomes ==
  ASSUME IInv, [Next]_vars, NEW i \in Intents
  PROVE  /\ Born(i) => Born(i)' /\ intent'[i].bill = intent[i].bill
         /\ ~Born(i) /\ Born(i)' =>
              /\ intent'[i].status = "pending"
              /\ \E w \in Workers : op[w].step = "insert" /\ intent'[i].bill = op[w].bill
  <1> DEFINE Good == /\ Born(i) => Born(i)' /\ intent'[i].bill = intent[i].bill
                     /\ ~Born(i) /\ Born(i)' =>
                          /\ intent'[i].status = "pending"
                          /\ \E w \in Workers :
                               op[w].step = "insert" /\ intent'[i].bill = op[w].bill
  <1>1. CASE UNCHANGED intent
    BY <1>1 DEF Born
  \* The row of an intent that exists is written.
  <1>2. ASSUME NEW j, Born(j), NEW s, s # "unborn",
               intent' = [intent EXCEPT ![j].status = s]
        PROVE  Good
    BY <1>2 DEF Born, IInv, TypeOK, IntentRow
  <1>3. ASSUME NEW w \in Workers, Proceed(w)
        PROVE  Good
    <2> PICK j : j = op[w].intent
      OBVIOUS
    <2>1. op[w].step \in IntentSteps \ {"insert"} => j \in Intents /\ Born(j)
      BY Current
    <2>2. CASE \/ CommitManualPayment(w) \/ CommitStatusChange(w) \/ ReadBill(w)
               \/ LockBill(w) \/ CallProvider(w) \/ InquiryFinds(w)
               \/ InquiryFindsNothing(w) \/ InquiryUnavailable(w) \/ ReadIntent(w)
      BY <1>1, <2>2 DEF CommitManualPayment, CommitStatusChange, ReadBill, LockBill,
         CallProvider, InquiryFinds, InquiryFindsNothing, InquiryUnavailable, ReadIntent
    <2>3. CASE InsertIntent(w)
      <3>1. op[w].step = "insert" /\ j \in Intents /\ ~Born(j)
        BY <2>3, Current DEF InsertIntent, IntentSteps, RequestOK, IntentReadsHold
      <3>2. CASE intent' = [intent EXCEPT ![j] =
                  [status |-> "pending", bill |-> op[w].bill, amount |-> op[w].due,
                   provider |-> op[w].provider, ready |-> FALSE, outcome |-> "none"]]
        <4>1. CASE i = j
          BY <3>1, <3>2, <4>1 DEF IInv, TypeOK
        <4>2. CASE i # j
          <5>1. intent'[i] = intent[i]
            BY <3>2, <4>2 DEF IInv, TypeOK
          <5>2. QED BY <5>1 DEF Born
        <4>3. QED BY <4>1, <4>2
      <3>3. QED BY <1>1, <2>3, <3>2 DEF InsertIntent
    <2>4. CASE StoreCheckout(w)
      <3>1. /\ intent'[i].status = intent[i].status /\ intent'[i].bill = intent[i].bill
        BY <2>4 DEF StoreCheckout, IInv, TypeOK, IntentRow
      <3>2. QED BY <3>1 DEF Born
    <2>5. CASE FailInitialization(w) \/ ExpireIntent(w) \/ ApplyStatus(w)
      <3>1. \/ UNCHANGED intent
            \/ \E s \in {"failed", "expired"} : intent' = [intent EXCEPT ![j].status = s]
        BY <2>5 DEF FailInitialization, ExpireIntent, ApplyStatus, GiveUp
      <3>2. QED
        BY <1>1, <1>2, <2>1, <2>5, <3>1 DEF FailInitialization, ExpireIntent, ApplyStatus,
           IntentSteps
    <2>6. CASE RestoreBill(w)
      <3>1. \/ UNCHANGED intent
            \/ \E s \in {"failed", "expired"} : intent' = [intent EXCEPT ![j].status = s]
        BY <2>6, Current DEF RestoreBill, Request
      <3>2. QED BY <1>1, <1>2, <2>1, <2>6, <3>1 DEF RestoreBill, IntentSteps
    <2>7. CASE ApplySuccess(w)
      <3>1. Born(j)
        BY <2>1, <2>7 DEF ApplySuccess, IntentSteps
      <3>2. \/ UNCHANGED intent
            \/ \E o : intent' = [intent EXCEPT ![j].status = "succeeded", ![j].outcome = o]
        BY <2>7 DEF ApplySuccess
      <3>3. ASSUME NEW o, intent' = [intent EXCEPT ![j].status = "succeeded", ![j].outcome = o]
            PROVE  Good
        BY <3>1, <3>3 DEF Born, IInv, TypeOK, IntentRow
      <3>4. QED BY <1>1, <3>2, <3>3
    <2>8. CASE ReviveIntent(w)
      <3>1. UNCHANGED intent \/ intent' = [intent EXCEPT ![j].status = "pending"]
        BY <2>8 DEF ReviveIntent
      <3>2. QED BY <1>1, <1>2, <2>1, <2>8, <3>1 DEF ReviveIntent, IntentSteps
    <2>9. QED BY <1>3, <2>2, <2>3, <2>4, <2>5, <2>6, <2>7, <2>8 DEF Proceed
  <1>4. UNCHANGED intent \/ \E w \in Workers : Proceed(w)
    BY DEF Next, vars, Environment, CustomerPays, ProviderDecides, CheckoutExpires, Crash,
       Arrive, StartManualPayment, StartStatusChange, StartPayment, StartRecovery, StartWebhook
  <1>5. QED BY <1>1, <1>3, <1>4

\* A success has paid its bill, when no bill is cancelled: it is skipped only when
\* another payment has done so.
LEMMA SuccessPaysStep ==
  ASSUME "cancel" \notin Commands, IInv, IInv', WaitInv, [Next]_vars
  PROVE  SuccessPays'
  <1>0. SuccessPays /\ \A w \in Workers : op[w].step # "cancel"
    BY DEF WaitInv, StatusReads
  <1>1. \A b \in Bills : Shown(b) => Shown(b)'
    BY <1>0, BillBecomes DEF Shown
  <1>2. \A w \in Workers : op'[w].step \in {"lock", "insert"} => Shown(op[w].bill)'
    <2> SUFFICES ASSUME NEW w \in Workers, op'[w].step \in {"lock", "insert"}
                 PROVE  Shown(op[w].bill)'
      OBVIOUS
    <2>1. \/ op'[w] = op[w]
          \/ op'[w].step = "lock" /\ op'[w].bill \in Bills /\ Startable(op'[w].bill)
          \/ op'[w].step = "insert" /\ op[w].step = "lock" /\ op'[w].bill = op[w].bill
      BY RequestBecomes
    <2> PICK b : b = op'[w].bill
      OBVIOUS
    <2>2. b \in Bills /\ Shown(b)
      BY <1>0, <2>1, Current DEF SuccessPays, Startable, Payable, Shown, BillSteps
    <2>3. QED BY <1>1, <2>2 DEF Shown
  <1>3. \A i \in Intents : Born(i)' => Shown(intent[i].bill)'
    <2> SUFFICES ASSUME NEW i \in Intents, Born(i)'
                 PROVE  Shown(intent[i].bill)'
      OBVIOUS
    <2> PICK b : b = intent'[i].bill
      OBVIOUS
    <2>1. \/ Born(i) /\ b = intent[i].bill
          \/ \E w \in Workers : op[w].step = "insert" /\ b = op[w].bill
      BY IntentBecomes
    <2>2. b \in Bills /\ Shown(b)
      BY <1>0, <2>1, Current DEF SuccessPays, BillSteps, IInv, IntentsOK, IntentOK
    <2>3. QED BY <1>1, <2>2 DEF Shown
  <1>4. \A i \in Intents : intent'[i].status = "succeeded" => bill'[intent'[i].bill].paid = 1
    <2> SUFFICES ASSUME NEW i \in Intents, intent'[i].status = "succeeded"
                 PROVE  bill'[intent'[i].bill].paid = 1
      OBVIOUS
    <2> PICK b : b = intent'[i].bill
      OBVIOUS
    <2>1. /\ b \in Bills /\ intent'[i].outcome \in {"settled", "skipped"}
          /\ intent'[i].outcome = "settled" => bill'[b].paid = 1
      BY DEF IInv, IntentsOK, IntentOK, Born, SettledOnce, TypeOK, IntentRow, Outcome
    <2>2. BooksStep
      BY EveryStepIsABooksStep
    <2>3. bill[b].paid = 1 => bill'[b].paid = 1
      BY <2>1, <2>2 DEF BooksStep, BooksStay, PaidAtCounter, PaidOnline, Skipped,
         SamePayments, Pays
    <2>4. CASE intent'[i].outcome = "skipped"
      <3>1. Born(i) /\ b = intent[i].bill /\ bill[b].paid = 1
        <4>1. CASE intent[i].outcome = "skipped"
          <5>1. intent[i].status = "succeeded"
            BY <4>1 DEF IInv, IntentsOK, IntentOK
          <5>2. Born(i)
            BY <5>1 DEF Born
          <5>3. QED BY <1>0, <5>1, <5>2, IntentBecomes DEF SuccessPays
        <4>2. CASE intent[i].outcome # "skipped"
          <5>1. GetsResult(i, "skipped")
                /\ (bill[intent[i].bill].status \notin Payable \/ bill[intent[i].bill].due = 0)
            BY <2>2, <2>4, <4>2 DEF BooksStep, BooksStay, PaidAtCounter, PaidOnline, Skipped,
               SameResults, GetsResult
          <5>2. Born(i)
            BY IntentBecomes DEF Born
          <5>3. b = intent[i].bill /\ Shown(b) /\ intent[i].amount > 0
                /\ intent[i].amount = Total[b]
            BY <1>0, <5>2, IntentBecomes DEF SuccessPays, IInv, IntentsOK, IntentOK
          <5>4. bill[b].status \notin Payable => bill[b].status \in {"paid", "closed"}
            BY <2>1, <5>3 DEF Shown, Payable, IInv, TypeOK, BillRow, BillStatus
          <5>5. QED
            BY <2>1, <5>1, <5>2, <5>3, <5>4, Unpaid0 DEF IInv, BooksBalance
        <4>3. QED BY <4>1, <4>2
      <3>2. QED BY <2>3, <3>1
    <2>5. QED BY <2>1, <2>4
  <1>5. QED BY <1>2, <1>3, <1>4 DEF SuccessPays

LEMMA InitWaits ==
  ASSUME Init
  PROVE  WaitInv
  BY DEF Init, Idle, WaitInv, Waits, StatusReads, SuccessPays, Born

\* A bill never waits for an online payment that nobody can make, although intents
\* are created under a lock that those who give them up do not take: provided that
\* staff do not present a bill again, and that Fawry is not used where bills are
\* cancelled. A stale presentation writes "payment_pending" back; and Fawry's
\* handler does for an intent whose success was skipped, its bill being cancelled,
\* if a stale presentation has reopened the bill.
THEOREM PendingBillsHaveIntents ==
  ASSUME "represent" \notin Commands,
         "fawry" \notin Providers \cup {None} \/ "cancel" \notin Commands
  PROVE  Spec => []PendingHasIntent
  <1>1. Init => IInv /\ WaitInv
    BY InitIInv, InitWaits
  <1>2. IInv /\ WaitInv /\ [Next]_vars => (IInv /\ WaitInv)'
    <2> SUFFICES ASSUME IInv, WaitInv, [Next]_vars
                 PROVE  (IInv /\ WaitInv)'
      OBVIOUS
    <2>1. IInv'
      BY NextKeepsIInv
    <2>2. Waits' /\ StatusReads'
      BY WaitsStep, StatusReadsStep
    <2>3. "cancel" \notin Commands => SuccessPays'
      BY <2>1, SuccessPaysStep
    <2>4. QED BY <2>1, <2>2, <2>3 DEF WaitInv
  <1>3. WaitInv => PendingHasIntent
    BY DEF WaitInv, Waits, PendingHasIntent
  <1>4. QED BY <1>1, <1>2, <1>3, PTL DEF Spec
=============================================================================
