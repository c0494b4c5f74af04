-------------------------- MODULE BillPaymentsProofs --------------------------
(***************************************************************************)
(* Proofs about BillPayments, for any number of bills, intents, providers  *)
(* and concurrent requests: the inductive invariant IInv, the safety       *)
(* properties it contains, and what a step may do to the books.            *)
(***************************************************************************)
EXTENDS BillPaymentsInductive, TLAPS

-----------------------------------------------------------------------------
\* Requests in themselves.

\* The request creates no intent and holds no row.
OwnsNothing(r) ==
  /\ r.step \notin {"insert", "call"}
  /\ r.step = "restore" => r.write = "none"

\* Nor anything that another request owns, were it the request of w.
Apart(w, r) ==
  \A v \in Workers \ {w}, i \in Intents :
    /\ ~(Creates(op[v], i) /\ Creates(r, i))
    /\ ~(HoldsRow(op[v], i) /\ HoldsRow(r, i))

LEMMA NothingApart ==
  ASSUME NEW w, NEW r, OwnsNothing(r)
  PROVE  Apart(w, r)
  BY DEF OwnsNothing, Apart, Creates, HoldsRow

LEMMA IdleOK == Idle \in Request /\ RequestOK(Idle) /\ OwnsNothing(Idle)
  <1>1. Idle \in Request
    BY InstanceAssumption DEF Idle, NoVersion, Request, Step, Version, PspStatus
  <1>2. RequestOK(Idle) /\ OwnsNothing(Idle)
    BY DEF Idle, RequestOK, OwnsNothing, RefersToRows, BillReadsHold,
           IntentReadsHold, BillSteps, IntentSteps
  <1>3. QED
    BY <1>1, <1>2

\* Where a request goes when its recovery of an intent is over.
LEMMA AfterOK ==
  ASSUME NEW r \in Request, RefersToRows(r)
  PROVE  /\ After(r) \in Request
         /\ \/ After(r) = Idle
            \/ /\ After(r).step = "readBill" /\ After(r).source = "none"
               /\ After(r).version = NoVersion
               /\ After(r).bill \in Bills
  <1>1. CASE r.source # "retry"
    BY <1>1, IdleOK DEF After
  <1>2. CASE r.source = "retry"
    <2> DEFINE next == [Idle EXCEPT !.step = "readBill", !.bill = r.bill,
                                    !.provider = r.provider]
    <2>1. After(r) = next
      BY <1>2 DEF After
    <2>2. r.bill \in Bills /\ r.provider \in Providers \cup {None}
      BY <1>2 DEF RefersToRows, Request
    <2>3. next \in Request
      BY <2>2, IdleOK DEF Request, Step
    <2>4. /\ next.step = "readBill" /\ next.source = "none" /\ next.bill = r.bill
          /\ next.version = NoVersion
      BY DEF Idle
    <2>5. QED
      BY <2>1, <2>2, <2>3, <2>4
  <1>3. QED
    BY <1>1, <1>2

-----------------------------------------------------------------------------
\* Steps that change no table.

LEMMA InitIInv == Init => IInv
  <1> SUFFICES ASSUME Init PROVE IInv
    OBVIOUS
  <1>1. TypeOK
    BY IdleOK, InstanceAssumption
    DEF Init, TypeOK, BillRow, BillStatus, IntentRow, IntentStatus, Outcome,
        PspRow, PspStatus
  <1>2. RequestsOK /\ NoTwoOwners
    BY IdleOK DEF Init, RequestsOK, NoTwoOwners, OwnsNothing, Creates, HoldsRow
  <1>3. IntentsOK
    BY DEF Init, IntentsOK, IntentOK, Born
  <1>4. BooksBalance /\ SettledOnce /\ OneActiveIntent /\ SuccessIsReal
    BY InstanceAssumption
    DEF Init, BooksBalance, SettledOnce, OneActiveIntent, SuccessIsReal, Active
  <1>5. QED
    BY <1>1, <1>2, <1>3, <1>4 DEF IInv

\* The tables of bills, intents and provider orders stay as they are, and one
\* request becomes r.
LEMMA RequestMoves ==
  ASSUME IInv, NEW w \in Workers, NEW r \in Request,
         op' = [op EXCEPT ![w] = r], RequestOK(r), Apart(w, r),
         UNCHANGED <<bill, intent, overdue, psp>>,
         seen' \subseteq (Intents \X Version \X {"webhook", "inquiry"}),
         crashes' \in 0 .. MaxCrashes
  PROVE  IInv'
  <1>1. TypeOK'
    BY DEF IInv, TypeOK
  <1>2. \A v \in Workers : op'[v] = IF v = w THEN r ELSE op[v]
    BY DEF IInv, TypeOK
  <1>3. RequestsOK'
    <2> SUFFICES ASSUME NEW v \in Workers PROVE RequestOK(op[v])'
      BY DEF RequestsOK
    <2>1. RequestOK(op'[v])
      BY <1>2 DEF IInv, RequestsOK
    <2>2. QED
      BY <2>1 DEF RequestOK, RefersToRows, BillReadsHold, IntentReadsHold, Born, Active
  <1>4. NoTwoOwners'
    BY <1>2 DEF IInv, NoTwoOwners, Apart, Creates, HoldsRow
  <1>5. IntentsOK'
    BY DEF IInv, IntentsOK, IntentOK, Born
  <1>6. (BooksBalance /\ SettledOnce /\ OneActiveIntent /\ SuccessIsReal)'
    BY DEF IInv, BooksBalance, SettledOnce, OneActiveIntent, SuccessIsReal, Active
  <1>7. QED
    BY <1>1, <1>3, <1>4, <1>5, <1>6 DEF IInv

\* The common case: the new request owns nothing.
LEMMA RequestMovesFree ==
  ASSUME IInv, NEW w \in Workers, NEW r \in Request,
         op' = [op EXCEPT ![w] = r], RequestOK(r), OwnsNothing(r),
         UNCHANGED <<bill, intent, overdue, psp>>,
         seen' \subseteq (Intents \X Version \X {"webhook", "inquiry"}),
         crashes' \in 0 .. MaxCrashes
  PROVE  IInv'
  BY NothingApart, RequestMoves

\* An event that a request records refers to its intent.
LEMMA RecordedTyped ==
  ASSUME IInv, NEW w \in Workers, op[w].step \in IntentSteps
  PROVE  Recorded(op[w]) \subseteq (Intents \X Version \X {"webhook", "inquiry"})
  <1>1. op[w] \in Request /\ op[w].intent \in Intents
    BY DEF IInv, TypeOK, RequestsOK, RequestOK, RefersToRows
  <1>2. op[w].version \in Version
    BY <1>1 DEF Request
  <1>3. QED
    BY <1>1, <1>2 DEF IInv, TypeOK, Recorded, EventOf, Channel

\* The new request of Finish and Abort.
LEMMA AfterFree ==
  ASSUME IInv, NEW w \in Workers
  PROVE  After(op[w]) \in Request /\ RequestOK(After(op[w])) /\ OwnsNothing(After(op[w]))
  <1>1. op[w] \in Request /\ RefersToRows(op[w])
    BY DEF IInv, TypeOK, RequestsOK, RequestOK
  <1>2. CASE After(op[w]) = Idle
    BY <1>2, IdleOK
  <1>3. CASE After(op[w]) # Idle
    BY <1>1, <1>3, AfterOK DEF RequestOK, OwnsNothing, RefersToRows,
       BillReadsHold, IntentReadsHold, BillSteps, IntentSteps
  <1>4. QED
    BY <1>2, <1>3

LEMMA StartManualPaymentKeeps ==
  ASSUME IInv, NEW w \in Workers, NEW b \in Bills, StartManualPayment(w, b)
  PROVE  IInv'
  <1> DEFINE r == [Idle EXCEPT !.step = "manual", !.bill = b, !.due = bill[b].due]
  <1>1. op' = [op EXCEPT ![w] = r] /\ bill[b].due > 0
        /\ UNCHANGED <<bill, intent, overdue, seen, psp, crashes>>
    BY DEF StartManualPayment
  <1>2. r \in Request
    BY IdleOK DEF IInv, TypeOK, BillRow, Request, Step
  <1>3. RequestOK(r) /\ OwnsNothing(r)
    BY <1>1 DEF Idle, RequestOK, OwnsNothing, RefersToRows, BillReadsHold,
                IntentReadsHold, BillSteps, IntentSteps
  <1> HIDE DEF r
  <1>4. QED
    BY <1>1, <1>2, <1>3, RequestMovesFree DEF IInv, TypeOK

LEMMA StartStatusChangeKeeps ==
  ASSUME IInv, NEW w \in Workers, NEW b \in Bills, StartStatusChange(w, b)
  PROVE  IInv'
  <1>1. PICK s \in {"cancel", "present", "close"} :
          /\ Permits(b, s)
          /\ op' = [op EXCEPT ![w] =
               [Idle EXCEPT !.step = s, !.bill = b,
                  !.pending = s = "present" /\ bill[b].status = "payment_pending"]]
    BY DEF StartStatusChange
  <1> DEFINE r == [Idle EXCEPT !.step = s, !.bill = b,
                     !.pending = s = "present" /\ bill[b].status = "payment_pending"]
  <1>2. r \in Request
    BY IdleOK DEF Request, Step
  <1>3. s = "close" => bill[b].paid = 1
    BY <1>1 DEF Permits, IInv, BooksBalance
  <1>4. RequestOK(r) /\ OwnsNothing(r)
    BY <1>3 DEF Idle, RequestOK, OwnsNothing, RefersToRows, BillReadsHold,
                IntentReadsHold, BillSteps, IntentSteps
  <1>5. op' = [op EXCEPT ![w] = r]
    BY <1>1
  <1>6. UNCHANGED <<bill, intent, overdue, seen, psp, crashes>>
    BY DEF StartStatusChange
  <1> HIDE DEF r
  <1>7. QED
    BY <1>2, <1>4, <1>5, <1>6, RequestMovesFree DEF IInv, TypeOK

\* A request that goes on to take the bill's lock has read a bill to be paid.
LEMMA ToLockOK ==
  ASSUME IInv, NEW b \in Bills, NEW p \in Providers \cup {None}, Startable(b)
  PROVE  /\ ToLock(b, p) \in Request
         /\ RequestOK(ToLock(b, p)) /\ OwnsNothing(ToLock(b, p))
  <1> DEFINE r == ToLock(b, p)
  <1>1. /\ bill[b].due \in Nat /\ bill[b].due > 0
        /\ bill[b].due = Total[b]
    BY DEF Startable, IInv, TypeOK, BillRow, BooksBalance
  <1>2. r \in Request
    BY <1>1, IdleOK DEF ToLock, Request, Step
  <1>3. /\ r.step = "lock" /\ r.bill = b /\ r.source = "none"
        /\ r.due = bill[b].due /\ r.version = NoVersion
    BY DEF ToLock, Idle
  <1> HIDE DEF r
  <1>4. RequestOK(r) /\ OwnsNothing(r)
    BY <1>1, <1>3 DEF RequestOK, OwnsNothing, RefersToRows, BillReadsHold,
       IntentReadsHold, BillSteps, IntentSteps, NoVersion
  <1>5. QED
    BY <1>2, <1>4 DEF r

\* A request about to inquire of an intent that exists.
LEMMA InquireOK ==
  ASSUME NEW r \in Request, r.step = "inquire", r.version = NoVersion,
         r.intent \in Intents, Born(r.intent),
         r.source = "retry" => r.bill \in Bills
  PROVE  RequestOK(r) /\ OwnsNothing(r)
  BY DEF RequestOK, OwnsNothing, RefersToRows, BillReadsHold, IntentReadsHold,
         BillSteps, IntentSteps, NoVersion

LEMMA StartPaymentKeeps ==
  ASSUME IInv, NEW w \in Workers, NEW b \in Bills, NEW p \in Providers,
         StartPayment(w, b, p)
  PROVE  IInv'
  <1>1. UNCHANGED <<bill, intent, overdue, seen, psp, crashes>>
    BY DEF StartPayment
  <1>2. ASSUME NEW i \in Latest(b, p), NeedsPreflight(i),
               op' = [op EXCEPT ![w] =
                 [Idle EXCEPT !.step = "inquire", !.bill = b, !.provider = p,
                              !.intent = i, !.pending = Active(i),
                              !.source = "retry"]]
        PROVE  IInv'
    <2> DEFINE r == [Idle EXCEPT !.step = "inquire", !.bill = b, !.provider = p,
                                 !.intent = i, !.pending = Active(i),
                                 !.source = "retry"]
    <2>1. op' = [op EXCEPT ![w] = r]
      BY <1>2
    <2>2. i \in Intents /\ Born(i)
      BY <1>2 DEF Latest, NeedsPreflight, Active, Born
    <2>3. /\ r \in Request /\ r.step = "inquire" /\ r.version = NoVersion
          /\ r.intent = i /\ r.bill = b
      BY <2>2, IdleOK DEF Request, Step, Idle, Active
    <2> HIDE DEF r
    <2>4. RequestOK(r) /\ OwnsNothing(r)
      BY <2>2, <2>3, InquireOK
    <2>5. QED
      BY <1>1, <2>1, <2>3, <2>4, RequestMovesFree DEF IInv, TypeOK
  <1>3. ASSUME Startable(b), op' = [op EXCEPT ![w] = ToLock(b, p)]
        PROVE  IInv'
    BY <1>1, <1>3, ToLockOK, RequestMovesFree DEF IInv, TypeOK
  <1>4. QED
    BY <1>2, <1>3 DEF StartPayment

LEMMA ReadBillKeeps ==
  ASSUME IInv, NEW w \in Workers, ReadBill(w)
  PROVE  IInv'
  <1> DEFINE r == op[w]
  <1>1. /\ UNCHANGED <<bill, intent, overdue, seen, psp, crashes>>
        /\ op' = [op EXCEPT ![w] = IF Startable(r.bill)
                       THEN ToLock(r.bill, r.provider) ELSE Idle]
        /\ r.step = "readBill"
    BY DEF ReadBill, IInv, TypeOK
  <1>2. /\ r \in Request /\ r.bill \in Bills
        /\ r.provider \in Providers \cup {None}
    BY <1>1 DEF IInv, TypeOK, Request, RequestsOK, RequestOK, RefersToRows, BillSteps
  <1>3. CASE Startable(r.bill)
    BY <1>1, <1>2, <1>3, ToLockOK, RequestMovesFree DEF IInv, TypeOK
  <1>4. CASE ~Startable(r.bill)
    BY <1>1, <1>4, IdleOK, RequestMovesFree DEF IInv, TypeOK
  <1>5. QED
    BY <1>3, <1>4

\* What every step of a request may rely on.
LEMMA Current ==
  ASSUME IInv, NEW w \in Workers
  PROVE  /\ op[w] \in Request /\ RequestOK(op[w])
         /\ op[w].step \in IntentSteps => op[w].intent \in Intents
         /\ op[w].step \in IntentSteps \ {"insert"} => Born(op[w].intent)
         /\ op[w].step \in BillSteps => op[w].bill \in Bills
  BY DEF IInv, TypeOK, RequestsOK, RequestOK, RefersToRows

\* The request goes on to step s, which is about the same intent and claims no
\* more than the step before.
LEMMA GotoKeeps ==
  ASSUME IInv, NEW w \in Workers, NEW s \in IntentSteps, Goto(w, s),
         op[w].step \in IntentSteps \ {"insert"},
         s \notin {"insert", "call", "ready", "initfail", "restore"},
         s = "succeed" => op[w].version.status = "succeeded" /\ psp[op[w].intent].ok,
         UNCHANGED <<bill, intent, overdue, seen, psp, crashes>>
  PROVE  IInv'
  <1> DEFINE r == [op[w] EXCEPT !.step = s]
  <1>1. op' = [op EXCEPT ![w] = r]
    BY Current DEF Goto, IInv, TypeOK
  <1>2. r \in Request /\ r.step = s
    BY Current DEF Request, Step, IntentSteps
  <1>3. /\ r.bill = op[w].bill /\ r.intent = op[w].intent /\ r.write = op[w].write
        /\ r.source = op[w].source /\ r.version = op[w].version
    BY Current DEF Request
  <1> HIDE DEF r
  <1>4. RequestOK(r) /\ OwnsNothing(r)
    BY <1>2, <1>3, Current DEF RequestOK, OwnsNothing, RefersToRows,
       BillReadsHold, IntentReadsHold, BillSteps, IntentSteps
  <1>5. QED
    BY <1>1, <1>2, <1>4, RequestMovesFree DEF IInv, TypeOK

\* The request ends, or a retry goes on; or it is given up.
LEMMA FinishKeeps ==
  ASSUME IInv, NEW w \in Workers, Finish(w) \/ Abort(w),
         UNCHANGED <<bill, intent, overdue, psp>>,
         seen' = seen \/ (seen' = Recorded(op[w]) /\ op[w].step \in IntentSteps),
         crashes' \in 0 .. MaxCrashes
  PROVE  IInv'
  <1>1. seen' \subseteq (Intents \X Version \X {"webhook", "inquiry"})
    BY RecordedTyped DEF IInv, TypeOK
  <1>2. CASE Finish(w)
    BY <1>1, <1>2, AfterFree, RequestMovesFree DEF Finish
  <1>3. CASE Abort(w)
    BY <1>1, <1>3, IdleOK, RequestMovesFree DEF Abort
  <1>4. QED
    BY <1>2, <1>3

LEMMA LockBillKeeps ==
  ASSUME IInv, NEW w \in Workers, LockBill(w)
  PROVE  IInv'
  <1>1. op[w].step = "lock" /\ UNCHANGED <<bill, intent, overdue, seen, psp, crashes>>
    BY DEF LockBill
  <1>2. CASE Abort(w)
    BY <1>1, <1>2, FinishKeeps DEF IInv, TypeOK
  <1>3. ASSUME NEW i \in Unused,
               op' = [op EXCEPT ![w].step = "insert", ![w].intent = i]
        PROVE  IInv'
    <2> DEFINE r == [op[w] EXCEPT !.step = "insert", !.intent = i]
    <2>1. op' = [op EXCEPT ![w] = r]
      BY <1>3, Current DEF IInv, TypeOK
    <2>2. i \in Intents /\ ~Born(i) /\ i \notin Reserved
      BY <1>3 DEF Unused, Born
    <2>3. r \in Request /\ r.step = "insert" /\ r.intent = i
      BY <2>2, Current DEF Request, Step
    <2>4. r.bill = op[w].bill /\ r.due = op[w].due /\ r.source = op[w].source
          /\ r.version = op[w].version
      BY Current DEF Request
    <2> HIDE DEF r
    <2>5. RequestOK(r)
      BY <1>1, <2>2, <2>3, <2>4, Current DEF RequestOK, RefersToRows,
         BillReadsHold, IntentReadsHold, BillSteps, IntentSteps, NoVersion
    <2>6. Apart(w, r)
      <3> SUFFICES ASSUME NEW v \in Workers \ {w}
                   PROVE ~Creates(op[v], i)
        BY <2>3 DEF Apart, Creates, HoldsRow
      <3>1. op[v].step = "insert" => op[v].intent # i
        BY <2>2 DEF Reserved
      <3>2. op[v].step = "call" => Born(op[v].intent)
        BY Current DEF IntentSteps
      <3>3. QED
        BY <2>2, <3>1, <3>2 DEF Creates
    <2>7. QED
      BY <1>1, <2>1, <2>3, <2>5, <2>6, RequestMoves DEF IInv, TypeOK
  <1>4. QED
    BY <1>2, <1>3 DEF LockBill

LEMMA StartWebhookKeeps ==
  ASSUME IInv, NEW w \in Workers, NEW i \in Intents, NEW v \in Version,
         StartWebhook(w, i, v)
  PROVE  IInv'
  <1> DEFINE r == [Idle EXCEPT !.step = "apply", !.intent = i,
                               !.version = v, !.source = "webhook"]
  <1>1. /\ op' = [op EXCEPT ![w] = r] /\ v \in Emitted(i)
        /\ UNCHANGED <<bill, intent, overdue, seen, psp, crashes>>
    BY DEF StartWebhook
  <1>2. r \in Request
    BY IdleOK DEF Request, Step
  <1>3. /\ r.step = "apply" /\ r.intent = i /\ r.version = v /\ r.source = "webhook"
    BY DEF Idle
  <1> HIDE DEF r
  <1>4. /\ psp[i].n \in 0 .. MaxAttempts /\ v.n \in 1 .. psp[i].n
        /\ v.status = IF v.n < psp[i].n THEN "failed" ELSE psp[i].status
    BY <1>1 DEF Emitted, IInv, TypeOK, PspRow
  <1>5. Born(i)
    BY <1>4, InstanceAssumption DEF IInv, IntentsOK, IntentOK
  <1>6. v.status = "succeeded" => psp[i].status = "succeeded"
    BY <1>4
  <1>7. RequestOK(r) /\ OwnsNothing(r)
    BY <1>3, <1>5, <1>6 DEF RequestOK, OwnsNothing, RefersToRows,
       BillReadsHold, IntentReadsHold, BillSteps, IntentSteps
  <1>8. QED
    BY <1>1, <1>2, <1>7, RequestMovesFree DEF IInv, TypeOK

LEMMA StartRecoveryKeeps ==
  ASSUME IInv, NEW w \in Workers, NEW i \in Intents, StartRecovery(w, i)
  PROVE  IInv'
  <1> DEFINE r == [Idle EXCEPT !.step = "inquire", !.intent = i,
                               !.pending = Active(i), !.source = "staff"]
  <1>1. /\ op' = [op EXCEPT ![w] = r] /\ Born(i)
        /\ UNCHANGED <<bill, intent, overdue, seen, psp, crashes>>
    BY DEF StartRecovery, HasOrderId, Born
  <1>2. r \in Request /\ r.step = "inquire" /\ r.version = NoVersion
        /\ r.intent = i /\ r.source = "staff"
    BY IdleOK DEF Request, Step, Idle, Active
  <1> HIDE DEF r
  <1>3. RequestOK(r) /\ OwnsNothing(r)
    BY <1>1, <1>2, InquireOK
  <1>4. QED
    BY <1>1, <1>2, <1>3, RequestMovesFree DEF IInv, TypeOK

LEMMA InquiryFindsKeeps ==
  ASSUME IInv, NEW w \in Workers, InquiryFinds(w)
  PROVE  IInv'
  <1> DEFINE i == op[w].intent
             v == [n |-> psp[i].n, status |-> psp[i].status]
             r == [op[w] EXCEPT !.step = "apply", !.version = v]
  <1>1. /\ op[w].step = "inquire"
        /\ UNCHANGED <<bill, intent, overdue, seen, psp, crashes>>
    BY DEF InquiryFinds
  <1>2. op' = [op EXCEPT ![w] = r]
    BY Current DEF InquiryFinds, IInv, TypeOK
  <1>3. i \in Intents /\ Born(i)
    BY <1>1, Current DEF IntentSteps
  <1>4. v \in Version /\ v.status = psp[i].status
    BY <1>3 DEF IInv, TypeOK, PspRow, Version
  <1> HIDE DEF v
  <1>5. /\ r \in Request /\ r.step = "apply" /\ r.version = v /\ r.intent = i
        /\ r.bill = op[w].bill /\ r.source = op[w].source
    BY <1>4, Current DEF Request, Step
  <1> HIDE DEF r
  <1>6. RequestOK(r) /\ OwnsNothing(r)
    BY <1>1, <1>3, <1>4, <1>5, Current DEF RequestOK, OwnsNothing, RefersToRows,
       BillReadsHold, IntentReadsHold, BillSteps, IntentSteps
  <1>7. QED
    BY <1>1, <1>2, <1>5, <1>6, RequestMovesFree DEF IInv, TypeOK

LEMMA OtherInquiriesKeep ==
  ASSUME IInv, NEW w \in Workers, InquiryFindsNothing(w) \/ InquiryUnavailable(w)
  PROVE  IInv'
  <1>1. op[w].step = "inquire" /\ UNCHANGED <<bill, intent, overdue, seen, psp, crashes>>
    BY DEF InquiryFindsNothing, InquiryUnavailable
  <1>2. CASE Goto(w, "expire")
    BY <1>1, <1>2, GotoKeeps DEF IntentSteps
  <1>3. CASE Finish(w) \/ Abort(w)
    BY <1>1, <1>3, FinishKeeps DEF IInv, TypeOK
  <1>4. QED
    BY <1>2, <1>3 DEF InquiryFindsNothing, InquiryUnavailable

LEMMA ReadIntentKeeps ==
  ASSUME IInv, NEW w \in Workers, ReadIntent(w)
  PROVE  IInv'
  <1> DEFINE next == Reaction(op[w])
  <1>1. op[w].step = "apply" /\ UNCHANGED <<bill, intent, overdue, psp, crashes>>
    BY DEF ReadIntent
  <1>2. CASE Finish(w) /\ seen' \in {seen, Recorded(op[w])}
    BY <1>1, <1>2, FinishKeeps DEF IntentSteps, IInv, TypeOK
  <1>3. CASE Goto(w, next) /\ UNCHANGED seen /\ next # "none"
    <2>1. next \in {"none", "succeed", "update", "revive"}
      BY DEF Reaction
    <2>2. next = "succeed" => op[w].version.status = "succeeded" /\ psp[op[w].intent].ok
      BY Current, <1>1 DEF Reaction, IInv, TypeOK, PspRow, IntentSteps
    <2> HIDE DEF next
    <2>3. QED
      BY <1>1, <1>3, <2>1, <2>2, GotoKeeps DEF IntentSteps
  <1>4. QED
    BY <1>2, <1>3 DEF ReadIntent

LEMMA CrashKeeps ==
  ASSUME IInv, NEW w \in Workers, Crash(w)
  PROVE  IInv'
  <1>1. crashes' \in 0 .. MaxCrashes
    BY InstanceAssumption DEF Crash, IInv, TypeOK
  <1>2. QED
    BY <1>1, FinishKeeps DEF Crash

-----------------------------------------------------------------------------
\* Steps that change the tables: what the requests of the other workers rely on.

\* No payment is forgotten, no intent disappears, and the provider neither
\* takes a success back nor changes what it was for.
Advance ==
  /\ \A b \in Bills : bill[b].paid = 1 => bill'[b].paid = 1
  /\ \A i \in Intents : Born(i) => Born(i)'
  /\ \A i \in Intents : psp[i].status = "succeeded" =>
       psp'[i].status = "succeeded" /\ psp'[i].ok = psp[i].ok

\* What a request owns is left alone.
Spares(r) ==
  \A i \in Intents : /\ Creates(r, i) => Born(i)' = Born(i) /\ psp'[i] = psp[i]
                     /\ HoldsRow(r, i) => Active(i)'

LEMMA RequestStays ==
  ASSUME IInv, NEW v \in Workers, op'[v] = op[v], Advance, Spares(op[v])
  PROVE  RequestOK(op[v])'
  <1> DEFINE r == op[v]
  <1>1. r \in Request /\ RequestOK(r) /\ op'[v] = r
    BY Current
  <1>2. RefersToRows(r) /\ BillReadsHold(r) /\ IntentReadsHold(r)
    BY <1>1 DEF RequestOK
  <1>3. RefersToRows(op[v])'
    BY <1>1, <1>2 DEF RefersToRows, Advance, Born, IntentSteps, BillSteps
  <1>4. BillReadsHold(op[v])'
    BY <1>1, <1>2 DEF RefersToRows, BillReadsHold, Advance, BillSteps
  <1>5. IntentReadsHold(op[v])'
    BY <1>1, <1>2 DEF RefersToRows, IntentReadsHold, Advance, Spares, Creates,
       HoldsRow, IntentSteps, Born, Active
  <1>6. QED
    BY <1>3, <1>4, <1>5 DEF RequestOK

\* One request becomes r, and the tables advance.
LEMMA OthersKeep ==
  ASSUME IInv, NEW w \in Workers, NEW r \in Request,
         op' = [op EXCEPT ![w] = r], Apart(w, r), RequestOK(op[w])', Advance,
         \A v \in Workers \ {w} : Spares(op[v])
  PROVE  /\ op' \in [Workers -> Request] /\ RequestsOK' /\ NoTwoOwners'
  <1>1. op' \in [Workers -> Request]
    BY DEF IInv, TypeOK
  <1>2. \A v \in Workers : op'[v] = IF v = w THEN r ELSE op[v]
    BY DEF IInv, TypeOK
  <1>3. RequestsOK'
    BY <1>2, RequestStays DEF RequestsOK
  <1>4. NoTwoOwners'
    BY <1>2 DEF IInv, NoTwoOwners, Creates, HoldsRow, Apart
  <1>5. QED
    BY <1>1, <1>3, <1>4

\* A request is idle, or about to read a bill, whatever the tables hold.
LEMMA FreeOK ==
  ASSUME IInv, NEW w \in Workers, Finish(w) \/ Abort(w)
  PROVE  \E r \in Request : /\ op' = [op EXCEPT ![w] = r] /\ OwnsNothing(r)
                            /\ RequestOK(op[w])'
  <1>1. op[w] \in Request /\ RefersToRows(op[w])
    BY Current DEF RequestOK
  <1>2. PICK r \in Request :
          /\ op' = [op EXCEPT ![w] = r]
          /\ \/ r = Idle
             \/ /\ r.step = "readBill" /\ r.source = "none"
                /\ r.version = NoVersion /\ r.bill \in Bills
    BY <1>1, AfterOK, IdleOK DEF Finish, Abort
  <1>3. op'[w] = r /\ r.step \in {"idle", "readBill"} /\ r.source = "none"
        /\ (r.step = "readBill" => r.version = NoVersion /\ r.bill \in Bills)
    BY <1>2 DEF Idle, IInv, TypeOK
  <1>4. RequestOK(op[w])'
    BY <1>3 DEF RequestOK, RefersToRows, BillReadsHold, IntentReadsHold,
       BillSteps, IntentSteps
  <1>5. OwnsNothing(r)
    BY <1>3 DEF OwnsNothing
  <1>6. QED
    BY <1>2, <1>4, <1>5

-----------------------------------------------------------------------------
\* Steps that write a bill.

\* Payment: the balance was due, so nobody had paid.
LEMMA SettledBooks ==
  ASSUME IInv, NEW b \in Bills, NEW amount, amount > 0, CanSettle(b, amount),
         bill' = Settled(b)
  PROVE  /\ bill' \in [Bills -> BillRow] /\ BooksBalance'
         /\ bill[b].paid = 0 /\ bill'[b].paid = 1 /\ amount = Total[b]
         /\ \A c \in Bills \ {b} : bill'[c] = bill[c]
  <1>1. bill[b] \in BillRow /\ bill[b].due = amount /\ amount # 0
    BY DEF IInv, TypeOK, CanSettle
  <1>2. bill[b].paid = 0 /\ amount = Total[b]
    BY <1>1 DEF IInv, BooksBalance
  <1>3. bill'[b] = [status |-> "paid", due |-> 0, paid |-> bill[b].paid + 1]
        /\ \A c \in Bills \ {b} : bill'[c] = bill[c]
    BY DEF Settled, IInv, TypeOK
  <1>4. bill' \in [Bills -> BillRow]
    BY <1>1, <1>2 DEF Settled, IInv, TypeOK, BillRow, BillStatus
  <1>5. BooksBalance'
    <2> SUFFICES ASSUME NEW c \in Bills
                 PROVE  /\ bill'[c].due = IF bill'[c].paid = 0 THEN Total[c] ELSE 0
                        /\ bill'[c].status \in {"paid", "closed"} => bill'[c].paid = 1
      BY DEF BooksBalance
    <2>1. CASE c = b
      BY <1>2, <1>3, <2>1
    <2>2. CASE c # b
      BY <1>3, <2>2 DEF IInv, BooksBalance
    <2>3. QED
      BY <2>1, <2>2
  <1>6. QED
    BY <1>2, <1>3, <1>4, <1>5

\* Any other write: the status alone, closed only after a payment.
LEMMA StatusBooks ==
  ASSUME IInv, NEW b \in Bills, NEW s \in BillStatus \ {"paid"},
         s = "closed" => bill[b].paid = 1,
         bill' = [bill EXCEPT ![b].status = s]
  PROVE  /\ bill' \in [Bills -> BillRow] /\ BooksBalance'
         /\ \A c \in Bills : bill'[c].paid = bill[c].paid /\ bill'[c].due = bill[c].due
  <1>1. bill' \in [Bills -> BillRow]
    BY DEF IInv, TypeOK, BillRow
  <1>2. \A c \in Bills : /\ bill'[c].paid = bill[c].paid /\ bill'[c].due = bill[c].due
                         /\ bill'[c].status = IF c = b THEN s ELSE bill[c].status
    BY DEF IInv, TypeOK, BillRow
  <1>3. BooksBalance'
    BY <1>2 DEF IInv, BooksBalance
  <1>4. QED
    BY <1>1, <1>2, <1>3

\* What online payments do to an unpaid bill's status.
LEMMA PendingBooks ==
  ASSUME IInv, NEW b \in Bills, NEW s \in {"presented", "payment_pending"},
         UNCHANGED bill \/ bill' = [bill EXCEPT ![b].status = s]
  PROVE  /\ bill' \in [Bills -> BillRow] /\ BooksBalance'
         /\ \A c \in Bills : bill'[c].paid = bill[c].paid
  <1>1. CASE UNCHANGED bill
    BY <1>1 DEF IInv, TypeOK, BooksBalance
  <1>2. CASE bill' = [bill EXCEPT ![b].status = s]
    <2>1. s \in BillStatus \ {"paid"} /\ s # "closed"
      BY DEF BillStatus
    <2>2. QED
      BY <1>2, <2>1, StatusBooks
  <1>3. QED
    BY <1>1, <1>2

\* The invariants of the intents when only bills change, and only forward.
LEMMA BillsOnly ==
  ASSUME IInv, UNCHANGED <<intent, overdue, psp, crashes>>,
         seen' \subseteq (Intents \X Version \X {"webhook", "inquiry"}),
         bill' \in [Bills -> BillRow], BooksBalance',
         \A b \in Bills : bill[b].paid = 1 => bill'[b].paid = 1,
         \A b \in Bills : bill'[b].paid <= 1,
         op' \in [Workers -> Request], RequestsOK', NoTwoOwners'
  PROVE  IInv'
  <1>1. TypeOK'
    BY DEF IInv, TypeOK
  <1>2. (IntentsOK /\ OneActiveIntent /\ SuccessIsReal)'
    BY DEF IInv, IntentsOK, IntentOK, Born, OneActiveIntent, SuccessIsReal, Active
  <1>3. SettledOnce'
    <2> SUFFICES ASSUME NEW i \in Intents, intent[i].outcome = "settled"
                 PROVE  bill'[intent[i].bill].paid = 1
      BY DEF IInv, SettledOnce
    <2>1. Born(i)
      BY DEF IInv, IntentsOK, IntentOK, Born
    <2>2. intent[i].bill \in Bills
      BY <2>1 DEF IInv, IntentsOK, IntentOK
    <2>3. QED
      BY <2>2 DEF IInv, SettledOnce
  <1>4. QED
    BY <1>1, <1>2, <1>3 DEF IInv

LEMMA SparesUnchanged ==
  ASSUME IInv, NEW v \in Workers, UNCHANGED <<intent, psp>>
  PROVE  Spares(op[v])
  BY Current DEF Spares, RequestOK, IntentReadsHold, HoldsRow, Born, Active

\* A worker ends its request and writes only bills.
LEMMA BillWriterKeeps ==
  ASSUME IInv, NEW w \in Workers, Finish(w) \/ Abort(w),
         UNCHANGED <<intent, overdue, psp, crashes>>,
         seen' = seen \/ (seen' = Recorded(op[w]) /\ op[w].step \in IntentSteps),
         bill' \in [Bills -> BillRow], BooksBalance',
         \A b \in Bills : bill[b].paid = 1 => bill'[b].paid = 1,
         \A b \in Bills : bill'[b].paid <= 1
  PROVE  IInv'
  <1>1. PICK r \in Request : /\ op' = [op EXCEPT ![w] = r] /\ OwnsNothing(r)
                             /\ RequestOK(op[w])'
    BY FreeOK
  <1>2. Advance
    BY DEF Advance, Born
  <1>3. op' \in [Workers -> Request] /\ RequestsOK' /\ NoTwoOwners'
    BY <1>1, <1>2, NothingApart, SparesUnchanged, OthersKeep
  <1>4. seen' \subseteq (Intents \X Version \X {"webhook", "inquiry"})
    BY RecordedTyped DEF IInv, TypeOK
  <1>5. QED
    BY <1>3, <1>4, BillsOnly

LEMMA CommitManualPaymentKeeps ==
  ASSUME IInv, NEW w \in Workers, CommitManualPayment(w)
  PROVE  IInv'
  <1> DEFINE b == op[w].bill  due == op[w].due
  <1>1. /\ op[w].step = "manual" /\ Abort(w)
        /\ UNCHANGED <<intent, overdue, seen, psp, crashes>>
        /\ bill' = IF CanSettle(b, due) THEN Settled(b) ELSE bill
    BY DEF CommitManualPayment
  <1>2. b \in Bills /\ due > 0
    BY <1>1, Current DEF RequestOK, BillReadsHold, BillSteps
  <1>3. CASE CanSettle(b, due)
    <2>1. bill' = Settled(b)
      BY <1>1, <1>3
    <2>2. /\ bill' \in [Bills -> BillRow] /\ BooksBalance' /\ bill'[b].paid = 1
          /\ \A c \in Bills \ {b} : bill'[c] = bill[c]
      BY <1>2, <1>3, <2>1, SettledBooks
    <2>3. /\ \A c \in Bills : bill[c].paid = 1 => bill'[c].paid = 1
          /\ \A c \in Bills : bill'[c].paid <= 1
      BY <2>2 DEF IInv, SettledOnce
    <2>4. QED
      BY <1>1, <2>2, <2>3, BillWriterKeeps
  <1>4. CASE ~CanSettle(b, due)
    BY <1>1, <1>4, FinishKeeps DEF IInv, TypeOK
  <1>5. QED
    BY <1>3, <1>4

LEMMA CommitStatusChangeKeeps ==
  ASSUME IInv, NEW w \in Workers, CommitStatusChange(w)
  PROVE  IInv'
  <1> DEFINE b == op[w].bill  s == NewBillStatus(op[w])
  <1>1. /\ op[w].step \in {"cancel", "present", "close"} /\ Abort(w)
        /\ UNCHANGED <<intent, overdue, seen, psp, crashes>>
        /\ bill' = [bill EXCEPT ![b].status = s]
    BY DEF CommitStatusChange
  <1>2. b \in Bills /\ (op[w].step = "close" => bill[b].paid = 1)
    BY <1>1, Current DEF RequestOK, BillReadsHold, BillSteps
  <1>3. s \in BillStatus \ {"paid"} /\ (s = "closed" => bill[b].paid = 1)
    BY <1>1, <1>2 DEF NewBillStatus, BillStatus
  <1> HIDE DEF b, s
  <1>4. /\ bill' \in [Bills -> BillRow] /\ BooksBalance'
        /\ \A c \in Bills : bill'[c].paid = bill[c].paid
    BY <1>1, <1>2, <1>3, StatusBooks
  <1>5. \A c \in Bills : bill'[c].paid <= 1
    BY <1>4 DEF IInv, SettledOnce
  <1>6. QED
    BY <1>1, <1>4, <1>5, BillWriterKeeps

-----------------------------------------------------------------------------
\* The provider and time.

LEMMA ProviderKeeps ==
  ASSUME IInv, NEW i \in Intents, CustomerPays(i) \/ ProviderDecides(i)
  PROVE  IInv'
  <1>1. /\ UNCHANGED <<bill, intent, overdue, seen, op, crashes>>
        /\ psp[i].status \in {"open", "failed", "pending"}
    BY DEF CustomerPays, ProviderDecides
  <1>2. /\ psp' \in [Intents -> PspRow]
        /\ \A j \in Intents \ {i} : psp'[j] = psp[j]
        /\ psp'[i].ok = psp[i].ok /\ psp'[i].status # "unknown"
    BY DEF CustomerPays, ProviderDecides, IInv, TypeOK, PspRow, PspStatus
  <1>3. Born(i) /\ intent[i].status # "succeeded"
    BY <1>1 DEF IInv, IntentsOK, IntentOK, SuccessIsReal
  <1>4. TypeOK'
    BY <1>1, <1>2 DEF IInv, TypeOK
  <1>5. Advance
    BY <1>1, <1>2 DEF Advance, Born
  <1>6. ASSUME NEW v \in Workers PROVE RequestOK(op[v])'
    <2>1. ~Creates(op[v], i)
      BY <1>1, <1>3, Current DEF Creates, RequestOK, IntentReadsHold
    <2>2. Spares(op[v])
      BY <1>1, <1>2, <2>1, Current DEF Spares, RequestOK, IntentReadsHold,
         HoldsRow, Born, Active
    <2>3. QED
      BY <1>1, <1>5, <2>2, RequestStays
  <1>7. (RequestsOK /\ NoTwoOwners)'
    BY <1>1, <1>6 DEF RequestsOK, NoTwoOwners, IInv, Creates, HoldsRow
  <1>8. IntentsOK'
    BY <1>1, <1>2, <1>3 DEF IInv, IntentsOK, IntentOK, Born
  <1>9. (BooksBalance /\ SettledOnce /\ OneActiveIntent /\ SuccessIsReal)'
    BY <1>1, <1>2, <1>3 DEF IInv, BooksBalance, SettledOnce, OneActiveIntent, SuccessIsReal, Active
  <1>10. QED
    BY <1>4, <1>7, <1>8, <1>9 DEF IInv

LEMMA CheckoutExpiresKeeps ==
  ASSUME IInv, NEW i \in Intents, CheckoutExpires(i)
  PROVE  IInv'
  <1>1. UNCHANGED <<bill, intent, seen, psp, op, crashes>> /\ overdue' \subseteq Intents
    BY DEF CheckoutExpires, IInv, TypeOK
  <1>2. TypeOK'
    BY <1>1 DEF IInv, TypeOK
  <1>3. (RequestsOK /\ NoTwoOwners)'
    BY <1>1 DEF IInv, RequestsOK, RequestOK, RefersToRows, BillReadsHold,
       IntentReadsHold, NoTwoOwners, Creates, HoldsRow, Born, Active
  <1>4. (IntentsOK /\ BooksBalance /\ SettledOnce /\ OneActiveIntent /\ SuccessIsReal)'
    BY <1>1 DEF IInv, IntentsOK, IntentOK, Born, BooksBalance, SettledOnce,
       OneActiveIntent, SuccessIsReal, Active
  <1>5. QED
    BY <1>2, <1>3, <1>4 DEF IInv

-----------------------------------------------------------------------------
\* Steps that write an intent.

\* The invariants of the intents after row i has been written.
LEMMA IntentWritten ==
  ASSUME IInv, NEW i \in Intents, NEW row \in IntentRow,
         intent' = [intent EXCEPT ![i] = row], UNCHANGED psp,
         row.status # "unborn", row.bill \in Bills,
         row.amount = Total[row.bill], row.amount > 0,
         row.outcome = "none" <=> row.status # "succeeded",
         row.status = "pending" => ActiveOf(row.bill) \subseteq {i},
         row.status = "succeeded" => psp[i].status = "succeeded" /\ psp[i].ok
  PROVE  /\ intent' \in [Intents -> IntentRow]
         /\ (IntentsOK /\ OneActiveIntent /\ SuccessIsReal)'
         /\ \A j \in Intents : intent'[j] = IF j = i THEN row ELSE intent[j]
  <1>1. intent' \in [Intents -> IntentRow]
    BY DEF IInv, TypeOK
  <1>2. \A j \in Intents : intent'[j] = IF j = i THEN row ELSE intent[j]
    BY DEF IInv, TypeOK
  <1>3. IntentsOK'
    BY <1>2 DEF IInv, IntentsOK, IntentOK, Born
  <1>4. OneActiveIntent'
    BY <1>2 DEF IInv, OneActiveIntent, Active, ActiveOf
  <1>5. SuccessIsReal'
    BY <1>2 DEF IInv, SuccessIsReal
  <1>6. QED
    BY <1>1, <1>2, <1>3, <1>4, <1>5

\* No bill is paid, and the intent written has not settled one by it.
LEMMA SettledStays ==
  ASSUME IInv, NEW i \in Intents,
         \A j \in Intents \ {i} : intent'[j] = intent[j],
         \/ intent'[i].outcome # "settled"
         \/ intent'[i].outcome = intent[i].outcome /\ intent'[i].bill = intent[i].bill,
         \A b \in Bills : bill'[b].paid = bill[b].paid
  PROVE  SettledOnce'
  <1>1. ASSUME NEW j \in Intents, intent'[j].outcome = "settled"
        PROVE  /\ intent[j].outcome = "settled" /\ intent'[j].bill = intent[j].bill
               /\ intent[j].bill \in Bills
    <2>1. intent[j].outcome = "settled" /\ intent'[j].bill = intent[j].bill
      BY <1>1
    <2>2. QED
      BY <2>1 DEF IInv, IntentsOK, IntentOK, Born
  <1>2. QED
    BY <1>1 DEF IInv, SettledOnce

\* Writing a row that no open transaction holds, or that stays active, spares
\* what the others own.
LEMMA SparesOthers ==
  ASSUME IInv, NEW w \in Workers, NEW v \in Workers \ {w}, NEW i \in Intents,
         \A j \in Intents \ {i} : intent'[j] = intent[j], UNCHANGED psp,
         Born(i), Born(i)', Active(i)' \/ ~HoldsRow(op[v], i)
  PROVE  Spares(op[v])
  BY Current DEF Spares, RequestOK, IntentReadsHold, HoldsRow, Creates, Born, Active

\* A worker ends its request and writes row i of the intents.
LEMMA IntentWriterKeeps ==
  ASSUME IInv, NEW w \in Workers, Finish(w) \/ Abort(w), NEW i \in Intents,
         NEW row \in IntentRow, intent' = [intent EXCEPT ![i] = row],
         Born(i), row.status # "unborn",
         row.bill = intent[i].bill, row.amount = intent[i].amount,
         row.outcome = "none" <=> row.status # "succeeded",
         row.status = "pending" => ActiveOf(row.bill) \subseteq {i},
         row.status = "succeeded" => psp[i].status = "succeeded" /\ psp[i].ok,
         row.status = "pending" \/ \A v \in Workers \ {w} : ~HoldsRow(op[v], i),
         UNCHANGED <<overdue, psp, crashes>>,
         seen' = seen \/ (seen' = Recorded(op[w]) /\ op[w].step \in IntentSteps),
         bill' \in [Bills -> BillRow], BooksBalance',
         \A b \in Bills : bill[b].paid = 1 => bill'[b].paid = 1,
         SettledOnce'
  PROVE  IInv'
  <1>1. /\ row.bill \in Bills /\ row.amount = Total[row.bill] /\ row.amount > 0
    BY DEF IInv, IntentsOK, IntentOK
  <1>2. /\ intent' \in [Intents -> IntentRow]
        /\ (IntentsOK /\ OneActiveIntent /\ SuccessIsReal)'
        /\ \A j \in Intents : intent'[j] = IF j = i THEN row ELSE intent[j]
    BY <1>1, IntentWritten
  <1>3. PICK r \in Request : /\ op' = [op EXCEPT ![w] = r] /\ OwnsNothing(r)
                             /\ RequestOK(op[w])'
    BY FreeOK
  <1>4. Advance
    BY <1>2 DEF Advance, Born
  <1>5. \A v \in Workers \ {w} : Spares(op[v])
    BY <1>2, SparesOthers DEF Born, Active
  <1>6. op' \in [Workers -> Request] /\ RequestsOK' /\ NoTwoOwners'
    BY <1>3, <1>4, <1>5, NothingApart, OthersKeep
  <1>7. TypeOK'
    BY <1>2, <1>6, RecordedTyped DEF IInv, TypeOK
  <1>8. QED
    BY <1>2, <1>6, <1>7 DEF IInv

LEMMA StoreCheckoutKeeps ==
  ASSUME IInv, NEW w \in Workers, StoreCheckout(w)
  PROVE  IInv'
  <1> DEFINE i == op[w].intent
             row == [intent[i] EXCEPT !.ready = @ \/ Active(i)]
  <1>1. /\ op[w].step = "ready" /\ Abort(w)
        /\ intent' = [intent EXCEPT ![i].ready = @ \/ Active(i)]
        /\ UNCHANGED <<bill, overdue, seen, psp, crashes>>
    BY DEF StoreCheckout
  <1>2. Active(i) => \A v \in Workers \ {w} : ~HoldsRow(op[v], i)
    BY DEF StoreCheckout, RowFree, HoldsRow
  <1>3. i \in Intents /\ Born(i) /\ intent[i] \in IntentRow
    BY <1>1, Current DEF IntentSteps, IInv, TypeOK
  <1>4. intent' = [intent EXCEPT ![i] = row]
    BY <1>1, <1>3 DEF IInv, TypeOK
  <1>5. /\ row \in IntentRow /\ row.status = intent[i].status
        /\ row.bill = intent[i].bill /\ row.amount = intent[i].amount
        /\ row.outcome = intent[i].outcome
    BY <1>3 DEF IntentRow, Active
  <1>6. /\ row.outcome = "none" <=> row.status # "succeeded"
        /\ row.status = "pending" => ActiveOf(row.bill) \subseteq {i}
        /\ row.status = "succeeded" => psp[i].status = "succeeded" /\ psp[i].ok
        /\ row.status # "unborn"
    BY <1>3, <1>5 DEF IInv, IntentsOK, IntentOK, OneActiveIntent, ActiveOf,
       Active, SuccessIsReal, Born
  <1>7. row.status = "pending" \/ \A v \in Workers \ {w} : ~HoldsRow(op[v], i)
    <2> SUFFICES ASSUME NEW v \in Workers \ {w}, HoldsRow(op[v], i)
                 PROVE  row.status = "pending"
      OBVIOUS
    <2>1. Active(i)
      BY Current DEF HoldsRow, RequestOK, IntentReadsHold
    <2>2. QED
      BY <2>1, <1>5 DEF Active
  <1>8. \A j \in Intents : intent'[j] = IF j = i THEN row ELSE intent[j]
    BY <1>3, <1>4 DEF IInv, TypeOK
  <1>9. SettledOnce'
    BY <1>1, <1>3, <1>5, <1>8, SettledStays
  <1>10. bill' \in [Bills -> BillRow] /\ BooksBalance'
    BY <1>1 DEF IInv, TypeOK, BooksBalance
  <1> HIDE DEF row, i
  <1>11. QED
    BY <1>1, <1>3, <1>4, <1>5, <1>6, <1>7, <1>9, <1>10, IntentWriterKeeps

\* An active intent is given up, and the bill may return to "presented".
LEMMA Deactivates ==
  ASSUME IInv, NEW w \in Workers, Finish(w), NEW i \in Intents,
         NEW s \in {"failed", "expired"}, Active(i),
         \A v \in Workers \ {w} : ~HoldsRow(op[v], i),
         intent' = [intent EXCEPT ![i].status = s],
         \/ UNCHANGED bill
         \/ bill' = [bill EXCEPT ![intent[i].bill].status = "presented"],
         UNCHANGED <<overdue, psp, crashes>>,
         seen' = Recorded(op[w]), op[w].step \in IntentSteps
  PROVE  IInv'
  <1> DEFINE row == [intent[i] EXCEPT !.status = s]
  <1>1. intent[i] \in IntentRow /\ Born(i) /\ intent[i].bill \in Bills
        /\ intent[i].outcome = "none"
    BY DEF IInv, TypeOK, IntentsOK, IntentOK, Active, Born
  <1>2. /\ row \in IntentRow /\ row.status = s
        /\ row.bill = intent[i].bill /\ row.amount = intent[i].amount
        /\ row.outcome = "none"
    BY <1>1 DEF IntentRow, IntentStatus
  <1>3. /\ intent' = [intent EXCEPT ![i] = row]
        /\ \A j \in Intents : intent'[j] = IF j = i THEN row ELSE intent[j]
    BY DEF IInv, TypeOK
  <1>4. /\ bill' \in [Bills -> BillRow] /\ BooksBalance'
        /\ \A c \in Bills : bill'[c].paid = bill[c].paid
    <2> HIDE DEF row
    <2> QED BY <1>1, PendingBooks
  <1> HIDE DEF row
  <1>5. SettledOnce'
    BY <1>2, <1>3, <1>4, SettledStays
  <1>6. QED
    BY <1>1, <1>2, <1>3, <1>4, <1>5, IntentWriterKeeps

LEMMA GiveUpKeeps ==
  ASSUME IInv, NEW w \in Workers, op[w].step \in {"initfail", "expire", "update"},
         NEW hit \in BOOLEAN, NEW s \in {"failed", "expired"},
         hit => Active(op[w].intent), GiveUp(w, op[w].intent, hit, s)
  PROVE  IInv'
  <1> DEFINE i == op[w].intent
  <1>1. i \in Intents /\ op[w].step \in IntentSteps /\ Born(i)
    BY Current DEF IntentSteps
  <1>2. /\ UNCHANGED <<bill, overdue, psp, crashes>>
        /\ hit => \A v \in Workers \ {w} : ~HoldsRow(op[v], i)
    BY DEF GiveUp, RowFree, HoldsRow
  <1>3. CASE /\ op' = [op EXCEPT ![w].step = "restore",
                                 ![w].write = IF hit THEN s ELSE "none"]
             /\ UNCHANGED <<intent, seen>>
    <2> DEFINE write == IF hit THEN s ELSE "none"
               r == [op[w] EXCEPT !.step = "restore", !.write = write]
    <2>1. op' = [op EXCEPT ![w] = r]
      BY <1>3, Current DEF IInv, TypeOK
    <2>2. /\ r \in Request /\ r.step = "restore" /\ r.intent = i
          /\ r.write = IF hit THEN s ELSE "none"
          /\ r.bill = op[w].bill /\ r.source = op[w].source
          /\ r.version = op[w].version
      <3>1. write \in {"none", "failed", "expired"} /\ op[w] \in Request
        BY Current
      <3> HIDE DEF write
      <3>2. r \in Request
        BY <3>1 DEF Request, Step
      <3>3. /\ r.step = "restore" /\ r.intent = i /\ r.write = write
            /\ r.bill = op[w].bill /\ r.source = op[w].source
            /\ r.version = op[w].version
        BY <3>1 DEF Request
      <3>4. QED BY <3>2, <3>3 DEF write
    <2> HIDE DEF r
    <2>3. RequestOK(r)
      BY <1>1, <2>2, Current DEF RequestOK, RefersToRows, BillReadsHold,
         IntentReadsHold, BillSteps, IntentSteps
    <2>4. Apart(w, r)
      BY <1>2, <2>2 DEF Apart, Creates, HoldsRow
    <2>5. QED
      BY <1>2, <1>3, <2>1, <2>2, <2>3, <2>4, RequestMoves DEF IInv, TypeOK
  <1>4. CASE /\ intent' = IF hit THEN [intent EXCEPT ![i].status = s] ELSE intent
             /\ seen' = Recorded(op[w])
             /\ Finish(w)
    <2>1. CASE hit
      BY <1>1, <1>2, <1>4, <2>1, Deactivates
    <2>2. CASE ~hit
      BY <1>1, <1>2, <1>4, <2>2, FinishKeeps DEF IInv, TypeOK
    <2>3. QED
      BY <2>1, <2>2
  <1>5. QED
    BY <1>3, <1>4 DEF GiveUp

LEMMA FailInitializationKeeps ==
  ASSUME IInv, NEW w \in Workers, FailInitialization(w)
  PROVE  IInv'
  <1> DEFINE i == op[w].intent  hit == Active(i) /\ ~intent[i].ready
  <1>1. op[w].step = "initfail"
    BY DEF FailInitialization
  <1>2. CASE GiveUp(w, i, hit, "failed")
    BY <1>1, <1>2, GiveUpKeeps
  <1>3. CASE Abort(w) /\ UNCHANGED <<bill, intent, overdue, seen, psp, crashes>>
    BY <1>3, FinishKeeps DEF IInv, TypeOK
  <1>4. QED
    BY <1>2, <1>3 DEF FailInitialization

LEMMA ExpireIntentKeeps ==
  ASSUME IInv, NEW w \in Workers, ExpireIntent(w)
  PROVE  IInv'
  <1> DEFINE i == op[w].intent
  <1>1. op[w].step = "expire"
    BY DEF ExpireIntent
  <1>2. CASE GiveUp(w, i, Active(i), "expired")
    BY <1>1, <1>2, GiveUpKeeps DEF Active
  <1>3. CASE Finish(w) /\ UNCHANGED <<bill, intent, overdue, seen, psp, crashes>>
    BY <1>3, FinishKeeps DEF IInv, TypeOK
  <1>4. QED
    BY <1>2, <1>3 DEF ExpireIntent

LEMMA ApplyStatusKeeps ==
  ASSUME IInv, NEW w \in Workers, ApplyStatus(w)
  PROVE  IInv'
  <1> DEFINE i == op[w].intent
  <1>1. op[w].step = "update"
    BY DEF ApplyStatus
  <1>2. CASE Active(i) /\ GiveUp(w, i, TRUE, "failed")
    BY <1>1, <1>2, GiveUpKeeps
  <1>3. CASE /\ seen' = Recorded(op[w]) /\ Finish(w)
             /\ UNCHANGED <<bill, intent, overdue, psp, crashes>>
    BY <1>1, <1>3, FinishKeeps DEF IInv, TypeOK, IntentSteps
  <1>4. QED
    BY <1>2, <1>3 DEF ApplyStatus

LEMMA RestoreBillKeeps ==
  ASSUME IInv, NEW w \in Workers, RestoreBill(w)
  PROVE  IInv'
  <1> DEFINE i == op[w].intent  b == intent[i].bill
  <1>1. /\ op[w].step = "restore" /\ Finish(w) /\ seen' = Recorded(op[w])
        /\ UNCHANGED <<overdue, psp, crashes>>
        /\ intent' = IF op[w].write = "none" THEN intent
                     ELSE [intent EXCEPT ![i].status = op[w].write]
        /\ UNCHANGED bill \/ bill' = [bill EXCEPT ![b].status = "presented"]
    BY DEF RestoreBill
  <1>2. i \in Intents /\ b \in Bills /\ op[w].step \in IntentSteps
    <2>1. i \in Intents /\ Born(i) /\ op[w].step \in IntentSteps
      BY <1>1, Current DEF IntentSteps
    <2>2. QED
      BY <2>1 DEF IInv, IntentsOK, IntentOK
  <1>3. CASE op[w].write = "none"
    <2>1. /\ bill' \in [Bills -> BillRow] /\ BooksBalance'
          /\ \A c \in Bills : bill'[c].paid = bill[c].paid
      <3> HIDE DEF i, b
      <3> QED BY <1>1, <1>2, PendingBooks
    <2>2. \A c \in Bills : bill'[c].paid <= 1
      BY <2>1 DEF IInv, SettledOnce
    <2>3. QED
      BY <1>1, <1>2, <1>3, <2>1, <2>2, BillWriterKeeps
  <1>4. CASE op[w].write # "none"
    <2>1. op[w].write \in {"failed", "expired"}
      BY <1>4, Current DEF Request
    <2>2. HoldsRow(op[w], i) /\ Active(i)
      BY <1>1, <1>4, Current DEF HoldsRow, RequestOK, IntentReadsHold
    <2>3. \A v \in Workers \ {w} : ~HoldsRow(op[v], i)
      BY <1>2, <2>2 DEF IInv, NoTwoOwners
    <2>4. QED
      BY <1>1, <1>2, <1>4, <2>1, <2>2, <2>3, Deactivates
  <1>5. QED
    BY <1>3, <1>4

LEMMA ApplySuccessKeeps ==
  ASSUME IInv, NEW w \in Workers, ApplySuccess(w)
  PROVE  IInv'
  <1> DEFINE i == op[w].intent
             b == intent[i].bill
             settles == CanSettle(b, intent[i].amount)
             result == IF settles THEN "settled" ELSE "skipped"
             row == [intent[i] EXCEPT !.status = "succeeded", !.outcome = result]
  <1>1. /\ op[w].step = "succeed" /\ Finish(w) /\ seen' = Recorded(op[w])
        /\ UNCHANGED <<overdue, psp, crashes>>
    BY DEF ApplySuccess
  <1>2. /\ i \in Intents /\ op[w].step \in IntentSteps /\ Born(i)
        /\ psp[i].status = "succeeded" /\ psp[i].ok
    BY <1>1, Current DEF IntentSteps, RequestOK, IntentReadsHold
  <1>3. CASE intent[i].status = "succeeded"
    <2>1. UNCHANGED <<bill, intent>>
      BY <1>3 DEF ApplySuccess
    <2>2. QED
      BY <1>1, <1>2, <2>1, FinishKeeps DEF IInv, TypeOK
  <1>4. CASE intent[i].status # "succeeded"
    <2>1. /\ intent' = [intent EXCEPT ![i].status = "succeeded", ![i].outcome = result]
          /\ bill' = IF settles THEN Settled(b) ELSE bill
          /\ \A v \in Workers \ {w} : ~HoldsRow(op[v], i)
      BY <1>4 DEF ApplySuccess, RowFree, HoldsRow
    <2>2. /\ b \in Bills /\ intent[i] \in IntentRow /\ intent[i].amount > 0
          /\ intent[i].outcome = "none"
      BY <1>2, <1>4 DEF IInv, TypeOK, IntentsOK, IntentOK
    <2>3. /\ row \in IntentRow /\ row.status = "succeeded" /\ row.bill = b
          /\ row.amount = intent[i].amount /\ row.outcome = result
      BY <2>2 DEF IntentRow, IntentStatus, Outcome
    <2>4. /\ intent' = [intent EXCEPT ![i] = row]
          /\ \A j \in Intents : intent'[j] = IF j = i THEN row ELSE intent[j]
      BY <1>2, <2>1 DEF IInv, TypeOK
    <2> HIDE DEF row
    <2>5. CASE settles
      <3>1. bill' = Settled(b)
        BY <2>1, <2>5
      <3>2. /\ bill' \in [Bills -> BillRow] /\ BooksBalance'
            /\ bill[b].paid = 0 /\ bill'[b].paid = 1
            /\ \A c \in Bills \ {b} : bill'[c] = bill[c]
        BY <2>2, <2>5, <3>1, SettledBooks
      <3>3. \A j \in Intents \ {i} : intent[j].outcome = "settled" =>
              intent[j].bill \in Bills \ {b} /\ bill[intent[j].bill].paid = 1
        BY <3>2 DEF IInv, SettledOnce, IntentsOK, IntentOK, Born
      <3>4. SettledOnce'
        BY <2>3, <2>4, <3>2, <3>3 DEF SettledOnce, IInv
      <3>5. row.outcome = "settled"
        BY <2>3, <2>5
      <3>6. \A c \in Bills : bill[c].paid = 1 => bill'[c].paid = 1
        BY <3>2
      <3> HIDE DEF i, b, settles, result
      <3>7. QED
        BY <1>1, <1>2, <2>1, <2>3, <2>4, <3>2, <3>4, <3>5, <3>6, IntentWriterKeeps
           DEF b
    <2>6. CASE ~settles
      <3>1. UNCHANGED bill
        BY <2>1, <2>6
      <3>2. /\ bill' \in [Bills -> BillRow] /\ BooksBalance'
        BY <3>1 DEF IInv, TypeOK, BooksBalance
      <3>3. SettledOnce'
        BY <1>2, <2>3, <2>4, <2>6, <3>1, SettledStays
      <3>4. QED
        BY <1>1, <1>2, <2>1, <2>2, <2>3, <2>4, <2>6, <3>1, <3>2, <3>3, IntentWriterKeeps
    <2>7. QED
      BY <2>5, <2>6
  <1>5. QED
    BY <1>3, <1>4

LEMMA ReviveIntentKeeps ==
  ASSUME IInv, NEW w \in Workers, ReviveIntent(w)
  PROVE  IInv'
  <1> DEFINE i == op[w].intent
             b == intent[i].bill
             hit == intent[i].status # "succeeded"
             row == [intent[i] EXCEPT !.status = "pending"]
  <1>1. op[w].step = "revive" /\ UNCHANGED <<overdue, psp, crashes>>
    BY DEF ReviveIntent
  <1>2. i \in Intents /\ op[w].step \in IntentSteps /\ Born(i)
    BY <1>1, Current DEF IntentSteps
  <1>3. b \in Bills /\ intent[i] \in IntentRow
    BY <1>2 DEF IInv, TypeOK, IntentsOK, IntentOK
  <1>4. CASE hit /\ ~IndexAllows(i, b)
    BY <1>1, <1>4, FinishKeeps DEF ReviveIntent, IInv, TypeOK
  <1>5. CASE ~(hit /\ ~IndexAllows(i, b))
    <2>1. /\ intent' = IF hit THEN [intent EXCEPT ![i].status = "pending"] ELSE intent
          /\ UNCHANGED bill \/ bill' = [bill EXCEPT ![b].status = "payment_pending"]
          /\ seen' = Recorded(op[w]) /\ Finish(w)
      BY <1>5 DEF ReviveIntent
    <2>2. /\ bill' \in [Bills -> BillRow] /\ BooksBalance'
          /\ \A c \in Bills : bill'[c].paid = bill[c].paid
      <3> HIDE DEF i, b
      <3> QED BY <1>3, <2>1, PendingBooks
    <2>3. \A c \in Bills : bill'[c].paid <= 1
      BY <2>2 DEF IInv, SettledOnce
    <2>4. CASE ~hit
      BY <1>1, <1>2, <2>1, <2>2, <2>3, <2>4, BillWriterKeeps
    <2>5. CASE hit
      <3>1. /\ row \in IntentRow /\ row.status = "pending" /\ row.bill = b
            /\ row.amount = intent[i].amount /\ row.outcome = intent[i].outcome
        BY <1>3 DEF IntentRow, IntentStatus
      <3>2. row.outcome = "none"
        BY <1>2, <2>5, <3>1 DEF IInv, IntentsOK, IntentOK
      <3>3. /\ intent' = [intent EXCEPT ![i] = row]
            /\ \A j \in Intents : intent'[j] = IF j = i THEN row ELSE intent[j]
        BY <1>2, <2>1, <2>5 DEF IInv, TypeOK
      <3>4. ActiveOf(row.bill) \subseteq {i}
        BY <1>5, <2>5, <3>1 DEF IndexAllows
      <3> HIDE DEF row
      <3>5. SettledOnce'
        BY <1>2, <2>2, <3>1, <3>3, SettledStays
      <3>6. QED
        BY <1>1, <1>2, <2>1, <2>2, <3>1, <3>2, <3>3, <3>4, <3>5, IntentWriterKeeps
    <2>6. QED
      BY <2>4, <2>5
  <1>6. QED
    BY <1>4, <1>5

LEMMA InsertIntentKeeps ==
  ASSUME IInv, NEW w \in Workers, InsertIntent(w)
  PROVE  IInv'
  <1> DEFINE b == op[w].bill
             i == op[w].intent
             row == [status |-> "pending", bill |-> b, amount |-> op[w].due,
                     provider |-> op[w].provider, ready |-> FALSE,
                     outcome |-> "none"]
             r == [op[w] EXCEPT !.step = "call"]
  <1>1. op[w].step = "insert" /\ UNCHANGED <<overdue, seen, psp, crashes>>
    BY DEF InsertIntent
  <1>2. /\ i \in Intents /\ b \in Bills /\ ~Born(i)
        /\ op[w].due = Total[b] /\ op[w].due > 0 /\ op[w] \in Request
        /\ op[w].version = NoVersion /\ psp[i].status = "unknown"
    BY <1>1, Current DEF IntentSteps, BillSteps, RequestOK, BillReadsHold,
       IntentReadsHold, IInv, IntentsOK, IntentOK
  <1>3. CASE ~IndexAllows(i, b)
    BY <1>1, <1>3, FinishKeeps DEF InsertIntent, IInv, TypeOK
  <1>4. CASE IndexAllows(i, b)
    <2>1. /\ intent' = [intent EXCEPT ![i] = row] /\ Goto(w, "call")
          /\ UNCHANGED bill \/ bill' = [bill EXCEPT ![b].status = "payment_pending"]
      BY <1>4 DEF InsertIntent
    <2>2. /\ row \in IntentRow /\ row.status = "pending" /\ row.bill = b
          /\ row.amount = op[w].due /\ row.outcome = "none"
      BY <1>2 DEF IntentRow, IntentStatus, Outcome, Request
    <2>3. ActiveOf(row.bill) \subseteq {i}
      BY <1>4, <2>2 DEF IndexAllows
    <2> HIDE DEF row
    <2>4. /\ intent' \in [Intents -> IntentRow]
          /\ (IntentsOK /\ OneActiveIntent /\ SuccessIsReal)'
          /\ \A j \in Intents : intent'[j] = IF j = i THEN row ELSE intent[j]
      BY <1>1, <1>2, <2>1, <2>2, <2>3, IntentWritten
    <2>5. /\ bill' \in [Bills -> BillRow] /\ BooksBalance'
          /\ \A c \in Bills : bill'[c].paid = bill[c].paid
      <3> HIDE DEF b
      <3> QED BY <1>2, <2>1, PendingBooks
    <2>6. SettledOnce'
      BY <1>2, <2>2, <2>4, <2>5, SettledStays
    <2>7. op' = [op EXCEPT ![w] = r] /\ op'[w] = r
      BY <2>1 DEF Goto, IInv, TypeOK
    <2>8. /\ r \in Request /\ r.step = "call" /\ r.intent = i /\ r.bill = b
          /\ r.version = NoVersion /\ r.source = op[w].source
      BY <1>2 DEF Request, Step
    <2> HIDE DEF r
    <2>9. RequestOK(op[w])'
      BY <1>1, <1>2, <2>2, <2>4, <2>7, <2>8 DEF RequestOK, RefersToRows,
         BillReadsHold, IntentReadsHold, BillSteps, IntentSteps, NoVersion, Born
    <2>10. \A v \in Workers \ {w} : ~Creates(op[v], i)
      BY <1>1, <1>2 DEF IInv, NoTwoOwners, Creates
    <2>11. Apart(w, r)
      BY <2>8, <2>10 DEF Apart, Creates, HoldsRow
    <2>12. Advance
      BY <1>1, <2>2, <2>4, <2>5 DEF Advance, Born
    <2>13. ASSUME NEW v \in Workers \ {w} PROVE Spares(op[v])
      <3>1. ~HoldsRow(op[v], i)
        BY <1>2, Current DEF HoldsRow, RequestOK, IntentReadsHold, Active, Born
      <3>2. \A j \in Intents : HoldsRow(op[v], j) => Active(j)
        BY Current DEF HoldsRow, RequestOK, IntentReadsHold
      <3>3. QED
        BY <1>1, <2>4, <2>10, <3>1, <3>2 DEF Spares, Born, Active
    <2>14. op' \in [Workers -> Request] /\ RequestsOK' /\ NoTwoOwners'
      BY <2>7, <2>8, <2>9, <2>11, <2>12, <2>13, OthersKeep
    <2>15. QED
      BY <1>1, <2>4, <2>5, <2>6, <2>14 DEF IInv, TypeOK
  <1>5. QED
    BY <1>3, <1>4

LEMMA CallProviderKeeps ==
  ASSUME IInv, NEW w \in Workers, CallProvider(w)
  PROVE  IInv'
  <1> DEFINE i == op[w].intent
  <1>1. op[w].step = "call" /\ UNCHANGED <<bill, intent, overdue, seen, crashes>>
    BY DEF CallProvider
  <1>2. /\ i \in Intents /\ Born(i) /\ psp[i].status = "unknown"
        /\ op[w] \in Request /\ op[w].version = NoVersion
    BY <1>1, Current DEF IntentSteps, RequestOK, IntentReadsHold
  <1>3. PICK s \in {"ready", "initfail"} : Goto(w, s)
    BY DEF CallProvider
  <1>4. /\ psp' \in [Intents -> PspRow]
        /\ \A j \in Intents \ {i} : psp'[j] = psp[j]
        /\ psp'[i].n > 0 => psp'[i].status # "unknown"
    <2>1. CASE psp' = psp
      BY <2>1, <1>2 DEF IInv, TypeOK, IntentsOK, IntentOK
    <2>2. ASSUME NEW ok \in Genuine,
                 psp' = [psp EXCEPT ![i] = [n |-> 0, status |-> "open", ok |-> ok]]
          PROVE  /\ psp' \in [Intents -> PspRow]
                 /\ \A j \in Intents \ {i} : psp'[j] = psp[j]
                 /\ psp'[i].n > 0 => psp'[i].status # "unknown"
      BY <2>2, <1>2, InstanceAssumption DEF IInv, TypeOK, PspRow, PspStatus
    <2>3. QED
      BY <2>1, <2>2 DEF CallProvider
  <1>5. TypeOK' /\ IntentsOK'
    <2>1. IntentsOK'
      BY <1>1, <1>2, <1>4 DEF IInv, IntentsOK, IntentOK, Born
    <2>2. op' \in [Workers -> Request]
      BY <1>3 DEF Goto, IInv, TypeOK, Request, Step
    <2>3. QED
      BY <1>1, <1>4, <2>1, <2>2 DEF IInv, TypeOK
  <1>6. intent[i].status # "succeeded"
    BY <1>2 DEF IInv, SuccessIsReal
  <1>7. (BooksBalance /\ SettledOnce /\ OneActiveIntent /\ SuccessIsReal)'
    BY <1>1, <1>4, <1>6 DEF IInv, BooksBalance, SettledOnce, OneActiveIntent,
       SuccessIsReal, Active
  <1> DEFINE r == [op[w] EXCEPT !.step = s]
  <1>8. op' = [op EXCEPT ![w] = r] /\ op'[w] = r
    BY <1>3 DEF Goto, IInv, TypeOK
  <1>9. /\ r \in Request /\ r.step = s /\ r.intent = i /\ r.bill = op[w].bill
        /\ r.version = NoVersion /\ r.source = op[w].source
    BY <1>2 DEF Request, Step
  <1> HIDE DEF r
  <1>10. RequestOK(op[w])' /\ OwnsNothing(r)
    BY <1>1, <1>2, <1>8, <1>9, Current DEF RequestOK, RefersToRows, OwnsNothing,
       BillReadsHold, IntentReadsHold, BillSteps, IntentSteps, NoVersion, Born
  <1>11. Advance
    BY <1>1, <1>2, <1>4 DEF Advance, Born
  <1>12. ASSUME NEW v \in Workers \ {w} PROVE Spares(op[v])
    <2>1. ~Creates(op[v], i)
      BY <1>1, <1>2 DEF IInv, NoTwoOwners, Creates
    <2>2. \A j \in Intents : HoldsRow(op[v], j) => Active(j)
      BY Current DEF HoldsRow, RequestOK, IntentReadsHold
    <2>3. QED
      BY <1>1, <1>4, <2>1, <2>2 DEF Spares, Born, Active
  <1>13. RequestsOK' /\ NoTwoOwners'
    BY <1>8, <1>9, <1>10, <1>11, <1>12, NothingApart, OthersKeep
  <1>14. QED
    BY <1>5, <1>7, <1>13 DEF IInv

-----------------------------------------------------------------------------
\* The invariant, and what follows from it.

LEMMA NextKeepsIInv == IInv /\ [Next]_vars => IInv'
  <1> SUFFICES ASSUME IInv, [Next]_vars PROVE IInv'
    OBVIOUS
  <1>1. ASSUME NEW w \in Workers, Arrive(w) PROVE IInv'
    BY <1>1, StartManualPaymentKeeps, StartStatusChangeKeeps, StartPaymentKeeps,
       StartRecoveryKeeps, StartWebhookKeeps DEF Arrive
  <1>2. ASSUME NEW w \in Workers, Proceed(w) PROVE IInv'
    BY <1>2, CommitManualPaymentKeeps, CommitStatusChangeKeeps, ReadBillKeeps,
       LockBillKeeps, InsertIntentKeeps, CallProviderKeeps, StoreCheckoutKeeps,
       FailInitializationKeeps, RestoreBillKeeps, InquiryFindsKeeps,
       OtherInquiriesKeep, ExpireIntentKeeps, ReadIntentKeeps, ApplySuccessKeeps,
       ApplyStatusKeeps, ReviveIntentKeeps DEF Proceed
  <1>3. ASSUME NEW i \in Intents, Environment(i) PROVE IInv'
    BY <1>3, ProviderKeeps, CheckoutExpiresKeeps DEF Environment
  <1>4. CASE UNCHANGED vars
    BY <1>4 DEF vars, IInv, TypeOK, RequestsOK, RequestOK, RefersToRows,
       BillReadsHold, IntentReadsHold, NoTwoOwners, Creates, HoldsRow,
       IntentsOK, IntentOK, Born, Active, BooksBalance, SettledOnce,
       OneActiveIntent, SuccessIsReal
  <1>5. QED
    BY <1>1, <1>2, <1>3, <1>4, CrashKeeps DEF Next

\* IInv holds at every moment of every execution.
THEOREM InvariantHolds == Spec => []IInv
  BY InitIInv, NextKeepsIInv, PTL DEF Spec

\* Every variable keeps its type: no request ever refers to a row or carries a
\* value outside its domain.
THEOREM TypeCorrect == Spec => []TypeOK
  <1>1. IInv => TypeOK
    BY DEF IInv
  <1>2. QED
    BY <1>1, InvariantHolds, PTL

\* A bill is paid once, by one payment, and an intent that settled one has paid
\* it: however many requests, webhooks and inquiries race.
THEOREM BillsAreSettledOnce == Spec => []SettledOnce
  <1>1. IInv => SettledOnce
    BY DEF IInv
  <1>2. QED
    BY <1>1, InvariantHolds, PTL

\* The balance due is the total until the bill is paid and nothing afterwards,
\* and no bill shows as paid or closed without a payment.
THEOREM TheBooksBalance == Spec => []BooksBalance
  <1>1. IInv => BooksBalance
    BY DEF IInv
  <1>2. QED
    BY <1>1, InvariantHolds, PTL

\* No bill ever has two active intents, with or without the advisory lock.
THEOREM AtMostOneActiveIntent == Spec => []OneActiveIntent
  <1>1. IInv => OneActiveIntent
    BY DEF IInv
  <1>2. QED
    BY <1>1, InvariantHolds, PTL

\* What is booked as a success was collected by the provider, for the right
\* amount.
THEOREM SuccessesAreReal == Spec => []SuccessIsReal
  <1>1. IInv => SuccessIsReal
    BY DEF IInv
  <1>2. QED
    BY <1>1, InvariantHolds, PTL
=============================================================================
