----------------------- MODULE PaymentOperationsProofs -----------------------
(***************************************************************************)
(* Proofs about PaymentOperations, for any number of payments, keys and    *)
(* concurrent requests.  In this order: one operation of a payment is      *)
(* pending at a time and a result is final; the types; what has failed     *)
(* has not been done, but for a child that a webhook may have confused;    *)
(* no more than the payment is given back; the operations implement the    *)
(* book; what has succeeded has been done, with two exceptions, and only   *)
(* a capture collects.                                                     *)
(*                                                                         *)
(* Amounts are sums over sets of operations; what is proved about sums is  *)
(* in FiniteSums.                                                          *)
(***************************************************************************)
EXTENDS PaymentOperations, FiniteSums, FiniteSetTheorems, TLAPS

-----------------------------------------------------------------------------
\* The table of operations: each row is a record with its fields.

RowOK(o) ==
  o \in [status : {o.status}, payment : {o.payment}, type : {o.type},
         amount : {o.amount}, expected : {o.expected},
         parent : {o.parent}, child : {o.child}]

TableOK ==
  /\ operation \in [Keys -> {operation[k] : k \in Keys}]
  /\ \A k \in Keys : RowOK(operation[k])

\* A row keeps what was asked for; its status changes only when it was pending,
\* and to something else.
Keeps(k) ==
  LET o == operation[k]  n == operation'[k]
  IN  /\ n.payment = o.payment /\ n.type = o.type /\ n.parent = o.parent
      /\ \/ n.status = o.status
         \/ o.status = "pending" /\ n.status \notin {"unborn", "pending"}

LEMMA UnchangedKeeps ==
  ASSUME TableOK, UNCHANGED operation
  PROVE  TableOK' /\ \A k \in Keys : Keeps(k)
  BY DEF TableOK, RowOK, Keeps

LEMMA UpdateKeeps ==
  ASSUME TableOK, NEW k, NEW s, NEW c,
         \/ s = operation[k].status
         \/ operation[k].status = "pending" /\ s \notin {"unborn", "pending"},
         operation' = [operation EXCEPT
                         ![k] = [operation[k] EXCEPT !.status = s, !.child = c]]
  PROVE  /\ TableOK' /\ \A j \in Keys : Keeps(j)
         /\ k \in Keys => operation'[k].status = s /\ operation'[k].child = c
         /\ \A j \in Keys \ {k} : operation'[j] = operation[j]
  <1> DEFINE n == [operation[k] EXCEPT !.status = s, !.child = c]
  <1>1. CASE k \notin Keys
    <2>1. operation' = operation
      BY <1>1 DEF TableOK
    <2>2. QED BY <1>1, <2>1, UnchangedKeeps
  <1>2. CASE k \in Keys
    <2>1. /\ RowOK(n) /\ n.status = s /\ n.child = c
          /\ n.payment = operation[k].payment /\ n.type = operation[k].type
          /\ n.parent = operation[k].parent
      BY <1>2 DEF TableOK, RowOK
    <2> HIDE DEF n
    <2>2. operation' = [operation EXCEPT ![k] = n]
      BY DEF n
    <2>3. operation'[k] = n /\ \A j \in Keys \ {k} : operation'[j] = operation[j]
      BY <1>2, <2>2 DEF TableOK
    <2>4. operation' \in [Keys -> {operation'[j] : j \in Keys}]
      BY <2>2 DEF TableOK
    <2>5. TableOK'
      BY <2>1, <2>3, <2>4 DEF TableOK
    <2>6. \A j \in Keys : Keeps(j)
      BY <2>1, <2>3 DEF Keeps
    <2>7. QED BY <2>1, <2>3, <2>5, <2>6
  <1>3. QED BY <1>1, <1>2

LEMMA OutcomeValues ==
  ASSUME NEW k, NEW a
  PROVE  /\ Outcome(k, a) \in {"succeeded", "failed", "wait", "mismatch"}
         /\ Outcome(k, a) = "failed" =>
              a.tx # operation[k].parent /\ a.child = "failed"
  BY DEF Outcome

-----------------------------------------------------------------------------
\* What each step does to the table.

\* The one row a preparation adds, to a payment that has none pending.
Adds(k) ==
  /\ operation[k].status = "unborn" /\ operation'[k].status = "pending"
  /\ PendingOf(operation'[k].payment) = {}
  /\ \A j \in Keys \ {k} : operation'[j] = operation[j]

LEMMA PrepareAdds ==
  ASSUME TableOK, NEW w \in Workers, Prepare(w)
  PROVE  /\ TableOK'
         /\ \/ UNCHANGED operation
            \/ op[w].key \in Keys /\ Adds(op[w].key)
  <1> DEFINE r == op[w]
             n == [status |-> "pending", payment |-> r.payment, type |-> r.type,
                   amount |-> r.amount, expected |-> Refunded(r.payment) + r.amount,
                   parent |-> Target(r.payment), child |-> None]
  <1>1. \/ UNCHANGED operation
        \/ MayPrepare(r) /\ operation' = [operation EXCEPT ![r.key] = n]
    BY DEF Prepare
  <1>2. CASE UNCHANGED operation
    BY <1>2, UnchangedKeeps
  <1>3. CASE MayPrepare(r) /\ operation' = [operation EXCEPT ![r.key] = n]
    <2>1. RowOK(n) /\ n.status = "pending" /\ n.payment = r.payment
      BY DEF RowOK
    <2>2. operation[r.key].status = "unborn" /\ PendingOf(r.payment) = {}
      BY <1>3 DEF MayPrepare
    <2> HIDE DEF n
    <2>3. CASE r.key \notin Keys
      <3>1. UNCHANGED operation
        BY <1>3, <2>3 DEF TableOK
      <3>2. QED BY <3>1, UnchangedKeeps
    <2>4. CASE r.key \in Keys
      <3>1. /\ operation'[r.key] = n
            /\ \A j \in Keys \ {r.key} : operation'[j] = operation[j]
            /\ operation' \in [Keys -> {operation'[j] : j \in Keys}]
        BY <1>3, <2>4 DEF TableOK
      <3>2. TableOK'
        BY <2>1, <3>1 DEF TableOK
      <3>3. Adds(r.key)
        BY <2>1, <2>2, <3>1 DEF Adds
      <3>4. QED BY <2>4, <3>2, <3>3
    <2>5. QED BY <2>3, <2>4
  <1>4. QED BY <1>1, <1>2, <1>3

LEMMA RejectKeeps ==
  ASSUME TableOK, NEW w \in Workers, Reject(w)
  PROVE  TableOK' /\ \A k \in Keys : Keeps(k)
  <1> DEFINE k == op[w].key
             s == IF operation[k].status = "pending" THEN "failed"
                                                     ELSE operation[k].status
  <1>1. CASE k \notin Keys
    <2>1. UNCHANGED operation
      BY <1>1 DEF TableOK, Reject
    <2>2. QED BY <2>1, UnchangedKeeps
  <1>2. CASE k \in Keys
    <2>1. operation' = [operation EXCEPT ![k] =
                          [operation[k] EXCEPT !.status = s,
                                               !.child = operation[k].child]]
      BY <1>2 DEF TableOK, RowOK, Reject
    <2>2. \/ s = operation[k].status
          \/ operation[k].status = "pending" /\ s \notin {"unborn", "pending"}
      OBVIOUS
    <2> HIDE DEF s, k
    <2>3. QED BY <2>1, <2>2, UpdateKeeps
  <1>3. QED BY <1>1, <1>2

LEMMA StoreChildKeeps ==
  ASSUME TableOK, NEW w \in Workers, StoreChild(w)
  PROVE  TableOK' /\ \A k \in Keys : Keeps(k)
  <1> DEFINE k == op[w].key
  <1>1. \/ UNCHANGED operation
        \/ \E c : operation' = [operation EXCEPT ![k] = [operation[k] EXCEPT !.child = c]]
    BY DEF StoreChild
  <1>2. CASE UNCHANGED operation
    BY <1>2, UnchangedKeeps
  <1>3. ASSUME NEW c,
               operation' = [operation EXCEPT ![k] = [operation[k] EXCEPT !.child = c]]
        PROVE  TableOK' /\ \A j \in Keys : Keeps(j)
    <2>1. CASE k \notin Keys
      BY <1>3, <2>1, UnchangedKeeps DEF TableOK
    <2>2. CASE k \in Keys
      <3>1. operation' = [operation EXCEPT ![k] =
                            [operation[k] EXCEPT !.status = operation[k].status,
                                                 !.child = c]]
        BY <1>3, <2>2 DEF TableOK, RowOK
      <3> HIDE DEF k
      <3>2. QED BY <3>1, UpdateKeeps
    <2>3. QED BY <2>1, <2>2
  <1>4. QED BY <1>1, <1>2, <1>3

LEMMA RecordKeeps ==
  ASSUME TableOK, NEW w \in Workers, NEW k, NEW a, Record(w, k, a)
  PROVE  TableOK' /\ \A j \in Keys : Keeps(j)
  <1> DEFINE o == operation[k]
             out == Outcome(k, a)
             links == op[w].links /\ o.child = None
             child == IF Provider[o.payment] = "paymob" /\ (out = "succeeded" \/ links)
                        THEN a.tx ELSE o.child
  <1>1. \/ UNCHANGED operation
        \/ /\ o.status = "pending"
           /\ operation' = [operation EXCEPT ![k].status = out, ![k].child = child]
    BY DEF Record
  <1>2. out \notin {"unborn", "pending"}
    BY OutcomeValues
  <1> HIDE DEF out, child, links
  <1>3. CASE UNCHANGED operation
    BY <1>3, UnchangedKeeps
  <1>4. CASE /\ o.status = "pending"
             /\ operation' = [operation EXCEPT ![k].status = out, ![k].child = child]
    <2>1. CASE k \notin Keys
      BY <1>4, <2>1, UnchangedKeeps DEF TableOK
    <2>2. CASE k \in Keys
      <3>1. operation' = [operation EXCEPT ![k] =
                            [operation[k] EXCEPT !.status = out, !.child = child]]
        BY <1>4, <2>2 DEF TableOK
      <3>2. operation[k].status = "pending" /\ out \notin {"unborn", "pending"}
        BY <1>2, <1>4
      <3> HIDE DEF o
      <3>3. QED BY <3>1, <3>2, UpdateKeeps
    <2>3. QED BY <2>1, <2>2
  <1>5. QED BY <1>1, <1>3, <1>4

LEMMA FinalizeKeeps ==
  ASSUME TableOK, NEW w \in Workers, Finalize(w)
  PROVE  TableOK' /\ \A k \in Keys : Keeps(k)
  <1> DEFINE k == op[w].key  a == op[w].answer
  <1>1. \/ UNCHANGED operation
        \/ operation' = [operation EXCEPT ![k].child = a.tx]
        \/ Record(w, k, a)
    BY OutcomeValues DEF Finalize, Keep
  <1>2. CASE UNCHANGED operation
    BY <1>2, UnchangedKeeps
  <1>3. CASE operation' = [operation EXCEPT ![k].child = a.tx]
    <2>1. CASE k \notin Keys
      BY <1>3, <2>1, UnchangedKeeps DEF TableOK
    <2>2. CASE k \in Keys
      <3>1. operation' = [operation EXCEPT ![k] =
                            [operation[k] EXCEPT !.status = operation[k].status,
                                                 !.child = a.tx]]
        BY <1>3, <2>2 DEF TableOK, RowOK
      <3> HIDE DEF k, a
      <3>2. QED BY <3>1, UpdateKeeps
    <2>3. QED BY <2>1, <2>2
  <1>4. CASE Record(w, k, a)
    BY <1>4, RecordKeeps
  <1>5. QED BY <1>1, <1>2, <1>3, <1>4

LEMMA StepKeepsOrAdds ==
  ASSUME TableOK, [Next]_vars
  PROVE  /\ TableOK'
         /\ \/ \A k \in Keys : Keeps(k)
            \/ \E k \in Keys : Adds(k)
  <1>1. CASE UNCHANGED operation
    BY <1>1, UnchangedKeeps
  <1>2. ASSUME NEW w \in Workers, Prepare(w)
        PROVE  TableOK' /\ (UNCHANGED operation \/ \E k \in Keys : Adds(k))
    BY <1>2, PrepareAdds
  <1>3. ASSUME NEW w \in Workers,
               Reject(w) \/ StoreChild(w) \/ Finalize(w) \/ CommitRecord(w)
        PROVE  TableOK' /\ \A k \in Keys : Keeps(k)
    BY <1>3, RejectKeeps, StoreChildKeeps, FinalizeKeeps, RecordKeeps
       DEF CommitRecord
  <1>4. \/ UNCHANGED operation
        \/ \E w \in Workers : \/ Prepare(w)
                              \/ Reject(w) \/ StoreChild(w) \/ Finalize(w)
                              \/ CommitRecord(w)
    BY DEF Next, vars, Arrive, Proceed, StartOperation, StartRecovery,
           StartChildWebhook, Preflight, CallProvider, Verify, VerifyUnavailable,
           MatchChild, Crash, ProviderDecides, LearnVoided, Keep
  <1>5. QED BY <1>1, <1>2, <1>3, <1>4, UnchangedKeeps

LEMMA InitTable ==
  ASSUME Init
  PROVE  TableOK
  BY DEF Init, TableOK, RowOK, Unborn

-----------------------------------------------------------------------------
\* One operation of a payment at a time.

LEMMA PendingMembers ==
  \A i, k : k \in PendingOf(i) <=>
    /\ k \in Keys /\ operation[k].payment = i /\ operation[k].type \in Type
    /\ operation[k].status = "pending"
  BY DEF PendingOf, Of

LEMMA OnePendingStep ==
  ASSUME TableOK, OnePending, [Next]_vars
  PROVE  OnePending'
  <1> SUFFICES ASSUME NEW i \in Payments, NEW j \in PendingOf(i)', NEW k \in PendingOf(i)'
               PROVE  j = k
    BY DEF OnePending
  <1>1. \A l \in PendingOf(i)' :
          /\ l \in Keys /\ operation'[l].payment = i /\ operation'[l].type \in Type
          /\ operation'[l].status = "pending"
    BY DEF PendingOf, Of
  <1>2. CASE \A l \in Keys : Keeps(l)
    <2>1. j \in PendingOf(i) /\ k \in PendingOf(i)
      BY <1>1, <1>2, PendingMembers DEF Keeps
    <2>2. QED BY <2>1 DEF OnePending
  <1>3. CASE \E c \in Keys : Adds(c)
    <2>1. PICK c \in Keys : Adds(c)
      BY <1>3
    <2>2. \A l \in PendingOf(i)' \ {c} : l \in PendingOf(i)
      BY <1>1, <2>1, PendingMembers DEF Adds
    <2>3. operation'[c].payment = i => PendingOf(i) = {}
      BY <2>1 DEF Adds
    <2>4. CASE operation'[c].payment = i
      BY <2>2, <2>3, <2>4
    <2>5. CASE operation'[c].payment # i
      <3>1. j # c /\ k # c
        BY <1>1, <2>5
      <3>2. QED BY <2>2, <3>1 DEF OnePending
    <2>6. QED BY <2>4, <2>5
  <1>4. QED BY <1>2, <1>3, StepKeepsOrAdds

\* However requests, recoveries and webhooks interleave, a payment has at most
\* one operation that awaits the provider: the read of the pending ones and the
\* insertion are under one advisory lock.
THEOREM OneOperationPending == Spec => []OnePending
  <1>1. Init => TableOK /\ OnePending
    <2> SUFFICES ASSUME Init PROVE TableOK /\ OnePending
      OBVIOUS
    <2>1. \A k \in Keys : operation[k].status = "unborn"
      BY DEF Init, Unborn
    <2>2. QED BY <2>1, InitTable, PendingMembers DEF OnePending
  <1>2. TableOK /\ OnePending /\ [Next]_vars => TableOK' /\ OnePending'
    BY StepKeepsOrAdds, OnePendingStep
  <1>3. QED BY <1>1, <1>2, PTL DEF Spec

\* The result of an operation is never rewritten: each of the three ways to
\* record one asks whether the operation is still pending.
THEOREM ResultsAreFinal == Spec => ResultIsFinal
  <1> DEFINE Final == \A k \in Keys : operation[k].status \in {"succeeded", "failed"} =>
                        operation'[k].status = operation[k].status
  <1>1. TableOK /\ [Next]_vars => TableOK'
    BY StepKeepsOrAdds
  <1>2. TableOK /\ [Next]_vars => [Final]_vars
    <2> SUFFICES ASSUME TableOK, [Next]_vars, NEW k \in Keys,
                        operation[k].status \in {"succeeded", "failed"}
                 PROVE  operation'[k].status = operation[k].status
      OBVIOUS
    <2>1. CASE \A j \in Keys : Keeps(j)
      BY <2>1 DEF Keeps
    <2>2. CASE \E c \in Keys : Adds(c)
      BY <2>2 DEF Adds
    <2>3. QED BY <2>1, <2>2, StepKeepsOrAdds
  <1>3. QED BY <1>1, <1>2, InitTable, PTL DEF Spec, ResultIsFinal
-----------------------------------------------------------------------------
\* What has failed has not been done: a failure is recorded by the request that has
\* not asked the provider yet or has been refused, or after the child of the
\* operation itself has failed. A request may ask about the child of another
\* operation only when a webhook has taken it for that of its own.

RequestOK(r) ==
  r \in [step : {r.step}, key : {r.key}, payment : {r.payment}, type : {r.type},
         amount : {r.amount}, read : {r.read}, answer : {r.answer},
         links : {r.links}]

\* The steps at which a request works on an operation that exists, and those at
\* which it is the only one that may ask the provider or has been refused.
KeySteps == {"preflight", "call", "reject", "store", "verify", "finalize", "record"}
OwnSteps == {"preflight", "call", "reject"}

\* The transactions that can be asked about operation k.
Knows(k, tx) ==
  \/ tx \in {k, operation[k].parent}
  \/ /\ tx \in Keys /\ operation[tx].status # "unborn"
     /\ operation[tx].payment = operation[k].payment
     /\ Confusable(k)

\* What a webhook tells of a child.
Told(a) ==
  /\ a.tx \in Keys /\ made[a.tx] # "none"
  /\ Provider[operation[a.tx].payment] = "paymob"
  /\ a.child \in {"succeeded", "failed"} => made[a.tx] = a.child
  /\ a.refunded = 0 /\ ~a.full /\ ~a.voided /\ ~a.captured

\* A failure is that of the operation's own child, or of one it may be confused with.
Fits(w) ==
  LET r == op[w]  k == r.key
  IN  /\ RequestOK(r)
      /\ r.step \in {"idle", "prepare", "match"} \cup KeySteps
      /\ r.step \in {"prepare"} \cup KeySteps => k \in Keys
      /\ r.step \in KeySteps => operation[k].status # "unborn"
      /\ r.step \in OwnSteps => made[k] = "none"
      /\ r.step \in {"preflight", "call"} =>
           operation[k].status # "failed" \/ Confusable(k)
      /\ r.step = "match" => Told(r.answer)
      /\ r.step \in {"verify", "finalize", "record"} => Knows(k, r.answer.tx)
      /\ /\ r.step \in {"finalize", "record"}
         /\ r.answer.tx # operation[k].parent /\ r.answer.child = "failed"
         => made[k] = "failed" \/ Confusable(k)

RowFits(k) ==
  /\ operation[k].status = "unborn" => made[k] = "none"
  /\ operation[k].status # "unborn" =>
       operation[k].child = None \/ Knows(k, operation[k].child)
  /\ operation[k].status = "failed" => made[k] \in {"none", "failed"} \/ Confusable(k)

Alone ==
  \A v, w \in Workers :
    /\ op[v].step \in OwnSteps /\ op[w].step \in OwnSteps
    /\ op[v].key = op[w].key
    => v = w

Careful ==
  /\ TableOK
  /\ op \in [Workers -> {op[w] : w \in Workers}]
  /\ made \in [Keys -> ChildStatus]
  /\ \A w \in Workers : Fits(w)
  /\ \A k \in Keys : RowFits(k)
  /\ Alone

LEMMA InitCareful ==
  ASSUME Init
  PROVE  Careful
  <1>1. TableOK
    BY InitTable
  <1>2. /\ op \in [Workers -> {op[w] : w \in Workers}]
        /\ made \in [Keys -> ChildStatus]
    BY DEF Init, ChildStatus
  <1>3. \A w \in Workers : Fits(w)
    BY DEF Init, Idle, Fits, RequestOK, KeySteps, OwnSteps
  <1>4. \A k \in Keys : RowFits(k)
    BY DEF Init, Unborn, RowFits
  <1>5. Alone
    BY DEF Init, Idle, Alone, OwnSteps
  <1>6. QED BY <1>1, <1>2, <1>3, <1>4, <1>5 DEF Careful

\* Only the request of w goes on.
Moves(w) ==
  /\ op' \in [Workers -> {op'[v] : v \in Workers}]
  /\ \A v \in Workers \ {w} : op'[v] = op[v]

\* Operations stay what was asked for, those that are over stay as they are, and
\* what the provider has made stays made.
Advances ==
  \A k \in Keys :
    LET o == operation[k]  n == operation'[k]
    IN  /\ o.status # "unborn" =>
             /\ n.status # "unborn" /\ n.payment = o.payment /\ n.type = o.type
             /\ n.parent = o.parent
        /\ o.status \in {"succeeded", "failed"} => n = o
        /\ made[k] # "none" => made'[k] # "none"
        /\ made[k] \in {"succeeded", "failed"} => made'[k] = made[k]

\* The operation a request is about to ask for is left alone.
Spares(v) ==
  \A k : k = op[v].key =>
    /\ op[v].step \in OwnSteps => made'[k] = "none"
    /\ op[v].step \in {"preflight", "call"} =>
         operation'[k].status # "failed" \/ Confusable(k)'

LEMMA ConfusableStays ==
  ASSUME Advances, NEW k \in Keys, operation[k].status # "unborn", Confusable(k)
  PROVE  Confusable(k)'
  <1>1. PICK j \in Keys \ {k} : /\ operation[j].parent = operation[k].parent
                                /\ operation[j].type = operation[k].type /\ Unnamed(j)
    BY DEF Confusable
  <1>2. operation'[j] = operation[j] /\ made'[j] # "none"
    BY <1>1 DEF Unnamed, Advances
  <1>3. operation'[k].parent = operation[k].parent /\ operation'[k].type = operation[k].type
    BY DEF Advances
  <1>4. Unnamed(j)'
    BY <1>1, <1>2 DEF Unnamed
  <1>5. QED BY <1>1, <1>2, <1>3, <1>4 DEF Confusable

LEMMA KnowsStays ==
  ASSUME Advances, NEW k \in Keys, operation[k].status # "unborn", NEW tx, Knows(k, tx)
  PROVE  Knows(k, tx)'
  <1>1. /\ operation'[k].parent = operation[k].parent
        /\ operation'[k].payment = operation[k].payment
    BY DEF Advances
  <1>2. CASE tx \in {k, operation[k].parent}
    BY <1>1, <1>2 DEF Knows
  <1>3. CASE /\ tx \in Keys /\ operation[tx].status # "unborn"
             /\ operation[tx].payment = operation[k].payment /\ Confusable(k)
    <2>1. operation'[tx].status # "unborn" /\ operation'[tx].payment = operation[tx].payment
      BY <1>3 DEF Advances
    <2>2. QED BY <1>1, <1>3, <2>1, ConfusableStays DEF Knows
  <1>4. QED BY <1>2, <1>3 DEF Knows

LEMMA ToldStays ==
  ASSUME Careful, Advances, NEW a, Told(a)
  PROVE  Told(a)'
  <1>1. operation[a.tx].status # "unborn"
    BY DEF Careful, RowFits, Told
  <1>2. /\ operation'[a.tx].payment = operation[a.tx].payment /\ made'[a.tx] # "none"
        /\ made[a.tx] \in {"succeeded", "failed"} => made'[a.tx] = made[a.tx]
    BY <1>1 DEF Told, Advances
  <1>3. QED BY <1>2 DEF Told

LEMMA OthersFit ==
  ASSUME Careful, NEW v \in Workers, op'[v] = op[v], Advances, Spares(v)
  PROVE  Fits(v)'
  <1> PICK k : k = op[v].key
    OBVIOUS
  <1> PICK a : a = op[v].answer
    OBVIOUS
  <1>1. Fits(v)
    BY DEF Careful
  <1>2. k \in Keys /\ operation[k].status # "unborn" =>
          /\ operation'[k].status # "unborn"
          /\ operation'[k].parent = operation[k].parent
          /\ made[k] = "failed" => made'[k] = "failed"
          /\ Confusable(k) => Confusable(k)'
          /\ Knows(k, a.tx) => Knows(k, a.tx)'
    BY ConfusableStays, KnowsStays DEF Advances
  <1>3. Told(a) => Told(a)'
    BY ToldStays
  <1>4. op'[v].key = k /\ op'[v].answer = a
    OBVIOUS
  <1>5. op[v].step \in KeySteps => k \in Keys /\ operation[k].status # "unborn"
    BY <1>1 DEF Fits, KeySteps
  <1>6. /\ op[v].step \in {"verify", "finalize", "record"} => Knows(k, a.tx)'
        /\ op[v].step = "match" => Told(a)'
    BY <1>1, <1>2, <1>3, <1>5 DEF Fits, KeySteps
  <1>7. /\ op[v].step \in {"finalize", "record"}
        /\ a.tx # operation'[k].parent /\ a.child = "failed"
        => made'[k] = "failed" \/ Confusable(k)'
    BY <1>1, <1>2, <1>5 DEF Fits, KeySteps
  <1>8. /\ op[v].step \in OwnSteps => made'[k] = "none"
        /\ op[v].step \in {"preflight", "call"} =>
             operation'[k].status # "failed" \/ Confusable(k)'
    BY DEF Spares
  <1>9. /\ RequestOK(op[v]) /\ op[v].step \in {"idle", "prepare", "match"} \cup KeySteps
        /\ op[v].step \in {"prepare"} \cup KeySteps => k \in Keys
        /\ op[v].step \in KeySteps => operation'[k].status # "unborn"
    BY <1>1, <1>2, <1>5 DEF Fits
  <1>10. QED
    BY <1>4, <1>6, <1>7, <1>8, <1>9 DEF Fits

LEMMA Assemble ==
  ASSUME Careful, NEW w \in Workers, Moves(w), TableOK',
         made' \in [Keys -> ChildStatus], Advances, Fits(w)',
         \A v \in Workers \ {w} : Spares(v),
         \A k \in Keys : RowFits(k)',
         op'[w].step \in OwnSteps =>
           \A v \in Workers \ {w} : op[v].step \in OwnSteps => op[v].key # op'[w].key
  PROVE  Careful'
  <1>1. \A v \in Workers : Fits(v)'
    BY OthersFit DEF Moves
  <1>2. Alone'
    BY DEF Careful, Alone, Moves
  <1>3. QED BY <1>1, <1>2 DEF Careful, Moves

\* What is said of the rows when the tables stay as they are.
LEMMA SameTables ==
  ASSUME UNCHANGED <<operation, made>>
  PROVE  /\ \A k : (Confusable(k)' <=> Confusable(k)) /\ (RowFits(k)' <=> RowFits(k))
         /\ \A k, tx : Knows(k, tx)' <=> Knows(k, tx)
         /\ \A a : Told(a)' <=> Told(a)
  BY DEF Confusable, Unnamed, RowFits, Knows, Told

\* A step that leaves the tables alone.
LEMMA RequestOnly ==
  ASSUME Careful, NEW w \in Workers, Moves(w), UNCHANGED <<operation, made>>, Fits(w)',
         op'[w].step \in OwnSteps =>
           op[w].step \in OwnSteps /\ op'[w].key = op[w].key
  PROVE  Careful'
  <1>1. TableOK' /\ made' \in [Keys -> ChildStatus] /\ Advances
    BY UnchangedKeeps DEF Careful, Advances
  <1>2. ASSUME NEW v \in Workers
        PROVE  Spares(v)
    <2> SUFFICES ASSUME NEW k, k = op[v].key
                 PROVE  /\ op[v].step \in OwnSteps => made'[k] = "none"
                        /\ op[v].step \in {"preflight", "call"} =>
                             operation'[k].status # "failed" \/ Confusable(k)'
      BY DEF Spares
    <2>1. Fits(v) /\ (Confusable(k)' <=> Confusable(k))
      BY SameTables DEF Careful
    <2>2. QED BY <2>1 DEF Fits
  <1>3. \A k \in Keys : RowFits(k)'
    BY SameTables DEF Careful
  <1>4. op'[w].step \in OwnSteps =>
          \A v \in Workers \ {w} : op[v].step \in OwnSteps => op[v].key # op'[w].key
    BY DEF Careful, Alone
  <1>5. QED BY <1>1, <1>2, <1>3, <1>4, Assemble

LEMMA AbortMoves ==
  ASSUME Careful, NEW w \in Workers, Abort(w)
  PROVE  Moves(w) /\ Fits(w)' /\ op'[w].step = "idle"
  <1>1. op'[w] = Idle
    BY DEF Careful, Abort
  <1>2. Moves(w)
    BY DEF Careful, Abort, Moves
  <1>3. Fits(w)' /\ op'[w].step = "idle"
    BY <1>1 DEF Idle, Fits, RequestOK, KeySteps, OwnSteps
  <1>4. QED BY <1>2, <1>3

LEMMA GotoMoves ==
  ASSUME Careful, NEW w \in Workers, NEW s, Goto(w, s)
  PROVE  /\ Moves(w) /\ RequestOK(op'[w])
         /\ op'[w].step = s /\ op'[w].key = op[w].key
         /\ op'[w].answer = op[w].answer /\ op'[w].links = op[w].links
  <1>1. RequestOK(op[w])
    BY DEF Careful, Fits
  <1>2. Moves(w)
    BY DEF Careful, Goto, Moves
  <1>3. op'[w] = [op[w] EXCEPT !.step = s]
    BY DEF Careful, Goto
  <1>4. QED BY <1>1, <1>2, <1>3 DEF RequestOK

-----------------------------------------------------------------------------
\* Every action keeps it.

LEMMA Now ==
  ASSUME Careful, NEW w \in Workers
  PROVE  Fits(w) /\ (op[w].step \in {"prepare"} \cup KeySteps => RowFits(op[w].key))
  BY DEF Careful, Fits

\* A request about to ask is spared by a step that leaves its operation unmade, and
\* fails it only when it may be confused.
LEMMA Spared ==
  ASSUME Careful, Advances, NEW v \in Workers,
         op[v].step \in OwnSteps =>
           \A k : k = op[v].key =>
             /\ made'[k] = made[k]
             /\ operation'[k].status = "failed" =>
                  operation[k].status = "failed" \/ Confusable(k)
  PROVE  Spares(v)
  <1> SUFFICES ASSUME NEW k, k = op[v].key
               PROVE  /\ op[v].step \in OwnSteps => made'[k] = "none"
                      /\ op[v].step \in {"preflight", "call"} =>
                           operation'[k].status # "failed" \/ Confusable(k)'
    BY DEF Spares
  <1>1. /\ op[v].step \in OwnSteps => /\ made[k] = "none" /\ k \in Keys
                                      /\ operation[k].status # "unborn"
        /\ op[v].step \in {"preflight", "call"} =>
             operation[k].status # "failed" \/ Confusable(k)
    BY DEF Careful, Fits, KeySteps, OwnSteps
  <1>2. op[v].step \in OwnSteps /\ Confusable(k) => Confusable(k)'
    BY <1>1, ConfusableStays
  <1>3. QED BY <1>1, <1>2 DEF OwnSteps

\* A row that a step leaves alone.
LEMMA RowStays ==
  ASSUME Careful, Advances, NEW j \in Keys, operation'[j] = operation[j],
         \/ made'[j] = made[j]
         \/ /\ operation[j].status # "unborn"
            /\ operation[j].status = "failed" => Confusable(j)
  PROVE  RowFits(j)'
  <1> PICK c : c = operation[j].child
    OBVIOUS
  <1>1. RowFits(j)
    BY DEF Careful
  <1>2. CASE operation[j].status = "unborn"
    BY <1>1, <1>2 DEF RowFits
  <1>3. CASE operation[j].status # "unborn"
    <2>1. c = None \/ Knows(j, c)'
      BY <1>1, <1>3, KnowsStays DEF RowFits
    <2>2. operation[j].status = "failed" => made'[j] \in {"none", "failed"} \/ Confusable(j)'
      BY <1>1, <1>3, ConfusableStays DEF RowFits
    <2>3. operation'[j].child = c
      OBVIOUS
    <2>4. QED BY <1>3, <2>1, <2>2, <2>3 DEF RowFits
  <1>4. QED BY <1>2, <1>3

LEMMA AbortKeeps ==
  ASSUME Careful, NEW w \in Workers, Abort(w), UNCHANGED <<operation, made>>
  PROVE  Careful'
  BY AbortMoves, RequestOnly DEF OwnSteps

LEMMA StartOperationKeeps ==
  ASSUME Careful, NEW w \in Workers, NEW i \in Payments, NEW k \in Keys,
         StartOperation(w, i, k)
  PROVE  Careful'
  <1>1. Moves(w)
    BY DEF Careful, Moves, StartOperation
  <1>2. RequestOK(op'[w]) /\ op'[w].step = "prepare" /\ op'[w].key = k
    <2>1. PICK r \in Requests :
            op' = [op EXCEPT ![w] =
                     [Idle EXCEPT !.step = "prepare", !.key = k, !.payment = i,
                                  !.type = r[1],
                                  !.amount = IF r[1] = "void" THEN Amount[i] ELSE r[2],
                                  !.read = payment[i]]]
      BY DEF StartOperation
    <2> DEFINE type == r[1]
               amount == IF r[1] = "void" THEN Amount[i] ELSE r[2]
               read == payment[i]
    <2>2. op'[w] = [Idle EXCEPT !.step = "prepare", !.key = k, !.payment = i,
                                !.type = type, !.amount = amount, !.read = read]
      BY <2>1 DEF Careful
    <2> HIDE DEF type, amount, read
    <2>3. QED BY <2>2 DEF Idle, RequestOK
  <1>3. Fits(w)'
    BY <1>2 DEF Fits, KeySteps, OwnSteps
  <1>4. QED BY <1>1, <1>2, <1>3, RequestOnly DEF StartOperation, Keep, OwnSteps

LEMMA StartRecoveryKeeps ==
  ASSUME Careful, NEW w \in Workers, NEW k \in Keys, StartRecovery(w, k)
  PROVE  Careful'
  <1> PICK tx : tx = Asked(operation[k])
    OBVIOUS
  <1>1. operation[k].status = "pending" /\ UNCHANGED <<operation, made>>
    BY DEF StartRecovery, Keep
  <1>2. Knows(k, tx)'
    <2>1. Knows(k, tx)
      BY <1>1 DEF Careful, RowFits, Asked, Knows
    <2>2. QED BY <1>1, <2>1, SameTables
  <1>3. op' = [op EXCEPT ![w] = [Idle EXCEPT !.step = "verify", !.key = k,
                  !.payment = operation[k].payment,
                  !.answer = [NoAnswer EXCEPT !.tx = tx]]]
    BY DEF StartRecovery
  <1>4. Moves(w)
    BY <1>3 DEF Careful, Moves
  <1>5. /\ RequestOK(op'[w]) /\ op'[w].step = "verify" /\ op'[w].key = k
        /\ op'[w].answer.tx = tx
    BY <1>3 DEF Careful, Idle, NoAnswer, RequestOK
  <1>6. Fits(w)'
    BY <1>1, <1>2, <1>5 DEF Fits, KeySteps, OwnSteps
  <1>7. QED BY <1>1, <1>4, <1>5, <1>6, RequestOnly DEF OwnSteps

LEMMA StartChildWebhookKeeps ==
  ASSUME Careful, NEW w \in Workers, NEW k \in Keys, StartChildWebhook(w, k)
  PROVE  Careful'
  <1> PICK a : a = LookAtChild(k)
    OBVIOUS
  <1>1. /\ made[k] # "none" /\ Provider[operation[k].payment] = "paymob"
        /\ UNCHANGED <<operation, made>>
    BY DEF StartChildWebhook, Keep
  <1>2. /\ a.tx = k /\ a.child = made[k] /\ a.refunded = 0 /\ a.full = FALSE
        /\ a.voided = FALSE /\ a.captured = FALSE
    BY DEF LookAtChild, NoAnswer
  <1>3. Told(a)'
    BY <1>1, <1>2 DEF Told
  <1>4. op' = [op EXCEPT ![w] = [Idle EXCEPT !.step = "match",
                  !.payment = operation[k].payment, !.answer = a]]
    BY DEF StartChildWebhook
  <1>5. Moves(w)
    BY <1>4 DEF Careful, Moves
  <1>6. RequestOK(op'[w]) /\ op'[w].step = "match" /\ op'[w].answer = a
    BY <1>4 DEF Careful, Idle, RequestOK
  <1>7. Fits(w)'
    BY <1>3, <1>6 DEF Fits, KeySteps, OwnSteps
  <1>8. QED BY <1>1, <1>5, <1>6, <1>7, RequestOnly DEF OwnSteps

LEMMA PreflightKeeps ==
  ASSUME Careful, NEW w \in Workers, Preflight(w)
  PROVE  Careful'
  <1> PICK k : k = op[w].key
    OBVIOUS
  <1>1. UNCHANGED <<operation, made>> /\ op[w].step = "preflight"
    BY DEF Preflight, Keep
  <1>2. PICK s \in {"call", "reject"} : Goto(w, s)
    BY DEF Preflight
  <1>3. /\ k \in Keys /\ operation[k].status # "unborn" /\ made[k] = "none"
        /\ operation[k].status # "failed" \/ Confusable(k)'
    BY <1>1, Now, SameTables DEF Fits, KeySteps, OwnSteps
  <1>4. /\ Moves(w) /\ RequestOK(op'[w]) /\ op'[w].step = s /\ op'[w].key = k
    BY <1>2, GotoMoves
  <1>5. Fits(w)'
    BY <1>1, <1>3, <1>4 DEF Fits, KeySteps, OwnSteps
  <1>6. QED BY <1>1, <1>4, <1>5, RequestOnly DEF OwnSteps

LEMMA VerifyKeeps ==
  ASSUME Careful, NEW w \in Workers, Verify(w)
  PROVE  Careful'
  <1> PICK k : k = op[w].key
    OBVIOUS
  <1> PICK tx : tx = op[w].answer.tx
    OBVIOUS
  <1> PICK p : p = operation[k].parent
    OBVIOUS
  <1> PICK a : a = IF tx = p THEN Look(tx) ELSE LookAtChild(tx)
    OBVIOUS
  <1>1. /\ op[w].step = "verify" /\ UNCHANGED <<operation, made>>
        /\ op' = [op EXCEPT ![w].step = "finalize", ![w].answer = a]
    BY DEF Verify, Keep
  <1>2. Knows(k, tx) /\ k \in Keys /\ operation[k].status # "unborn"
    BY <1>1, Now DEF Fits, KeySteps
  <1>3. a.tx = tx /\ (tx # p => a.child = made[tx])
    <2>1. Look(tx).tx = tx
      BY DEF Look, NoAnswer
    <2>2. LookAtChild(tx).tx = tx /\ LookAtChild(tx).child = made[tx]
      BY DEF LookAtChild, NoAnswer
    <2>3. QED BY <2>1, <2>2
  <1>4. tx # p /\ a.child = "failed" => made[k] = "failed" \/ Confusable(k)
    BY <1>2, <1>3 DEF Knows
  <1>5. Moves(w)
    BY <1>1 DEF Careful, Moves
  <1>6. op'[w] = [op[w] EXCEPT !.step = "finalize", !.answer = a]
    BY <1>1 DEF Careful
  <1>7. RequestOK(op[w])
    BY Now DEF Fits
  <1>8. /\ RequestOK(op'[w]) /\ op'[w].step = "finalize" /\ op'[w].key = k
        /\ op'[w].answer = a
    BY <1>6, <1>7 DEF RequestOK
  <1>9. Fits(w)'
    <2>1. /\ Knows(k, tx)'
          /\ tx # p /\ a.child = "failed" => made'[k] = "failed" \/ Confusable(k)'
          /\ operation'[k].status # "unborn" /\ operation'[k].parent = p
      BY <1>1, <1>2, <1>4, SameTables
    <2>2. QED BY <1>2, <1>3, <1>8, <2>1 DEF Fits, KeySteps, OwnSteps
  <1>10. QED BY <1>1, <1>5, <1>8, <1>9, RequestOnly DEF OwnSteps

LEMMA PrepareKeeps ==
  ASSUME Careful, NEW w \in Workers, Prepare(w)
  PROVE  Careful'
  <1> PICK k : k = op[w].key
    OBVIOUS
  <1>1. op[w].step = "prepare" /\ made' = made /\ k \in Keys
    BY Now DEF Prepare, Fits
  <1>2. CASE Abort(w) /\ UNCHANGED operation
    BY <1>1, <1>2, AbortKeeps
  <1>3. ASSUME NEW n, NEW s \in {"preflight", "call"}, MayPrepare(op[w]),
               n.status = "pending", n.child = None,
               operation' = [operation EXCEPT ![k] = n], Goto(w, s)
        PROVE  Careful'
    <2>1. TableOK' /\ operation[k].status = "unborn" /\ made[k] = "none"
      <3>1. TableOK'
        BY PrepareAdds DEF Careful
      <3>2. operation[k].status = "unborn"
        BY <1>3 DEF MayPrepare
      <3>3. QED BY <1>1, <3>1, <3>2 DEF Careful, RowFits
    <2>2. operation'[k] = n /\ \A j \in Keys \ {k} : operation'[j] = operation[j]
      BY <1>1, <1>3 DEF Careful, TableOK
    <2>3. Advances
      BY <1>1, <2>1, <2>2 DEF Advances
    <2>4. \A v \in Workers \ {w} : op[v].step \in OwnSteps =>
            op[v].key # k /\ op[v].key \in Keys
      BY <2>1 DEF Careful, Fits, KeySteps, OwnSteps
    <2>5. \A v \in Workers \ {w} : Spares(v)
      BY <1>1, <2>2, <2>3, <2>4, Spared
    <2>6. Fits(w)'
      <3>1. RequestOK(op'[w]) /\ op'[w].step = s /\ op'[w].key = k
        BY <1>3, GotoMoves
      <3>2. operation'[k].status = "pending" /\ made'[k] = "none"
        BY <1>1, <1>3, <2>1, <2>2
      <3>3. QED BY <1>1, <3>1, <3>2 DEF Fits, KeySteps, OwnSteps
    <2>7. \A j \in Keys : RowFits(j)'
      <3>1. RowFits(k)'
        BY <1>1, <1>3, <2>2 DEF RowFits
      <3>2. \A j \in Keys \ {k} : RowFits(j)'
        BY <1>1, <2>2, <2>3, RowStays
      <3>3. QED BY <3>1, <3>2
    <2>8. Moves(w) /\ op'[w].key = k
      BY <1>3, GotoMoves
    <2>9. made' \in [Keys -> ChildStatus]
      BY <1>1 DEF Careful
    <2>10. QED BY <2>1, <2>3, <2>4, <2>5, <2>6, <2>7, <2>8, <2>9, Assemble
  <1>4. \/ Abort(w) /\ UNCHANGED operation
        \/ /\ MayPrepare(op[w])
           /\ \E n, s : /\ s \in {"preflight", "call"}
                        /\ n.status = "pending" /\ n.child = None
                        /\ operation' = [operation EXCEPT ![k] = n] /\ Goto(w, s)
    BY DEF Prepare
  <1>5. QED BY <1>2, <1>3, <1>4

LEMMA CallProviderKeeps ==
  ASSUME Careful, NEW w \in Workers, CallProvider(w)
  PROVE  Careful'
  <1> PICK k : k = op[w].key
    OBVIOUS
  <1>1. /\ op[w].step = "call" /\ UNCHANGED operation /\ k \in Keys
        /\ made[k] = "none" /\ operation[k].status # "unborn"
        /\ operation[k].status = "failed" => Confusable(k)
        /\ RequestOK(op[w])
    BY Now DEF CallProvider, Fits, KeySteps, OwnSteps
  <1>2. ASSUME NEW s \in {"pending", "succeeded"}, made' = [made EXCEPT ![k] = s],
               Moves(w), Fits(w)', op'[w].step \notin OwnSteps
        PROVE  Careful'
    <2>1. /\ TableOK' /\ made' \in [Keys -> ChildStatus]
          /\ \A j \in Keys \ {k} : made'[j] = made[j]
      BY <1>1, <1>2, UnchangedKeeps DEF Careful, ChildStatus
    <2>2. Advances
      BY <1>1, <1>2 DEF Careful, Advances
    <2>3. \A v \in Workers \ {w} : op[v].step \in OwnSteps =>
            op[v].key # k /\ op[v].key \in Keys
      BY <1>1 DEF Careful, Alone, Fits, KeySteps, OwnSteps
    <2>4. \A v \in Workers \ {w} : Spares(v)
      BY <1>1, <2>1, <2>2, <2>3, Spared
    <2>5. \A j \in Keys : RowFits(j)'
      BY <1>1, <2>1, <2>2, RowStays
    <2>6. QED BY <1>2, <2>1, <2>2, <2>4, <2>5, Assemble
  <1>3. CASE UNCHANGED made /\ Abort(w)
    BY <1>1, <1>3, AbortKeeps
  <1>4. CASE UNCHANGED made /\ Goto(w, "reject")
    <2>1. Fits(w)'
      BY <1>1, <1>4, GotoMoves DEF Fits, KeySteps, OwnSteps
    <2>2. QED BY <1>1, <1>4, <2>1, GotoMoves, RequestOnly DEF OwnSteps
  <1>5. ASSUME NEW s \in {"pending", "succeeded"}, made' = [made EXCEPT ![k] = s],
               Abort(w)
        PROVE  Careful'
    BY <1>2, <1>5, AbortMoves DEF OwnSteps
  <1>6. ASSUME NEW s \in {"pending", "succeeded"}, made' = [made EXCEPT ![k] = s],
               NEW t \in {"finalize", "store"}, NEW a, a.tx = k, a.child # "failed",
               op' = [op EXCEPT ![w].step = t, ![w].answer = a]
        PROVE  Careful'
    <2>1. Moves(w) /\ op'[w] = [op[w] EXCEPT !.step = t, !.answer = a]
      BY <1>6 DEF Careful, Moves
    <2>2. /\ RequestOK(op'[w]) /\ op'[w].step = t /\ op'[w].key = k
          /\ op'[w].answer = a
      BY <1>1, <2>1 DEF RequestOK
    <2>3. Fits(w)'
      BY <1>1, <1>6, <2>2 DEF Fits, Knows, KeySteps, OwnSteps
    <2>4. QED BY <1>2, <1>6, <2>1, <2>2, <2>3 DEF OwnSteps
  <1>7. \/ UNCHANGED made /\ Abort(w)
        \/ UNCHANGED made /\ Goto(w, "reject")
        \/ \E s \in {"pending", "succeeded"} :
             /\ made' = [made EXCEPT ![k] = s]
             /\ \/ Abort(w)
                \/ \E t \in {"finalize", "store"} : \E a :
                     /\ a.tx = k /\ a.child # "failed"
                     /\ op' = [op EXCEPT ![w].step = t, ![w].answer = a]
    <2> DEFINE fawry == Provider[op[w].payment] = "fawry"
               c == IF fawry THEN "succeeded" ELSE "none"
               t == IF fawry THEN "finalize" ELSE "store"
               s == IF fawry THEN "succeeded" ELSE "pending"
               a == [NoAnswer EXCEPT !.tx = k, !.child = c]
    <2>1. a.tx = k /\ a.child = c /\ c # "failed"
      BY DEF NoAnswer
    <2>2. t \in {"finalize", "store"} /\ s \in {"pending", "succeeded"}
      OBVIOUS
    <2>3. \/ UNCHANGED made /\ Abort(w)
          \/ UNCHANGED made /\ Goto(w, "reject")
          \/ made' = [made EXCEPT ![k] = s] /\ Abort(w)
          \/ /\ made' = [made EXCEPT ![k] = s]
             /\ op' = [op EXCEPT ![w].step = t, ![w].answer = a]
      BY DEF CallProvider
    <2> HIDE DEF a, t, s
    <2>4. QED BY <2>1, <2>2, <2>3
  <1>8. QED BY <1>3, <1>4, <1>5, <1>6, <1>7

LEMMA RejectKeepsCareful ==
  ASSUME Careful, NEW w \in Workers, Reject(w)
  PROVE  Careful'
  <1> PICK k : k = op[w].key
    OBVIOUS
  <1>1. /\ op[w].step = "reject" /\ UNCHANGED made /\ k \in Keys
        /\ made[k] = "none" /\ operation[k].status # "unborn" /\ Abort(w)
    BY Now DEF Reject, Fits, KeySteps, OwnSteps
  <1>2. TableOK' /\ \A j \in Keys : Keeps(j)
    BY RejectKeeps DEF Careful
  <1>3. /\ \A j \in Keys \ {k} : operation'[j] = operation[j]
        /\ operation'[k].child = operation[k].child
        /\ operation[k].status # "pending" => operation'[k] = operation[k]
    BY <1>1 DEF Careful, TableOK, RowOK, Reject
  <1>4. Advances
    BY <1>1, <1>2, <1>3 DEF Keeps, Advances
  <1>5. \A v \in Workers \ {w} : Spares(v)
    <2>1. \A v \in Workers \ {w} : op[v].step \in OwnSteps =>
            op[v].key # k /\ op[v].key \in Keys
      BY <1>1 DEF Careful, Alone, Fits, KeySteps, OwnSteps
    <2>2. QED BY <1>1, <1>3, <1>4, <2>1, Spared
  <1>6. \A j \in Keys : RowFits(j)'
    <2> PICK c : c = operation[k].child
      OBVIOUS
    <2>1. c = None \/ Knows(k, c)'
      BY <1>1, <1>4, KnowsStays DEF Careful, RowFits
    <2>2. operation'[k].status # "unborn"
      BY <1>1, <1>4 DEF Advances
    <2>3. RowFits(k)'
      BY <1>1, <1>3, <2>1, <2>2 DEF RowFits
    <2>4. \A j \in Keys \ {k} : RowFits(j)'
      BY <1>1, <1>3, <1>4, RowStays
    <2>5. QED BY <2>3, <2>4
  <1>7. made' \in [Keys -> ChildStatus]
    BY <1>1 DEF Careful
  <1>8. QED
    BY <1>1, <1>2, <1>4, <1>5, <1>6, <1>7, AbortMoves, Assemble DEF OwnSteps

\* A write of the row of a pending operation.
Rewrote(k) ==
  /\ UNCHANGED made /\ TableOK' /\ \A j \in Keys : Keeps(j)
  /\ \A j \in Keys \ {k} : operation'[j] = operation[j]
  /\ operation[k].status = "pending" \/ operation'[k] = operation[k]

LEMMA RewroteAdvances ==
  ASSUME Careful, NEW k \in Keys, Rewrote(k)
  PROVE  Advances
  BY DEF Rewrote, Keeps, Advances

\* The write keeps it, when it is no failure, or one after the child's failure, and the
\* child can be asked about the operation.
LEMMA RowWriterKeeps ==
  ASSUME Careful, NEW w \in Workers, Moves(w), Fits(w)', op'[w].step \notin OwnSteps,
         NEW k \in Keys, operation[k].status # "unborn", Rewrote(k),
         NEW c, c = operation'[k].child, c = None \/ Knows(k, c),
         \/ operation'[k].status = operation[k].status
         \/ operation'[k].status = "failed" => made[k] = "failed" \/ Confusable(k)
  PROVE  Careful'
  <1>1. Advances
    BY RewroteAdvances
  <1>2. \A v \in Workers \ {w} : Spares(v)
    <2> SUFFICES ASSUME NEW v \in Workers \ {w}, op[v].step \in OwnSteps,
                        NEW l, l = op[v].key
                 PROVE  /\ made'[l] = made[l]
                        /\ operation'[l].status = "failed" =>
                             operation[l].status = "failed" \/ Confusable(l)
      BY <1>1, Spared
    <2>1. l \in Keys /\ made[l] = "none"
      BY DEF Careful, Fits, KeySteps, OwnSteps
    <2>2. QED BY <2>1 DEF Rewrote
  <1>3. \A j \in Keys : RowFits(j)'
    <2>1. c = None \/ Knows(k, c)'
      BY <1>1, KnowsStays
    <2>2. operation'[k].status # "unborn"
      BY <1>1 DEF Advances
    <2>3. operation'[k].status = "failed" => made'[k] \in {"none", "failed"} \/ Confusable(k)'
      <3>1. operation'[k].status = "failed" => made[k] \in {"none", "failed"} \/ Confusable(k)
        BY DEF Careful, RowFits
      <3>2. QED BY <1>1, <3>1, ConfusableStays DEF Rewrote
    <2>4. RowFits(k)'
      BY <2>1, <2>2, <2>3 DEF RowFits
    <2>5. \A j \in Keys \ {k} : RowFits(j)'
      BY <1>1, RowStays DEF Rewrote
    <2>6. QED BY <2>4, <2>5
  <1>4. made' \in [Keys -> ChildStatus] /\ TableOK'
    BY DEF Careful, Rewrote
  <1>5. QED BY <1>1, <1>2, <1>3, <1>4, Assemble

LEMMA StoreChildKeepsCareful ==
  ASSUME Careful, NEW w \in Workers, StoreChild(w)
  PROVE  Careful'
  <1> PICK k : k = op[w].key
    OBVIOUS
  <1>1. /\ op[w].step = "store" /\ UNCHANGED made /\ k \in Keys
        /\ operation[k].status # "unborn" /\ RequestOK(op[w])
    BY Now DEF StoreChild, Fits, KeySteps
  <1>2. CASE Abort(w) /\ UNCHANGED operation
    BY <1>1, <1>2, AbortKeeps
  <1>3. ASSUME NEW row, NEW c, row = [operation[k] EXCEPT !.child = c],
               c = None \/ Knows(k, c),
               operation[k].status = "pending" \/ c = operation[k].child,
               operation' = [operation EXCEPT ![k] = row],
               op' = [op EXCEPT ![w].step = "verify",
                                ![w].answer = [NoAnswer EXCEPT !.tx = Asked(row)]]
        PROVE  Careful'
    <2>1. TableOK' /\ \A j \in Keys : Keeps(j)
      BY StoreChildKeeps DEF Careful
    <2>2. /\ row.status = operation[k].status /\ row.child = c
          /\ row.parent = operation[k].parent
          /\ c = operation[k].child => row = operation[k]
      BY <1>1, <1>3 DEF Careful, TableOK, RowOK
    <2>3. operation'[k] = row /\ \A j \in Keys \ {k} : operation'[j] = operation[j]
      BY <1>1, <1>3 DEF Careful, TableOK
    <2>4. Rewrote(k)
      BY <1>1, <1>3, <2>1, <2>2, <2>3 DEF Rewrote
    <2> PICK tx : tx = Asked(row)
      OBVIOUS
    <2> PICK a : a = [NoAnswer EXCEPT !.tx = tx]
      OBVIOUS
    <2>5. Knows(k, tx)'
      <3>1. Knows(k, tx)
        BY <1>3, <2>2 DEF Asked, Knows
      <3>2. QED BY <1>1, <2>4, <3>1, RewroteAdvances, KnowsStays
    <2>6. a.tx = tx /\ a.child = "none"
      BY DEF NoAnswer
    <2>7. op' = [op EXCEPT ![w].step = "verify", ![w].answer = a]
      BY <1>3
    <2>8. Moves(w) /\ op'[w] = [op[w] EXCEPT !.step = "verify", !.answer = a]
      BY <2>7 DEF Careful, Moves
    <2>9. /\ RequestOK(op'[w]) /\ op'[w].step = "verify" /\ op'[w].key = k
          /\ op'[w].answer = a
      BY <1>1, <2>8 DEF RequestOK
    <2>10. Fits(w)'
      BY <1>1, <2>2, <2>3, <2>5, <2>6, <2>9 DEF Fits, KeySteps, OwnSteps
    <2>11. op'[w].step \notin OwnSteps
      BY <2>9 DEF OwnSteps
    <2>12. c = operation'[k].child /\ operation'[k].status = operation[k].status
      BY <2>2, <2>3
    <2>13. QED
      BY <1>1, <1>3, <2>4, <2>8, <2>10, <2>11, <2>12, RowWriterKeeps, ZenonT(40)
  <1>4. \/ Abort(w) /\ UNCHANGED operation
        \/ \E row, c :
             /\ row = [operation[k] EXCEPT !.child = c]
             /\ c = None \/ Knows(k, c)
             /\ operation[k].status = "pending" \/ c = operation[k].child
             /\ operation' = [operation EXCEPT ![k] = row]
             /\ op' = [op EXCEPT ![w].step = "verify",
                                 ![w].answer = [NoAnswer EXCEPT !.tx = Asked(row)]]
    <2>1. operation[k].child = None \/ Knows(k, operation[k].child)
      BY <1>1 DEF Careful, RowFits
    <2>2. PICK tx \in {k, operation[k].parent} :
            LET hit == operation[k].status = "pending"
                row == [operation[k] EXCEPT !.child = IF hit THEN tx ELSE @]
            IN  \/ Abort(w) /\ UNCHANGED operation
                \/ /\ operation' = [operation EXCEPT ![k] = row]
                   /\ op' = [op EXCEPT ![w].step = "verify",
                               ![w].answer = [NoAnswer EXCEPT !.tx = Asked(row)]]
      BY DEF StoreChild
    <2> DEFINE c == IF operation[k].status = "pending" THEN tx ELSE operation[k].child
    <2>3. /\ c = None \/ Knows(k, c)
          /\ operation[k].status = "pending" \/ c = operation[k].child
      BY <2>1 DEF Knows
    <2>4. \/ Abort(w) /\ UNCHANGED operation
          \/ /\ operation' = [operation EXCEPT ![k] = [operation[k] EXCEPT !.child = c]]
             /\ op' = [op EXCEPT ![w].step = "verify",
                         ![w].answer = [NoAnswer EXCEPT
                            !.tx = Asked([operation[k] EXCEPT !.child = c])]]
      BY <2>2
    <2> HIDE DEF c
    <2>5. QED BY <2>3, <2>4
  <1>5. QED BY <1>2, <1>3, <1>4

\* Writing the child or the result of a pending operation, the request ends.
LEMMA WriterKeeps ==
  ASSUME Careful, NEW w \in Workers, NEW k \in Keys, operation[k].status = "pending",
         NEW s, NEW c,
         operation' = [operation EXCEPT ![k] =
                         [operation[k] EXCEPT !.status = s, !.child = c]],
         s # "unborn", UNCHANGED made, Abort(w), c = None \/ Knows(k, c),
         s = "failed" => made[k] = "failed" \/ Confusable(k)
  PROVE  Careful'
  <1>1. s = operation[k].status \/ s \notin {"unborn", "pending"}
    OBVIOUS
  <1>2. /\ TableOK' /\ \A j \in Keys : Keeps(j)
        /\ operation'[k].status = s /\ operation'[k].child = c
        /\ \A j \in Keys \ {k} : operation'[j] = operation[j]
    <2>1. TableOK
      BY DEF Careful
    <2>2. QED BY <1>1, <2>1, UpdateKeeps
  <1>3. Rewrote(k)
    BY <1>2 DEF Rewrote
  <1>4. Moves(w) /\ Fits(w)' /\ op'[w].step \notin OwnSteps
    BY AbortMoves DEF OwnSteps
  <1>5. QED BY <1>2, <1>3, <1>4, RowWriterKeeps

\* What a request that has its answer may record.
LEMMA AnswerFits ==
  ASSUME Careful, NEW w \in Workers, op[w].step \in {"finalize", "record"},
         NEW k, k = op[w].key
  PROVE  /\ k \in Keys /\ operation[k].status # "unborn" /\ RequestOK(op[w])
         /\ Knows(k, op[w].answer.tx)
         /\ operation[k].child = None \/ Knows(k, operation[k].child)
         /\ Outcome(k, op[w].answer) = "failed" => made[k] = "failed" \/ Confusable(k)
  <1>1. Fits(w) /\ (op[w].step \in {"prepare"} \cup KeySteps => RowFits(k))
    BY Now
  <1>2. /\ k \in Keys /\ operation[k].status # "unborn" /\ RequestOK(op[w])
        /\ Knows(k, op[w].answer.tx) /\ RowFits(k)
    BY <1>1 DEF Fits, KeySteps
  <1>3. Outcome(k, op[w].answer) = "failed" => made[k] = "failed" \/ Confusable(k)
    BY <1>1, OutcomeValues DEF Fits
  <1>4. QED BY <1>2, <1>3 DEF RowFits

LEMMA RecordKeepsCareful ==
  ASSUME Careful, NEW w \in Workers, op[w].step \in {"finalize", "record"},
         Record(w, op[w].key, op[w].answer)
  PROVE  Careful'
  <1> PICK k : k = op[w].key
    OBVIOUS
  <1> PICK a : a = op[w].answer
    OBVIOUS
  <1> PICK out : out = Outcome(k, a)
    OBVIOUS
  <1> PICK c : c = IF Provider[operation[k].payment] = "paymob"
                        /\ (out = "succeeded" \/ (op[w].links /\ operation[k].child = None))
                     THEN a.tx ELSE operation[k].child
    OBVIOUS
  <1>1. /\ k \in Keys /\ (c = None \/ Knows(k, c))
        /\ out = "failed" => made[k] = "failed" \/ Confusable(k)
    BY AnswerFits
  <1>2. /\ UNCHANGED made /\ Abort(w)
        /\ \/ UNCHANGED operation
           \/ /\ operation[k].status = "pending"
              /\ operation' = [operation EXCEPT ![k].status = out, ![k].child = c]
    BY DEF Record
  <1>3. CASE UNCHANGED operation
    BY <1>2, <1>3, AbortKeeps
  <1>4. CASE /\ operation[k].status = "pending"
             /\ operation' = [operation EXCEPT ![k].status = out, ![k].child = c]
    <2>1. k \in Keys
      BY AnswerFits
    <2>2. operation' = [operation EXCEPT ![k] =
                          [operation[k] EXCEPT !.status = out, !.child = c]]
      BY <1>4, <2>1 DEF Careful, TableOK
    <2>3. out # "unborn"
      BY OutcomeValues
    <2>4. operation[k].status = "pending" /\ UNCHANGED made /\ Abort(w)
      BY <1>2, <1>4
    <2>5. QED BY <1>1, <2>1, <2>2, <2>3, <2>4, WriterKeeps, ZenonT(40)
  <1>5. QED BY <1>2, <1>3, <1>4

LEMMA FinalizeKeepsCareful ==
  ASSUME Careful, NEW w \in Workers, Finalize(w)
  PROVE  Careful'
  <1> PICK k : k = op[w].key
    OBVIOUS
  <1> PICK a : a = op[w].answer
    OBVIOUS
  <1>1. /\ op[w].step = "finalize" /\ k \in Keys /\ operation[k].status # "unborn"
        /\ Knows(k, a.tx) /\ RequestOK(op[w]) /\ Fits(w)
    BY AnswerFits, Now DEF Finalize
  <1>2. \/ Abort(w) /\ UNCHANGED <<operation, made>>
        \/ /\ Abort(w) /\ UNCHANGED made /\ operation[k].status = "pending"
           /\ operation' = [operation EXCEPT ![k].child = a.tx]
        \/ Record(w, k, a)
        \/ Goto(w, "record") /\ UNCHANGED <<operation, made>>
    BY DEF Finalize, Keep
  <1>3. CASE Abort(w) /\ UNCHANGED <<operation, made>>
    BY <1>3, AbortKeeps
  <1>4. CASE /\ Abort(w) /\ UNCHANGED made /\ operation[k].status = "pending"
             /\ operation' = [operation EXCEPT ![k].child = a.tx]
    <2> PICK c : c = a.tx
      OBVIOUS
    <2>1. operation' = [operation EXCEPT ![k] =
                          [operation[k] EXCEPT !.status = "pending", !.child = c]]
      BY <1>1, <1>4 DEF Careful, TableOK, RowOK
    <2>2. QED BY <1>1, <1>4, <2>1, WriterKeeps
  <1>5. CASE Record(w, k, a)
    BY <1>1, <1>5, RecordKeepsCareful
  <1>6. CASE Goto(w, "record") /\ UNCHANGED <<operation, made>>
    <2>1. /\ Moves(w) /\ RequestOK(op'[w]) /\ op'[w].step = "record" /\ op'[w].key = k
          /\ op'[w].answer = a
      BY <1>6, GotoMoves
    <2>2. /\ Knows(k, a.tx)'
          /\ a.tx # operation[k].parent /\ a.child = "failed" =>
               made[k] = "failed" \/ Confusable(k)'
      BY <1>1, <1>6, SameTables DEF Fits
    <2>3. Fits(w)'
      BY <1>1, <1>6, <2>1, <2>2 DEF Fits, KeySteps, OwnSteps
    <2>4. QED BY <1>6, <2>1, <2>3, RequestOnly DEF OwnSteps
  <1>7. QED BY <1>2, <1>3, <1>4, <1>5, <1>6

\* An operation has a status, and names a payment once it is born.
Placed ==
  \A k \in Keys :
    /\ operation[k].status \in OperationStatus
    /\ operation[k].status # "unborn" =>
         operation[k].payment \in Payments /\ operation[k].type \in Type

\* A webhook finds the operation of its child, or one that may be confused with it:
\* two operations of a payment are not pending together.
LEMMA MatchIsKnown ==
  ASSUME Careful, Placed, OnePending, NEW a, Told(a), NEW k \in Keys, Matches(k, a.tx),
         ~\E j \in Keys : operation[j].child = a.tx /\ operation[j].status # "pending"
  PROVE  Knows(k, a.tx) /\ (a.tx # k => Confusable(k))
  <1> PICK c : c = a.tx
    OBVIOUS
  <1>1. /\ c \in Keys /\ made[c] # "none" /\ operation[c].status # "unborn"
        /\ Provider[operation[c].payment] = "paymob"
    BY DEF Told, Careful, RowFits
  <1>2. /\ operation[k].status = "pending" /\ operation[k].payment = operation[c].payment
        /\ operation[k].type = operation[c].type /\ operation[k].parent = operation[c].parent
    BY DEF Matches
  <1>3. CASE c = k
    BY <1>3 DEF Knows
  <1>4. CASE c # k
    <2>1. operation[c].status # "pending"
      <3>1. /\ operation[k].payment \in Payments /\ operation[k].type \in Type
            /\ operation[c].type \in Type
        BY <1>1, <1>2 DEF Placed
      <3>2. k \in PendingOf(operation[k].payment)
        BY <1>2, <3>1, PendingMembers
      <3>3. operation[c].status = "pending" => c \in PendingOf(operation[k].payment)
        BY <1>1, <1>2, <3>1, PendingMembers
      <3>4. QED BY <1>4, <3>1, <3>2, <3>3 DEF OnePending
    <2>2. operation[c].child # c
      BY <1>1, <2>1
    <2>3. Unnamed(c)
      BY <1>1, <2>1, <2>2 DEF Unnamed, Placed, OperationStatus
    <2>4. Confusable(k)
      BY <1>1, <1>2, <1>4, <2>3 DEF Confusable
    <2>5. QED BY <1>1, <1>2, <2>4 DEF Knows
  <1>5. QED BY <1>3, <1>4

LEMMA MatchReads ==
  ASSUME NEW w \in Workers, MatchChild(w), NEW a, a = op[w].answer
  PROVE  \/ Abort(w)
         \/ /\ ~\E j \in Keys : operation[j].child = a.tx /\ operation[j].status # "pending"
            /\ \E k \in Keys :
                 /\ Matches(k, a.tx)
                 /\ \E l : op' = [op EXCEPT ![w].step = "finalize", ![w].key = k,
                                           ![w].links = l]
  BY DEF MatchChild

LEMMA MatchChildKeeps ==
  ASSUME Careful, Placed, OnePending, NEW w \in Workers, MatchChild(w)
  PROVE  Careful'
  <1> PICK a : a = op[w].answer
    OBVIOUS
  <1>1. Told(a) /\ RequestOK(op[w]) /\ UNCHANGED <<operation, made>>
    BY Now DEF MatchChild, Fits, Keep
  <1>2. CASE Abort(w)
    BY <1>1, <1>2, AbortKeeps
  <1>3. ASSUME NEW k \in Keys, Matches(k, a.tx), NEW l,
               ~\E j \in Keys : operation[j].child = a.tx /\ operation[j].status # "pending",
               op' = [op EXCEPT ![w].step = "finalize", ![w].key = k, ![w].links = l]
        PROVE  Careful'
    <2>1. Moves(w) /\ op'[w] = [op[w] EXCEPT !.step = "finalize", !.key = k, !.links = l]
      BY <1>3 DEF Careful, Moves
    <2>2. /\ RequestOK(op'[w]) /\ op'[w].step = "finalize" /\ op'[w].key = k
          /\ op'[w].answer = a
      BY <1>1, <2>1 DEF RequestOK
    <2>3. Knows(k, a.tx) /\ (a.tx # k => Confusable(k))
      BY <1>1, <1>3, MatchIsKnown
    <2>4. /\ Knows(k, a.tx)' /\ operation[k].status = "pending"
          /\ a.child = "failed" => made[k] = "failed" \/ Confusable(k)'
      BY <1>1, <1>3, <2>3, SameTables DEF Told, Matches
    <2>5. Fits(w)'
      BY <1>1, <2>2, <2>4 DEF Fits, KeySteps, OwnSteps
    <2>6. QED BY <1>1, <2>1, <2>2, <2>5, RequestOnly DEF OwnSteps
  <1>4. \/ Abort(w)
        \/ /\ ~\E j \in Keys : operation[j].child = a.tx /\ operation[j].status # "pending"
           /\ \E k \in Keys :
                /\ Matches(k, a.tx)
                /\ \E l : op' = [op EXCEPT ![w].step = "finalize", ![w].key = k,
                                          ![w].links = l]
    BY DEF MatchChild
  <1>5. QED BY <1>2, <1>3, <1>4

LEMMA ProviderDecidesKeeps ==
  ASSUME Careful, NEW k \in Keys, ProviderDecides(k)
  PROVE  Careful'
  <1>1. UNCHANGED <<operation, op>> /\ made[k] = "pending"
    BY DEF ProviderDecides
  <1>2. PICK s \in {"succeeded", "failed"} : made' = [made EXCEPT ![k] = s]
    BY DEF ProviderDecides
  <1>3. /\ TableOK' /\ made' \in [Keys -> ChildStatus] /\ Advances
        /\ \A j \in Keys : made'[j] = IF j = k THEN s ELSE made[j]
    BY <1>1, <1>2, UnchangedKeeps DEF Careful, Advances, ChildStatus
  <1>4. \A v \in Workers : Spares(v)
    <2>1. \A v \in Workers : op[v].step \in OwnSteps => op[v].key # k /\ op[v].key \in Keys
      BY <1>1 DEF Careful, Fits, KeySteps, OwnSteps
    <2>2. QED BY <1>1, <1>3, <2>1, Spared
  <1>5. \A v \in Workers : Fits(v)'
    BY <1>1, <1>3, <1>4, OthersFit
  <1>6. \A j \in Keys : RowFits(j)'
    <2>1. /\ operation[k].status # "unborn"
          /\ operation[k].status = "failed" => Confusable(k)
      BY <1>1 DEF Careful, RowFits
    <2>2. QED BY <1>1, <1>3, <2>1, RowStays
  <1>7. QED BY <1>1, <1>3, <1>5, <1>6 DEF Careful, Alone

LEMMA NextKeepsCareful ==
  ASSUME Careful, Placed, OnePending, [Next]_vars
  PROVE  Careful'
  <1>1. ASSUME UNCHANGED <<operation, made, op>>
        PROVE  Careful'
    <2>1. TableOK' /\ \A k \in Keys : RowFits(k)'
      BY <1>1, UnchangedKeeps, SameTables DEF Careful
    <2>2. /\ Advances /\ op' = op /\ made' = made
          /\ made' \in [Keys -> ChildStatus] /\ op' \in [Workers -> {op'[w] : w \in Workers}]
      BY <1>1 DEF Careful, Advances
    <2>3. \A v \in Workers : Fits(v)'
      <3>1. \A v \in Workers : Spares(v)
        BY <1>1, <2>2, Spared
      <3>2. QED BY <2>2, <3>1, OthersFit
    <2>4. QED BY <2>1, <2>2, <2>3 DEF Careful, Alone
  <1>2. ASSUME NEW w \in Workers, Arrive(w)
        PROVE  Careful'
    BY <1>2, StartOperationKeeps, StartRecoveryKeeps, StartChildWebhookKeeps DEF Arrive
  <1>3. ASSUME NEW w \in Workers, Proceed(w)
        PROVE  Careful'
    <2>1. CASE Prepare(w)
      BY <2>1, PrepareKeeps
    <2>2. CASE Preflight(w)
      BY <2>2, PreflightKeeps
    <2>3. CASE CallProvider(w)
      BY <2>3, CallProviderKeeps
    <2>4. CASE Reject(w)
      BY <2>4, RejectKeepsCareful
    <2>5. CASE StoreChild(w)
      BY <2>5, StoreChildKeepsCareful
    <2>6. CASE Verify(w)
      BY <2>6, VerifyKeeps
    <2>7. CASE VerifyUnavailable(w)
      BY <2>7, AbortKeeps DEF VerifyUnavailable, Keep
    <2>8. CASE MatchChild(w)
      BY <2>8, MatchChildKeeps
    <2>9. CASE Finalize(w)
      BY <2>9, FinalizeKeepsCareful
    <2>10. CASE CommitRecord(w)
      BY <2>10, RecordKeepsCareful DEF CommitRecord
    <2>11. QED
      BY <1>3, <2>1, <2>2, <2>3, <2>4, <2>5, <2>6, <2>7, <2>8, <2>9, <2>10 DEF Proceed
  <1>4. ASSUME NEW w \in Workers, Crash(w)
        PROVE  Careful'
    BY <1>4, AbortKeeps DEF Crash
  <1>5. CASE UNCHANGED vars \/ \E i \in Payments : LearnVoided(i)
    BY <1>1, <1>5 DEF vars, LearnVoided
  <1>6. QED
    BY <1>2, <1>3, <1>4, <1>5, ProviderDecidesKeeps DEF Next

-----------------------------------------------------------------------------
\* Types, in any instance: the payments, keys and transactions that a row or a
\* request names exist.

\* What is known of a row beyond its type.
RowTyped(k) ==
  LET o == operation[k]
  IN  /\ o.status = "unborn" => o.payment = None /\ o.parent = None
      /\ o.status # "unborn" =>
           /\ o.payment \in Payments /\ o.parent \in Transaction
           /\ o.child \in Keys \cup {None, o.parent}
           /\ Provider[o.payment] = "paymob" \/ o.type = "refund"

\* What the answer that a request has got says of its operation.
Says(w) == Outcome(op[w].key, op[w].answer)

\* What is known of a request: which operation it is about, whom it asks, and,
\* when it is about to record, that there is something to record.
Serves(w) ==
  LET r == op[w]
  IN  /\ r.step \in {"prepare"} \cup KeySteps => r.key \in Keys
      /\ r.step = "prepare" =>
           /\ r.payment \in Payments
           /\ Provider[r.payment] = "paymob" \/ r.type = "refund"
           /\ r.type = "void" => r.amount = Amount[r.payment]
      /\ r.step \in KeySteps => operation[r.key].status # "unborn"
      /\ r.step = "match" => r.answer.tx \in Keys
      /\ r.step \in {"verify", "finalize", "record"} =>
           r.answer.tx \in Keys \cup {operation[r.key].parent}
      /\ r.step = "record" => Says(w) \in {"succeeded", "failed"}

Typed == TypeOK /\ (\A k \in Keys : RowTyped(k)) /\ \A w \in Workers : Serves(w)

\* An operation stays what was asked for.
Immutable ==
  \A k \in Keys :
    LET o == operation[k]  n == operation'[k]
    IN  o.status # "unborn" =>
          /\ n.status # "unborn" /\ n.payment = o.payment /\ n.type = o.type
          /\ n.amount = o.amount /\ n.expected = o.expected /\ n.parent = o.parent

LEMMA SaysStays ==
  ASSUME Typed, Immutable, NEW w \in Workers, op'[w] = op[w],
         op[w].key \in Keys, operation[op[w].key].status # "unborn",
         op[w].answer.tx \in Keys \cup {operation[op[w].key].parent},
         Says(w) \in {"succeeded", "failed"}
  PROVE  Says(w)' = Says(w)
  <1> DEFINE k == op[w].key  a == op[w].answer  o == operation[k]  n == operation'[k]
  <1>1. /\ n.payment = o.payment /\ n.type = o.type /\ n.amount = o.amount
        /\ n.expected = o.expected /\ n.parent = o.parent
    BY DEF Immutable
  <1>2. CASE a.tx = o.parent
    BY <1>1, <1>2 DEF Says, Outcome
  <1>3. CASE a.tx # o.parent
    <2>1. /\ operation[a.tx].parent = o.parent /\ operation[a.tx].type = o.type
          /\ o.type = "void" \/ operation[a.tx].amount = o.amount
      BY <1>3 DEF Says, Outcome
    <2>2. o.parent \in Transaction
      BY DEF Typed, RowTyped
    <2>3. a.tx \in Keys /\ operation[a.tx].status # "unborn"
      BY <1>3, <2>1, <2>2, OperationAssumption DEF Typed, RowTyped, Transaction
    <2>4. /\ operation'[a.tx].parent = operation[a.tx].parent
          /\ operation'[a.tx].type = operation[a.tx].type
          /\ operation'[a.tx].amount = operation[a.tx].amount
      BY <2>3 DEF Immutable
    <2>5. QED BY <1>1, <1>3, <2>1, <2>4 DEF Says, Outcome
  <1>4. QED BY <1>2, <1>3

LEMMA OthersServe ==
  ASSUME Typed, Immutable, NEW w \in Workers, op'[w] = op[w]
  PROVE  Serves(w)'
  <1>1. Serves(w)
    BY DEF Typed
  <1>2. op[w].step = "record" => Says(w)' = Says(w)
    BY <1>1, SaysStays DEF Serves, KeySteps
  <1>3. op[w].step \in KeySteps =>
          /\ op[w].key \in Keys /\ operation'[op[w].key].status # "unborn"
          /\ operation'[op[w].key].parent = operation[op[w].key].parent
    BY <1>1 DEF Serves, Immutable
  <1>4. QED BY <1>1, <1>2, <1>3 DEF Serves, KeySteps

\* The table of operations is as it should be after a step.
TableTyped ==
  /\ operation' \in [Keys -> OperationRow]
  /\ \A k \in Keys : RowTyped(k)'
  /\ Immutable

LEMMA AssembleTyped ==
  ASSUME Typed, TableTyped, NEW w \in Workers, Moves(w), op'[w] \in Request, Serves(w)',
         payment' \in [Payments -> PaymentStatus], made' \in [Keys -> ChildStatus],
         crashes' \in 0 .. MaxCrashes
  PROVE  Typed'
  <1>1. op' \in [Workers -> Request]
    BY DEF Typed, TypeOK, Moves
  <1>2. \A v \in Workers : Serves(v)'
    BY OthersServe DEF Moves, TableTyped
  <1>3. QED BY <1>1, <1>2 DEF Typed, TypeOK, TableTyped

LEMMA UnchangedTyped ==
  ASSUME Typed, UNCHANGED operation
  PROVE  TableTyped
  BY DEF Typed, TypeOK, TableTyped, RowTyped, Immutable

\* The status and the child of a pending operation are written.
Writes(k, s, c) ==
  operation' = [operation EXCEPT ![k] = [operation[k] EXCEPT !.status = s, !.child = c]]

LEMMA WriteTyped ==
  ASSUME Typed, NEW k \in Keys, operation[k].status = "pending",
         NEW s \in {"pending", "succeeded", "failed"},
         NEW c \in Keys \cup {None, operation[k].parent}, Writes(k, s, c)
  PROVE  /\ TableTyped
         /\ operation'[k].status = s /\ operation'[k].child = c
         /\ \A j \in Keys \ {k} : operation'[j] = operation[j]
  <1> DEFINE n == [operation[k] EXCEPT !.status = s, !.child = c]
  <1>1. /\ operation[k] \in OperationRow /\ operation[k].parent \in Transaction
        /\ operation[k].payment \in Payments
        /\ Provider[operation[k].payment] = "paymob" \/ operation[k].type = "refund"
    BY DEF Typed, TypeOK, RowTyped
  <1>2. c \in Transaction \cup {None} /\ s \in OperationStatus
    BY <1>1 DEF Transaction, OperationStatus
  <1>3. /\ n \in OperationRow /\ n.status = s /\ n.child = c
        /\ n.payment = operation[k].payment /\ n.type = operation[k].type
        /\ n.amount = operation[k].amount /\ n.expected = operation[k].expected
        /\ n.parent = operation[k].parent
    BY <1>1, <1>2 DEF OperationRow
  <1> HIDE DEF n
  <1>4. operation' = [operation EXCEPT ![k] = n]
    BY DEF Writes, n
  <1>5. operation'[k] = n /\ \A j \in Keys \ {k} : operation'[j] = operation[j]
    BY <1>4 DEF Typed, TypeOK
  <1>6. operation' \in [Keys -> OperationRow]
    BY <1>3, <1>4 DEF Typed, TypeOK
  <1>7. \A j \in Keys : RowTyped(j)'
    <2>1. RowTyped(k)'
      BY <1>1, <1>3, <1>5 DEF RowTyped
    <2>2. \A j \in Keys \ {k} : RowTyped(j)'
      BY <1>5 DEF Typed, RowTyped
    <2>3. QED BY <2>1, <2>2
  <1>8. Immutable
    BY <1>3, <1>5 DEF Immutable
  <1>9. QED BY <1>3, <1>5, <1>6, <1>7, <1>8 DEF TableTyped

\* The row that a preparation adds.
NewRow(r) == [status |-> "pending", payment |-> r.payment, type |-> r.type,
              amount |-> r.amount, expected |-> Refunded(r.payment) + r.amount,
              parent |-> Target(r.payment), child |-> None]

LEMMA AmountNat ==
  ASSUME Typed, NEW S \in SUBSET Keys
  PROVE  AmountOf(S) \in Nat
  <1> DEFINE f == [k \in Keys |-> operation[k].amount]
  <1>1. \A k \in S : f[k] \in Nat
    BY DEF Typed, TypeOK, OperationRow
  <1>2. IsFiniteSet(S)
    BY OperationAssumption, FS_Subset
  <1> HIDE DEF f
  <1>3. SumFunctionOnSet(f, S) \in Nat
    BY <1>1, <1>2, SumNat
  <1>4. QED BY <1>3 DEF AmountOf, f

LEMMA RefundedNat ==
  ASSUME Typed
  PROVE  \A i : Refunded(i) \in Nat
  BY AmountNat DEF Refunded, Of

LEMMA TargetCases ==
  ASSUME NEW i
  PROVE  \/ Target(i) = i
         \/ \E k \in Of(i, "capture", "succeeded") :
              operation[k].child # None /\ Target(i) = operation[k].child
  BY DEF Target

LEMMA AddTyped ==
  ASSUME Typed, NEW w \in Workers, op[w].step = "prepare",
         operation[op[w].key].status = "unborn",
         operation' = [operation EXCEPT ![op[w].key] = NewRow(op[w])]
  PROVE  /\ TableTyped /\ op[w].key \in Keys
         /\ operation'[op[w].key] = NewRow(op[w])
         /\ \A j \in Keys \ {op[w].key} : operation'[j] = operation[j]
  <1> DEFINE r == op[w]  k == r.key  n == NewRow(r)
  <1>1. /\ r \in Request /\ k \in Keys /\ r.payment \in Payments
        /\ Provider[r.payment] = "paymob" \/ r.type = "refund"
    BY DEF Typed, TypeOK, Serves
  <1>2. Target(r.payment) \in Transaction
    <2>1. \A j \in Of(r.payment, "capture", "succeeded") :
            operation[j].child \in Transaction \cup {None}
      BY DEF Of, Typed, TypeOK, OperationRow
    <2>2. QED BY <1>1, <2>1, TargetCases DEF Transaction
  <1>3. Refunded(r.payment) + r.amount \in Nat
    BY <1>1, RefundedNat DEF Request
  <1>4. /\ n \in OperationRow /\ n.status = "pending" /\ n.payment = r.payment
        /\ n.type = r.type /\ n.parent \in Transaction /\ n.child = None
    BY <1>1, <1>2, <1>3 DEF NewRow, OperationRow, OperationStatus, Request
  <1> HIDE DEF n
  <1>5. operation' = [operation EXCEPT ![k] = n]
    BY DEF n
  <1>6. operation'[k] = n /\ \A j \in Keys \ {k} : operation'[j] = operation[j]
    BY <1>1, <1>5 DEF Typed, TypeOK
  <1>7. operation' \in [Keys -> OperationRow]
    BY <1>4, <1>5 DEF Typed, TypeOK
  <1>8. \A j \in Keys : RowTyped(j)'
    <2> SUFFICES ASSUME NEW j \in Keys PROVE RowTyped(j)'
      OBVIOUS
    <2>1. CASE j = k
      BY <1>1, <1>4, <1>6, <2>1 DEF RowTyped
    <2>2. CASE j # k
      BY <1>6, <2>2 DEF Typed, RowTyped
    <2>3. QED BY <2>1, <2>2
  <1>9. Immutable
    BY <1>6 DEF Immutable
  <1>10. QED BY <1>1, <1>6, <1>7, <1>8, <1>9 DEF TableTyped, n

\* What a step does to the table: nothing, one operation more, or a write of one
\* that is pending.
Prepares(w) ==
  /\ op[w].step = "prepare" /\ MayPrepare(op[w])
  /\ operation' = [operation EXCEPT ![op[w].key] = NewRow(op[w])]

Rewrites(k) ==
  /\ operation[k].status = "pending"
  /\ \E s \in {"pending", "succeeded", "failed"} :
       \E c \in Keys \cup {None, operation[k].parent} : Writes(k, s, c)

LEMMA RecordTable ==
  ASSUME Typed, NEW w \in Workers, op[w].step \in {"finalize", "record"},
         Says(w) \in {"succeeded", "failed"}, Record(w, op[w].key, op[w].answer)
  PROVE  /\ op[w].key \in Keys
         /\ UNCHANGED operation \/ Rewrites(op[w].key)
  <1> DEFINE k == op[w].key  a == op[w].answer  o == operation[k]  out == Says(w)
             links == op[w].links /\ o.child = None
             child == IF Provider[o.payment] = "paymob" /\ (out = "succeeded" \/ links)
                        THEN a.tx ELSE o.child
  <1>1. k \in Keys /\ o.status # "unborn" /\ a.tx \in Keys \cup {o.parent}
    BY DEF Typed, Serves, KeySteps
  <1>2. child \in Keys \cup {None, o.parent}
    BY <1>1 DEF Typed, RowTyped
  <1>3. \/ UNCHANGED operation
        \/ /\ o.status = "pending"
           /\ operation' = [operation EXCEPT ![k].status = out, ![k].child = child]
    BY DEF Record, Says
  <1> HIDE DEF child, out, links, a
  <1>4. ASSUME o.status = "pending",
               operation' = [operation EXCEPT ![k].status = out, ![k].child = child]
        PROVE  Writes(k, out, child)
    <2>1. operation' = [operation EXCEPT ![k] =
                          [operation[k] EXCEPT !.status = out, !.child = child]]
      BY <1>1, <1>4 DEF Typed, TypeOK
    <2>2. QED BY <2>1 DEF Writes
  <1>5. out \in {"pending", "succeeded", "failed"}
    BY DEF out
  <1>6. QED BY <1>1, <1>2, <1>3, <1>4, <1>5 DEF Rewrites

LEMMA TableStep ==
  ASSUME Typed, [Next]_vars
  PROVE  \/ UNCHANGED operation
         \/ \E w \in Workers : Prepares(w)
         \/ \E k \in Keys : Rewrites(k)
  <1>1. \/ UNCHANGED operation
        \/ \E w \in Workers : \/ Prepare(w)
                              \/ Reject(w) \/ StoreChild(w) \/ Finalize(w)
                              \/ CommitRecord(w)
    BY DEF Next, vars, Arrive, Proceed, StartOperation, StartRecovery,
           StartChildWebhook, Preflight, CallProvider, Verify, VerifyUnavailable,
           MatchChild, Crash, ProviderDecides, LearnVoided, Keep
  <1>2. ASSUME NEW w \in Workers, Prepare(w)
        PROVE  UNCHANGED operation \/ Prepares(w)
    BY <1>2 DEF Prepare, Prepares, NewRow
  <1>3. ASSUME NEW w \in Workers, op[w].step \in KeySteps
        PROVE  /\ op[w].key \in Keys /\ operation[op[w].key] \in OperationRow
               /\ operation[op[w].key].child
                    \in Keys \cup {None, operation[op[w].key].parent}
    BY <1>3 DEF Typed, TypeOK, Serves, RowTyped
  <1>4. ASSUME NEW w \in Workers, Reject(w)
        PROVE  UNCHANGED operation \/ Rewrites(op[w].key)
    <2> DEFINE k == op[w].key
    <2>1. k \in Keys /\ operation[k] \in OperationRow
          /\ operation[k].child \in Keys \cup {None, operation[k].parent}
      BY <1>3, <1>4 DEF Reject, KeySteps
    <2>2. CASE operation[k].status # "pending"
      <3>1. operation' = operation
        BY <1>4, <2>1, <2>2 DEF Reject, Typed, TypeOK, OperationRow
      <3>2. QED BY <3>1
    <2>3. CASE operation[k].status = "pending"
      <3>1. operation' = [operation EXCEPT ![k].status = "failed"]
        BY <1>4, <2>3 DEF Reject
      <3>2. Writes(k, "failed", operation[k].child)
        BY <2>1, <3>1 DEF Writes, Typed, TypeOK, OperationRow
      <3>3. QED BY <2>1, <2>3, <3>2 DEF Rewrites
    <2>4. QED BY <2>2, <2>3
  <1>5. ASSUME NEW w \in Workers, StoreChild(w)
        PROVE  UNCHANGED operation \/ Rewrites(op[w].key)
    <2> DEFINE k == op[w].key
    <2>1. k \in Keys /\ operation[k] \in OperationRow
      BY <1>3, <1>5 DEF StoreChild, KeySteps
    <2>2. \/ UNCHANGED operation
          \/ \E tx \in {k, operation[k].parent} :
               operation' = [operation EXCEPT ![k] = [operation[k] EXCEPT
                 !.child = IF operation[k].status = "pending" THEN tx ELSE @]]
      BY <1>5 DEF StoreChild
    <2>3. CASE operation[k].status # "pending"
      <3>1. operation' = operation
        BY <2>1, <2>2, <2>3 DEF Typed, TypeOK, OperationRow
      <3>2. QED BY <3>1
    <2>4. ASSUME operation[k].status = "pending", NEW tx \in {k, operation[k].parent},
                 operation' = [operation EXCEPT ![k] = [operation[k] EXCEPT !.child = tx]]
          PROVE  Rewrites(k)
      <3>1. Writes(k, "pending", tx)
        BY <2>1, <2>4 DEF Writes, Typed, TypeOK, OperationRow
      <3>2. QED BY <2>1, <2>4, <3>1 DEF Rewrites
    <2>5. QED BY <2>2, <2>3, <2>4
  <1>6. ASSUME NEW w \in Workers, Finalize(w)
        PROVE  UNCHANGED operation \/ Rewrites(op[w].key)
    <2> DEFINE k == op[w].key  a == op[w].answer
    <2>1. k \in Keys /\ operation[k] \in OperationRow
          /\ op[w].step = "finalize" /\ a.tx \in Keys \cup {operation[k].parent}
      BY <1>3, <1>6 DEF Finalize, KeySteps, Typed, Serves
    <2>2. \/ UNCHANGED operation
          \/ /\ operation[k].status = "pending"
             /\ operation' = [operation EXCEPT ![k].child = a.tx]
          \/ Says(w) \in {"succeeded", "failed"} /\ Record(w, k, a)
      BY <1>6, OutcomeValues DEF Finalize, Keep, Says
    <2>3. ASSUME operation[k].status = "pending",
                 operation' = [operation EXCEPT ![k].child = a.tx]
          PROVE  Rewrites(k)
      <3> DEFINE c == a.tx
      <3>1. c \in Keys \cup {None, operation[k].parent}
        BY <2>1
      <3>2. operation' = [operation EXCEPT ![k].child = c]
        BY <2>3
      <3> HIDE DEF c, a
      <3>3. Writes(k, "pending", c)
        <4>1. operation' = [operation EXCEPT ![k] = [operation[k] EXCEPT !.child = c]]
          BY <2>1, <3>2 DEF Typed, TypeOK
        <4>2. [operation[k] EXCEPT !.child = c]
                = [operation[k] EXCEPT !.status = "pending", !.child = c]
          BY <2>1, <2>3 DEF OperationRow
        <4>3. QED BY <4>1, <4>2 DEF Writes
      <3>4. QED BY <2>1, <2>3, <3>1, <3>3 DEF Rewrites
    <2>4. QED BY <2>1, <2>2, <2>3, RecordTable
  <1>7. ASSUME NEW w \in Workers, CommitRecord(w)
        PROVE  UNCHANGED operation \/ Rewrites(op[w].key)
    BY <1>7, RecordTable DEF CommitRecord, Typed, Serves
  <1>8. QED
    BY <1>1, <1>2, <1>3, <1>4, <1>5, <1>6, <1>7
       DEF Reject, StoreChild, Finalize, CommitRecord, KeySteps

LEMMA TableStays ==
  ASSUME Typed, [Next]_vars
  PROVE  TableTyped
  <1>1. ASSUME NEW w \in Workers, Prepares(w)
        PROVE  TableTyped
    BY <1>1, AddTyped DEF Prepares, MayPrepare
  <1>2. ASSUME NEW k \in Keys, Rewrites(k)
        PROVE  TableTyped
    BY <1>2, WriteTyped DEF Rewrites
  <1>3. QED BY <1>1, <1>2, TableStep, UnchangedTyped

-----------------------------------------------------------------------------
\* The requests keep their types.

LEMMA IdleTyped == Idle \in Request /\ NoAnswer \in Answer
  BY DEF Idle, Request, Step, Type, PaymentStatus, NoAnswer, Answer, ChildStatus

LEMMA AbortTyped ==
  ASSUME Typed, NEW w \in Workers, Abort(w)
  PROVE  Moves(w) /\ op'[w] \in Request /\ Serves(w)' /\ op'[w].step = "idle"
  <1>1. op'[w] = Idle /\ Moves(w)
    BY DEF Typed, TypeOK, Abort, Moves
  <1>2. op'[w].step = "idle"
    BY <1>1 DEF Idle
  <1>3. QED BY <1>1, <1>2, IdleTyped DEF Serves, KeySteps

LEMMA GotoTyped ==
  ASSUME Typed, NEW w \in Workers, NEW s \in Step, Goto(w, s)
  PROVE  /\ Moves(w) /\ op'[w] \in Request
         /\ op'[w].step = s /\ op'[w].key = op[w].key /\ op'[w].payment = op[w].payment
         /\ op'[w].answer = op[w].answer /\ op'[w].links = op[w].links
  <1>1. Moves(w) /\ op'[w] = [op[w] EXCEPT !.step = s] /\ op[w] \in Request
    BY DEF Typed, TypeOK, Goto, Moves
  <1>2. QED BY <1>1 DEF Request

LEMMA AnswerTyped ==
  ASSUME Typed, NEW w \in Workers, NEW s \in Step, NEW a \in Answer,
         op' = [op EXCEPT ![w].step = s, ![w].answer = a]
  PROVE  /\ Moves(w) /\ op'[w] \in Request
         /\ op'[w].step = s /\ op'[w].key = op[w].key /\ op'[w].payment = op[w].payment
         /\ op'[w].answer = a /\ op'[w].links = op[w].links
  <1>1. Moves(w) /\ op[w] \in Request
    BY DEF Typed, TypeOK, Moves
  <1>2. op'[w] = [op[w] EXCEPT !.step = s, !.answer = a]
    BY DEF Typed, TypeOK
  <1>3. [op[w] EXCEPT !.step = s, !.answer = a] \in Request
    BY <1>1 DEF Request
  <1>4. QED BY <1>1, <1>2, <1>3 DEF Request

\* A request begins.
LEMMA BeginTyped ==
  ASSUME Typed, NEW w \in Workers, NEW r \in Request, op' = [op EXCEPT ![w] = r]
  PROVE  Moves(w) /\ op'[w] = r /\ op'[w] \in Request
  BY DEF Typed, TypeOK, Moves

LEMMA LookTyped ==
  ASSUME Typed, NEW tx \in Transaction
  PROVE  Look(tx) \in Answer /\ Look(tx).tx = tx
  <1> DEFINE total == AmountOf(Children(tx, "refund", {"succeeded"}))
             sale == IF tx \in Payments THEN tx ELSE operation[tx].payment
             full == total > 0 /\ (PartialFlag \/ total = Amount[sale])
             voided == Voided(tx)
             captured == Captured(tx)
  <1>1. total \in Nat
    BY AmountNat DEF Children
  <1>2. {full, voided, captured} \subseteq BOOLEAN
    BY OperationAssumption DEF Voided, Captured
  <1>3. Look(tx) = [NoAnswer EXCEPT !.tx = tx, !.refunded = total, !.full = full,
                                    !.voided = voided, !.captured = captured]
    BY DEF Look
  <1> HIDE DEF total, full, voided, captured
  <1>4. QED BY <1>1, <1>2, <1>3 DEF NoAnswer, Answer, ChildStatus

LEMMA ChildTyped ==
  ASSUME Typed, NEW k \in Keys
  PROVE  LookAtChild(k) \in Answer /\ LookAtChild(k).tx = k
  BY DEF LookAtChild, NoAnswer, Answer, Typed, TypeOK, Transaction

LEMMA AskTyped ==
  ASSUME NEW tx \in Transaction \cup {None}
  PROVE  [NoAnswer EXCEPT !.tx = tx] \in Answer /\ [NoAnswer EXCEPT !.tx = tx].tx = tx
  BY IdleTyped DEF Answer, NoAnswer

LEMMA KeyStays ==
  ASSUME Typed, TableTyped, NEW w \in Workers, op[w].step \in KeySteps
  PROVE  /\ op[w].key \in Keys /\ operation[op[w].key].status # "unborn"
         /\ operation'[op[w].key].status # "unborn"
         /\ operation'[op[w].key].parent = operation[op[w].key].parent
         /\ operation[op[w].key].parent \in Transaction
  BY DEF Typed, RowTyped, Serves, TableTyped, Immutable

\* The variables a step of a request may leave alone.
LEMMA StoredTyped ==
  ASSUME Typed
  PROVE  /\ UNCHANGED payment => payment' \in [Payments -> PaymentStatus]
         /\ UNCHANGED made => made' \in [Keys -> ChildStatus]
         /\ UNCHANGED crashes => crashes' \in 0 .. MaxCrashes
  BY DEF Typed, TypeOK

LEMMA AbortKeepsTypes ==
  ASSUME Typed, TableTyped, NEW w \in Workers, Abort(w),
         payment' \in [Payments -> PaymentStatus], made' \in [Keys -> ChildStatus],
         crashes' \in 0 .. MaxCrashes
  PROVE  Typed'
  BY AbortTyped, AssembleTyped

LEMMA ArriveKeepsTypes ==
  ASSUME Typed, TableTyped, NEW w \in Workers, Arrive(w)
  PROVE  Typed'
  <1>1. /\ payment' \in [Payments -> PaymentStatus] /\ made' \in [Keys -> ChildStatus]
        /\ crashes' \in 0 .. MaxCrashes /\ UNCHANGED operation
    BY StoredTyped DEF Arrive, StartOperation, StartRecovery, StartChildWebhook, Keep
  <1>2. ASSUME NEW r \in Request, op' = [op EXCEPT ![w] = r], Serves(w)'
        PROVE  Typed'
    BY <1>1, <1>2, BeginTyped, AssembleTyped
  <1>3. ASSUME NEW k \in Keys, NEW i \in Payments, StartOperation(w, i, k)
        PROVE  Typed'
    <2>1. PICK q \in Requests :
            /\ Provider[i] = "paymob" \/ q[1] = "refund"
            /\ op' = [op EXCEPT ![w] =
                        [Idle EXCEPT !.step = "prepare", !.key = k, !.payment = i,
                           !.type = q[1],
                           !.amount = IF q[1] = "void" THEN Amount[i] ELSE q[2],
                           !.read = payment[i]]]
      BY <1>3 DEF StartOperation
    <2> DEFINE type == q[1]
               amount == IF q[1] = "void" THEN Amount[i] ELSE q[2]
               read == payment[i]
               r == [Idle EXCEPT !.step = "prepare", !.key = k, !.payment = i,
                       !.type = type, !.amount = amount, !.read = read]
    <2>2. /\ type \in Type /\ amount \in Nat /\ read \in PaymentStatus
          /\ Provider[i] = "paymob" \/ type = "refund"
          /\ type = "void" => amount = Amount[i]
      BY <2>1, OperationAssumption DEF Type, Typed, TypeOK
    <2> HIDE DEF type, amount, read
    <2>3. r \in Request /\ r.step = "prepare" /\ r.key = k /\ r.payment = i
          /\ r.type = type /\ r.amount = amount
      BY <2>2, IdleTyped DEF Idle, Request, Step
    <2>4. op' = [op EXCEPT ![w] = r]
      BY <2>1 DEF type, amount, read
    <2> HIDE DEF r
    <2>5. op'[w] = r
      BY <2>3, <2>4, BeginTyped
    <2>6. Serves(w)'
      BY <2>2, <2>3, <2>5 DEF Serves, KeySteps
    <2>7. QED BY <1>2, <2>3, <2>4, <2>6
  <1>4. ASSUME NEW k \in Keys, StartRecovery(w, k)
        PROVE  Typed'
    <2> DEFINE tx == Asked(operation[k])
               p == operation[k].payment
               a == [NoAnswer EXCEPT !.tx = tx]
               r == [Idle EXCEPT !.step = "verify", !.key = k, !.payment = p, !.answer = a]
    <2>1. /\ operation[k].status = "pending" /\ op' = [op EXCEPT ![w] = r]
          /\ p \in Payments /\ tx \in Keys \cup {operation[k].parent} /\ tx \in Transaction
      BY <1>4 DEF StartRecovery, Typed, RowTyped, Asked, Transaction
    <2> HIDE DEF tx, p
    <2>2. a \in Answer /\ a.tx = tx
      BY <2>1, AskTyped
    <2> HIDE DEF a
    <2>3. r \in Request /\ r.step = "verify" /\ r.key = k /\ r.answer = a
      BY <2>1, <2>2, IdleTyped DEF Idle, Request, Step
    <2> HIDE DEF r
    <2>4. op'[w] = r
      BY <2>1, <2>3, BeginTyped
    <2>5. Serves(w)'
      BY <1>1, <2>1, <2>2, <2>3, <2>4 DEF Serves, KeySteps
    <2>6. QED BY <1>2, <2>1, <2>3, <2>5
  <1>5. ASSUME NEW k \in Keys, StartChildWebhook(w, k)
        PROVE  Typed'
    <2> DEFINE a == LookAtChild(k)
               p == operation[k].payment
               r == [Idle EXCEPT !.step = "match", !.payment = p, !.answer = a]
    <2>1. /\ op' = [op EXCEPT ![w] = r] /\ p \in Payments \cup {None}
          /\ a \in Answer /\ a.tx = k
      BY <1>5, ChildTyped DEF StartChildWebhook, Typed, TypeOK, OperationRow
    <2> HIDE DEF a, p
    <2>2. r \in Request /\ r.step = "match" /\ r.answer = a
      BY <2>1, IdleTyped DEF Idle, Request, Step
    <2> HIDE DEF r
    <2>3. op'[w] = r
      BY <2>1, <2>2, BeginTyped
    <2>4. Serves(w)'
      BY <2>1, <2>2, <2>3 DEF Serves, KeySteps
    <2>5. QED BY <1>2, <2>1, <2>2, <2>4
  <1>6. QED BY <1>3, <1>4, <1>5 DEF Arrive

LEMMA CallKeepsTypes ==
  ASSUME Typed, TableTyped, NEW w \in Workers, CallProvider(w)
  PROVE  Typed'
  <1> DEFINE k == op[w].key
             fawry == Provider[op[w].payment] = "fawry"
             s == IF fawry THEN "succeeded" ELSE "pending"
             t == IF fawry THEN "finalize" ELSE "store"
             c == IF fawry THEN "succeeded" ELSE "none"
             a == [NoAnswer EXCEPT !.tx = k, !.child = c]
  <1>1. /\ op[w].step \in KeySteps /\ UNCHANGED <<payment, operation, crashes>>
        /\ UNCHANGED made \/ made' = [made EXCEPT ![k] = s]
        /\ \/ Abort(w) \/ Goto(w, "reject")
           \/ op' = [op EXCEPT ![w].step = t, ![w].answer = a]
    BY DEF CallProvider, KeySteps
  <1>2. k \in Keys /\ operation'[k].status # "unborn"
    BY <1>1, KeyStays
  <1>3. made' \in [Keys -> ChildStatus]
    BY <1>1 DEF Typed, TypeOK, ChildStatus
  <1>4. payment' \in [Payments -> PaymentStatus] /\ crashes' \in 0 .. MaxCrashes
    BY <1>1, StoredTyped
  <1>5. CASE Abort(w)
    BY <1>3, <1>4, <1>5, AbortKeepsTypes
  <1>6. CASE Goto(w, "reject")
    <2>1. "reject" \in Step
      BY DEF Step
    <2>2. Serves(w)'
      BY <1>2, <1>6, <2>1, GotoTyped DEF Serves, KeySteps
    <2>3. QED BY <1>3, <1>4, <1>6, <2>1, <2>2, GotoTyped, AssembleTyped
  <1>7. CASE op' = [op EXCEPT ![w].step = t, ![w].answer = a]
    <2>1. a \in Answer /\ a.tx = k
      BY <1>2, IdleTyped DEF Answer, NoAnswer, ChildStatus, Transaction
    <2>2. t \in Step /\ t \in {"finalize", "store"}
      BY DEF Step
    <2> HIDE DEF a, t
    <2>3. /\ Moves(w) /\ op'[w] \in Request
          /\ op'[w].step = t /\ op'[w].key = k /\ op'[w].answer = a
      BY <1>7, <2>1, <2>2, AnswerTyped, ZenonT(40)
    <2>4. Serves(w)'
      BY <1>2, <2>1, <2>2, <2>3 DEF Serves, KeySteps
    <2>5. QED BY <1>3, <1>4, <2>3, <2>4, AssembleTyped
  <1>8. QED BY <1>1, <1>5, <1>6, <1>7

\* The steps that change the request only, or the table and the request.
LEMMA StepKeepsTypes ==
  ASSUME Typed, TableTyped, NEW w \in Workers,
         \/ Prepare(w) \/ Preflight(w) \/ Reject(w) \/ StoreChild(w)
         \/ Verify(w) \/ VerifyUnavailable(w) \/ MatchChild(w)
  PROVE  Typed'
  <1>1. /\ payment' \in [Payments -> PaymentStatus] /\ made' \in [Keys -> ChildStatus]
        /\ crashes' \in 0 .. MaxCrashes
    BY StoredTyped DEF Prepare, Preflight, Reject, StoreChild, Verify,
                       VerifyUnavailable, MatchChild, Keep
  <1>2. CASE Abort(w)
    BY <1>1, <1>2, AbortKeepsTypes
  <1>3. ASSUME NEW s \in {"preflight", "call", "reject"}, Goto(w, s), op[w].key \in Keys,
               operation'[op[w].key].status # "unborn"
        PROVE  Typed'
    <2>1. s \in Step
      BY DEF Step
    <2>2. Serves(w)'
      BY <1>3, <2>1, GotoTyped DEF Serves, KeySteps
    <2>3. QED BY <1>1, <1>3, <2>1, <2>2, GotoTyped, AssembleTyped
  <1>4. CASE Prepare(w)
    <2>1. CASE MayPrepare(op[w])
      <3>1. op[w].key \in Keys /\ operation'[op[w].key].status = "pending"
        <4>1. /\ op[w].step = "prepare" /\ operation[op[w].key].status = "unborn"
              /\ operation' = [operation EXCEPT ![op[w].key] = NewRow(op[w])]
          BY <1>4, <2>1 DEF Prepare, MayPrepare, NewRow
        <4>2. op[w].key \in Keys /\ operation'[op[w].key] = NewRow(op[w])
          BY <4>1, AddTyped
        <4>3. QED BY <4>2 DEF NewRow
      <3>2. \E s \in {"preflight", "call", "reject"} : Goto(w, s)
        BY <1>4, <2>1 DEF Prepare
      <3>3. QED BY <1>3, <3>1, <3>2
    <2>2. CASE ~MayPrepare(op[w])
      BY <1>2, <1>4, <2>2 DEF Prepare
    <2>3. QED BY <2>1, <2>2
  <1>5. CASE Preflight(w)
    <2>1. op[w].step \in KeySteps /\ \E s \in {"preflight", "call", "reject"} : Goto(w, s)
      BY <1>5 DEF Preflight, KeySteps
    <2>2. QED BY <1>3, <2>1, KeyStays
  <1>6. ASSUME NEW t \in {"verify", "finalize"}, NEW a \in Answer,
               op[w].step \in KeySteps,
               a.tx \in Keys \cup {operation[op[w].key].parent},
               op' = [op EXCEPT ![w].step = t, ![w].answer = a]
        PROVE  Typed'
    <2>1. t \in Step
      BY DEF Step
    <2>2. /\ Moves(w) /\ op'[w] \in Request
          /\ op'[w].step = t /\ op'[w].key = op[w].key /\ op'[w].answer = a
      <3>1. a \in Answer /\ op' = [op EXCEPT ![w].step = t, ![w].answer = a]
        BY <1>6
      <3>2. QED BY <2>1, <3>1, AnswerTyped, ZenonT(40)
    <2>3. /\ op[w].key \in Keys /\ operation'[op[w].key].status # "unborn"
          /\ operation'[op[w].key].parent = operation[op[w].key].parent
      BY <1>6, KeyStays
    <2>4. Serves(w)'
      BY <1>6, <2>2, <2>3 DEF Serves, KeySteps
    <2>5. QED BY <1>1, <2>2, <2>4, AssembleTyped
  <1>7. CASE StoreChild(w)
    <2> DEFINE k == op[w].key
    <2>1. op[w].step \in KeySteps
      BY <1>7 DEF StoreChild, KeySteps
    <2>2. /\ k \in Keys /\ operation[k] \in OperationRow
          /\ operation[k].child \in Keys \cup {None, operation[k].parent}
          /\ operation[k].parent \in Transaction
      BY <2>1, KeyStays DEF Typed, TypeOK, RowTyped
    <2>3. CASE Abort(w)
      BY <1>2, <2>3
    <2>4. ASSUME NEW tx \in {k, operation[k].parent}, NEW row,
                 row = [operation[k] EXCEPT
                          !.child = IF operation[k].status = "pending" THEN tx ELSE @],
                 op' = [op EXCEPT ![w].step = "verify",
                                  ![w].answer = [NoAnswer EXCEPT !.tx = Asked(row)]]
          PROVE  Typed'
      <3>1. row.parent = operation[k].parent
            /\ row.child \in Keys \cup {None, operation[k].parent}
        BY <2>2, <2>4 DEF OperationRow
      <3> DEFINE u == Asked(row)
                 a == [NoAnswer EXCEPT !.tx = u]
      <3>2. u \in Keys \cup {operation[k].parent} /\ u \in Transaction
        BY <2>2, <3>1 DEF Asked, Transaction
      <3> HIDE DEF u
      <3>3. a \in Answer /\ a.tx = u
        BY <3>2, AskTyped
      <3>4. op' = [op EXCEPT ![w].step = "verify", ![w].answer = a]
        BY <2>4 DEF u
      <3> HIDE DEF a
      <3>5. QED BY <1>6, <2>1, <3>2, <3>3, <3>4
    <2>5. QED BY <1>7, <2>3, <2>4 DEF StoreChild
  <1>8. CASE Verify(w)
    <2> DEFINE k == op[w].key  tx == op[w].answer.tx
               a == IF tx = operation[k].parent THEN Look(tx) ELSE LookAtChild(tx)
    <2>1. op[w].step \in KeySteps /\ tx \in Keys \cup {operation[k].parent}
      BY <1>8 DEF Verify, KeySteps, Typed, Serves
    <2>2. a \in Answer /\ a.tx = tx
      <3>1. operation[k].parent \in Transaction
        BY <2>1, KeyStays
      <3>2. CASE tx = operation[k].parent
        BY <3>1, <3>2, LookTyped
      <3>3. CASE tx # operation[k].parent
        BY <2>1, <3>3, ChildTyped
      <3>4. QED BY <3>2, <3>3
    <2>3. op' = [op EXCEPT ![w].step = "finalize", ![w].answer = a]
      BY <1>8 DEF Verify
    <2> HIDE DEF a
    <2>4. QED BY <1>6, <2>1, <2>2, <2>3
  <1>9. CASE MatchChild(w)
    <2>1. CASE Abort(w)
      BY <1>2, <2>1
    <2>2. ASSUME NEW k \in Keys, operation[k].status = "pending", NEW l \in BOOLEAN,
                 op' = [op EXCEPT ![w].step = "finalize", ![w].key = k, ![w].links = l]
          PROVE  Typed'
      <3>1. /\ Moves(w) /\ op[w] \in Request /\ op[w].answer.tx \in Keys
            /\ op'[w] = [op[w] EXCEPT !.step = "finalize", !.key = k, !.links = l]
        BY <1>9, <2>2, ZenonT(40) DEF MatchChild, Typed, TypeOK, Moves, Serves
      <3>2. /\ op'[w] \in Request /\ op'[w].step = "finalize" /\ op'[w].key = k
            /\ op'[w].answer = op[w].answer
        BY <3>1 DEF Request, Step
      <3>3. operation'[k].status # "unborn"
        BY <1>9, <2>2 DEF MatchChild, Keep
      <3>4. Serves(w)'
        BY <3>1, <3>2, <3>3 DEF Serves, KeySteps
      <3>5. QED BY <1>1, <3>1, <3>2, <3>4, AssembleTyped
    <2>3. \/ Abort(w)
          \/ \E k \in Keys, l \in BOOLEAN :
               /\ operation[k].status = "pending"
               /\ op' = [op EXCEPT ![w].step = "finalize", ![w].key = k, ![w].links = l]
      BY <1>9 DEF MatchChild, Matches
    <2>4. QED BY <2>1, <2>2, <2>3
  <1>10. QED
    BY <1>2, <1>4, <1>5, <1>7, <1>8, <1>9 DEF Reject, VerifyUnavailable

LEMMA RecordPayment ==
  ASSUME Typed, NEW w \in Workers, NEW k, NEW a, Record(w, k, a)
  PROVE  payment' \in [Payments -> PaymentStatus]
  <1> DEFINE o == operation[k]  out == Outcome(k, a)
             v == CASE out = "succeeded" /\ o.type = "capture" -> "succeeded"
                    [] out = "succeeded" /\ o.type = "void"
                         /\ payment[o.payment] = "requires_action" -> "cancelled"
                    [] OTHER -> payment[o.payment]
  <1>1. UNCHANGED payment \/ payment' = [payment EXCEPT ![o.payment] = v]
    BY DEF Record
  <1>2. o.payment \in Payments => v \in PaymentStatus
    BY DEF PaymentStatus, Typed, TypeOK
  <1> HIDE DEF v, o
  <1>3. QED BY <1>1, <1>2 DEF Typed, TypeOK

LEMMA FinalizeKeepsTypes ==
  ASSUME Typed, TableTyped, NEW w \in Workers, Finalize(w) \/ CommitRecord(w)
  PROVE  Typed'
  <1>1. /\ made' \in [Keys -> ChildStatus] /\ crashes' \in 0 .. MaxCrashes
        /\ payment' \in [Payments -> PaymentStatus]
    <2>1. UNCHANGED made /\ UNCHANGED crashes
      BY DEF Finalize, CommitRecord, Record, Keep
    <2>2. UNCHANGED payment \/ Record(w, op[w].key, op[w].answer)
      BY DEF Finalize, CommitRecord, Keep
    <2>3. QED BY <2>1, <2>2, StoredTyped, RecordPayment
  <1>2. CASE Abort(w)
    BY <1>1, <1>2, AbortKeepsTypes
  <1>3. ASSUME Goto(w, "record"), Says(w) \in {"succeeded", "failed"},
               UNCHANGED operation, op[w].step = "finalize"
        PROVE  Typed'
    <2>1. "record" \in Step
      BY DEF Step
    <2>2. /\ Moves(w) /\ op'[w] \in Request /\ op'[w].step = "record"
          /\ op'[w].key = op[w].key /\ op'[w].answer = op[w].answer
      BY <1>3, <2>1, GotoTyped
    <2>3. Says(w)' = Says(w)
      BY <1>3, <2>2 DEF Says, Outcome
    <2>4. Serves(w)'
      BY <1>3, <2>2, <2>3 DEF Typed, Serves, KeySteps
    <2>5. QED BY <1>1, <2>2, <2>4, AssembleTyped
  <1>4. \/ Abort(w)
        \/ /\ Goto(w, "record") /\ Says(w) \in {"succeeded", "failed"}
           /\ UNCHANGED operation /\ op[w].step = "finalize"
    <2>1. CASE CommitRecord(w)
      BY <2>1 DEF CommitRecord, Record
    <2>2. CASE Finalize(w)
      <3>1. Says(w) \in {"succeeded", "failed", "wait", "mismatch"}
        BY OutcomeValues DEF Says
      <3>2. QED BY <2>2, <3>1 DEF Finalize, Record, Keep, Says
    <2>3. QED BY <2>1, <2>2
  <1>5. QED BY <1>2, <1>3, <1>4

LEMMA NextTyped ==
  ASSUME Typed, [Next]_vars
  PROVE  Typed'
  <1>1. TableTyped
    BY TableStays
  <1>2. ASSUME NEW w \in Workers, Arrive(w) \/ Proceed(w)
        PROVE  Typed'
    BY <1>1, <1>2, ArriveKeepsTypes, CallKeepsTypes, StepKeepsTypes, FinalizeKeepsTypes
       DEF Proceed
  <1>3. ASSUME NEW w \in Workers, Crash(w)
        PROVE  Typed'
    <2>1. crashes' \in 0 .. MaxCrashes
      BY <1>3, OperationAssumption DEF Crash, Typed, TypeOK
    <2>2. QED BY <1>1, <1>3, <2>1, StoredTyped, AbortKeepsTypes DEF Crash
  <1>4. ASSUME UNCHANGED op, payment' \in [Payments -> PaymentStatus],
               made' \in [Keys -> ChildStatus], UNCHANGED crashes
        PROVE  Typed'
    <2>1. \A w \in Workers : Serves(w)'
      BY <1>1, <1>4, OthersServe DEF TableTyped
    <2>2. QED BY <1>1, <1>4, <2>1 DEF Typed, TypeOK, TableTyped
  <1>5. CASE UNCHANGED vars
    BY <1>5, <1>4, StoredTyped DEF vars
  <1>6. ASSUME NEW k \in Keys, ProviderDecides(k)
        PROVE  Typed'
    <2>1. made' \in [Keys -> ChildStatus]
      BY <1>6 DEF ProviderDecides, Typed, TypeOK, ChildStatus
    <2>2. QED BY <1>4, <1>6, <2>1, StoredTyped DEF ProviderDecides
  <1>7. ASSUME NEW i \in Payments, LearnVoided(i)
        PROVE  Typed'
    <2>1. payment' \in [Payments -> PaymentStatus]
      BY <1>7 DEF LearnVoided, Typed, TypeOK, PaymentStatus
    <2>2. QED BY <1>4, <1>7, <2>1, StoredTyped DEF LearnVoided
  <1>8. QED BY <1>5, <1>2, <1>3, <1>6, <1>7 DEF Next

LEMMA InitTyped ==
  ASSUME Init
  PROVE  Typed
  <1>1. \A k \in Keys : Unborn \in OperationRow
    BY DEF Unborn, OperationRow, OperationStatus, Type
  <1>2. TypeOK
    BY <1>1, IdleTyped, OperationAssumption DEF Init, TypeOK, PaymentStatus, ChildStatus
  <1>3. \A k \in Keys : RowTyped(k)
    BY DEF Init, Unborn, RowTyped
  <1>4. \A w \in Workers : Serves(w)
    BY DEF Init, Idle, Serves, KeySteps
  <1>5. QED BY <1>2, <1>3, <1>4 DEF Typed

LEMMA AlwaysTyped == Spec => []Typed
  BY InitTyped, NextTyped, PTL DEF Spec

\* Whatever the provider answers and whichever webhooks come, the rows and the
\* requests name payments, keys and transactions that exist, and an operation is
\* recorded with a result.
THEOREM TypesAreCorrect == Spec => []TypeOK
  <1>1. Typed => TypeOK
    BY DEF Typed
  <1>2. QED BY <1>1, AlwaysTyped, PTL

-----------------------------------------------------------------------------
LEMMA AlwaysCareful == Spec => []Careful
  <1>1. Init => Careful
    BY InitCareful
  <1>2. Typed => Placed
    BY DEF Typed, TypeOK, RowTyped, Placed, OperationRow
  <1>3. Placed /\ OnePending /\ Careful /\ [Next]_vars => Careful'
    BY NextKeepsCareful
  <1>4. QED BY <1>1, <1>2, <1>3, AlwaysTyped, OneOperationPending, PTL DEF Spec

\* A failed operation has not been done, so staff may ask for it again: an answer
\* that is lost is never taken for a refusal, and a failure that is recorded later
\* is that of the operation's own child, or of another that a webhook has taken for
\* it, which needs an earlier operation that is over without the name of its child.
THEOREM FailuresAreNotDone == Spec => []FailureIsNotDone
  <1>1. Careful => FailureIsNotDone
    BY DEF Careful, RowFits, FailureIsNotDone
  <1>2. QED BY <1>1, AlwaysCareful, PTL

-----------------------------------------------------------------------------
\* The books: what the pending operation of a payment may still add is within
\* what is left of it, since nothing else has been added since it was asked for.

\* The operations of type t that have succeeded for payment i.
Succeeded(i, t) == Of(i, t, "succeeded")

\* What Prepare has found out about a payment stays so while its operation is
\* pending.
Reserved(k) ==
  LET o == operation[k]  i == o.payment
  IN  o.status = "pending" =>
        /\ o.amount > 0 /\ Succeeded(i, "void") = {}
        /\ o.type = "refund" => /\ o.expected = Refunded(i) + o.amount
                                /\ o.expected <= Amount[i]
        /\ o.type = "void" => o.amount = Amount[i] /\ Refunded(i) = 0
        /\ o.type = "capture" => Succeeded(i, "capture") = {}

Booked ==
  /\ Typed /\ OnePending /\ RefundsWithinPayment
  /\ \A k \in Keys : Reserved(k)

\* The operations of type t that have succeeded for i are the same, and have the
\* same amounts.
Quiet(i, t) ==
  \A k \in Keys :
    \/ operation'[k] = operation[k]
    \/ operation[k].status # "succeeded" /\ operation'[k].status # "succeeded"
    \/ /\ ~(operation[k].payment = i /\ operation[k].type = t)
       /\ ~(operation'[k].payment = i /\ operation'[k].type = t)

LEMMA QuietOf ==
  ASSUME NEW i, NEW t, Quiet(i, t)
  PROVE  Succeeded(i, t)' = Succeeded(i, t)
  BY DEF Quiet, Succeeded, Of

LEMMA QuietAmounts ==
  ASSUME Typed, Typed', NEW i, Quiet(i, "refund")
  PROVE  Refunded(i)' = Refunded(i)
  <1> DEFINE S == Succeeded(i, "refund")
             f == [k \in Keys |-> operation[k].amount]
             g == [k \in Keys |-> operation'[k].amount]
  <1>1. Succeeded(i, "refund")' = S
    BY QuietOf
  <1>2. IsFiniteSet(S)
    BY OperationAssumption, FS_Subset DEF Succeeded, Of
  <1>3. \A k \in S : f[k] = g[k]
    <2> SUFFICES ASSUME NEW k \in S PROVE f[k] = g[k]
      OBVIOUS
    <2>1. /\ k \in Keys /\ operation[k].payment = i /\ operation[k].type = "refund"
          /\ operation[k].status = "succeeded"
      BY DEF Succeeded, Of
    <2>2. operation'[k].amount = operation[k].amount
      BY <2>1 DEF Quiet
    <2>3. QED BY <2>1, <2>2
  <1>4. Refunded(i) = SumFunctionOnSet(f, S)
    BY DEF Refunded, AmountOf, Succeeded
  <1>5. Refunded(i)' = SumFunctionOnSet(g, S)
    BY <1>1 DEF Refunded, AmountOf, Succeeded
  <1> HIDE DEF f, g, S
  <1>6. SumFunctionOnSet(f, S) = SumFunctionOnSet(g, S)
    BY <1>2, <1>3, SumSame
  <1>7. QED BY <1>4, <1>5, <1>6

\* One refund more.
LEMMA RefundAdds ==
  ASSUME Typed, Typed', NEW k \in Keys,
         operation[k].status = "pending", operation[k].type = "refund",
         operation'[k].status = "succeeded", operation'[k].type = "refund",
         operation'[k].payment = operation[k].payment,
         operation'[k].amount = operation[k].amount,
         \A j \in Keys \ {k} : operation'[j] = operation[j],
         NEW i, i = operation[k].payment
  PROVE  Refunded(i)' = Refunded(i) + operation[k].amount
  <1> DEFINE S == Succeeded(i, "refund")
             f == [j \in Keys |-> operation[j].amount]
             g == [j \in Keys |-> operation'[j].amount]
  <1>1. k \notin S /\ Succeeded(i, "refund")' = S \cup {k}
    BY DEF Succeeded, Of
  <1>2. IsFiniteSet(S)
    BY OperationAssumption, FS_Subset DEF Succeeded, Of
  <1>3. f = g
    BY DEF Typed, TypeOK
  <1>4. \A j \in S \cup {k} : f[j] \in Int
    BY DEF Succeeded, Of, Typed, TypeOK, OperationRow
  <1>5. Refunded(i) = SumFunctionOnSet(f, S)
    BY DEF Refunded, AmountOf, Succeeded
  <1>6. Refunded(i)' = SumFunctionOnSet(g, S \cup {k})
    BY <1>1 DEF Refunded, AmountOf, Succeeded
  <1>7. f[k] = operation[k].amount
    OBVIOUS
  <1> HIDE DEF f, g, S
  <1>8. SumFunctionOnSet(f, S \cup {k}) = f[k] + SumFunctionOnSet(f, S)
    BY <1>1, <1>2, <1>4, SumAdd
  <1>9. Refunded(i) \in Nat /\ operation[k].amount \in Nat
    BY RefundedNat DEF Typed, TypeOK, OperationRow
  <1>10. QED BY <1>3, <1>5, <1>6, <1>7, <1>8, <1>9

LEMMA SuccessCounts ==
  ASSUME Booked, Typed', Immutable, NEW k \in Keys,
         operation[k].status = "pending", operation'[k].status = "succeeded",
         \A j \in Keys \ {k} : operation'[j] = operation[j],
         NEW i, i = operation[k].payment
  PROVE  /\ i \in Payments
         /\ operation[k].type = "refund" =>
              /\ Refunded(i)' = Refunded(i) + operation[k].amount
              /\ Succeeded(i, "void")' = {}
         /\ operation[k].type = "void" =>
              Refunded(i)' = 0 /\ Succeeded(i, "void")' # {}
         /\ operation[k].type = "capture" =>
              Refunded(i)' = Refunded(i) /\ Succeeded(i, "void")' = {}
         /\ \A j \in Payments \ {i} : \A t \in Type : Quiet(j, t)
  <1> DEFINE o == operation[k]  n == operation'[k]
  <1>1. /\ o \in OperationRow /\ i \in Payments /\ o.type \in Type
        /\ n.type = o.type /\ n.payment = i /\ n.amount = o.amount
    BY DEF Booked, Typed, TypeOK, RowTyped, OperationRow, Immutable
  <1>2. /\ Succeeded(i, "void") = {}
        /\ o.type = "void" => Refunded(i) = 0
    BY DEF Booked, Reserved
  <1>3. \A t \in Type \ {o.type} : Quiet(i, t)
    BY <1>1 DEF Quiet
  <1>4. \A j \in Payments \ {i} : \A t \in Type : Quiet(j, t)
    BY <1>1 DEF Quiet
  <1>5. o.type # "void" => Succeeded(i, "void")' = {}
    BY <1>2, <1>3, QuietOf DEF Type
  <1>6. o.type # "refund" => Refunded(i)' = Refunded(i)
    BY <1>3, QuietAmounts DEF Booked, Type
  <1>7. o.type = "refund" => Refunded(i)' = Refunded(i) + o.amount
    BY <1>1, RefundAdds DEF Booked
  <1>8. o.type = "void" => Succeeded(i, "void")' # {}
    <2> SUFFICES ASSUME o.type = "void" PROVE k \in Succeeded(i, "void")'
      OBVIOUS
    <2>1. QED BY <1>1 DEF Succeeded, Of
  <1>9. QED BY <1>1, <1>2, <1>4, <1>5, <1>6, <1>7, <1>8

\* What a row reserves is kept while nothing about its payment changes.
LEMMA ReservedStays ==
  ASSUME Booked, Typed', NEW k \in Keys, operation'[k].status = "pending",
         operation[k].status = "pending",
         operation'[k].payment = operation[k].payment,
         operation'[k].type = operation[k].type,
         operation'[k].amount = operation[k].amount,
         operation'[k].expected = operation[k].expected,
         \A t \in Type : Quiet(operation[k].payment, t)
  PROVE  Reserved(k)'
  <1> PICK i : i = operation[k].payment
    OBVIOUS
  <1>1. /\ Succeeded(i, "void")' = Succeeded(i, "void")
        /\ Succeeded(i, "capture")' = Succeeded(i, "capture")
    BY QuietOf DEF Type
  <1>2. Refunded(i)' = Refunded(i)
    BY QuietAmounts DEF Type, Booked
  <1>3. QED BY <1>1, <1>2 DEF Booked, Reserved

LEMMA QuietBooked ==
  ASSUME Booked, Typed', Immutable, OnePending', NEW c \in Keys,
         \A k \in Keys \ {c} : operation'[k] = operation[k],
         operation[c].status # "succeeded", operation'[c].status # "succeeded",
         Reserved(c)'
  PROVE  Booked' /\ \A i \in Payments : \A t \in Type : Quiet(i, t)
  <1>1. \A i : \A t \in Type : Quiet(i, t)
    BY DEF Quiet
  <1>2. \A k \in Keys \ {c} : Reserved(k)'
    <2> SUFFICES ASSUME NEW k \in Keys \ {c}, operation[k].status = "pending"
                 PROVE  Reserved(k)'
      BY DEF Reserved
    <2>1. QED BY <1>1, ReservedStays
  <1>3. RefundsWithinPayment'
    <2> SUFFICES ASSUME NEW i \in Payments
                 PROVE  /\ Refunded(i)' <= Amount[i]
                        /\ Succeeded(i, "void")' # {} => Refunded(i)' = 0
      BY DEF RefundsWithinPayment, Succeeded
    <2>1. Refunded(i)' = Refunded(i) /\ Succeeded(i, "void")' = Succeeded(i, "void")
      BY <1>1, QuietOf, QuietAmounts DEF Type, Booked
    <2>2. QED BY <2>1 DEF Booked, RefundsWithinPayment, Succeeded
  <1>4. QED BY <1>1, <1>2, <1>3 DEF Booked

LEMMA PrepareBooked ==
  ASSUME Booked, Typed', TableTyped, OnePending', NEW w \in Workers, Prepares(w)
  PROVE  Booked' /\ \A i \in Payments : \A t \in Type : Quiet(i, t)
  <1> DEFINE r == op[w]
  <1> PICK c : c = r.key
    OBVIOUS
  <1> PICK i : i = r.payment
    OBVIOUS
  <1>1. /\ c \in Keys /\ operation'[c] = NewRow(r)
        /\ \A k \in Keys \ {c} : operation'[k] = operation[k]
        /\ operation[c].status = "unborn" /\ Eligible(r)
    BY AddTyped DEF Prepares, MayPrepare, Booked
  <1>2. /\ r.type \in Type /\ r.amount \in Nat /\ i \in Payments
        /\ r.type = "void" => r.amount = Amount[i]
    BY DEF Booked, Typed, TypeOK, Request, Serves, Prepares
  <1>3. /\ operation'[c].status = "pending" /\ operation'[c].payment = i
        /\ operation'[c].type = r.type /\ operation'[c].amount = r.amount
        /\ operation'[c].expected = Refunded(i) + r.amount
    BY <1>1 DEF NewRow
  <1>4. \A t \in Type : Quiet(i, t)
    BY <1>1, <1>3 DEF Quiet
  <1>5. /\ Succeeded(i, "void")' = Succeeded(i, "void")
        /\ Succeeded(i, "capture")' = Succeeded(i, "capture")
        /\ Refunded(i)' = Refunded(i)
    BY <1>4, QuietOf, QuietAmounts DEF Type, Booked
  <1>6. /\ r.amount > 0
        /\ Succeeded(i, "void") = {}
        /\ r.type = "refund" => r.amount <= Amount[i] - Refunded(i)
        /\ r.type = "void" => Refunded(i) = 0
        /\ r.type = "capture" => Succeeded(i, "capture") = {}
    BY <1>1, <1>2 DEF Eligible, Succeeded, Type
  <1>7. Refunded(i) \in Nat /\ Amount[i] \in Nat
    BY <1>2, RefundedNat, OperationAssumption DEF Booked
  <1>8. r.type = "refund" => Refunded(i) + r.amount <= Amount[i]
    BY <1>2, <1>6, <1>7
  <1> HIDE DEF r
  <1>9. Reserved(c)'
    BY <1>2, <1>3, <1>5, <1>6, <1>8 DEF Reserved
  <1>10. QED BY <1>1, <1>3, <1>9, QuietBooked DEF TableTyped

\* The pending operation of a payment succeeds.
LEMMA SucceedBooked ==
  ASSUME Booked, Typed', TableTyped, OnePending', NEW k \in Keys,
         operation[k].status = "pending", operation'[k].status = "succeeded",
         \A j \in Keys \ {k} : operation'[j] = operation[j]
  PROVE  Booked'
  <1> PICK i : i = operation[k].payment
    OBVIOUS
  <1>1. /\ i \in Payments /\ operation[k].type \in Type /\ operation[k].amount \in Nat
    BY DEF Booked, Typed, TypeOK, RowTyped, OperationRow
  <1>2. /\ operation[k].type = "refund" =>
              /\ Refunded(i)' = Refunded(i) + operation[k].amount
              /\ Succeeded(i, "void")' = {}
        /\ operation[k].type = "void" =>
              Refunded(i)' = 0 /\ Succeeded(i, "void")' # {}
        /\ operation[k].type = "capture" =>
              Refunded(i)' = Refunded(i) /\ Succeeded(i, "void")' = {}
        /\ \A j \in Payments \ {i} : \A t \in Type : Quiet(j, t)
    BY SuccessCounts DEF TableTyped
  <1>3. \A j \in Keys : Reserved(j)'
    <2> SUFFICES ASSUME NEW j \in Keys, operation'[j].status = "pending"
                 PROVE  Reserved(j)'
      BY DEF Reserved
    <2>1. j # k /\ operation'[j] = operation[j]
      OBVIOUS
    <2>2. operation[j].payment # i
      <3>1. operation[j].payment = i => j \in PendingOf(i) /\ k \in PendingOf(i)
        BY <1>1, <2>1, PendingMembers DEF Booked, Typed, TypeOK, OperationRow
      <3>2. QED BY <1>1, <2>1, <3>1 DEF Booked, OnePending
    <2>3. operation[j].payment \in Payments
      BY <2>1 DEF Booked, Typed, RowTyped
    <2>4. QED BY <1>2, <2>1, <2>2, <2>3, ReservedStays
  <1>4. RefundsWithinPayment'
    <2> SUFFICES ASSUME NEW j \in Payments
                 PROVE  /\ Refunded(j)' <= Amount[j]
                        /\ Succeeded(j, "void")' # {} => Refunded(j)' = 0
      BY DEF RefundsWithinPayment, Succeeded
    <2>1. CASE j # i
      <3>1. Refunded(j)' = Refunded(j) /\ Succeeded(j, "void")' = Succeeded(j, "void")
        BY <1>2, <2>1, QuietOf, QuietAmounts DEF Type, Booked
      <3>2. QED BY <3>1 DEF Booked, RefundsWithinPayment, Succeeded
    <2>2. CASE j = i
      <3>1. /\ Refunded(i) <= Amount[i] /\ Amount[i] \in Nat
            /\ operation[k].type = "refund" =>
                 Refunded(i) + operation[k].amount <= Amount[i]
        BY <1>1, OperationAssumption DEF Booked, RefundsWithinPayment, Reserved
      <3>2. QED BY <1>1, <1>2, <2>2, <3>1 DEF Type
    <2>3. QED BY <2>1, <2>2
  <1>5. QED BY <1>3, <1>4 DEF Booked

LEMMA BookedStep ==
  ASSUME Booked, [Next]_vars
  PROVE  Booked'
  <1>1. Typed' /\ TableTyped
    BY NextTyped, TableStays DEF Booked
  <1>2. TableOK
    BY DEF Booked, Typed, TypeOK, OperationRow, TableOK, RowOK
  <1>3. OnePending'
    BY <1>2, OnePendingStep DEF Booked
  <1>4. CASE UNCHANGED operation
    <2>1. /\ RefundsWithinPayment' = RefundsWithinPayment
          /\ \A k \in Keys : Reserved(k)' = Reserved(k)
      BY <1>4 DEF RefundsWithinPayment, Reserved, Succeeded, Refunded, AmountOf, Of
    <2>2. QED BY <1>1, <1>3, <2>1 DEF Booked
  <1>5. ASSUME NEW w \in Workers, Prepares(w)
        PROVE  Booked'
    BY <1>1, <1>3, <1>5, PrepareBooked
  <1>6. ASSUME NEW k \in Keys, Rewrites(k)
        PROVE  Booked'
    <2>1. PICK s \in {"pending", "succeeded", "failed"},
               c \in Keys \cup {None, operation[k].parent} : Writes(k, s, c)
      BY <1>6 DEF Rewrites
    <2>2. /\ operation[k].status = "pending" /\ operation'[k].status = s
          /\ \A j \in Keys \ {k} : operation'[j] = operation[j]
      BY <1>6, <2>1, WriteTyped DEF Rewrites, Booked
    <2>3. CASE s = "succeeded"
      BY <1>1, <1>3, <2>2, <2>3, SucceedBooked
    <2>4. CASE s # "succeeded"
      <3>1. \A t \in Type : Quiet(operation[k].payment, t)
        BY <2>2, <2>4 DEF Quiet
      <3>2. Reserved(k)'
        BY <1>1, <2>2, <3>1, ReservedStays DEF TableTyped, Immutable, Reserved
      <3>3. QED BY <1>1, <1>3, <2>2, <2>4, <3>2, QuietBooked DEF TableTyped
    <2>5. QED BY <2>3, <2>4
  <1>7. QED BY <1>1, <1>4, <1>5, <1>6, TableStep DEF Booked

LEMMA InitNothing ==
  ASSUME Init
  PROVE  \A i, t, s : s # "unborn" => Of(i, t, s) = {} /\ Refunded(i) = 0
  BY SumEmpty DEF Init, Unborn, Of, Refunded, AmountOf

LEMMA InitBooked ==
  ASSUME Init
  PROVE  Booked
  <1>1. \A i, t : Of(i, t, "succeeded") = {} /\ Of(i, t, "pending") = {} /\ Refunded(i) = 0
    BY InitNothing
  <1>2. RefundsWithinPayment
    BY <1>1, OperationAssumption DEF RefundsWithinPayment
  <1>3. OnePending
    BY <1>1 DEF OnePending, PendingOf
  <1>4. \A k \in Keys : Reserved(k)
    BY DEF Init, Unborn, Reserved
  <1>5. QED BY <1>2, <1>3, <1>4, InitTyped DEF Booked

LEMMA AlwaysBooked == Spec => []Booked
  BY InitBooked, BookedStep, PTL DEF Spec

\* A payment is never given back beyond what was paid, and one that was voided has
\* no refund, in any instance: an operation is prepared only when none is pending,
\* under the payment's lock, so that what it may add is still there when its result
\* is recorded, however late.
THEOREM RefundsStayWithin == Spec => []RefundsWithinPayment
  <1>1. Booked => RefundsWithinPayment
    BY DEF Booked
  <1>2. QED BY <1>1, AlwaysBooked, PTL

-----------------------------------------------------------------------------
\* The operations implement the book: a step adds an operation, fails or succeeds
\* the pending one, or changes nothing the book sees.

LEMMA BookInit ==
  ASSUME Init
  PROVE  Book!Init
  <1>1. \A i : Of(i, "void", "succeeded") = {} /\ Refunded(i) = 0
    BY InitNothing
  <1>2. \A i \in Payments : Given(i) = 0
    BY <1>1 DEF Given
  <1>3. \A k \in Keys : operation[k].status = "unborn" /\ operation[k].payment = None
    BY DEF Init, Unborn
  <1>4. QED BY <1>2, <1>3 DEF Book!Init

\* What the book sees of a payment whose operations have not changed their result.
LEMMA QuietGiven ==
  ASSUME Typed, Typed', NEW i, \A t \in Type : Quiet(i, t)
  PROVE  Given(i)' = Given(i)
  <1>1. Succeeded(i, "void")' = Succeeded(i, "void") /\ Refunded(i)' = Refunded(i)
    BY QuietOf, QuietAmounts DEF Type
  <1>2. QED BY <1>1 DEF Given, Succeeded

BookStep ==
  [Book!Next]_<<[k \in Keys |-> operation[k].status],
                [k \in Keys |-> operation[k].payment],
                [i \in Payments |-> Given(i)]>>

LEMMA BookStays ==
  ASSUME UNCHANGED operation
  PROVE  BookStep
  BY DEF BookStep, Given, Refunded, AmountOf, Of

LEMMA BookAsks ==
  ASSUME Booked, Booked', NEW w \in Workers, Prepares(w)
  PROVE  BookStep
  <1> PICK c : c = op[w].key
    OBVIOUS
  <1> PICK i : i = op[w].payment
    OBVIOUS
  <1>1. /\ c \in Keys /\ operation'[c] = NewRow(op[w])
        /\ \A k \in Keys \ {c} : operation'[k] = operation[k]
        /\ operation[c].status = "unborn" /\ PendingOf(i) = {} /\ i \in Payments
    BY AddTyped DEF Prepares, MayPrepare, Booked, Typed, Serves
  <1>2. operation'[c].status = "pending" /\ operation'[c].payment = i
    BY <1>1 DEF NewRow
  <1>3. \A j \in Payments : Given(j)' = Given(j)
    <2>1. \A j : \A t \in Type : Quiet(j, t)
      BY <1>1, <1>2 DEF Quiet
    <2>2. QED BY <2>1, QuietGiven DEF Booked
  <1>4. \A j \in Keys : operation[j].payment = i => operation[j].status # "pending"
    BY <1>1, PendingMembers DEF Booked, Typed, TypeOK, OperationRow
  <1>5. Book!Ask(c, i)
    BY <1>1, <1>2, <1>3, <1>4 DEF Book!Ask
  <1>6. QED BY <1>1, <1>5 DEF BookStep, Book!Next

LEMMA BookFails ==
  ASSUME Booked, Booked', NEW k \in Keys, operation[k].status = "pending",
         operation'[k].status = "failed", operation'[k].payment = operation[k].payment,
         \A j \in Keys \ {k} : operation'[j] = operation[j]
  PROVE  BookStep
  <1>1. \A i \in Payments : Given(i)' = Given(i)
    <2>1. \A i : \A t \in Type : Quiet(i, t)
      BY DEF Quiet
    <2>2. QED BY <2>1, QuietGiven DEF Booked
  <1>2. Book!Fail(k)
    BY <1>1 DEF Book!Fail
  <1>3. QED BY <1>2 DEF BookStep, Book!Next

LEMMA BookSucceeds ==
  ASSUME Booked, Booked', TableTyped, NEW k \in Keys, operation[k].status = "pending",
         operation'[k].status = "succeeded",
         \A j \in Keys \ {k} : operation'[j] = operation[j]
  PROVE  BookStep
  <1> PICK i : i = operation[k].payment
    OBVIOUS
  <1>1. /\ i \in Payments /\ operation'[k].payment = i /\ operation[k].type \in Type
        /\ operation[k].amount \in Nat /\ Refunded(i) \in Nat /\ Amount[i] \in Nat
    BY RefundedNat, OperationAssumption
       DEF Booked, Typed, TypeOK, RowTyped, OperationRow, TableTyped, Immutable
  <1>2. /\ operation[k].type = "refund" =>
              /\ Refunded(i)' = Refunded(i) + operation[k].amount
              /\ Succeeded(i, "void")' = {}
        /\ operation[k].type = "void" =>
              Refunded(i)' = 0 /\ Succeeded(i, "void")' # {}
        /\ operation[k].type = "capture" =>
              Refunded(i)' = Refunded(i) /\ Succeeded(i, "void")' = {}
        /\ \A j \in Payments \ {i} : \A t \in Type : Quiet(j, t)
    BY SuccessCounts DEF Booked, TableTyped
  <1>3. \A j \in Payments \ {i} : Given(j)' = Given(j)
    BY <1>2, QuietGiven DEF Booked
  <1>4. /\ Succeeded(i, "void") = {} /\ Refunded(i) <= Amount[i]
        /\ operation[k].type = "refund" =>
             Refunded(i) + operation[k].amount <= Amount[i]
        /\ operation[k].type = "void" => Refunded(i) = 0
    BY <1>1 DEF Booked, Reserved, RefundsWithinPayment
  <1>5. PICK a \in 0 .. (Amount[i] - Given(i)) : Given(i)' = Given(i) + a
    <2>1. Given(i) = Refunded(i)
      BY <1>4 DEF Given, Succeeded
    <2>2. CASE operation[k].type = "refund"
      <3>1. Given(i)' = Refunded(i) + operation[k].amount
        BY <1>2, <2>2 DEF Given, Succeeded
      <3>2. operation[k].amount \in 0 .. (Amount[i] - Given(i))
        BY <1>1, <1>4, <2>1, <2>2
      <3>3. QED BY <2>1, <3>1, <3>2
    <2>3. CASE operation[k].type = "void"
      <3>1. Given(i)' = 0 + Amount[i]
        BY <1>2, <2>3 DEF Given, Succeeded
      <3>2. Amount[i] \in 0 .. (Amount[i] - Given(i)) /\ Given(i) = 0
        BY <1>1, <1>4, <2>1, <2>3
      <3>3. QED BY <3>1, <3>2
    <2>4. CASE operation[k].type = "capture"
      <3>1. Given(i)' = Given(i) + 0
        BY <1>1, <1>2, <2>1, <2>4 DEF Given, Succeeded
      <3>2. 0 \in 0 .. (Amount[i] - Given(i))
        BY <1>1, <1>4, <2>1
      <3>3. QED BY <3>1, <3>2
    <2>5. QED BY <1>1, <2>2, <2>3, <2>4 DEF Type
  <1> DEFINE of == [j \in Keys |-> operation[j].payment]
             given == [j \in Payments |-> Given(j)]
  <1>6. /\ given' = [given EXCEPT ![of[k]] = @ + a]
        /\ a \in 0 .. (Amount[of[k]] - given[of[k]])
    <2>1. of[k] = i /\ given[i] = Given(i)
      BY <1>1
    <2>2. given' = [j \in Payments |-> IF j = i THEN Given(i) + a ELSE Given(j)]
      BY <1>3, <1>5
    <2>3. QED BY <1>1, <1>5, <2>1, <2>2
  <1>7. /\ [j \in Keys |-> operation'[j].status]
             = [[j \in Keys |-> operation[j].status] EXCEPT ![k] = "succeeded"]
        /\ of' = of /\ [j \in Keys |-> operation[j].status][k] = "pending"
    BY <1>1
  <1>8. Book!Succeed(k)
    BY <1>6, <1>7 DEF Book!Succeed
  <1>9. QED BY <1>8 DEF BookStep, Book!Next

LEMMA BookNext ==
  ASSUME Booked, Booked', [Next]_vars
  PROVE  BookStep
  <1>1. TableTyped
    BY TableStays DEF Booked
  <1>2. ASSUME NEW k \in Keys, Rewrites(k)
        PROVE  BookStep
    <2>1. PICK s \in {"pending", "succeeded", "failed"},
               c \in Keys \cup {None, operation[k].parent} : Writes(k, s, c)
      BY <1>2 DEF Rewrites
    <2>2. /\ operation[k].status = "pending" /\ operation'[k].status = s
          /\ \A j \in Keys \ {k} : operation'[j] = operation[j]
          /\ operation'[k].payment = operation[k].payment
      BY <1>1, <1>2, <2>1, WriteTyped DEF Rewrites, Booked, TableTyped, Immutable
    <2>3. CASE s = "succeeded"
      BY <1>1, <2>2, <2>3, BookSucceeds
    <2>4. CASE s = "failed"
      BY <2>2, <2>4, BookFails
    <2>5. CASE s = "pending"
      <3>1. \A i : \A t \in Type : Quiet(i, t)
        BY <2>2, <2>5 DEF Quiet
      <3>2. \A i \in Payments : Given(i)' = Given(i)
        BY <3>1, QuietGiven DEF Booked
      <3>3. \A j \in Keys : /\ operation'[j].status = operation[j].status
                            /\ operation'[j].payment = operation[j].payment
        BY <2>2, <2>5
      <3>4. QED BY <3>2, <3>3 DEF BookStep
    <2>6. QED BY <2>3, <2>4, <2>5
  <1>3. QED BY <1>2, TableStep, BookStays, BookAsks DEF Booked

\* Every execution of the operations is one of the book: each is asked for once,
\* one at a time for a payment, has one result, and adds no more than what is left.
THEOREM OperationsImplementBook == Spec => BookSpec
  <1>1. Booked /\ Booked' /\ [Next]_vars =>
          [Book!Next]_<<[k \in Keys |-> operation[k].status],
                        [k \in Keys |-> operation[k].payment],
                        [i \in Payments |-> Given(i)]>>
    BY BookNext DEF BookStep
  <1>2. QED BY <1>1, BookInit, AlwaysBooked, PTL DEF Spec, BookSpec, Book!Spec


-----------------------------------------------------------------------------
\* What has succeeded has been done, but for what a webhook or a flag of the parent may
\* have taken for it.

Vouched(k) == made[k] = "succeeded" \/ Confusable(k) \/ FlagOfAnother(k)

\* The provider has done what k asks for, on its transaction, be it as k or not.
Shows(k) == Children(operation[k].parent, operation[k].type, {"succeeded"}) # {}

\* An operation is done on the sale or the authorization, or on what a capture of
\* it has become; a capture, on the authorization.
Parented(k) ==
  LET o == operation[k]
  IN  o.status # "unborn" =>
        /\ \/ o.parent = o.payment
           \/ /\ o.parent \in Keys /\ operation[o.parent].payment = o.payment
              /\ Succeeded(o.payment, "capture") # {}
        /\ o.type = "capture" => o.parent = o.payment

Real(k) == operation[k].status = "succeeded" => Vouched(k)

\* The request is about to record, or will if its operation stays pending.
Recording(w) ==
  op[w].step = "record" \/ (op[w].step = "finalize" /\ operation[op[w].key].status = "pending")

\* The answer that a request records was true when it was given, if the operation
\* was pending then.
Backed(w) ==
  \A k : k = op[w].key /\ Recording(w) /\ Says(w) = "succeeded" => Vouched(k)

\* A void or a capture that is recorded has been done on the parent.
Shown(w) ==
  \A k : /\ k = op[w].key /\ op[w].step \in {"finalize", "record"}
         /\ operation[k].type # "refund" /\ Says(w) = "succeeded"
         => Shows(k)

\* A capture that has succeeded has collected the payment.
Collects ==
  \A i \in Payments : Succeeded(i, "capture") # {} => payment[i] = "succeeded"

Genuine ==
  /\ Booked /\ Careful
  /\ \A k \in Keys : Parented(k) /\ Real(k)
  /\ \A w \in Workers : Backed(w) /\ Shown(w)
  /\ Collects /\ CollectedIfCaptured

\* Two operations on one transaction are of one payment.
LEMMA OneParent ==
  ASSUME Genuine, NEW j \in Keys, NEW k \in Keys,
         operation[j].status # "unborn", operation[k].status # "unborn",
         operation[j].parent = operation[k].parent
  PROVE  operation[j].payment = operation[k].payment
  <1>1. operation[j].payment \in Payments /\ operation[k].payment \in Payments
    BY DEF Genuine, Booked, Typed, RowTyped
  <1>2. Parented(j) /\ Parented(k)
    BY DEF Genuine
  <1>3. QED BY <1>1, <1>2, OperationAssumption DEF Parented

\* While k is pending and not done, and cannot be confused with another, what has been
\* done of its kind on its transaction has been recorded.
LEMMA ChildrenRecorded ==
  ASSUME Genuine, NEW k \in Keys, operation[k].status = "pending",
         made[k] # "succeeded", ~Confusable(k), NEW t, t = operation[k].type
  PROVE  Children(operation[k].parent, t, {"succeeded"})
           \subseteq Succeeded(operation[k].payment, t)
  <1> SUFFICES ASSUME NEW j \in Children(operation[k].parent, t, {"succeeded"})
               PROVE  j \in Succeeded(operation[k].payment, t)
    OBVIOUS
  <1>1. /\ j \in Keys /\ operation[j].parent = operation[k].parent
        /\ operation[j].type = t /\ made[j] = "succeeded" /\ j # k
    BY DEF Children
  <1>2. operation[j].status \in {"pending", "succeeded"}
    <2>1. RowFits(j) /\ operation[j].status \in OperationStatus
      BY <1>1 DEF Genuine, Careful, Booked, Typed, TypeOK, OperationRow
    <2>2. CASE operation[j].status = "failed"
      <3>1. Confusable(j)
        BY <1>1, <2>1, <2>2 DEF RowFits
      <3>2. PICK l \in Keys \ {j} :
               /\ operation[l].parent = operation[j].parent
               /\ operation[l].type = operation[j].type /\ Unnamed(l)
        BY <3>1 DEF Confusable
      <3>3. l # k
        BY <3>2 DEF Unnamed
      <3>4. QED BY <1>1, <3>2, <3>3 DEF Confusable
    <2>3. QED BY <1>1, <2>1, <2>2 DEF RowFits, OperationStatus
  <1>3. operation[j].payment = operation[k].payment
    BY <1>1, <1>2, OneParent
  <1>4. operation[j].status # "pending"
    <2>1. /\ operation[k].payment \in Payments
          /\ operation[j].type \in Type /\ operation[k].type \in Type
      BY <1>1 DEF Genuine, Booked, Typed, TypeOK, RowTyped, OperationRow
    <2>2. \A l \in {j, k} : operation[l].status = "pending" =>
            l \in PendingOf(operation[k].payment)
      BY <1>1, <1>3, <2>1, PendingMembers
    <2>3. QED BY <1>1, <2>1, <2>2 DEF Genuine, Booked, OnePending
  <1>5. QED BY <1>1, <1>2, <1>3, <1>4 DEF Succeeded, Of

LEMMA LookSays ==
  ASSUME NEW tx
  PROVE  /\ Look(tx).tx = tx
         /\ Look(tx).refunded = AmountOf(Children(tx, "refund", {"succeeded"}))
         /\ Look(tx).full =>
              /\ Look(tx).refunded > 0
              /\ PartialFlag \/ Look(tx).refunded
                               = Amount[IF tx \in Payments THEN tx ELSE operation[tx].payment]
         /\ Look(tx).voided = Voided(tx) /\ Look(tx).captured = Captured(tx)
  <1> DEFINE total == AmountOf(Children(tx, "refund", {"succeeded"}))
             sale == IF tx \in Payments THEN tx ELSE operation[tx].payment
             full == total > 0 /\ (PartialFlag \/ total = Amount[sale])
             voided == Voided(tx)
             captured == Captured(tx)
  <1>1. Look(tx) = [NoAnswer EXCEPT !.tx = tx, !.refunded = total, !.full = full,
                                    !.voided = voided, !.captured = captured]
    BY DEF Look
  <1>2. full => total > 0 /\ (PartialFlag \/ total = Amount[sale])
    OBVIOUS
  <1> HIDE DEF total, full, voided, captured, sale
  <1>3. /\ Look(tx).tx = tx /\ Look(tx).refunded = total /\ Look(tx).full = full
        /\ Look(tx).voided = voided /\ Look(tx).captured = captured
    BY <1>1 DEF NoAnswer
  <1>4. QED BY <1>2, <1>3 DEF total, voided, captured, sale

\* A flag is set only by a refund that has been done.
LEMMA FlagIsSet ==
  ASSUME Typed, NEW k \in Keys, made[k] # "succeeded", operation[k].type = "refund",
         AmountOf(Children(operation[k].parent, "refund", {"succeeded"})) > 0, PartialFlag
  PROVE  FlagOfAnother(k)
  <1> PICK S : S = Children(operation[k].parent, "refund", {"succeeded"})
    OBVIOUS
  <1>1. S # {}
    <2> SUFFICES ASSUME S = {} PROVE FALSE
      OBVIOUS
    <2> DEFINE f == [j \in Keys |-> operation[j].amount]
    <2>1. SumFunctionOnSet(f, {}) = 0
      BY SumEmpty
    <2>2. AmountOf(S) = SumFunctionOnSet(f, S)
      BY DEF AmountOf
    <2> HIDE DEF f
    <2>3. QED BY <2>1, <2>2
  <1>2. k \notin S
    BY DEF Children
  <1>3. QED BY <1>1, <1>2 DEF FlagOfAnother

\* The state of the transaction confirms a pending operation only when it has been
\* done: the refunds before it are less than what it expects.
LEMMA ConfirmedIsDone ==
  ASSUME Genuine, NEW k \in Keys, operation[k].status = "pending",
         Outcome(k, Look(operation[k].parent)) = "succeeded"
  PROVE  Vouched(k)
  <1> SUFFICES ASSUME made[k] # "succeeded", ~Confusable(k), ~FlagOfAnother(k) PROVE FALSE
    BY DEF Vouched
  <1> PICK tx : tx = operation[k].parent
    OBVIOUS
  <1> PICK i : i = operation[k].payment
    OBVIOUS
  <1> PICK o : o = operation[k]
    OBVIOUS
  <1> PICK a : a = Look(tx)
    OBVIOUS
  <1>1. /\ o.type \in Type /\ i \in Payments /\ o.amount \in Nat
        /\ Provider[i] = "paymob" \/ o.type = "refund"
        /\ Provider[i] \in {"paymob", "fawry"} /\ Amount[i] \in Nat
    BY OperationAssumption DEF Genuine, Booked, Typed, TypeOK, RowTyped, OperationRow
  <1>2. /\ o.amount > 0 /\ Succeeded(i, "void") = {}
        /\ o.type = "refund" => /\ o.expected = Refunded(i) + o.amount
                                /\ o.expected <= Amount[i]
        /\ o.type = "capture" => Succeeded(i, "capture") = {}
    BY DEF Genuine, Booked, Reserved
  <1>3. \A t : t = o.type => Children(tx, t, {"succeeded"}) \subseteq Succeeded(i, t)
    BY ChildrenRecorded
  <1>4. o.type = "void" => ~Voided(tx)
    BY <1>2, <1>3 DEF Voided
  <1>5. o.type = "capture" => ~Captured(tx)
    BY <1>2, <1>3 DEF Captured
  <1>6. /\ a.tx = tx /\ a.refunded = AmountOf(Children(tx, "refund", {"succeeded"}))
        /\ a.full => a.refunded > 0
        /\ a.full => PartialFlag \/ a.refunded
                       = Amount[IF tx \in Payments THEN tx ELSE operation[tx].payment]
        /\ a.voided = Voided(tx) /\ a.captured = Captured(tx)
    BY LookSays
  <1>7. (IF tx \in Payments THEN tx ELSE operation[tx].payment) = i
    <2>1. \/ tx = i
          \/ tx \in Keys /\ operation[tx].payment = i
      BY DEF Genuine, Parented
    <2>2. QED BY <1>1, <2>1, OperationAssumption
  <1>8. o.type = "refund" =>
          a.refunded \in Nat /\ Refunded(i) \in Nat /\ a.refunded <= Refunded(i)
    <2> SUFFICES ASSUME o.type = "refund"
                 PROVE  a.refunded \in Nat /\ Refunded(i) \in Nat /\ a.refunded <= Refunded(i)
      OBVIOUS
    <2> DEFINE f == [j \in Keys |-> operation[j].amount]
               S == Succeeded(i, "refund")
               T == Children(tx, "refund", {"succeeded"})
    <2>1. T \in SUBSET S /\ T \in SUBSET Keys /\ S \in SUBSET Keys
      BY <1>3 DEF Children, Succeeded, Of
    <2>2. IsFiniteSet(S) /\ \A j \in S : f[j] \in Nat
      BY <2>1, OperationAssumption, FS_Subset
         DEF Genuine, Booked, Typed, TypeOK, OperationRow
    <2>3. /\ Refunded(i) = SumFunctionOnSet(f, S)
          /\ a.refunded = SumFunctionOnSet(f, T)
      BY <1>6 DEF Refunded, AmountOf, Succeeded
    <2>4. a.refunded \in Nat /\ Refunded(i) \in Nat
      BY <1>6, <2>1, AmountNat DEF Genuine, Booked, Refunded, Succeeded
    <2> HIDE DEF f, S, T
    <2>5. SumFunctionOnSet(f, T) <= SumFunctionOnSet(f, S)
      BY <2>1, <2>2, SumMonotone
    <2>6. QED BY <2>3, <2>4, <2>5
  <1>9. Outcome(k, a) = "succeeded"
    OBVIOUS
  <1>10. CASE o.type = "refund"
    <2>1. a.refunded < Amount[i] /\ ~(a.refunded >= o.expected)
      BY <1>1, <1>2, <1>8, <1>10
    <2>2. ~a.full
      <3>1. a.full => ~PartialFlag
        BY <1>6, <1>10, FlagIsSet DEF Genuine, Booked
      <3>2. QED BY <1>1, <1>6, <1>7, <1>8, <1>10, <2>1, <3>1
    <2>3. a.refunded # Amount[i]
      BY <1>1, <1>8, <1>10, <2>1
    <2>4. CASE Provider[i] = "fawry"
      BY <1>6, <1>9, <1>10, <2>3, <2>4 DEF Outcome
    <2>5. CASE Provider[i] = "paymob"
      BY <1>6, <1>9, <1>10, <2>1, <2>2, <2>5 DEF Outcome
    <2>6. QED BY <1>1, <2>4, <2>5
  <1>11. CASE o.type = "void"
    BY <1>1, <1>4, <1>6, <1>9, <1>11 DEF Outcome
  <1>12. CASE o.type = "capture"
    BY <1>1, <1>5, <1>6, <1>9, <1>12 DEF Outcome
  <1>13. QED BY <1>1, <1>10, <1>11, <1>12 DEF Type

-----------------------------------------------------------------------------
\* What a step leaves as it is.

LEMMA RowsBy ==
  ASSUME Typed, [Next]_vars
  PROVE  \A k \in Keys :
           \/ operation'[k] = operation[k]
           \/ operation[k].status = "pending"
           \/ /\ operation[k].status = "unborn"
              /\ \E w \in Workers : Prepares(w) /\ op[w].key = k
  <1>1. ASSUME NEW w \in Workers, Prepares(w)
        PROVE  /\ operation[op[w].key].status = "unborn"
               /\ \A k \in Keys \ {op[w].key} : operation'[k] = operation[k]
    BY <1>1, AddTyped DEF Prepares, MayPrepare
  <1>2. ASSUME NEW j \in Keys, Rewrites(j)
        PROVE  /\ operation[j].status = "pending"
               /\ \A k \in Keys \ {j} : operation'[k] = operation[k]
    BY <1>2, WriteTyped DEF Rewrites
  <1>3. QED BY <1>1, <1>2, TableStep

LEMMA FinalsStay ==
  ASSUME Typed, [Next]_vars
  PROVE  \A k \in Keys :
           /\ operation[k].status \in {"succeeded", "failed"} => operation'[k] = operation[k]
           /\ operation[k].status # "unborn" /\ operation'[k].status = "pending" =>
                operation[k].status = "pending"
  BY RowsBy

LEMMA SucceededStay ==
  ASSUME Typed, [Next]_vars
  PROVE  \A i, t : Succeeded(i, t) \subseteq Succeeded(i, t)'
  BY FinalsStay DEF Succeeded, Of

LEMMA MadeStays ==
  ASSUME Careful, [Next]_vars
  PROVE  \A k \in Keys :
           /\ made[k] # "none" => made'[k] # "none"
           /\ made[k] \in {"succeeded", "failed"} => made'[k] = made[k]
  <1>1. \/ UNCHANGED made
        \/ \E w \in Workers : CallProvider(w)
        \/ \E k \in Keys : ProviderDecides(k)
    BY ZenonT(40) DEF Next, vars, Arrive, Proceed, StartOperation, StartRecovery,
           StartChildWebhook, Prepare, Preflight, Reject, StoreChild, Verify,
           VerifyUnavailable, MatchChild, Finalize, CommitRecord, Record, Crash,
           LearnVoided, Keep
  <1>2. ASSUME NEW w \in Workers, CallProvider(w)
        PROVE  UNCHANGED made \/ \E s : s # "none" /\ made' = [made EXCEPT ![op[w].key] = s]
    <2> PICK s : s = IF Provider[op[w].payment] = "fawry" THEN "succeeded" ELSE "pending"
      OBVIOUS
    <2>1. s # "none" /\ (UNCHANGED made \/ made' = [made EXCEPT ![op[w].key] = s])
      BY <1>2 DEF CallProvider
    <2>2. QED BY <2>1
  <1>3. ASSUME NEW w \in Workers, CallProvider(w), NEW k \in Keys
        PROVE  /\ made[k] # "none" => made'[k] # "none"
               /\ made[k] \in {"succeeded", "failed"} => made'[k] = made[k]
    <2>1. op[w].key \in Keys /\ made[op[w].key] = "none"
      BY <1>3, Now DEF CallProvider, Fits, KeySteps, OwnSteps
    <2>2. QED BY <1>2, <1>3, <2>1 DEF Careful
  <1>4. ASSUME NEW j \in Keys, ProviderDecides(j), NEW k \in Keys
        PROVE  /\ made[k] # "none" => made'[k] # "none"
               /\ made[k] \in {"succeeded", "failed"} => made'[k] = made[k]
    BY <1>4 DEF ProviderDecides, Careful
  <1>5. QED BY <1>1, <1>3, <1>4

LEMMA NextAdvances ==
  ASSUME Careful, Typed, [Next]_vars
  PROVE  Advances
  <1>1. Immutable
    BY TableStays DEF TableTyped
  <1>2. QED BY <1>1, FinalsStay, MadeStays DEF Immutable, Advances

\* What has been done on a transaction stays done.
LEMMA ChildrenStay ==
  ASSUME Typed, Advances, NEW tx \in Transaction, NEW t
  PROVE  Children(tx, t, {"succeeded"}) \subseteq Children(tx, t, {"succeeded"})'
  <1> SUFFICES ASSUME NEW j \in Children(tx, t, {"succeeded"})
               PROVE  j \in Children(tx, t, {"succeeded"})'
    OBVIOUS
  <1>1. /\ j \in Keys /\ operation[j].parent = tx /\ operation[j].type = t
        /\ made[j] = "succeeded"
    BY DEF Children
  <1>2. operation[j].status # "unborn"
    BY <1>1, OperationAssumption DEF Typed, RowTyped, Transaction
  <1>3. QED BY <1>1, <1>2 DEF Advances, Children

LEMMA VouchedStays ==
  ASSUME Typed, Advances, NEW k \in Keys, operation[k].status # "unborn", Vouched(k)
  PROVE  Vouched(k)'
  <1> PICK tx : tx = operation[k].parent
    OBVIOUS
  <1>1. tx \in Transaction /\ operation'[k].parent = tx /\ operation'[k].type = operation[k].type
    BY DEF Typed, RowTyped, Advances
  <1>2. made[k] = "succeeded" => made'[k] = "succeeded"
    BY DEF Advances
  <1>3. Confusable(k) => Confusable(k)'
    BY ConfusableStays
  <1>4. FlagOfAnother(k) => FlagOfAnother(k)'
    <2>1. Children(tx, "refund", {"succeeded"}) \subseteq Children(tx, "refund", {"succeeded"})'
      BY <1>1, ChildrenStay
    <2>2. QED BY <1>1, <2>1 DEF FlagOfAnother
  <1>5. QED BY <1>2, <1>3, <1>4 DEF Vouched

LEMMA ShowsStays ==
  ASSUME Typed, Advances, NEW k \in Keys, operation[k].status # "unborn", Shows(k)
  PROVE  Shows(k)'
  <1> PICK tx : tx = operation[k].parent
    OBVIOUS
  <1> PICK t : t = operation[k].type
    OBVIOUS
  <1>1. tx \in Transaction /\ operation'[k].parent = tx /\ operation'[k].type = t
    BY DEF Typed, RowTyped, Advances
  <1>2. Children(tx, t, {"succeeded"}) \subseteq Children(tx, t, {"succeeded"})'
    BY <1>1, ChildrenStay
  <1>3. QED BY <1>1, <1>2 DEF Shows

\* What an answer says of an operation does not change once it has been given.
LEMMA SaysSame ==
  ASSUME Careful, Immutable, NEW w \in Workers,
         op[w].step \in {"finalize", "record"},
         op'[w].key = op[w].key, op'[w].answer = op[w].answer
  PROVE  Says(w)' = Says(w)
  <1> PICK k : k = op[w].key
    OBVIOUS
  <1> PICK a : a = op[w].answer
    OBVIOUS
  <1>1. k \in Keys /\ operation[k].status # "unborn" /\ Knows(k, a.tx)
    BY AnswerFits
  <1>2. LET o == operation[k]  n == operation'[k]
        IN  /\ n.payment = o.payment /\ n.type = o.type /\ n.amount = o.amount
            /\ n.expected = o.expected /\ n.parent = o.parent
    BY <1>1 DEF Immutable
  <1>3. a.tx # operation[k].parent =>
          LET o == operation[a.tx]  n == operation'[a.tx]
          IN  n.type = o.type /\ n.amount = o.amount /\ n.parent = o.parent
    BY <1>1 DEF Knows, Immutable
  <1>4. CASE a.tx = operation[k].parent
    BY <1>2, <1>4 DEF Says, Outcome
  <1>5. CASE a.tx # operation[k].parent
    BY <1>2, <1>3, <1>5 DEF Says, Outcome
  <1>6. QED BY <1>4, <1>5

-----------------------------------------------------------------------------
\* Who records a success.

Records(w) ==
  /\ op[w].step \in {"finalize", "record"} /\ Recording(w)
  /\ Record(w, op[w].key, op[w].answer)

LEMMA CommitRecords ==
  ASSUME NEW w \in Workers, CommitRecord(w)
  PROVE  Records(w)
  BY DEF CommitRecord, Records, Recording

LEMMA FinalizeReads ==
  ASSUME NEW w \in Workers, Finalize(w)
  PROVE  \/ UNCHANGED <<operation, payment, made>> /\ Abort(w)
         \/ /\ UNCHANGED <<operation, payment, made>> /\ Goto(w, "record")
            /\ operation[op[w].key].status = "pending" /\ op[w].step = "finalize"
         \/ /\ UNCHANGED <<payment, made>> /\ Abort(w)
            /\ operation' = [operation EXCEPT ![op[w].key].child = op[w].answer.tx]
         \/ Records(w)
  BY SMTT(30) DEF Finalize, Keep, Records, Recording

\* The record of a result is written and what follows from it is done, or both are
\* rolled back.
LEMMA RecordWrites ==
  ASSUME Careful, Typed, NEW w \in Workers, Records(w), NEW k, k = op[w].key
  PROVE  /\ k \in Keys /\ operation[k].status # "unborn" /\ UNCHANGED made
         /\ op[w].step \in {"finalize", "record"}
         /\ \/ UNCHANGED <<operation, payment>>
            \/ /\ IF operation[k].status = "pending"
                    THEN /\ operation'[k].status = Says(w)
                         /\ \A j \in Keys \ {k} : operation'[j] = operation[j]
                    ELSE UNCHANGED operation
               /\ payment' = [payment EXCEPT ![operation[k].payment] =
                    CASE Says(w) = "succeeded" /\ operation[k].type = "capture" -> "succeeded"
                      [] Says(w) = "succeeded" /\ operation[k].type = "void"
                           /\ @ = "requires_action" -> "cancelled"
                      [] OTHER -> @]
  <1> DEFINE o == operation[k]  out == Says(w)
             child == IF Provider[o.payment] = "paymob" /\ (out = "succeeded" \/
                                            (op[w].links /\ o.child = None))
                        THEN op[w].answer.tx ELSE o.child
  <1>1. /\ k \in Keys /\ o.status # "unborn" /\ op[w].step \in {"finalize", "record"}
        /\ o \in OperationRow
    BY AnswerFits DEF Records, Typed, TypeOK
  <1>2. UNCHANGED made
    BY DEF Records, Record
  <1>3. \/ UNCHANGED <<operation, payment>>
        \/ /\ operation' = IF o.status = "pending"
                             THEN [operation EXCEPT ![k].status = out, ![k].child = child]
                             ELSE operation
           /\ payment' = [payment EXCEPT ![operation[k].payment] =
                    CASE Says(w) = "succeeded" /\ operation[k].type = "capture" -> "succeeded"
                      [] Says(w) = "succeeded" /\ operation[k].type = "void"
                           /\ @ = "requires_action" -> "cancelled"
                      [] OTHER -> @]
    BY DEF Records, Record, Says
  <1> HIDE DEF out, child
  <1>4. ASSUME operation' = [operation EXCEPT ![k].status = out, ![k].child = child]
        PROVE  /\ operation'[k].status = out
               /\ \A j \in Keys \ {k} : operation'[j] = operation[j]
    BY <1>1, <1>4 DEF Typed, TypeOK, OperationRow
  <1>5. out = Says(w)
    BY DEF out
  <1>6. QED BY <1>1, <1>2, <1>3, <1>4, <1>5

\* An operation succeeds when a request records that the provider has said so.
LEMMA SuccessBy ==
  ASSUME Careful, Typed, [Next]_vars, NEW k \in Keys,
         operation[k].status # "succeeded", operation'[k].status = "succeeded"
  PROVE  /\ operation[k].status = "pending"
         /\ \E w \in Workers : Records(w) /\ op[w].key = k /\ Says(w) = "succeeded"
  <1>1. \/ UNCHANGED operation
        \/ \E w \in Workers : \/ Prepare(w)
                              \/ Reject(w) \/ StoreChild(w) \/ Finalize(w)
                              \/ CommitRecord(w)
    BY DEF Next, vars, Arrive, Proceed, StartOperation, StartRecovery,
           StartChildWebhook, Preflight, CallProvider, Verify, VerifyUnavailable,
           MatchChild, Crash, ProviderDecides, LearnVoided, Keep
  <1>2. ASSUME NEW w \in Workers, Prepare(w)
        PROVE  FALSE
    <2>1. UNCHANGED operation \/ Prepares(w)
      BY <1>2 DEF Prepare, Prepares, NewRow
    <2>2. CASE Prepares(w)
      <3>1. /\ operation'[op[w].key] = NewRow(op[w])
            /\ \A j \in Keys \ {op[w].key} : operation'[j] = operation[j]
        BY <2>2, AddTyped DEF Prepares, MayPrepare
      <3>2. operation'[op[w].key].status = "pending"
        BY <3>1 DEF NewRow
      <3>3. QED BY <3>1, <3>2
    <2>3. QED BY <2>1, <2>2
  <1>3. ASSUME NEW w \in Workers, Reject(w)
        PROVE  FALSE
    BY <1>3 DEF Reject, Typed, TypeOK, OperationRow
  <1>4. ASSUME NEW j, NEW c, operation' = [operation EXCEPT ![j] = [operation[j] EXCEPT !.child = c]]
        PROVE  FALSE
    <2> DEFINE n == [operation[k] EXCEPT !.child = c]
    <2>1. n.status = operation[k].status
      BY DEF Typed, TypeOK, OperationRow
    <2>2. operation'[k] \in {operation[k], n}
      BY <1>4 DEF Typed, TypeOK
    <2> HIDE DEF n
    <2>3. QED BY <2>1, <2>2
  <1>5. ASSUME NEW w \in Workers, StoreChild(w)
        PROVE  FALSE
    <2>1. \/ UNCHANGED operation
          \/ \E c : operation' = [operation EXCEPT ![op[w].key] =
                                    [operation[op[w].key] EXCEPT !.child = c]]
      BY <1>5 DEF StoreChild
    <2>2. QED BY <1>4, <2>1
  <1>6. ASSUME NEW w \in Workers, Records(w)
        PROVE  /\ op[w].key = k /\ Says(w) = "succeeded"
               /\ operation[k].status = "pending"
    BY <1>6, RecordWrites
  <1>7. ASSUME NEW w \in Workers, Finalize(w)
        PROVE  Records(w)
    <2>1. ASSUME operation' = [operation EXCEPT ![op[w].key].child = op[w].answer.tx]
          PROVE  FALSE
      <3> PICK j : j = op[w].key
        OBVIOUS
      <3> PICK c : c = op[w].answer.tx
        OBVIOUS
      <3>1. operation' = [operation EXCEPT ![j] = [operation[j] EXCEPT !.child = c]]
        BY <2>1
      <3>2. QED BY <1>4, <3>1
    <2>2. QED BY <1>7, <2>1, FinalizeReads
  <1>8. PICK w \in Workers : Records(w)
    BY <1>1, <1>2, <1>3, <1>5, <1>7, CommitRecords
  <1>9. QED BY <1>6, <1>8

-----------------------------------------------------------------------------
\* Every step keeps it.

\* Which requests a step moves.
LEMMA StepMoves ==
  ASSUME Careful, [Next]_vars, NEW w \in Workers, op'[w] # op[w]
  PROVE  Arrive(w) \/ Proceed(w) \/ Crash(w)
  <1>1. op' # op
    OBVIOUS
  <1>2. PICK v \in Workers : Arrive(v) \/ Proceed(v) \/ Crash(v)
    BY <1>1 DEF Next, vars, ProviderDecides, LearnVoided
  <1>3. \E r : op' = [op EXCEPT ![v] = r]
    <2>1. CASE Arrive(v)
      BY <2>1 DEF Arrive, StartOperation, StartRecovery, StartChildWebhook
    <2>2. CASE Crash(v)
      BY <2>2 DEF Crash, Abort
    <2>3. Abort(v) \/ (\E s : Goto(v, s)) => \E r : op' = [op EXCEPT ![v] = r]
      BY DEF Abort, Goto
    <2>4. ASSUME NEW s, NEW a, op' = [op EXCEPT ![v].step = s, ![v].answer = a]
          PROVE  \E r : op' = [op EXCEPT ![v] = r]
      BY <2>4
    <2>5. ASSUME NEW s, NEW k, NEW l,
                 op' = [op EXCEPT ![v].step = s, ![v].key = k, ![v].links = l]
          PROVE  \E r : op' = [op EXCEPT ![v] = r]
      BY <2>5
    <2>6. CASE Prepare(v) \/ Preflight(v) \/ Reject(v) \/ VerifyUnavailable(v)
      <3>1. Abort(v) \/ \E s : Goto(v, s)
        BY <2>6 DEF Prepare, Preflight, Reject, VerifyUnavailable
      <3>2. QED BY <2>3, <3>1
    <2>7. CASE CallProvider(v) \/ StoreChild(v) \/ Verify(v)
      <3>1. \/ Abort(v) \/ \E s : Goto(v, s)
            \/ \E s, a : op' = [op EXCEPT ![v].step = s, ![v].answer = a]
        <4>1. CASE CallProvider(v)
          BY <4>1 DEF CallProvider
        <4>2. CASE StoreChild(v)
          BY <4>2 DEF StoreChild
        <4>3. CASE Verify(v)
          BY <4>3 DEF Verify
        <4>4. QED BY <2>7, <4>1, <4>2, <4>3
      <3>2. QED BY <2>3, <2>4, <3>1
    <2>8. CASE Finalize(v) \/ CommitRecord(v)
      <3>1. Abort(v) \/ \E s : Goto(v, s)
        BY <2>8, FinalizeReads DEF Records, Record, CommitRecord
      <3>2. QED BY <2>3, <3>1
    <2>9. CASE MatchChild(v)
      <3> PICK a : a = op[v].answer
        OBVIOUS
      <3>1. \/ Abort(v)
            \/ \E k \in Keys : \E l :
                 op' = [op EXCEPT ![v].step = "finalize", ![v].key = k, ![v].links = l]
        BY <2>9, MatchReads
      <3>2. QED BY <2>3, <2>5, <3>1
    <2>10. QED BY <1>2, <2>1, <2>2, <2>6, <2>7, <2>8, <2>9 DEF Proceed
  <1>4. v = w
    BY <1>3 DEF Careful
  <1>5. QED BY <1>2, <1>4

LEMMA RealStep ==
  ASSUME Genuine, [Next]_vars, NEW k \in Keys
  PROVE  Real(k)'
  <1> SUFFICES ASSUME operation'[k].status = "succeeded"
               PROVE  Vouched(k)'
    BY DEF Real
  <1>1. Typed /\ Careful /\ Advances
    BY NextAdvances DEF Genuine, Booked
  <1>2. CASE operation[k].status = "succeeded"
    BY <1>1, <1>2, VouchedStays DEF Genuine, Real
  <1>3. CASE operation[k].status # "succeeded"
    <2>1. /\ operation[k].status = "pending"
          /\ \E w \in Workers : Records(w) /\ op[w].key = k /\ Says(w) = "succeeded"
      BY <1>1, <1>3, SuccessBy
    <2>2. Vouched(k)
      BY <2>1 DEF Genuine, Backed, Records
    <2>3. QED BY <1>1, <2>1, <2>2, VouchedStays
  <1>4. QED BY <1>2, <1>3

LEMMA ParentedStep ==
  ASSUME Genuine, [Next]_vars, NEW k \in Keys
  PROVE  Parented(k)'
  <1>1. Typed /\ Careful /\ Immutable
    BY TableStays DEF Genuine, Booked, TableTyped
  \* An operation that names a payment stays with it.
  <1>2. \A j \in Keys : operation[j].payment \in Payments =>
          operation'[j].payment = operation[j].payment
    BY <1>1, OperationAssumption DEF Immutable, Typed, TypeOK, OperationRow, RowTyped,
       OperationStatus
  <1>3. \A i, t : Succeeded(i, t) # {} => Succeeded(i, t)' # {}
    BY <1>1, SucceededStay
  <1>4. CASE operation[k].status # "unborn"
    <2>1. /\ operation[k].payment \in Payments /\ Parented(k)
          /\ operation'[k].payment = operation[k].payment
          /\ operation'[k].parent = operation[k].parent
          /\ operation'[k].type = operation[k].type
      BY <1>1, <1>4 DEF Genuine, Immutable, Typed, RowTyped
    <2>2. QED BY <1>2, <1>3, <1>4, <2>1 DEF Parented
  <1>5. CASE operation[k].status = "unborn" /\ operation'[k].status # "unborn"
    <2>1. PICK w \in Workers : Prepares(w) /\ op[w].key = k
      BY <1>1, <1>5, RowsBy
    <2> PICK i : i = op[w].payment
      OBVIOUS
    <2> PICK tx : tx = Target(i)
      OBVIOUS
    <2>2. /\ operation'[k].parent = tx /\ operation'[k].payment = i /\ i \in Payments
          /\ operation'[k].type = op[w].type
      <3>1. operation'[k] = NewRow(op[w])
        BY <1>1, <2>1, AddTyped DEF Prepares, MayPrepare
      <3>2. op[w].payment \in Payments
        BY <1>1, <2>1 DEF Typed, Serves, Prepares
      <3>3. QED BY <3>1, <3>2 DEF NewRow
    <2>3. op[w].type = "capture" => Succeeded(i, "capture") = {}
      BY <2>1 DEF Prepares, MayPrepare, Eligible, Succeeded
    <2>4. op[w].type = "capture" => tx = i
      BY <2>3, TargetCases DEF Succeeded
    <2>5. CASE tx = i
      BY <2>2, <2>5 DEF Parented
    <2>6. ASSUME NEW c \in Succeeded(i, "capture"),
                 operation[c].child # None, tx = operation[c].child
          PROVE  Parented(k)'
      <3>1. /\ c \in Keys /\ operation[c].payment = i
            /\ operation[c].status = "succeeded"
        BY DEF Succeeded, Of
      <3>2. Knows(c, tx)
        BY <1>1, <2>6, <3>1 DEF Careful, RowFits
      <3>3. Parented(c)
        BY <3>1 DEF Genuine
      <3>4. tx = i \/ (tx \in Keys /\ operation[tx].payment = i)
        BY <3>1, <3>2, <3>3 DEF Parented, Knows
      <3>5. tx = i \/ (tx \in Keys /\ operation'[tx].payment = i)
        BY <1>2, <2>2, <3>4
      <3>6. Succeeded(i, "capture")' # {}
        BY <1>3
      <3>7. QED BY <2>2, <2>4, <3>5, <3>6 DEF Parented
    <2>7. QED BY <2>5, <2>6, TargetCases DEF Succeeded
  <1>6. CASE operation'[k].status = "unborn"
    BY <1>6 DEF Parented
  <1>7. QED BY <1>4, <1>5, <1>6

\* The answer of an inquiry confirms a pending operation only when it is done, and a
\* void or a capture only when the provider shows one.
LEMMA VerifyReads ==
  ASSUME Careful, Typed, NEW w \in Workers, Verify(w), NEW k, k = op[w].key,
         NEW tx, tx = op[w].answer.tx
  PROVE  /\ k \in Keys /\ operation[k].status # "unborn" /\ Knows(k, tx)
         /\ UNCHANGED <<operation, made>> /\ op'[w].key = k /\ op'[w].step = "finalize"
         /\ Says(w)' = Outcome(k, IF tx = operation[k].parent THEN Look(tx)
                                                              ELSE LookAtChild(tx))
  <1>1. /\ k \in Keys /\ operation[k].status # "unborn" /\ Knows(k, tx)
        /\ RequestOK(op[w])
    BY Now DEF Verify, Fits, KeySteps
  <1> PICK a : a = IF tx = operation[k].parent THEN Look(tx) ELSE LookAtChild(tx)
    OBVIOUS
  <1>2. /\ UNCHANGED <<operation, made>>
        /\ op' = [op EXCEPT ![w].step = "finalize", ![w].answer = a]
    BY DEF Verify, Keep
  <1>3. op'[w] = [op[w] EXCEPT !.step = "finalize", !.answer = a]
    BY <1>2 DEF Typed, TypeOK
  <1>4. op'[w].key = k /\ op'[w].answer = a /\ op'[w].step = "finalize"
    BY <1>1, <1>3 DEF RequestOK
  <1>5. Says(w)' = Outcome(k, a)
    BY <1>2, <1>4 DEF Says, Outcome
  <1>6. QED BY <1>1, <1>2, <1>4, <1>5

LEMMA VerifyIsBacked ==
  ASSUME Genuine, NEW w \in Workers, Verify(w), NEW k, k = op[w].key,
         Says(w)' = "succeeded"
  PROVE  /\ operation[k].status = "pending" => Vouched(k)
         /\ operation[k].type # "refund" => Shows(k)
  <1> PICK tx : tx = op[w].answer.tx
    OBVIOUS
  <1> PICK p : p = operation[k].parent
    OBVIOUS
  <1>1. /\ k \in Keys /\ operation[k].status # "unborn" /\ Knows(k, tx)
        /\ Outcome(k, IF tx = p THEN Look(tx) ELSE LookAtChild(tx)) = "succeeded"
    BY VerifyReads DEF Genuine, Booked
  <1>2. CASE tx = p
    <2>1. Outcome(k, Look(p)) = "succeeded"
      BY <1>1, <1>2
    <2>2. operation[k].status = "pending" => Vouched(k)
      BY <1>1, <2>1, ConfirmedIsDone
    <2>3. operation[k].type # "refund" => Shows(k)
      <3>1. /\ operation[k].type \in Type /\ operation[k].payment \in Payments
            /\ Provider[operation[k].payment] = "paymob" \/ operation[k].type = "refund"
        BY <1>1 DEF Genuine, Booked, Typed, TypeOK, OperationRow, RowTyped
      <3>2. Look(p).tx = p /\ Look(p).voided = Voided(p) /\ Look(p).captured = Captured(p)
        BY LookSays
      <3>3. CASE operation[k].type = "void"
        BY <2>1, <3>1, <3>2, <3>3 DEF Outcome, Voided, Shows
      <3>4. CASE operation[k].type = "capture"
        BY <2>1, <3>1, <3>2, <3>4 DEF Outcome, Captured, Shows
      <3>5. QED BY <3>1, <3>3, <3>4 DEF Type
    <2>4. QED BY <2>2, <2>3
  <1>3. CASE tx # p
    <2>1. LookAtChild(tx).tx = tx /\ LookAtChild(tx).child = made[tx]
      BY DEF LookAtChild, NoAnswer
    <2>2. /\ made[tx] = "succeeded" /\ operation[tx].parent = p
          /\ operation[tx].type = operation[k].type
      BY <1>1, <1>3, <2>1 DEF Outcome
    <2>3. tx \in Keys /\ (tx = k \/ Confusable(k))
      BY <1>1, <1>3 DEF Knows
    <2>4. QED BY <2>2, <2>3 DEF Vouched, Shows, Children
  <1>4. QED BY <1>2, <1>3

\* So does what a webhook tells.
LEMMA MatchIsBacked ==
  ASSUME Genuine, NEW a, Told(a), NEW k \in Keys, Matches(k, a.tx), Outcome(k, a) = "succeeded",
         ~\E j \in Keys : operation[j].child = a.tx /\ operation[j].status # "pending"
  PROVE  Vouched(k) /\ Shows(k)
  <1>1. /\ operation[k].status = "pending" /\ Provider[operation[k].payment] = "paymob"
        /\ operation[k].parent = operation[a.tx].parent
        /\ operation[k].type = operation[a.tx].type
    BY DEF Told, Matches
  <1>2. a.tx # operation[k].parent
    <2> SUFFICES ASSUME a.tx = operation[k].parent PROVE FALSE
      OBVIOUS
    <2>1. /\ operation[k].type \in Type
          /\ operation[k].type = "refund" => operation[k].expected \in Nat /\ operation[k].expected > 0
      <3>1. /\ operation[k].type \in Type /\ operation[k].amount \in Nat
            /\ Refunded(operation[k].payment) \in Nat
        BY RefundedNat DEF Genuine, Booked, Typed, TypeOK, OperationRow
      <3>2. /\ operation[k].amount > 0
            /\ operation[k].type = "refund" =>
                 operation[k].expected = Refunded(operation[k].payment) + operation[k].amount
        BY <1>1 DEF Genuine, Booked, Reserved
      <3>3. QED BY <3>1, <3>2
    <2>2. a.refunded = 0 /\ ~a.full /\ ~a.voided /\ ~a.captured
      BY DEF Told
    <2>3. CASE operation[k].type = "refund"
      <3>1. ~(a.refunded >= operation[k].expected)
        BY <2>1, <2>2, <2>3
      <3>2. QED BY <1>1, <2>2, <2>3, <3>1 DEF Outcome
    <2>4. CASE operation[k].type # "refund"
      BY <1>1, <2>1, <2>2, <2>4 DEF Outcome, Type
    <2>5. QED BY <2>3, <2>4
  <1>3. a.child = "succeeded"
    BY <1>2 DEF Outcome
  <1>4. made[a.tx] = "succeeded" /\ a.tx \in Keys
    BY <1>3 DEF Told
  <1>5. a.tx = k \/ Confusable(k)
    <2>1. Placed
      BY DEF Genuine, Booked, Typed, TypeOK, RowTyped, Placed, OperationRow
    <2>2. QED BY <2>1, MatchIsKnown DEF Genuine, Booked
  <1>6. QED BY <1>1, <1>4, <1>5 DEF Vouched, Shows, Children

\* How a request comes by its answer.
LEMMA AnswersBy ==
  ASSUME Genuine, [Next]_vars, NEW w \in Workers, op'[w].step \in {"finalize", "record"}
  PROVE  \/ op'[w] = op[w]
         \/ Verify(w)
         \* Fawry has answered.
         \/ \E k \in Keys :
              /\ op[w].step = "call" /\ op[w].key = k /\ UNCHANGED operation
              /\ made' = [made EXCEPT ![k] = "succeeded"] /\ op'[w].key = k
         \* A webhook has found an operation.
         \/ \E k \in Keys : \E a :
              /\ Told(a) /\ Matches(k, a.tx) /\ UNCHANGED <<operation, made>>
              /\ ~\E j \in Keys : operation[j].child = a.tx /\ operation[j].status # "pending"
              /\ op'[w].key = k /\ op'[w].answer = a
         \* The operation was pending when it was read.
         \/ /\ op[w].step = "finalize" /\ operation[op[w].key].status = "pending"
            /\ UNCHANGED <<operation, made>>
            /\ op'[w].key = op[w].key /\ op'[w].answer = op[w].answer
  <1>1. Typed /\ Careful /\ op \in [Workers -> Request] /\ RequestOK(op[w])
    BY Now DEF Genuine, Booked, Typed, TypeOK, Fits
  <1> SUFFICES ASSUME op'[w] # op[w], ~Verify(w)
               PROVE  \/ \E k \in Keys :
                           /\ op[w].step = "call" /\ op[w].key = k /\ UNCHANGED operation
                           /\ made' = [made EXCEPT ![k] = "succeeded"] /\ op'[w].key = k
                      \/ \E k \in Keys : \E a :
                           /\ Told(a) /\ Matches(k, a.tx) /\ UNCHANGED <<operation, made>>
                           /\ ~\E j \in Keys : operation[j].child = a.tx
                                              /\ operation[j].status # "pending"
                           /\ op'[w].key = k /\ op'[w].answer = a
                      \/ /\ op[w].step = "finalize" /\ operation[op[w].key].status = "pending"
                         /\ UNCHANGED <<operation, made>>
                         /\ op'[w].key = op[w].key /\ op'[w].answer = op[w].answer
    OBVIOUS
  <1>2. Arrive(w) \/ Proceed(w) \/ Crash(w)
    BY <1>1, StepMoves
  <1>3. ~Abort(w)
    BY <1>1, AbortMoves
  <1>4. ASSUME NEW s, Goto(w, s)
        PROVE  s \in {"finalize", "record"}
    BY <1>1, <1>4, GotoMoves
  <1>5. CASE CallProvider(w)
    <2>1. op[w].key \in Keys /\ op[w].step = "call" /\ UNCHANGED operation
      BY <1>1, <1>5, Now DEF CallProvider, Fits, KeySteps
    <2>2. PICK s, a : op' = [op EXCEPT ![w].step = s, ![w].answer = a]
                      /\ (s \in {"finalize", "record"} =>
                            made' = [made EXCEPT ![op[w].key] = "succeeded"])
      BY <1>3, <1>4, <1>5, SMTT(30) DEF CallProvider
    <2>3. op'[w] = [op[w] EXCEPT !.step = s, !.answer = a]
      BY <1>1, <2>2
    <2>4. op'[w].step = s /\ op'[w].key = op[w].key
      BY <1>1, <2>3 DEF Request
    <2>5. QED BY <2>1, <2>2, <2>4
  <1>6. CASE Finalize(w)
    <2>1. ~Records(w)
      BY <1>3 DEF Records, Record
    <2>2. /\ UNCHANGED <<operation, made>> /\ Goto(w, "record")
          /\ operation[op[w].key].status = "pending" /\ op[w].step = "finalize"
      BY <1>3, <1>6, <2>1, FinalizeReads
    <2>3. op'[w].key = op[w].key /\ op'[w].answer = op[w].answer
      BY <1>1, <2>2, GotoMoves
    <2>4. QED BY <2>2, <2>3
  <1>7. CASE MatchChild(w)
    <2> PICK a : a = op[w].answer
      OBVIOUS
    <2>1. Told(a) /\ UNCHANGED <<operation, made>>
      BY <1>1, <1>7, Now DEF MatchChild, Fits, Keep
    <2>2. ~\E j \in Keys : operation[j].child = a.tx /\ operation[j].status # "pending"
      BY <1>3, <1>7, MatchReads
    <2>3. PICK k \in Keys : /\ Matches(k, a.tx)
                            /\ \E l : op' = [op EXCEPT ![w].step = "finalize", ![w].key = k,
                                                       ![w].links = l]
      BY <1>3, <1>7, MatchReads
    <2>4. op'[w].key = k /\ op'[w].answer = a
      <3>1. PICK l : op' = [op EXCEPT ![w].step = "finalize", ![w].key = k, ![w].links = l]
        BY <2>3
      <3>2. op'[w] = [op[w] EXCEPT !.step = "finalize", !.key = k, !.links = l]
        BY <1>1, <3>1
      <3>3. QED BY <1>1, <3>2 DEF RequestOK
    <2>5. QED BY <2>1, <2>2, <2>3, <2>4
  <1>8. CASE Arrive(w)
    <2>1. PICK j \in Keys : \/ \E i \in Payments : StartOperation(w, i, j)
                            \/ StartRecovery(w, j) \/ StartChildWebhook(w, j)
      BY <1>8 DEF Arrive
    <2>2. ASSUME NEW i \in Payments, StartOperation(w, i, j)
          PROVE  op'[w].step = "prepare"
      BY <1>1, <2>2 DEF StartOperation, Idle
    <2>3. CASE StartRecovery(w, j)
      <3>1. op'[w].step = "verify"
        BY <1>1, <2>3 DEF StartRecovery, Idle
      <3>2. QED BY <3>1
    <2>4. CASE StartChildWebhook(w, j)
      <3>1. op'[w].step = "match"
        BY <1>1, <2>4 DEF StartChildWebhook, Idle
      <3>2. QED BY <3>1
    <2>5. QED BY <2>1, <2>2, <2>3, <2>4
  <1>9. CASE StoreChild(w)
    <2>1. PICK a : op' = [op EXCEPT ![w].step = "verify", ![w].answer = a]
      BY <1>3, <1>9 DEF StoreChild
    <2>2. QED BY <1>1, <2>1 DEF Request
  <1>10. CASE \/ Prepare(w) \/ Preflight(w) \/ Reject(w) \/ VerifyUnavailable(w)
              \/ CommitRecord(w) \/ Crash(w)
    <2>1. \/ Abort(w) \/ Goto(w, "preflight") \/ Goto(w, "call") \/ Goto(w, "reject")
      <3>1. CASE Prepare(w)
        BY <3>1 DEF Prepare
      <3>2. CASE Preflight(w)
        BY <3>2 DEF Preflight
      <3>3. CASE Reject(w) \/ VerifyUnavailable(w) \/ CommitRecord(w) \/ Crash(w)
        BY <3>3 DEF Reject, VerifyUnavailable, CommitRecord, Record, Crash
      <3>4. QED BY <1>10, <3>1, <3>2, <3>3
    <2>2. QED BY <1>3, <1>4, <2>1
  <1>11. QED BY <1>2, <1>5, <1>6, <1>7, <1>8, <1>9, <1>10 DEF Proceed

LEMMA BackedStep ==
  ASSUME Genuine, [Next]_vars, NEW w \in Workers
  PROVE  Backed(w)' /\ Shown(w)'
  <1>1. Typed /\ Careful /\ Immutable /\ Advances
    BY TableStays, NextAdvances DEF Genuine, Booked, TableTyped
  <1> SUFFICES ASSUME NEW k, k = op'[w].key, op'[w].step \in {"finalize", "record"},
                      Says(w)' = "succeeded"
               PROVE  /\ op'[w].step = "record" \/ operation'[k].status = "pending" => Vouched(k)'
                      /\ operation'[k].type # "refund" => Shows(k)'
    BY DEF Backed, Shown, Recording
  \* What was so of an operation that was there.
  <1>2. ASSUME k \in Keys, operation[k].status # "unborn"
        PROVE  /\ Vouched(k) => Vouched(k)'
               /\ Shows(k) => Shows(k)'
               /\ operation'[k].type = operation[k].type
               /\ operation'[k].status = "pending" => operation[k].status = "pending"
    BY <1>1, <1>2, VouchedStays, ShowsStays, FinalsStay DEF Immutable
  <1>3. CASE /\ op[w].step \in {"finalize", "record"}
             /\ op'[w].key = op[w].key /\ op'[w].answer = op[w].answer
             /\ op'[w].step = op[w].step \/ operation[k].status = "pending"
    <2>1. k \in Keys /\ operation[k].status # "unborn" /\ Says(w)' = Says(w)
      BY <1>1, <1>3, AnswerFits, SaysSame
    <2>2. Backed(w) /\ Shown(w)
      BY DEF Genuine
    <2>3. op'[w].step = "record" \/ operation'[k].status = "pending" => Vouched(k)
      BY <1>2, <1>3, <2>1, <2>2 DEF Backed, Recording
    <2>4. operation[k].type # "refund" => Shows(k)
      BY <1>3, <2>1, <2>2 DEF Shown
    <2>5. QED BY <1>2, <2>1, <2>3, <2>4
  <1>4. CASE Verify(w)
    <2>1. /\ k \in Keys /\ operation[k].status # "unborn" /\ op[w].key = k
          /\ op'[w].step = "finalize"
      BY <1>1, <1>4, VerifyReads
    <2>2. /\ operation[k].status = "pending" => Vouched(k)
          /\ operation[k].type # "refund" => Shows(k)
      BY <1>4, <2>1, VerifyIsBacked
    <2>3. QED BY <1>2, <2>1, <2>2
  <1>5. ASSUME k \in Keys, op[w].step = "call", op[w].key = k, UNCHANGED operation,
               made' = [made EXCEPT ![k] = "succeeded"]
        PROVE  Vouched(k)' /\ Shows(k)'
    <2>1. made'[k] = "succeeded"
      BY <1>1, <1>5 DEF Careful
    <2>2. QED BY <1>5, <2>1 DEF Vouched, Shows, Children
  <1>6. ASSUME k \in Keys, NEW a, Told(a), Matches(k, a.tx), UNCHANGED <<operation, made>>,
               ~\E j \in Keys : operation[j].child = a.tx /\ operation[j].status # "pending",
               op'[w].answer = a
        PROVE  Vouched(k)' /\ Shows(k)'
    <2>1. Outcome(k, a) = "succeeded"
      BY <1>6 DEF Says, Outcome
    <2>2. Vouched(k) /\ Shows(k)
      BY <1>6, <2>1, MatchIsBacked
    <2>3. operation[k].status # "unborn"
      BY <1>6 DEF Matches
    <2>4. QED BY <1>2, <1>6, <2>2, <2>3
  <1>7. QED
    BY <1>3, <1>4, <1>5, <1>6, AnswersBy

\* Who changes the status of a payment.
LEMMA PaymentBy ==
  ASSUME [Next]_vars
  PROVE  \/ UNCHANGED payment
         \/ \E w \in Workers : Records(w)
         \/ \E i \in Payments : LearnVoided(i)
  <1>1. ASSUME NEW w \in Workers, Finalize(w)
        PROVE  UNCHANGED payment \/ Records(w)
    BY <1>1, FinalizeReads
  <1>2. \/ UNCHANGED payment
        \/ \E w \in Workers : Finalize(w) \/ CommitRecord(w)
        \/ \E i \in Payments : LearnVoided(i)
    BY DEF Next, vars, Arrive, Proceed, StartOperation, StartRecovery,
       StartChildWebhook, Prepare, Preflight, CallProvider, Reject, StoreChild, Verify,
       VerifyUnavailable, MatchChild, Crash, ProviderDecides, Keep
  <1>3. QED BY <1>1, <1>2, CommitRecords

LEMMA PaymentStays ==
  ASSUME Careful, Typed, [Next]_vars, NEW i \in Payments, payment[i] = "succeeded"
  PROVE  payment'[i] = "succeeded"
  <1>1. ASSUME NEW w \in Workers, Records(w)
        PROVE  payment'[i] = "succeeded"
    <2> PICK k : k = op[w].key
      OBVIOUS
    <2>1. CASE UNCHANGED payment
      BY <2>1
    <2>2. CASE payment' = [payment EXCEPT ![operation[k].payment] =
                    CASE Says(w) = "succeeded" /\ operation[k].type = "capture" -> "succeeded"
                      [] Says(w) = "succeeded" /\ operation[k].type = "void"
                           /\ @ = "requires_action" -> "cancelled"
                      [] OTHER -> @]
      BY <2>2 DEF Typed, TypeOK
    <2>3. QED BY <1>1, <2>1, <2>2, RecordWrites
  <1>2. ASSUME NEW j \in Payments, LearnVoided(j)
        PROVE  payment'[i] = "succeeded"
    BY <1>2 DEF LearnVoided, Typed, TypeOK
  <1>3. QED BY <1>1, <1>2, PaymentBy

\* A capture that has succeeded has collected the payment, in the same transaction.
LEMMA CollectsStep ==
  ASSUME Genuine, [Next]_vars
  PROVE  Collects'
  <1>1. Typed /\ Careful /\ Immutable
    BY TableStays DEF Genuine, Booked, TableTyped
  <1> SUFFICES ASSUME NEW i \in Payments, NEW k \in Succeeded(i, "capture")'
               PROVE  payment'[i] = "succeeded"
    BY DEF Collects
  <1>2. /\ k \in Keys /\ operation'[k].payment = i /\ operation'[k].type = "capture"
        /\ operation'[k].status = "succeeded"
    BY DEF Succeeded, Of
  <1>3. CASE operation[k].status = "succeeded"
    <2>1. operation[k].payment = i /\ operation[k].type = "capture"
      BY <1>1, <1>2, <1>3 DEF Immutable
    <2>2. payment[i] = "succeeded"
      BY <1>2, <1>3, <2>1 DEF Genuine, Collects, Succeeded, Of
    <2>3. QED BY <1>1, <2>2, PaymentStays
  <1>4. CASE operation[k].status # "succeeded"
    <2>1. /\ operation[k].status = "pending"
          /\ \E w \in Workers : Records(w) /\ op[w].key = k /\ Says(w) = "succeeded"
      BY <1>1, <1>2, <1>4, SuccessBy
    <2>2. operation[k].payment = i /\ operation[k].type = "capture"
      BY <1>1, <1>2, <2>1 DEF Immutable
    <2>3. payment' = [payment EXCEPT ![i] = "succeeded"]
      <3>1. PICK w \in Workers : Records(w) /\ op[w].key = k /\ Says(w) = "succeeded"
        BY <2>1
      <3>2. payment' = [payment EXCEPT ![operation[k].payment] =
                    CASE Says(w) = "succeeded" /\ operation[k].type = "capture" -> "succeeded"
                      [] Says(w) = "succeeded" /\ operation[k].type = "void"
                           /\ @ = "requires_action" -> "cancelled"
                      [] OTHER -> @]
        BY <1>1, <1>2, <1>4, <3>1, RecordWrites
      <3>3. QED BY <2>2, <3>1, <3>2
    <2>4. QED BY <1>1, <2>3 DEF Typed, TypeOK
  <1>5. QED BY <1>3, <1>4

\* A capture that is recorded when its operation is over already: the books have it, or
\* the operation failed because its child was taken for that of another.
LEMMA RecordedCapture ==
  ASSUME Genuine, NEW w \in Workers, Records(w), Says(w) = "succeeded",
         NEW k \in Keys, k = op[w].key, operation[k].type = "capture",
         operation[k].status \notin {"unborn", "pending"},
         NEW i, i = operation[k].payment
  PROVE  \/ Of(i, "capture", "succeeded") # {}
         \/ \E j \in Of(i, "capture", "failed") : Unnamed(j)
  <1>1. operation[k].status \in {"succeeded", "failed"}
    BY DEF Genuine, Booked, Typed, TypeOK, OperationRow, OperationStatus
  <1>2. CASE operation[k].status = "succeeded"
    BY <1>2 DEF Of
  <1>3. CASE operation[k].status = "failed"
    <2>1. Vouched(k) /\ RowFits(k)
      BY DEF Genuine, Backed, Records, Careful
    <2>2. Confusable(k)
      BY <1>3, <2>1 DEF Vouched, FlagOfAnother, RowFits
    <2>3. PICK j \in Keys \ {k} : /\ operation[j].parent = operation[k].parent
                                  /\ operation[j].type = operation[k].type /\ Unnamed(j)
      BY <2>2 DEF Confusable
    <2>4. operation[j].payment = i
      BY <1>3, <2>3 DEF Genuine, Parented, Unnamed
    <2>5. operation[j].status \in {"succeeded", "failed"}
      BY <2>3 DEF Unnamed
    <2>6. QED BY <2>3, <2>4, <2>5 DEF Of
  <1>4. QED BY <1>1, <1>2, <1>3

\* What the second half of CollectedIfCaptured asks for.
InBooks(i) == \/ Of(i, "capture", "succeeded") # {}
              \/ \E j \in Of(i, "capture", "failed") : Unnamed(j)

LEMMA InBooksStays ==
  ASSUME Advances, NEW i, InBooks(i)
  PROVE  InBooks(i)'
  <1>1. CASE Of(i, "capture", "succeeded") # {}
    BY <1>1 DEF Of, Advances, InBooks
  <1>2. ASSUME NEW j \in Of(i, "capture", "failed"), Unnamed(j)
        PROVE  InBooks(i)'
    <2>1. operation'[j] = operation[j] /\ made'[j] # "none" /\ j \in Keys
      BY <1>2 DEF Of, Unnamed, Advances
    <2>2. j \in Of(i, "capture", "failed")' /\ Unnamed(j)'
      BY <1>2, <2>1 DEF Of, Unnamed
    <2>3. QED BY <2>2 DEF InBooks
  <1>3. QED BY <1>1, <1>2 DEF InBooks

LEMMA CollectedStep ==
  ASSUME Genuine, [Next]_vars
  PROVE  CollectedIfCaptured'
  <1>1. Typed /\ Careful /\ Advances
    BY NextAdvances DEF Genuine, Booked
  <1> SUFFICES ASSUME NEW i \in Authorized
               PROVE  /\ payment'[i] = "succeeded" => Captured(i)' /\ InBooks(i)'
                      /\ payment'[i] = "cancelled" => Voided(i)'
    BY DEF CollectedIfCaptured, InBooks
  <1>2. i \in Payments /\ i \in Transaction
    BY OperationAssumption DEF Transaction
  <1>3. /\ payment[i] = "succeeded" => Captured(i) /\ InBooks(i)
        /\ payment[i] = "cancelled" => Voided(i)
    BY DEF Genuine, CollectedIfCaptured, InBooks
  \* What is done on the authorization stays done.
  <1>4. /\ Voided(i) => Voided(i)'
        /\ Captured(i) => Captured(i)'
        /\ InBooks(i) => InBooks(i)'
    BY <1>1, <1>2, ChildrenStay, InBooksStays DEF Voided, Captured
  <1>5. CASE payment'[i] = payment[i]
    BY <1>3, <1>4, <1>5
  <1>6. ASSUME NEW w \in Workers, Records(w), payment'[i] # payment[i]
        PROVE  /\ payment'[i] = "succeeded" => Captured(i)' /\ InBooks(i)'
               /\ payment'[i] = "cancelled" => Voided(i)'
    <2> PICK k : k = op[w].key
      OBVIOUS
    <2>1. /\ k \in Keys /\ operation[k].status # "unborn"
          /\ op[w].step \in {"finalize", "record"}
          /\ IF operation[k].status = "pending"
               THEN operation'[k].status = Says(w) ELSE UNCHANGED operation
          /\ payment' = [payment EXCEPT ![operation[k].payment] =
                CASE Says(w) = "succeeded" /\ operation[k].type = "capture" -> "succeeded"
                  [] Says(w) = "succeeded" /\ operation[k].type = "void"
                       /\ @ = "requires_action" -> "cancelled"
                  [] OTHER -> @]
      BY <1>1, <1>6, RecordWrites
    <2>2. operation[k].payment = i
      BY <1>1, <1>2, <1>6, <2>1 DEF Typed, TypeOK
    <2>3. payment'[i] = CASE Says(w) = "succeeded" /\ operation[k].type = "capture" -> "succeeded"
                          [] Says(w) = "succeeded" /\ operation[k].type = "void"
                               /\ payment[i] = "requires_action" -> "cancelled"
                          [] OTHER -> payment[i]
      BY <1>1, <1>2, <2>1, <2>2 DEF Typed, TypeOK
    <2>4. \/ /\ Says(w) = "succeeded" /\ operation[k].type = "capture"
             /\ payment'[i] = "succeeded"
          \/ /\ Says(w) = "succeeded" /\ operation[k].type = "void"
             /\ payment[i] = "requires_action" /\ payment'[i] = "cancelled"
      BY <1>6, <2>3
    <2>5. Shows(k)
      BY <2>1, <2>4 DEF Genuine, Shown
    <2>6. CASE operation[k].type = "capture"
      <3>1. operation[k].parent = i
        BY <2>1, <2>2, <2>6 DEF Genuine, Parented
      <3>2. Captured(i)
        BY <2>5, <2>6, <3>1 DEF Shows, Captured
      <3>3. CASE operation[k].status = "pending"
        <4>1. /\ operation'[k].status = "succeeded" /\ operation'[k].payment = i
              /\ operation'[k].type = "capture"
          BY <1>1, <2>1, <2>2, <2>4, <2>6, <3>3 DEF Advances
        <4>2. k \in Of(i, "capture", "succeeded")'
          BY <2>1, <4>1 DEF Of
        <4>3. QED BY <1>4, <2>4, <2>6, <3>2, <4>2 DEF InBooks
      <3>4. CASE operation[k].status # "pending"
        <4>1. InBooks(i)
          BY <1>6, <2>1, <2>2, <2>4, <2>6, <3>4, RecordedCapture DEF InBooks
        <4>2. QED BY <1>4, <2>4, <2>6, <3>2, <4>1
      <3>5. QED BY <3>3, <3>4
    <2>7. CASE operation[k].type = "void"
      <3>1. Succeeded(i, "capture") = {}
        BY <1>2, <2>4, <2>7 DEF Genuine, Collects
      <3>2. operation[k].parent = i
        BY <2>1, <2>2, <3>1 DEF Genuine, Parented
      <3>3. Voided(i)
        BY <2>5, <2>7, <3>2 DEF Voided, Shows
      <3>4. QED BY <1>4, <2>4, <2>7, <3>3
    <2>8. QED BY <2>4, <2>6, <2>7
  <1>7. ASSUME NEW j \in Payments, LearnVoided(j), payment'[i] # payment[i]
        PROVE  payment'[i] = "cancelled" /\ Voided(i)'
    <2>1. i = j /\ Voided(i) /\ payment'[i] = "cancelled"
      BY <1>1, <1>2, <1>7 DEF LearnVoided, Typed, TypeOK
    <2>2. QED BY <1>4, <2>1
  <1>8. QED BY <1>5, <1>6, <1>7, PaymentBy

LEMMA GenuineStep ==
  ASSUME Genuine, [Next]_vars
  PROVE  Genuine'
  <1>1. Booked'
    BY BookedStep DEF Genuine
  <1>2. Careful'
    <2>1. Placed
      BY DEF Genuine, Booked, Typed, TypeOK, RowTyped, Placed, OperationRow
    <2>2. QED BY <2>1, NextKeepsCareful DEF Genuine, Booked
  <1>3. \A k \in Keys : Parented(k)' /\ Real(k)'
    BY ParentedStep, RealStep
  <1>4. \A w \in Workers : Backed(w)' /\ Shown(w)'
    BY BackedStep
  <1>5. Collects' /\ CollectedIfCaptured'
    BY CollectsStep, CollectedStep
  <1>6. QED BY <1>1, <1>2, <1>3, <1>4, <1>5 DEF Genuine

LEMMA InitGenuine ==
  ASSUME Init
  PROVE  Genuine
  <1>1. \A k \in Keys : Parented(k) /\ Real(k)
    BY DEF Init, Unborn, Parented, Real
  <1>2. \A w \in Workers : Backed(w) /\ Shown(w)
    BY DEF Init, Idle, Backed, Shown, Recording
  <1>3. Collects
    BY InitNothing DEF Collects, Succeeded
  <1>4. CollectedIfCaptured
    BY OperationAssumption DEF Init, CollectedIfCaptured
  <1>5. QED BY <1>1, <1>2, <1>3, <1>4, InitBooked, InitCareful DEF Genuine

LEMMA AlwaysGenuine == Spec => []Genuine
  BY InitGenuine, GenuineStep, PTL DEF Spec

\* What the books call refunded, voided or captured the provider has done, though
\* the answer to a request may be lost and the state of the parent stands for that
\* of the child: but for the two cases that SuccessIsDone names, no other operation
\* of the payment can be mistaken for it, neither by the timer nor by a webhook.
THEOREM SuccessesAreDone == Spec => []SuccessIsDone
  <1>1. Genuine => SuccessIsDone
    BY DEF Genuine, Real, Vouched, SuccessIsDone
  <1>2. QED BY <1>1, AlwaysGenuine, PTL

\* An authorization is collected only when it has been captured at the provider and
\* cancelled only when it has been voided there, whatever is_refunded means and
\* whichever operation a webhook takes a child for: a void that is done on the
\* capture does not take the payment back.
THEOREM CollectedOnlyIfCaptured == Spec => []CollectedIfCaptured
  <1>1. Genuine => CollectedIfCaptured
    BY DEF Genuine
  <1>2. QED BY <1>1, AlwaysGenuine, PTL
=============================================================================
