----------------------------- MODULE InventoryProofs -----------------------------
(***************************************************************************)
(* What Inventory keeps for any number of items, orders, deliveries and    *)
(* requests.  The lock of an item protects what was read under it.         *)
(* Nothing locks a purchase order: that two deliveries never overlap past  *)
(* the insertion of their receipts follows from how receipts are numbered. *)
(***************************************************************************)
EXTENDS Inventory, FiniteSums, FiniteSetTheorems, TLAPS

-----------------------------------------------------------------------------
(* The inductive invariant.                                                *)

Ops == [cmd : {"none", "adjust", "correct", "accept", "submit", "cancel", "receive"},
        step : {"none", "status", "stock", "count", "insert", "lines", "commit"},
        for : Orders \cup Purchases \cup {None}, item : Items \cup {None}, delta : Int,
        qty : [Items -> Nat], locks : SUBSET Items, read : [Items -> Nat],
        number : Nat, status : {"none", "received", "partially_received"}]

\* What a request has been given, and how far it can be.
Inputs(r) ==
  /\ r.cmd \in {"adjust", "correct"} => r.item \in Items /\ r.locks \subseteq {r.item}
  /\ r.cmd = "correct" => r.delta \in Nat
  /\ r.cmd = "accept" => r.for \in Orders
  /\ r.cmd \in {"submit", "cancel", "receive"} => r.for \in Purchases
  /\ r.step \in {"count", "insert", "lines", "commit"} => r.cmd = "receive"
  /\ r.step \in {"status", "stock"} => r.cmd = "accept"
  /\ r.step = "commit" => /\ r.status # "none"
                          /\ \A i \in Items : r.qty[i] > 0 => i \in r.locks

TypeInv == TypeOK /\ op \in [Workers -> Ops] /\ \A w \in Workers : Inputs(op[w])

\* The lock of an item has one owner, and the level is as its owner has read it.
LockInv ==
  /\ \A v, w \in Workers, i \in Items : i \in op[v].locks /\ i \in op[w].locks => v = w
  /\ \A w \in Workers, i \in Items : i \in op[w].locks => op[w].read[i] = level[i]

\* What a delivery adds to the lines whose items it has locked.
Fits ==
  \A w \in Workers, i \in Items :
    op[w].cmd = "receive" /\ i \in op[w].locks =>
      received[op[w].for][i] + op[w].qty[i] <= Ordered[op[w].for][i]

\* Receipts are numbered from one, and a delivery that has inserted one has the next.
Numbered(n) ==
  /\ receipts = 1 .. n
  /\ \A w \in Workers : /\ op[w].step = "insert" => op[w].number \in 1 .. (n + 1)
                        /\ op[w].step \in {"lines", "commit"} => op[w].number = n + 1

Receiving(w) == op[w].step \in {"lines", "commit"}
OneReceives == \A v, w \in Workers : Receiving(v) /\ Receiving(w) => v = w

Assessed ==
  \A w \in Workers :
    op[w].step = "commit" /\ op[w].status = "partially_received" =>
      ~Complete(op[w].for, ReceivedWith(op[w].for, op[w].qty))

ReceiptInv == (\E n \in Nat : Numbered(n)) /\ OneReceives

StockInv == LockInv /\ Fits /\ LevelIsLedger /\ NothingOverReceived
OrderInv == ReceiptInv /\ Assessed /\ PartialIsIncomplete
Inv == TypeInv /\ StockInv /\ OrderInv

-----------------------------------------------------------------------------
(* Types.                                                                  *)

LEMMA NothingType == Nothing \in [Items -> Nat]
  BY DEF Nothing

LEMMA IdleType == Idle \in Ops /\ Inputs(Idle) /\ Idle.locks = {}
  BY NothingType DEF Idle, Ops, Inputs

LEMMA TypeInit == Init => TypeInv
  BY NothingType, IdleType
     DEF Init, TypeInv, TypeOK, OrderStatuses, PurchaseStatuses

\* A request with one more lock.
Taking(r, i) == [r EXCEPT !.locks = @ \cup {i}, !.read = [@ EXCEPT ![i] = level[i]]]

LEMMA TakingType ==
  ASSUME TypeInv, NEW w \in Workers, NEW i \in Items
  PROVE  Taking(op[w], i) \in Ops
<1> DEFINE l == op[w].locks \cup {i}
           d == [op[w].read EXCEPT ![i] = level[i]]
<1>1. l \in SUBSET Items /\ d \in [Items -> Nat]  BY DEF TypeInv, TypeOK, Ops
<1>2. Taking(op[w], i) = [op[w] EXCEPT !.locks = l, !.read = d]  BY DEF Taking
<1>3. op[w] \in Ops  BY DEF TypeInv
<1> HIDE DEF l, d
<1> QED  BY <1>1, <1>2, <1>3 DEF Ops

LEMMA LockLevelOp ==
  ASSUME TypeInv, NEW w \in Workers, NEW i \in Items, LockLevel(w, i)
  PROVE  op' = [op EXCEPT ![w] = Taking(op[w], i)]
  BY DEF LockLevel, Taking, TypeInv, Ops

\* The steps that change only a request, and a request that ends.
LEMMA OpStep ==
  ASSUME TypeInv, NEW w \in Workers, NEW r \in Ops, Inputs(r), op' = [op EXCEPT ![w] = r]
  PROVE  op' \in [Workers -> Ops] /\ \A v \in Workers : Inputs(op'[v])
  BY DEF TypeInv

LEMMA DoneStep ==
  ASSUME TypeInv, NEW w \in Workers, Done(w)
  PROVE  op' \in [Workers -> Ops] /\ \A v \in Workers : Inputs(op'[v])
  BY OpStep, IdleType DEF Done

-----------------------------------------------------------------------------
(* The steps that move stock.                                              *)

\* Requests that only begin, lock or read.
Quiet(w) ==
  \/ \E i \in Items, d \in Deltas : StartAdjustment(w, i, d)
  \/ \E i \in Items, f \in Finals : StartCorrection(w, i, f)
  \/ LockForAdjustment(w)
  \/ \E o \in Orders : StartAccept(w, o)
  \/ TakeOrder(w)
  \/ \E i \in Items : LockNeededItem(w, i) \/ ReceiveLine(w, i)
  \/ \E c \in {"submit", "cancel"}, p \in Purchases : StartPurchaseChange(w, c, p)
  \/ \E p \in Purchases : \E q \in Deliveries(p) : StartReceive(w, p, q)
  \/ CountReceipts(w) \/ InsertReceipt(w) \/ AssessPurchase(w) \/ RollBack(w)

LEMMA QuietFrame ==
  ASSUME NEW w \in Workers, Quiet(w)
  PROVE  UNCHANGED <<order, level, ledger, purchase, received, receipts>>
  BY DEF Quiet, StartAdjustment, StartCorrection, LockForAdjustment, StartAccept, TakeOrder,
         LockNeededItem, ReceiveLine, StartPurchaseChange, StartReceive, CountReceipts,
         InsertReceipt, AssessPurchase, RollBack

\* What a quiet step makes of the request: it starts anew, it keeps what it has locked, or
\* it takes the lock of one more item.
LEMMA QuietOp ==
  ASSUME TypeInv, IsFiniteSet(receipts), NEW w \in Workers, Quiet(w)
  PROVE  \E r \in Ops :
           /\ Inputs(r) /\ op' = [op EXCEPT ![w] = r]
           /\ \/ r.locks = {}
              \/ /\ r.locks = op[w].locks /\ r.read = op[w].read /\ r.cmd = op[w].cmd
                 /\ r.for = op[w].for /\ r.qty = op[w].qty
              \/ \E i \in Items :
                   /\ ItemFree(i) /\ r = Taking(op[w], i)
                   /\ op[w].cmd = "receive" =>
                        received[op[w].for][i] <= Ordered[op[w].for][i] - op[w].qty[i]
<1> USE InventoryAssumption
<1> DEFINE Moves(r) == Inputs(r) /\ op' = [op EXCEPT ![w] = r]
           Keeps(r) == /\ r.locks = op[w].locks /\ r.read = op[w].read /\ r.cmd = op[w].cmd
                       /\ r.for = op[w].for /\ r.qty = op[w].qty
           Takes(r) == \E i \in Items :
                         /\ ItemFree(i) /\ r = Taking(op[w], i)
                         /\ op[w].cmd = "receive" =>
                              received[op[w].for][i] <= Ordered[op[w].for][i] - op[w].qty[i]
<1> SUFFICES \E r \in Ops : Moves(r) /\ (r.locks = {} \/ Keeps(r) \/ Takes(r))  OBVIOUS
<1>0. op[w] \in Ops /\ Inputs(op[w])  BY DEF TypeInv
<1>1. ASSUME NEW i \in Items, NEW d \in Deltas, StartAdjustment(w, i, d)
      PROVE  \E r \in Ops : Moves(r) /\ r.locks = {}
  <2> DEFINE r == [Idle EXCEPT !.cmd = "adjust", !.item = i, !.delta = d]
  <2>0. d \in Int  OBVIOUS
  <2>1. r \in Ops /\ Inputs(r) /\ r.locks = {}
    BY <2>0, NothingType DEF Idle, Ops, Inputs
  <2>2. op' = [op EXCEPT ![w] = r]  BY <1>1 DEF StartAdjustment, Begin
  <2> QED  BY <2>1, <2>2
<1>2. ASSUME NEW i \in Items, NEW f \in Finals, StartCorrection(w, i, f)
      PROVE  \E r \in Ops : Moves(r) /\ r.locks = {}
  <2> DEFINE r == [Idle EXCEPT !.cmd = "correct", !.item = i, !.delta = f]
  <2>0. f \in Nat /\ f \in Int  OBVIOUS
  <2>1. r \in Ops /\ Inputs(r) /\ r.locks = {}
    BY <2>0, NothingType DEF Idle, Ops, Inputs
  <2>2. op' = [op EXCEPT ![w] = r]  BY <1>2 DEF StartCorrection, Begin
  <2> QED  BY <2>1, <2>2
<1>3. ASSUME NEW i \in Items, LockLevel(w, i), Inputs(Taking(op[w], i)),
             op[w].cmd = "receive" =>
               received[op[w].for][i] <= Ordered[op[w].for][i] - op[w].qty[i]
      PROVE  \E r \in Ops : Moves(r) /\ Takes(r)
  <2>1. op' = [op EXCEPT ![w] = Taking(op[w], i)]  BY <1>3, LockLevelOp
  <2>2. Taking(op[w], i) \in Ops  BY TakingType
  <2>3. ItemFree(i)  BY <1>3 DEF LockLevel
  <2> QED  BY <1>3, <2>1, <2>2, <2>3
<1>4. CASE LockForAdjustment(w)
  <2>1. op[w].item \in Items /\ op[w].cmd # "receive" /\ Inputs(Taking(op[w], op[w].item))
    BY <1>0, <1>4 DEF LockForAdjustment, Inputs, Taking, Ops
  <2> QED  BY <1>3, <1>4, <2>1 DEF LockForAdjustment
<1>5. ASSUME NEW i \in Items, LockNeededItem(w, i)
      PROVE  \E r \in Ops : Moves(r) /\ Takes(r)
  <2>1. op[w].cmd # "receive" /\ Inputs(Taking(op[w], i))
    BY <1>0, <1>5 DEF LockNeededItem, Inputs, Taking, Ops
  <2> QED  BY <1>3, <1>5, <2>1 DEF LockNeededItem
<1>6. ASSUME NEW i \in Items, ReceiveLine(w, i)
      PROVE  \E r \in Ops : Moves(r) /\ Takes(r)
  <2>1. Inputs(Taking(op[w], i))
    BY <1>0, <1>6 DEF ReceiveLine, Inputs, Taking, Ops
  <2> QED  BY <1>3, <1>6, <2>1 DEF ReceiveLine
<1>7. ASSUME NEW o \in Orders, StartAccept(w, o)
      PROVE  \E r \in Ops : Moves(r) /\ r.locks = {}
  <2> DEFINE r == [Idle EXCEPT !.cmd = "accept", !.step = "status", !.for = o]
  <2>3. r.cmd = "accept" /\ r.step = "status" /\ r.for = o /\ r.locks = {}  BY DEF Idle
  <2>1. r \in Ops /\ Inputs(r) /\ r.locks = {}
    <3>1. r \in Ops  BY IdleType DEF Idle, Ops
    <3> QED  BY <2>3, <3>1 DEF Inputs
  <2>2. op' = [op EXCEPT ![w] = r]  BY <1>7 DEF StartAccept, Begin
  <2> QED  BY <2>1, <2>2
<1>8. CASE TakeOrder(w)
  <2> DEFINE r == [op[w] EXCEPT !.step = "stock"]
  <2>1. r \in Ops /\ Inputs(r) /\ Keeps(r)  BY <1>0, <1>8 DEF TakeOrder, Ops, Inputs
  <2>2. op' = [op EXCEPT ![w] = r]  BY <1>8 DEF TakeOrder
  <2> QED  BY <2>1, <2>2
<1>9. ASSUME NEW c \in {"submit", "cancel"}, NEW p \in Purchases, StartPurchaseChange(w, c, p)
      PROVE  \E r \in Ops : Moves(r) /\ r.locks = {}
  <2> DEFINE r == [Idle EXCEPT !.cmd = c, !.for = p]
  <2>3. r.cmd = c /\ r.step = "none" /\ r.for = p /\ r.locks = {}  BY DEF Idle
  <2>1. r \in Ops /\ Inputs(r) /\ r.locks = {}
    <3>1. r \in Ops  BY IdleType DEF Idle, Ops
    <3> QED  BY <2>3, <3>1 DEF Inputs
  <2>2. op' = [op EXCEPT ![w] = r]  BY <1>9 DEF StartPurchaseChange, Begin
  <2> QED  BY <2>1, <2>2
<1>10. ASSUME NEW p \in Purchases, NEW q \in Deliveries(p), StartReceive(w, p, q)
       PROVE  \E r \in Ops : Moves(r) /\ r.locks = {}
  <2> DEFINE r == [Idle EXCEPT !.cmd = "receive", !.step = "count", !.for = p, !.qty = q]
  <2>0. q \in [Items -> Nat]  BY DEF Deliveries
  <2>3. r.cmd = "receive" /\ r.step = "count" /\ r.for = p /\ r.locks = {}  BY DEF Idle
  <2>1. r \in Ops /\ Inputs(r) /\ r.locks = {}
    <3>1. r \in Ops  BY <2>0, IdleType DEF Idle, Ops
    <3> QED  BY <2>3, <3>1 DEF Inputs
  <2>2. op' = [op EXCEPT ![w] = r]  BY <1>10 DEF StartReceive, Begin
  <2> QED  BY <2>1, <2>2
<1>12. CASE InsertReceipt(w)
  <2> DEFINE r == [op[w] EXCEPT !.step = "lines"]
  <2>1. r \in Ops /\ Inputs(r) /\ Keeps(r)  BY <1>0, <1>12 DEF InsertReceipt, Ops, Inputs
  <2>2. op' = [op EXCEPT ![w] = r]  BY <1>12 DEF InsertReceipt
  <2> QED  BY <2>1, <2>2
<1>13. CASE AssessPurchase(w)
  <2> DEFINE st == IF Complete(op[w].for, ReceivedWith(op[w].for, op[w].qty))
                   THEN "received" ELSE "partially_received"
             r == [op[w] EXCEPT !.step = "commit", !.status = st]
  <2>0. st \in {"received", "partially_received"}  OBVIOUS
  <2>2. op' = [op EXCEPT ![w] = r]  BY <1>13 DEF AssessPurchase
  <2>3. \A i \in Items : op[w].qty[i] > 0 => i \in op[w].locks
    BY <1>13 DEF AssessPurchase
  <2>4. op[w].step = "lines"  BY <1>13 DEF AssessPurchase
  <2> HIDE DEF st
  <2>1. r \in Ops /\ Inputs(r) /\ Keeps(r)
    BY <1>0, <2>0, <2>3, <2>4 DEF Ops, Inputs
  <2> QED  BY <2>1, <2>2
<1>14. CASE RollBack(w)
  BY <1>14, IdleType DEF RollBack, Done
<1>11. CASE CountReceipts(w)
  <2> DEFINE n == Cardinality(receipts) + 1
             r == [op[w] EXCEPT !.step = "insert", !.number = n]
  <2>0. n \in Nat  BY FS_CardinalityType
  <2>2. op' = [op EXCEPT ![w] = r]  BY <1>11 DEF CountReceipts
  <2> HIDE DEF n
  <2>1. r \in Ops /\ Inputs(r) /\ Keeps(r)
    BY <1>0, <1>11, <2>0 DEF CountReceipts, Ops, Inputs
  <2> QED  BY <2>1, <2>2
<1> QED
  BY <1>1, <1>2, <1>4, <1>5, <1>6, <1>7, <1>8, <1>9, <1>10, <1>11, <1>12, <1>13, <1>14
     DEF Quiet

LEMMA QuietTypes ==
  ASSUME TypeInv, IsFiniteSet(receipts), NEW w \in Workers, Quiet(w)
  PROVE  TypeInv'
<1>1. TypeOK'  BY QuietFrame DEF TypeInv, TypeOK
<1>2. op' \in [Workers -> Ops] /\ \A v \in Workers : Inputs(op'[v])
  BY QuietOp, OpStep
<1> QED  BY <1>1, <1>2 DEF TypeInv

LEMMA QuietStock ==
  ASSUME TypeInv, IsFiniteSet(receipts), StockInv, NEW w \in Workers, Quiet(w)
  PROVE  StockInv'
<1> USE InventoryAssumption
<1>1. UNCHANGED <<order, level, ledger, purchase, received, receipts>>  BY QuietFrame
<1>2. LevelIsLedger' /\ NothingOverReceived'
  BY <1>1 DEF StockInv, LevelIsLedger, NothingOverReceived
<1>3. PICK r \in Ops :
        /\ op' = [op EXCEPT ![w] = r]
        /\ \/ r.locks = {}
           \/ /\ r.locks = op[w].locks /\ r.read = op[w].read /\ r.cmd = op[w].cmd
              /\ r.for = op[w].for /\ r.qty = op[w].qty
           \/ \E i \in Items :
                /\ ItemFree(i) /\ r = Taking(op[w], i)
                /\ op[w].cmd = "receive" =>
                     received[op[w].for][i] <= Ordered[op[w].for][i] - op[w].qty[i]
  BY QuietOp
<1>4. op'[w] = r /\ \A v \in Workers \ {w} : op'[v] = op[v]  BY <1>3 DEF TypeInv
<1>5. CASE r.locks = {}
  BY <1>1, <1>2, <1>4, <1>5, SMTT(30) DEF StockInv, LockInv, Fits
<1>6. CASE /\ r.locks = op[w].locks /\ r.read = op[w].read /\ r.cmd = op[w].cmd
           /\ r.for = op[w].for /\ r.qty = op[w].qty
  <2>1. LockInv'  BY <1>1, <1>4, <1>6 DEF StockInv, LockInv
  <2>2. Fits'  BY <1>1, <1>4, <1>6 DEF StockInv, Fits
  <2> QED  BY <1>2, <2>1, <2>2 DEF StockInv
<1>7. ASSUME NEW i \in Items, ItemFree(i), r = Taking(op[w], i),
             op[w].cmd = "receive" =>
               received[op[w].for][i] <= Ordered[op[w].for][i] - op[w].qty[i]
      PROVE  StockInv'
  <2>1. op[w] \in Ops  BY DEF TypeInv
  <2>2. /\ r.locks = op[w].locks \cup {i} /\ r.read = [op[w].read EXCEPT ![i] = level[i]]
        /\ r.cmd = op[w].cmd /\ r.for = op[w].for /\ r.qty = op[w].qty
    BY <1>7, <2>1 DEF Taking, Ops
  <2>3. /\ r.read[i] = level[i]
        /\ \A j \in Items \ {i} : r.read[j] = op[w].read[j]
    BY <2>1, <2>2 DEF Ops
  <2>4. LockInv'
    <3>1. \A v \in Workers, j \in Items : j \in op'[v].locks =>
            j \in op[v].locks \/ (v = w /\ j = i)
      BY <1>4, <2>2
    <3>2. \A v \in Workers : i \notin op[v].locks  BY <1>7 DEF ItemFree
    <3>3. \A u, v \in Workers, j \in Items : j \in op'[u].locks /\ j \in op'[v].locks => u = v
      BY <3>1, <3>2 DEF StockInv, LockInv
    <3>4. ASSUME NEW v \in Workers, NEW j \in Items, j \in op'[v].locks
          PROVE  op'[v].read[j] = level'[j]
      BY <1>1, <1>4, <2>3, <3>1, <3>4 DEF StockInv, LockInv
    <3> QED  BY <3>3, <3>4 DEF LockInv
  <2>5. op[w].cmd = "receive" =>
          /\ received[op[w].for][i] \in Nat /\ Ordered[op[w].for][i] \in Nat
          /\ op[w].qty[i] \in Nat
    BY <2>1 DEF TypeInv, TypeOK, Inputs, Ops
  <2>6. op[w].cmd = "receive" =>
          received[op[w].for][i] + op[w].qty[i] <= Ordered[op[w].for][i]
    BY <1>7, <2>5
  <2>7. Fits'
    BY <1>1, <1>4, <2>2, <2>6 DEF StockInv, Fits
  <2> QED  BY <1>2, <2>4, <2>7 DEF StockInv
<1> QED  BY <1>3, <1>5, <1>6, <1>7

\* How far a quiet step takes a delivery.
LEMMA QuietReceive ==
  ASSUME TypeInv, NEW w \in Workers, Quiet(w), op'[w].step \in {"insert", "lines", "commit"}
  PROVE  \/ CountReceipts(w) \/ InsertReceipt(w) \/ AssessPurchase(w)
         \/ \E i \in Items : ReceiveLine(w, i)
<1>1. op[w].cmd = "accept" => op[w].step \notin {"insert", "lines", "commit"}
  BY DEF TypeInv, Inputs
<1>2. op[w].cmd \in {"adjust", "correct"} => op[w].step \notin {"insert", "lines", "commit"}
  BY DEF TypeInv, Inputs
<1>3. ASSUME NEW i \in Items, LockLevel(w, i)  PROVE op'[w].step = op[w].step
  <2>1. op'[w] = Taking(op[w], i) /\ op[w] \in Ops  BY <1>3, LockLevelOp DEF TypeInv
  <2> QED  BY <2>1 DEF Taking, Ops
<1>4. ~LockForAdjustment(w)  BY <1>2, <1>3 DEF LockForAdjustment, TypeInv, Inputs
<1>5. \A i \in Items : ~LockNeededItem(w, i)  BY <1>1, <1>3 DEF LockNeededItem
<1>6. ~TakeOrder(w)  BY DEF TakeOrder, TypeInv, Ops
<1>7. ~RollBack(w)  BY DEF RollBack, Done, Idle, TypeInv
<1>8. /\ \A i \in Items, d \in Deltas : ~StartAdjustment(w, i, d)
      /\ \A i \in Items, f \in Finals : ~StartCorrection(w, i, f)
  BY ZenonT(40) DEF StartAdjustment, StartCorrection, Begin, Idle, TypeInv
<1>9. \A o \in Orders : ~StartAccept(w, o)  BY DEF StartAccept, Begin, Idle, TypeInv
<1>10. \A c \in {"submit", "cancel"}, p \in Purchases : ~StartPurchaseChange(w, c, p)
  BY DEF StartPurchaseChange, Begin, Idle, TypeInv
<1>11. \A p \in Purchases : \A q \in Deliveries(p) : ~StartReceive(w, p, q)
  BY DEF StartReceive, Begin, Idle, TypeInv
<1> QED  BY <1>4, <1>5, <1>6, <1>7, <1>8, <1>9, <1>10, <1>11 DEF Quiet

LEMMA IntervalFacts ==
  ASSUME NEW n \in Nat, Numbered(n)
  PROVE  IsFiniteSet(receipts) /\ Cardinality(receipts) = n
  BY FS_Interval DEF Numbered

LEMMA QuietOrder ==
  ASSUME TypeInv, OrderInv, NEW w \in Workers, Quiet(w)
  PROVE  OrderInv'
<1> PICK n \in Nat : Numbered(n)  BY DEF OrderInv, ReceiptInv
<1>0. IsFiniteSet(receipts) /\ Cardinality(receipts) = n  BY IntervalFacts
<1>1. UNCHANGED <<order, level, ledger, purchase, received, receipts>>  BY QuietFrame
<1>2. \A v \in Workers \ {w} : op'[v] = op[v]  BY <1>0, QuietOp DEF TypeInv
<1>3. PartialIsIncomplete'
  BY <1>1 DEF OrderInv, PartialIsIncomplete, Complete
<1> DEFINE Good == /\ op'[w].step = "insert" => op'[w].number \in 1 .. (n + 1)
                   /\ Receiving(w)' => /\ op'[w].number = n + 1
                                       /\ \A v \in Workers : Receiving(v) => v = w
                   /\ op'[w].step = "commit" /\ op'[w].status = "partially_received" =>
                        ~Complete(op'[w].for, ReceivedWith(op'[w].for, op'[w].qty))
<1>4. ASSUME CountReceipts(w)  PROVE Good
  <2>1. op'[w].step = "insert" /\ op'[w].number = n + 1
    BY <1>0, <1>4 DEF CountReceipts, TypeInv, Ops
  <2> QED  BY <2>1 DEF Receiving
<1>5. ASSUME InsertReceipt(w)  PROVE Good
  <2>1. op'[w].step = "lines" /\ op'[w].number = op[w].number
    BY <1>5 DEF InsertReceipt, TypeInv, Ops
  <2>2. op[w].number \in 1 .. (n + 1) /\ op[w].number \notin 1 .. n
    BY <1>5 DEF InsertReceipt, NumberFree, Numbered
  <2>3. op[w].number = n + 1  BY <2>2
  <2>4. \A v \in Workers : ~Receiving(v)
    BY <1>5, <2>3 DEF InsertReceipt, NumberFree, Numbered, Receiving
  <2> QED  BY <2>1, <2>3, <2>4 DEF Receiving
<1>6. ASSUME AssessPurchase(w)  PROVE Good
  <2>1. /\ op'[w].step = "commit" /\ op'[w].number = op[w].number
        /\ op'[w].for = op[w].for /\ op'[w].qty = op[w].qty
        /\ op'[w].status = IF Complete(op[w].for, ReceivedWith(op[w].for, op[w].qty))
                           THEN "received" ELSE "partially_received"
    BY <1>6 DEF AssessPurchase, TypeInv, Ops
  <2>2. op[w].number = n + 1 /\ \A v \in Workers : Receiving(v) => v = w
    BY <1>6 DEF AssessPurchase, Numbered, OrderInv, ReceiptInv, OneReceives, Receiving
  <2> QED  BY <2>1, <2>2
<1>7. ASSUME NEW i \in Items, ReceiveLine(w, i)  PROVE Good
  <2>0. op'[w] = Taking(op[w], i) /\ op[w] \in Ops
    BY <1>7, LockLevelOp DEF ReceiveLine, TypeInv
  <2>1. op'[w].step = "lines" /\ op'[w].number = op[w].number
    BY <1>7, <2>0 DEF ReceiveLine, Taking, Ops
  <2>2. op[w].number = n + 1 /\ \A v \in Workers : Receiving(v) => v = w
    BY <1>7 DEF ReceiveLine, Numbered, OrderInv, ReceiptInv, OneReceives, Receiving
  <2> QED  BY <2>1, <2>2
<1>8. Good  BY <1>4, <1>5, <1>6, <1>7, QuietReceive DEF Receiving
<1>9. Numbered(n)'
  BY <1>1, <1>2, <1>8 DEF Numbered, Receiving
<1>10. OneReceives'
  BY <1>2, <1>8 DEF OrderInv, ReceiptInv, OneReceives, Receiving
<1>11. Assessed'
  BY <1>1, <1>2, <1>8 DEF OrderInv, Assessed, Complete, ReceivedWith
<1> QED  BY <1>3, <1>9, <1>10, <1>11 DEF OrderInv, ReceiptInv

-----------------------------------------------------------------------------
(* The commits.                                                            *)

\* A request that ends leaves the locks and the deliveries of the others.
LEMMA DoneLocks ==
  ASSUME TypeInv, StockInv, OrderInv, NEW w \in Workers, Done(w)
  PROVE  /\ op'[w] = Idle /\ \A v \in Workers \ {w} : op'[v] = op[v]
         /\ \A u, v \in Workers, i \in Items : i \in op'[u].locks /\ i \in op'[v].locks => u = v
         /\ OneReceives'
<1>1. op'[w] = Idle /\ \A v \in Workers \ {w} : op'[v] = op[v]  BY DEF Done, TypeInv
<1>2. op'[w].locks = {} /\ op'[w].step = "none"  BY <1>1 DEF Idle
<1>3. \A u, v \in Workers, i \in Items : i \in op'[u].locks /\ i \in op'[v].locks => u = v
  BY <1>1, <1>2 DEF StockInv, LockInv
<1>4. OneReceives'
  BY <1>1, <1>2 DEF OrderInv, ReceiptInv, OneReceives, Receiving
<1> QED  BY <1>1, <1>3, <1>4

\* Levels change only where the request that commits has the lock.
LEMMA CommitLocks ==
  ASSUME TypeInv, StockInv, OrderInv, NEW w \in Workers, Done(w),
         \A i \in Items : i \notin op[w].locks => level'[i] = level[i]
  PROVE  LockInv'
<1>1. ASSUME NEW v \in Workers, NEW i \in Items, i \in op'[v].locks
      PROVE  op'[v].read[i] = level'[i]
  <2>1. v # w /\ op'[v] = op[v]  BY <1>1, DoneLocks DEF Idle
  <2>2. i \notin op[w].locks  BY <1>1, <2>1 DEF StockInv, LockInv
  <2> QED  BY <1>1, <2>1, <2>2 DEF StockInv, LockInv
<1> QED  BY <1>1, DoneLocks DEF LockInv

\* A request that touches no purchase order leaves them and their receipts as they are.
LEMMA NoPurchase ==
  ASSUME TypeInv, StockInv, OrderInv, NEW w \in Workers, Done(w),
         UNCHANGED <<received, receipts>>, purchase' = purchase
  PROVE  OrderInv' /\ Fits' /\ NothingOverReceived'
<1> PICK n \in Nat : Numbered(n)  BY DEF OrderInv, ReceiptInv
<1>1. /\ op'[w] = Idle /\ \A v \in Workers \ {w} : op'[v] = op[v]
      /\ OneReceives'
  BY DoneLocks
<1>2. op'[w].step = "none" /\ op'[w].locks = {}  BY <1>1 DEF Idle
<1>3. Numbered(n)'  BY <1>1, <1>2 DEF Numbered
<1>4. Assessed'  BY <1>1, <1>2 DEF OrderInv, Assessed, Complete, ReceivedWith
<1>5. PartialIsIncomplete'  BY DEF OrderInv, PartialIsIncomplete, Complete
<1>6. Fits' /\ NothingOverReceived'
  BY <1>1, <1>2 DEF StockInv, Fits, NothingOverReceived
<1> QED  BY <1>1, <1>3, <1>4, <1>5, <1>6 DEF OrderInv, ReceiptInv

LedgerType == [manual : Int, bought : Nat, sold : Nat, after : Nat]

LEMMA AdjustKeeps ==
  ASSUME Inv, NEW w \in Workers, CommitAdjustment(w)
  PROVE  Inv'
<1> USE DEF Inv
<1> DEFINE i == op[w].item
           now == op[w].read[i]
           end == IF op[w].cmd = "correct" THEN op[w].delta ELSE now + op[w].delta
<1>1. i \in Items /\ op[w].locks = {i} /\ op[w].delta \in Int
  BY DEF CommitAdjustment, TypeInv, Inputs, Ops
<1>2. now = level[i] /\ level[i] \in Nat  BY <1>1 DEF StockInv, LockInv, TypeInv, TypeOK
<1>3. /\ level' = [level EXCEPT ![i] = end]
      /\ ledger' = [ledger EXCEPT ![i].manual = @ + (end - now), ![i].after = end]
      /\ Done(w) /\ UNCHANGED <<order, purchase, received, receipts>>
      /\ end >= 0
  BY DEF CommitAdjustment
<1>4. end \in Nat  BY <1>1, <1>2, <1>3
<1>5. ledger \in [Items -> LedgerType]  BY DEF TypeInv, TypeOK, LedgerType
<1> HIDE DEF i, now, end
<1>6. /\ ledger'[i] = [manual |-> ledger[i].manual + (end - now), bought |-> ledger[i].bought,
                       sold |-> ledger[i].sold, after |-> end]
      /\ \A j \in Items \ {i} : ledger'[j] = ledger[j]
      /\ level'[i] = end /\ \A j \in Items \ {i} : level'[j] = level[j]
  BY <1>1, <1>3, <1>5 DEF TypeInv, TypeOK, LedgerType
<1>7. level' \in [Items -> Nat]  BY <1>1, <1>3, <1>4 DEF TypeInv, TypeOK
<1>8. ledger' \in [Items -> LedgerType]
  <2>1. ledger[i] \in LedgerType  BY <1>1, <1>5
  <2>2. ledger[i].manual + (end - now) \in Int  BY <1>2, <1>4, <2>1 DEF LedgerType
  <2>3. ledger'[i] \in LedgerType  BY <1>4, <1>6, <2>1, <2>2 DEF LedgerType
  <2>4. \A j \in Items : ledger'[j] \in LedgerType  BY <1>5, <1>6, <2>3
  <2>5. ledger' = [j \in Items |-> ledger'[j]]  BY <1>3, <1>5
  <2> QED  BY <2>4, <2>5
<1>9. TypeInv'
  BY <1>3, <1>7, <1>8, DoneStep DEF TypeInv, TypeOK, LedgerType
<1>10. level[i] = ledger[i].manual + ledger[i].bought - ledger[i].sold
  BY <1>1 DEF StockInv, LevelIsLedger
<1>11. LevelIsLedger'
  <2>1. level'[i] = ledger'[i].manual + ledger'[i].bought - ledger'[i].sold
    <3>1. ledger[i] \in LedgerType  BY <1>1, <1>5
    <3> QED  BY <1>2, <1>4, <1>6, <1>10, <3>1 DEF LedgerType
  <2> QED  BY <1>6, <2>1 DEF StockInv, LevelIsLedger
<1>12. LockInv'  BY <1>1, <1>3, <1>6, CommitLocks
<1>13. OrderInv' /\ Fits' /\ NothingOverReceived'  BY <1>3, NoPurchase
<1> QED  BY <1>9, <1>11, <1>12, <1>13 DEF StockInv

LEMMA AcceptKeeps ==
  ASSUME Inv, NEW w \in Workers, CommitAccept(w)
  PROVE  Inv'
<1> USE InventoryAssumption DEF Inv
<1> DEFINE o == op[w].for
           L == op[w].locks
           sold == [i \in Items |-> IF i \in L THEN Needs[o][i] ELSE 0]
<1>1. o \in Orders /\ L \subseteq Items
  BY DEF CommitAccept, TypeInv, Inputs, Ops
<1>2. sold \in [Items -> Nat] /\ \A i \in Items : i \notin L => sold[i] = 0  BY <1>1
<1>3. \A i \in Items : level[i] - sold[i] \in Nat
  <2> TAKE i \in Items
  <2>1. level[i] \in Nat /\ sold[i] \in Nat  BY <1>2 DEF TypeInv, TypeOK
  <2>2. i \in L => level[i] >= sold[i]  BY DEF CommitAccept
  <2> QED  BY <1>2, <2>1, <2>2
<1>4. /\ order' = [order EXCEPT ![o] = "accepted"]
      /\ level' = [i \in Items |-> level[i] - sold[i]]
      /\ ledger' = [i \in Items |->
           IF i \in L THEN [ledger[i] EXCEPT !.sold = @ + sold[i],
                                             !.after = op[w].read[i] - sold[i]]
                      ELSE ledger[i]]
      /\ Done(w) /\ UNCHANGED <<purchase, received, receipts>>
  BY DEF CommitAccept
<1>5. \A i \in Items : ledger[i] \in LedgerType  BY DEF TypeInv, TypeOK, LedgerType
<1>6. \A i \in Items : i \in L => op[w].read[i] = level[i]  BY DEF StockInv, LockInv
<1> HIDE DEF o, L, sold
<1>7. \A i \in Items : level'[i] = level[i] - sold[i] /\ level'[i] \in Nat  BY <1>3, <1>4
<1>8. ASSUME NEW i \in Items, i \in L
      PROVE  ledger'[i] = [manual |-> ledger[i].manual, bought |-> ledger[i].bought,
                           sold |-> ledger[i].sold + sold[i], after |-> level'[i]]
  BY <1>4, <1>5, <1>6, <1>7, <1>8 DEF LedgerType
<1>9. \A i \in Items : i \notin L => ledger'[i] = ledger[i] /\ level'[i] = level[i]
  <2> SUFFICES ASSUME NEW i \in Items, i \notin L
               PROVE  ledger'[i] = ledger[i] /\ level'[i] = level[i]
    OBVIOUS
  <2>1. level[i] \in Nat /\ sold[i] = 0  BY <1>2 DEF TypeInv, TypeOK
  <2>2. level'[i] = level[i]  BY <1>7, <2>1
  <2>3. ledger'[i] = ledger[i]  BY <1>4
  <2> QED  BY <2>2, <2>3
<1>10. \A i \in Items : ledger'[i] \in LedgerType
  <2> TAKE i \in Items
  <2>1. ledger[i] \in LedgerType /\ sold[i] \in Nat /\ level'[i] \in Nat  BY <1>2, <1>5, <1>7
  <2>2. ASSUME i \in L  PROVE ledger'[i] \in LedgerType
    <3>1. ledger'[i] = [manual |-> ledger[i].manual, bought |-> ledger[i].bought,
                        sold |-> ledger[i].sold + sold[i], after |-> level'[i]]
      BY <1>8, <2>2, Zenon
    <3> QED  BY <2>1, <3>1 DEF LedgerType
  <2> QED  BY <1>9, <2>1, <2>2
<1>11. ledger' \in [Items -> LedgerType]  BY <1>4, <1>10
<1>12. level' \in [Items -> Nat]  BY <1>3, <1>4
<1>13. TypeInv'
  BY <1>1, <1>4, <1>11, <1>12, DoneStep DEF TypeInv, TypeOK, LedgerType, OrderStatuses
<1>14. LevelIsLedger'
  <2> SUFFICES ASSUME NEW i \in Items
               PROVE  /\ level'[i] = ledger'[i].manual + ledger'[i].bought - ledger'[i].sold
                      /\ level'[i] = ledger'[i].after
    BY DEF LevelIsLedger
  <2>1. /\ level[i] = ledger[i].manual + ledger[i].bought - ledger[i].sold
        /\ level[i] = ledger[i].after
    BY DEF StockInv, LevelIsLedger
  <2>2. ledger[i] \in LedgerType /\ sold[i] \in Nat /\ level'[i] = level[i] - sold[i]
    BY <1>2, <1>5, <1>7
  <2>3. CASE i \in L
    <3>1. /\ ledger'[i].manual = ledger[i].manual /\ ledger'[i].bought = ledger[i].bought
          /\ ledger'[i].sold = ledger[i].sold + sold[i] /\ ledger'[i].after = level'[i]
      <4>1. ledger'[i] = [manual |-> ledger[i].manual, bought |-> ledger[i].bought,
                          sold |-> ledger[i].sold + sold[i], after |-> level'[i]]
        BY <1>8, <2>3, Zenon
      <4> QED  BY <4>1
    <3>2. /\ ledger[i].manual \in Int /\ ledger[i].bought \in Nat /\ ledger[i].sold \in Nat
      BY <2>2 DEF LedgerType
    <3> QED  BY <2>1, <2>2, <3>1, <3>2
  <2>4. CASE i \notin L  BY <1>9, <2>1, <2>4
  <2> QED  BY <2>3, <2>4
<1>15. LockInv'  BY <1>4, <1>9, CommitLocks DEF L
<1>16. OrderInv' /\ Fits' /\ NothingOverReceived'  BY <1>4, NoPurchase
<1> QED  BY <1>13, <1>14, <1>15, <1>16 DEF StockInv

\* A submission or a cancellation does not look at the lines, and never says that the
\* purchase order is partially received.
LEMMA ChangeKeeps ==
  ASSUME Inv, NEW w \in Workers, CommitPurchaseChange(w)
  PROVE  Inv'
<1> USE DEF Inv
<1> PICK n \in Nat : Numbered(n)  BY DEF OrderInv, ReceiptInv
<1> DEFINE p == op[w].for
           st == IF op[w].cmd = "submit" THEN "submitted" ELSE "cancelled"
<1>1. /\ p \in Purchases /\ purchase' = [purchase EXCEPT ![p] = st]
      /\ Done(w) /\ UNCHANGED <<order, level, ledger, received, receipts>>
  BY DEF CommitPurchaseChange, TypeInv, Inputs
<1>2. st \in PurchaseStatuses /\ st # "partially_received"  BY DEF PurchaseStatuses
<1> HIDE DEF p, st
<1>3. TypeInv'  BY <1>1, <1>2, DoneStep DEF TypeInv, TypeOK
<1>4. /\ op'[w] = Idle /\ \A v \in Workers \ {w} : op'[v] = op[v]
      /\ OneReceives'
  BY <1>1, DoneLocks
<1>5. op'[w].step = "none" /\ op'[w].locks = {}  BY <1>4 DEF Idle
<1>6. LockInv'  BY <1>1, CommitLocks
<1>7. Fits' /\ NothingOverReceived' /\ LevelIsLedger'
  BY <1>1, <1>4, <1>5 DEF StockInv, Fits, NothingOverReceived, LevelIsLedger
<1>8. Numbered(n)' /\ Assessed'
  BY <1>1, <1>4, <1>5 DEF Numbered, OrderInv, Assessed, Complete, ReceivedWith
<1>9. PartialIsIncomplete'
  BY <1>1, <1>2 DEF OrderInv, PartialIsIncomplete, Complete, TypeInv, TypeOK
<1> QED  BY <1>3, <1>4, <1>6, <1>7, <1>8, <1>9 DEF StockInv, OrderInv, ReceiptInv

\* The delivery that commits is alone past the insertion of its receipt, so that the lines
\* are as it has assessed them, and it has the locks of the items that it brings.
LEMMA ReceiveKeeps ==
  ASSUME Inv, NEW w \in Workers, CommitReceive(w)
  PROVE  Inv'
<1> USE InventoryAssumption DEF Inv
<1> PICK n \in Nat : Numbered(n)  BY DEF OrderInv, ReceiptInv
<1> DEFINE p == op[w].for
           q == op[w].qty
           L == op[w].locks
           st == op[w].status
           got == ReceivedWith(p, q)
           after == [i \in Items |-> op[w].read[i] + q[i]]
<1>1. /\ p \in Purchases /\ q \in [Items -> Nat] /\ L \subseteq Items
      /\ st \in {"received", "partially_received"}
      /\ op[w].cmd = "receive" /\ op[w].step = "commit" /\ op[w].number = n + 1
      /\ \A i \in Items : q[i] > 0 => i \in L
  BY DEF CommitReceive, TypeInv, Inputs, Ops, Numbered
<1>2. /\ received' = [received EXCEPT ![p] = got]
      /\ level' = [i \in Items |-> IF i \in L THEN after[i] ELSE level[i]]
      /\ ledger' = [i \in Items |->
           IF i \in L THEN [ledger[i] EXCEPT !.bought = @ + q[i], !.after = after[i]]
                      ELSE ledger[i]]
      /\ purchase' = [purchase EXCEPT ![p] = st]
      /\ receipts' = receipts \cup {n + 1}
      /\ Done(w) /\ UNCHANGED order
  BY <1>1 DEF CommitReceive
<1>3. \A i \in Items : i \in L => op[w].read[i] = level[i]  BY DEF StockInv, LockInv
<1>4. \A i \in Items : /\ level[i] \in Nat /\ q[i] \in Nat /\ received[p][i] \in Nat
                       /\ Ordered[p][i] \in Nat
  BY <1>1 DEF TypeInv, TypeOK
<1>5. \A i \in Items : ledger[i] \in LedgerType  BY DEF TypeInv, TypeOK, LedgerType
<1>6. \A i \in Items : i \in L => received[p][i] + q[i] <= Ordered[p][i]
  BY <1>1 DEF StockInv, Fits
<1>7. st = "partially_received" => ~Complete(p, got)
  BY <1>1 DEF OrderInv, Assessed
<1>8. got = [i \in Items |-> received[p][i] + q[i]]  BY DEF ReceivedWith
<1>9. \A i \in Items : i \in L => after[i] = level[i] + q[i]  BY <1>3
<1> HIDE DEF p, q, L, st, got, after
<1>10. \A i \in Items : i \notin L => q[i] = 0  BY <1>1, <1>4
<1>11. got \in [Items -> Nat]  BY <1>4, <1>8
<1>12. \A i \in Items : level'[i] = level[i] + q[i] /\ level'[i] \in Nat
  <2> TAKE i \in Items
  <2>0. level' = [j \in Items |-> IF j \in L THEN after[j] ELSE level[j]]  BY <1>2
  <2>1. CASE i \in L
    <3>1. level'[i] = after[i] /\ after[i] = level[i] + q[i]  BY <1>9, <2>0, <2>1
    <3> QED  BY <1>4, <3>1
  <2>2. CASE i \notin L
    <3>1. level'[i] = level[i] /\ q[i] = 0  BY <1>10, <2>0, <2>2
    <3> QED  BY <1>4, <3>1
  <2> QED  BY <2>1, <2>2
<1>13. ASSUME NEW i \in Items, i \in L
       PROVE  /\ ledger'[i].manual = ledger[i].manual
              /\ ledger'[i].bought = ledger[i].bought + q[i]
              /\ ledger'[i].sold = ledger[i].sold /\ ledger'[i].after = level'[i]
              /\ ledger'[i] \in LedgerType
  <2>1. ledger'[i] = [ledger[i] EXCEPT !.bought = @ + q[i], !.after = after[i]]
    BY <1>2, <1>13
  <2>2. ledger[i] \in LedgerType /\ q[i] \in Nat /\ level'[i] \in Nat /\ after[i] = level'[i]
    BY <1>4, <1>5, <1>9, <1>12, <1>13
  <2>3. ledger'[i] = [manual |-> ledger[i].manual, bought |-> ledger[i].bought + q[i],
                      sold |-> ledger[i].sold, after |-> level'[i]]
    <3> DEFINE x == ledger[i].bought + q[i]
    <3>1. ledger'[i] = [ledger[i] EXCEPT !.bought = x, !.after = level'[i]]  BY <2>1, <2>2
    <3> HIDE DEF x
    <3>2. ledger'[i] = [manual |-> ledger[i].manual, bought |-> x,
                        sold |-> ledger[i].sold, after |-> level'[i]]
      BY <2>2, <3>1 DEF LedgerType
    <3> QED  BY <3>2 DEF x
  <2> QED  BY <2>2, <2>3 DEF LedgerType
<1>14. ASSUME NEW i \in Items, i \notin L
       PROVE  ledger'[i] = ledger[i] /\ level'[i] = level[i]
  BY <1>2, <1>14
<1>15. TypeInv'
  <2>1. ledger' \in [Items -> LedgerType]
    <3>1. \A i \in Items : ledger'[i] \in LedgerType
      <4> TAKE i \in Items
      <4>1. CASE i \in L  BY <1>13, <4>1, Zenon
      <4>2. CASE i \notin L  BY <1>5, <1>14, <4>2, Zenon
      <4> QED  BY <4>1, <4>2
    <3> QED  BY <1>2, <3>1
  <2>2. level' \in [Items -> Nat]  BY <1>2, <1>12
  <2>3. received' \in [Purchases -> [Items -> Nat]]
    BY <1>1, <1>2, <1>11 DEF TypeInv, TypeOK
  <2>4. purchase' \in [Purchases -> PurchaseStatuses]
    BY <1>1, <1>2 DEF TypeInv, TypeOK, PurchaseStatuses
  <2>5. receipts' \subseteq Nat \ {0}
    <3>1. receipts \subseteq Nat \ {0}  BY DEF TypeInv, TypeOK
    <3>2. n + 1 \in Nat \ {0}  OBVIOUS
    <3> QED  BY <1>2, <3>1, <3>2, Zenon
  <2> QED  BY <1>2, <2>1, <2>2, <2>3, <2>4, <2>5, DoneStep DEF TypeInv, TypeOK, LedgerType
<1>16. LevelIsLedger'
  <2> SUFFICES ASSUME NEW i \in Items
               PROVE  /\ level'[i] = ledger'[i].manual + ledger'[i].bought - ledger'[i].sold
                      /\ level'[i] = ledger'[i].after
    BY DEF LevelIsLedger
  <2>1. /\ level[i] = ledger[i].manual + ledger[i].bought - ledger[i].sold
        /\ level[i] = ledger[i].after
    BY DEF StockInv, LevelIsLedger
  <2>2. ledger[i].manual \in Int /\ ledger[i].bought \in Nat /\ ledger[i].sold \in Nat
    BY <1>5 DEF LedgerType
  <2>3. CASE i \in L
    <3>1. /\ ledger'[i].manual = ledger[i].manual
          /\ ledger'[i].bought = ledger[i].bought + q[i]
          /\ ledger'[i].sold = ledger[i].sold /\ ledger'[i].after = level'[i]
      BY <1>13, <2>3, Zenon
    <3> QED  BY <1>4, <1>12, <2>1, <2>2, <3>1
  <2>4. CASE i \notin L
    <3>1. ledger'[i] = ledger[i] /\ level'[i] = level[i]  BY <1>14, <2>4, Zenon
    <3> QED  BY <2>1, <3>1
  <2> QED  BY <2>3, <2>4
<1>17. LockInv'
  <2>1. \A i \in Items : i \notin op[w].locks => level'[i] = level[i]
    BY <1>14 DEF L
  <2> QED  BY <1>2, <2>1, CommitLocks
<1>18. /\ op'[w] = Idle /\ \A v \in Workers \ {w} : op'[v] = op[v]
       /\ OneReceives'
  BY <1>2, DoneLocks
<1>19. op'[w].step = "none" /\ op'[w].locks = {}  BY <1>18 DEF Idle
<1>20. \A v \in Workers \ {w} : ~Receiving(v)
  BY <1>1 DEF OrderInv, ReceiptInv, OneReceives, Receiving
<1>21. /\ received'[p] = got
       /\ \A x \in Purchases \ {p} : received'[x] = received[x] /\ purchase'[x] = purchase[x]
       /\ purchase'[p] = st
  BY <1>1, <1>2 DEF TypeInv, TypeOK
<1>22. \A i \in Items : got[i] = received[p][i] + q[i]  BY <1>8
<1>23. NothingOverReceived'
  <2>1. \A i \in Items : got[i] <= Ordered[p][i]
    <3> TAKE i \in Items
    <3>1. CASE i \in L  BY <1>6, <1>22, <3>1
    <3>2. CASE i \notin L
      <4>1. received[p][i] <= Ordered[p][i]  BY <1>1 DEF StockInv, NothingOverReceived
      <4> QED  BY <1>4, <1>10, <1>22, <3>2, <4>1
    <3> QED  BY <3>1, <3>2
  <2> QED  BY <1>21, <2>1 DEF StockInv, NothingOverReceived
<1>24. Fits'
  <2> SUFFICES ASSUME NEW v \in Workers, NEW i \in Items,
                      op'[v].cmd = "receive", i \in op'[v].locks
               PROVE  received'[op'[v].for][i] + op'[v].qty[i] <= Ordered[op'[v].for][i]
    BY DEF Fits
  <2>1. v # w /\ op'[v] = op[v]  BY <1>18, <1>19
  <2>2. received[op[v].for][i] + op[v].qty[i] <= Ordered[op[v].for][i]
    BY <2>1 DEF StockInv, Fits
  <2>3. op[v].for \in Purchases  BY <2>1 DEF TypeInv, Inputs
  <2>4. i \notin L  BY <2>1 DEF StockInv, LockInv, L
  <2>5. received'[op[v].for][i] = received[op[v].for][i]
    <3>1. got[i] = received[p][i]  BY <1>4, <1>10, <1>22, <2>4
    <3> QED  BY <1>21, <2>3, <3>1
  <2> QED  BY <2>1, <2>2, <2>5
<1>25. Numbered(n + 1)'
  <2>0. receipts = 1 .. n  BY DEF Numbered
  <2>1. receipts' = 1 .. (n + 1)
    <3>1. (1 .. n) \cup {n + 1} = 1 .. (n + 1)  OBVIOUS
    <3> QED  BY <1>2, <2>0, <3>1, Zenon
  <2>2. \A v \in Workers :
          /\ op'[v].step = "insert" => op'[v].number \in 1 .. (n + 1 + 1)
          /\ op'[v].step \notin {"lines", "commit"}
    <3> TAKE v \in Workers
    <3>1. CASE v = w  BY <1>19, <3>1
    <3>2. CASE v # w  BY <1>18, <1>20, <3>2 DEF Numbered, Receiving
    <3> QED  BY <3>1, <3>2
  <2> QED  BY <2>1, <2>2 DEF Numbered
<1>26. Assessed'  BY <1>18, <1>19, <1>20 DEF Assessed, Receiving
<1>27. PartialIsIncomplete'
  BY <1>7, <1>21 DEF OrderInv, PartialIsIncomplete, Complete
<1> QED
  BY <1>15, <1>16, <1>17, <1>18, <1>23, <1>24, <1>25, <1>26, <1>27
     DEF StockInv, OrderInv, ReceiptInv

-----------------------------------------------------------------------------
(* The invariant and what follows from it.                                 *)

LEMMA InvInit == Init => Inv
<1> SUFFICES ASSUME Init PROVE Inv  OBVIOUS
<1> USE InventoryAssumption
<1>1. \A w \in Workers : op[w] = Idle  BY DEF Init
<1>2. Idle.locks = {} /\ Idle.step = "none" /\ Idle.cmd = "none"  BY DEF Idle
<1>3. LockInv /\ Fits  BY <1>1, <1>2 DEF LockInv, Fits
<1>4. LevelIsLedger  BY DEF Init, LevelIsLedger, Nothing
<1>5. NothingOverReceived  BY DEF Init, NothingOverReceived, Nothing
<1>6. Numbered(0)  BY <1>1, <1>2 DEF Init, Numbered
<1>7. OneReceives /\ Assessed  BY <1>1, <1>2 DEF OneReceives, Receiving, Assessed
<1>8. PartialIsIncomplete  BY DEF Init, PartialIsIncomplete
<1> QED
  BY <1>3, <1>4, <1>5, <1>6, <1>7, <1>8, TypeInit DEF Inv, StockInv, OrderInv, ReceiptInv

LEMMA InvNext == Inv /\ [Next]_vars => Inv'
<1> SUFFICES ASSUME Inv, [Next]_vars PROVE Inv'  OBVIOUS
<1>1. CASE UNCHANGED vars
  BY <1>1, ZenonT(40) DEF vars, Inv, TypeInv, TypeOK, StockInv, LockInv, Fits, LevelIsLedger,
              NothingOverReceived, OrderInv, ReceiptInv, Numbered, OneReceives, Receiving,
              Assessed, ReceivedWith, Complete, PartialIsIncomplete
<1>2. IsFiniteSet(receipts)  BY IntervalFacts DEF Inv, OrderInv, ReceiptInv
<1>3. ASSUME NEW w \in Workers, Quiet(w)  PROVE Inv'
  BY <1>2, <1>3, QuietTypes, QuietStock, QuietOrder DEF Inv
<1>4. CASE Next
  BY <1>3, <1>4, AdjustKeeps, AcceptKeeps, ChangeKeeps, ReceiveKeeps DEF Next, Quiet
<1> QED  BY <1>1, <1>4

LEMMA Invariant == Spec => []Inv
  BY InvInit, InvNext, PTL DEF Spec

\* Quantities are never negative, and statuses are those of the schema.
THEOREM TypeCorrect == Spec => []TypeOK
<1>1. Inv => TypeOK  BY DEF Inv, TypeInv
<1> QED  BY <1>1, Invariant, PTL

\* No change of a level is lost: it is the sum of its movements and the latest of them.
THEOREM LevelIsLedgerHolds == Spec => []LevelIsLedger
<1>1. Inv => LevelIsLedger  BY DEF Inv, StockInv
<1> QED  BY <1>1, Invariant, PTL

\* No line of a purchase order is received beyond what was ordered.
THEOREM NothingOverReceivedHolds == Spec => []NothingOverReceived
<1>1. Inv => NothingOverReceived  BY DEF Inv, StockInv
<1> QED  BY <1>1, Invariant, PTL

\* A purchase order that is called partially received lacks something.
THEOREM PartialIsIncompleteHolds == Spec => []PartialIsIncomplete
<1>1. Inv => PartialIsIncomplete  BY DEF Inv, OrderInv
<1> QED  BY <1>1, Invariant, PTL

-----------------------------------------------------------------------------
(* The movements and what has caused them.  An order that is being accepted *)
(* is submitted until the one request that has its row commits.             *)

Selling(w) == op[w].step = "stock"

OrderLocked ==
  /\ \A w \in Workers : Selling(w) => order[op[w].for] = "submitted"
  /\ \A v, w \in Workers : Selling(v) /\ Selling(w) /\ op[v].for = op[w].for => v = w

AcceptedOrders == {o \in Orders : order[o] = "accepted"}
NeedOf(i) == [o \in Orders |-> Needs[o][i]]
GotOf(i) == [p \in Purchases |-> received[p][i]]

LedgerInv == OrderLocked /\ LedgerMatchesOrders

LEMMA LedgerIsSums ==
  LedgerMatchesOrders <=>
    \A i \in Items : /\ ledger[i].sold = SumFunctionOnSet(NeedOf(i), AcceptedOrders)
                     /\ ledger[i].bought = SumFunctionOnSet(GotOf(i), Purchases)
  BY DEF LedgerMatchesOrders, NeedOf, GotOf, AcceptedOrders

LEMMA LedgerIsSumsNext ==
  LedgerMatchesOrders' <=>
    \A i \in Items : /\ ledger'[i].sold = SumFunctionOnSet(NeedOf(i), AcceptedOrders')
                     /\ ledger'[i].bought = SumFunctionOnSet(GotOf(i)', Purchases)
  BY DEF LedgerMatchesOrders, NeedOf, GotOf, AcceptedOrders

\* How far a quiet step takes an acceptance.
LEMMA QuietSelling ==
  ASSUME TypeInv, NEW w \in Workers, Quiet(w), Selling(w)'
  PROVE  /\ TakeOrder(w) \/ \E i \in Items : LockNeededItem(w, i)
         /\ op'[w].for = op[w].for
<1> USE DEF Selling
<1>1. op[w] \in Ops /\ Inputs(op[w])  BY DEF TypeInv
<1>2. ASSUME NEW i \in Items, LockLevel(w, i)
      PROVE  op'[w].step = op[w].step /\ op'[w].for = op[w].for
  <2>1. op'[w] = Taking(op[w], i)  BY <1>2, LockLevelOp DEF TypeInv
  <2> QED  BY <1>1, <2>1 DEF Taking, Ops
<1>3. ~LockForAdjustment(w)  BY <1>1, <1>2 DEF LockForAdjustment, Inputs
<1>4. \A i \in Items : ~ReceiveLine(w, i)  BY <1>2 DEF ReceiveLine
<1>5. ~RollBack(w)  BY DEF RollBack, Done, Idle, TypeInv
<1>6. /\ \A i \in Items, d \in Deltas : ~StartAdjustment(w, i, d)
      /\ \A i \in Items, f \in Finals : ~StartCorrection(w, i, f)
  BY ZenonT(40) DEF StartAdjustment, StartCorrection, Begin, Idle, TypeInv
<1>7. \A o \in Orders : ~StartAccept(w, o)  BY DEF StartAccept, Begin, Idle, TypeInv
<1>8. \A c \in {"submit", "cancel"}, p \in Purchases : ~StartPurchaseChange(w, c, p)
  BY DEF StartPurchaseChange, Begin, Idle, TypeInv
<1>9. \A p \in Purchases : \A q \in Deliveries(p) : ~StartReceive(w, p, q)
  BY DEF StartReceive, Begin, Idle, TypeInv
<1>10. ~CountReceipts(w) /\ ~InsertReceipt(w) /\ ~AssessPurchase(w)
  BY DEF CountReceipts, InsertReceipt, AssessPurchase, TypeInv, Ops
<1>11. TakeOrder(w) \/ \E i \in Items : LockNeededItem(w, i)
  BY <1>3, <1>4, <1>5, <1>6, <1>7, <1>8, <1>9, <1>10 DEF Quiet
<1>12. TakeOrder(w) => op'[w].for = op[w].for  BY DEF TakeOrder, TypeInv, Ops
<1>13. \A i \in Items : LockNeededItem(w, i) => op'[w].for = op[w].for
  BY <1>2 DEF LockNeededItem
<1> QED  BY <1>11, <1>12, <1>13

LEMMA QuietLedger ==
  ASSUME Inv, LedgerInv, NEW w \in Workers, Quiet(w)
  PROVE  LedgerInv'
<1> USE DEF Inv
<1>0. IsFiniteSet(receipts)  BY IntervalFacts DEF OrderInv, ReceiptInv
<1>1. UNCHANGED <<order, ledger, received>>  BY QuietFrame
<1>2. LedgerMatchesOrders'  BY <1>1 DEF LedgerInv, LedgerMatchesOrders
<1>3. \A v \in Workers \ {w} : op'[v] = op[v]  BY <1>0, QuietOp DEF TypeInv
<1>4. ASSUME Selling(w)'
      PROVE  /\ order[op'[w].for] = "submitted"
             /\ \A v \in Workers \ {w} : Selling(v) => op[v].for # op'[w].for
  <2>1. op'[w].for = op[w].for  BY <1>4, QuietSelling
  <2>2. CASE TakeOrder(w)
    <3>1. \A v \in Workers : Selling(v) => op[v].cmd = "accept"
      BY DEF Selling, TypeInv, Inputs
    <3> QED  BY <2>1, <2>2, <3>1 DEF TakeOrder, Selling
  <2>3. ASSUME NEW i \in Items, LockNeededItem(w, i)  PROVE Selling(w)
    BY <2>3 DEF LockNeededItem, Selling
  <2> QED  BY <1>4, <2>1, <2>2, <2>3, QuietSelling DEF LedgerInv, OrderLocked
<1>5. OrderLocked'
  BY <1>1, <1>3, <1>4 DEF LedgerInv, OrderLocked, Selling
<1> QED  BY <1>2, <1>5 DEF LedgerInv

\* A commit ends its request, and leaves the orders of the others.
LEMMA DoneSelling ==
  ASSUME TypeInv, OrderLocked, NEW w \in Workers, Done(w),
         \A v \in Workers \ {w} : Selling(v) => order'[op[v].for] = order[op[v].for]
  PROVE  OrderLocked'
<1>1. op'[w] = Idle /\ \A v \in Workers \ {w} : op'[v] = op[v]  BY DEF Done, TypeInv
<1>2. op'[w].step = "none"  BY <1>1 DEF Idle
<1> QED  BY <1>1, <1>2 DEF OrderLocked, Selling

LEMMA AcceptLedger ==
  ASSUME Inv, LedgerInv, NEW w \in Workers, CommitAccept(w)
  PROVE  LedgerInv'
<1> USE InventoryAssumption DEF Inv
<1> DEFINE o == op[w].for
           L == op[w].locks
           sold == [i \in Items |-> IF i \in L THEN Needs[o][i] ELSE 0]
<1>1. o \in Orders /\ Selling(w) /\ Done(w) /\ order' = [order EXCEPT ![o] = "accepted"]
      /\ UNCHANGED received
  BY DEF CommitAccept, Selling, TypeInv, Inputs
<1>2. order \in [Orders -> OrderStatuses] /\ order[o] = "submitted"
  BY <1>1 DEF LedgerInv, OrderLocked, TypeInv, TypeOK
<1>3. \A v \in Workers \ {w} : Selling(v) => op[v].for # o
  BY <1>1 DEF LedgerInv, OrderLocked
<1>4. \A i \in Items : Needs[o][i] \in Nat /\ sold[i] = Needs[o][i]
  <2> TAKE i \in Items
  <2>1. Needs[o][i] \in Nat  BY <1>1
  <2>2. Needs[o][i] > 0 => i \in L  BY DEF CommitAccept
  <2> QED  BY <2>1, <2>2
<1>5. \A i \in Items : ledger[i] \in LedgerType  BY DEF TypeInv, TypeOK, LedgerType
<1>6. ledger' = [i \in Items |->
           IF i \in L THEN [ledger[i] EXCEPT !.sold = @ + sold[i],
                                             !.after = op[w].read[i] - sold[i]]
                      ELSE ledger[i]]
  BY DEF CommitAccept
<1>7. \A i \in Items : i \notin L => sold[i] = 0
  OBVIOUS
<1> HIDE DEF o, L, sold
<1>8. \A i \in Items : /\ ledger'[i].sold = ledger[i].sold + Needs[o][i]
                       /\ ledger'[i].bought = ledger[i].bought
  <2> TAKE i \in Items
  <2>1. ledger[i].sold \in Nat /\ ledger[i] \in LedgerType  BY <1>5 DEF LedgerType
  <2>2. CASE i \in L
    <3>1. ledger'[i] = [ledger[i] EXCEPT !.sold = @ + sold[i],
                                         !.after = op[w].read[i] - sold[i]]
      BY <1>6, <2>2
    <3>2. ledger'[i].sold = ledger[i].sold + sold[i] /\ ledger'[i].bought = ledger[i].bought
      BY <2>1, <3>1 DEF LedgerType
    <3> QED  BY <1>4, <3>2
  <2>3. CASE i \notin L
    <3>1. ledger'[i] = ledger[i] /\ Needs[o][i] = 0  BY <1>4, <1>6, <1>7, <2>3
    <3> QED  BY <2>1, <3>1
  <2> QED  BY <2>2, <2>3
<1>9. /\ o \notin AcceptedOrders /\ AcceptedOrders' = AcceptedOrders \cup {o}
      /\ IsFiniteSet(AcceptedOrders)
  <2>1. IsFiniteSet(AcceptedOrders)  BY FS_Subset DEF AcceptedOrders
  <2> QED  BY <1>1, <1>2, <2>1 DEF AcceptedOrders
<1>10. ASSUME NEW i \in Items
       PROVE  SumFunctionOnSet(NeedOf(i), AcceptedOrders')
                = Needs[o][i] + SumFunctionOnSet(NeedOf(i), AcceptedOrders)
  <2>1. \A x \in AcceptedOrders \cup {o} : NeedOf(i)[x] \in Int
    BY <1>1 DEF NeedOf, AcceptedOrders
  <2>2. NeedOf(i)[o] = Needs[o][i]  BY <1>1 DEF NeedOf
  <2> QED  BY <1>9, <2>1, <2>2, SumAdd
<1>11. \A i \in Items : GotOf(i)' = GotOf(i)  BY <1>1 DEF GotOf
<1>12. LedgerMatchesOrders'
  <2>1. ASSUME NEW i \in Items
        PROVE  /\ ledger'[i].sold = SumFunctionOnSet(NeedOf(i), AcceptedOrders')
               /\ ledger'[i].bought = SumFunctionOnSet(GotOf(i)', Purchases)
    <3>1. /\ ledger[i].sold = SumFunctionOnSet(NeedOf(i), AcceptedOrders)
          /\ ledger[i].bought = SumFunctionOnSet(GotOf(i), Purchases)
      BY LedgerIsSums DEF LedgerInv
    <3>2. ledger[i].sold \in Nat  BY <1>5 DEF LedgerType
    <3> QED  BY <1>4, <1>8, <1>10, <1>11, <3>1, <3>2
  <2> QED  BY <2>1, LedgerIsSumsNext
<1>13. OrderLocked'
  <2>1. \A v \in Workers \ {w} : Selling(v) => order'[op[v].for] = order[op[v].for]
    BY <1>1, <1>2, <1>3
  <2> QED  BY <1>1, <2>1, DoneSelling DEF LedgerInv
<1> QED  BY <1>12, <1>13 DEF LedgerInv

LEMMA ReceiveLedger ==
  ASSUME Inv, LedgerInv, NEW w \in Workers, CommitReceive(w)
  PROVE  LedgerInv'
<1> USE InventoryAssumption DEF Inv
<1> DEFINE p == op[w].for
           q == op[w].qty
           L == op[w].locks
           after == [i \in Items |-> op[w].read[i] + q[i]]
<1>1. /\ p \in Purchases /\ q \in [Items -> Nat]
      /\ \A i \in Items : q[i] > 0 => i \in L
  BY DEF CommitReceive, TypeInv, Inputs, Ops
<1>2. /\ received' = [received EXCEPT ![p] = ReceivedWith(p, q)]
      /\ ledger' = [i \in Items |->
           IF i \in L THEN [ledger[i] EXCEPT !.bought = @ + q[i], !.after = after[i]]
                      ELSE ledger[i]]
      /\ Done(w) /\ UNCHANGED order
  BY DEF CommitReceive
<1>3. \A i \in Items : ledger[i] \in LedgerType  BY DEF TypeInv, TypeOK, LedgerType
<1>4. received \in [Purchases -> [Items -> Nat]]  BY DEF TypeInv, TypeOK
<1> HIDE DEF p, q, L, after
<1>5. \A i \in Items : /\ ledger'[i].bought = ledger[i].bought + q[i]
                       /\ ledger'[i].sold = ledger[i].sold
  <2> TAKE i \in Items
  <2>1. ledger[i].bought \in Nat /\ ledger[i] \in LedgerType /\ q[i] \in Nat
    BY <1>1, <1>3 DEF LedgerType
  <2>2. CASE i \in L
    <3>1. ledger'[i] = [ledger[i] EXCEPT !.bought = @ + q[i], !.after = after[i]]
      BY <1>2, <2>2
    <3> QED  BY <2>1, <3>1 DEF LedgerType
  <2>3. CASE i \notin L
    <3>1. ledger'[i] = ledger[i]  BY <1>2, <2>3
    <3>2. q[i] = 0
      <4>1. ~(q[i] > 0)  BY <1>1, <2>3
      <4> QED  BY <2>1, <4>1
    <3> QED  BY <2>1, <3>1, <3>2
  <2> QED  BY <2>2, <2>3
<1>6. ASSUME NEW i \in Items
      PROVE  SumFunctionOnSet(GotOf(i)', Purchases)
               = SumFunctionOnSet(GotOf(i), Purchases) + q[i]
  <2>1. received'[p][i] = received[p][i] + q[i] /\ received[p][i] \in Nat /\ q[i] \in Nat
    BY <1>1, <1>2, <1>4 DEF ReceivedWith
  <2>2. \A x \in Purchases \ {p} : GotOf(i)'[x] = GotOf(i)[x]
    BY <1>2, <1>4 DEF GotOf
  <2>3. GotOf(i)[p] = received[p][i] /\ GotOf(i)'[p] = received[p][i] + q[i]
    BY <1>1, <2>1 DEF GotOf
  <2>4. \A x \in Purchases : GotOf(i)[x] \in Int /\ GotOf(i)'[x] \in Int
    <3> TAKE x \in Purchases
    <3>1. GotOf(i)[x] \in Int  BY <1>4 DEF GotOf
    <3>2. CASE x = p  BY <2>1, <2>3, <3>1, <3>2
    <3>3. CASE x # p  BY <2>2, <3>1, <3>3
    <3> QED  BY <3>2, <3>3
  <2>5. SumFunctionOnSet(GotOf(i)', Purchases)
          = SumFunctionOnSet(GotOf(i), Purchases) + (GotOf(i)'[p] - GotOf(i)[p])
    <3> DEFINE f == GotOf(i)
               g == GotOf(i)'
    <3>1. /\ \A x \in Purchases : f[x] \in Int /\ g[x] \in Int
          /\ \A x \in Purchases \ {p} : f[x] = g[x]
      BY <2>2, <2>4
    <3> HIDE DEF f, g
    <3>2. SumFunctionOnSet(g, Purchases) = SumFunctionOnSet(f, Purchases) + (g[p] - f[p])
      BY <1>1, <3>1, SumChange
    <3> QED  BY <3>2 DEF f, g
  <2>6. GotOf(i)'[p] - GotOf(i)[p] = q[i]  BY <2>1, <2>3
  <2> QED  BY <2>5, <2>6
<1>7. AcceptedOrders' = AcceptedOrders  BY <1>2 DEF AcceptedOrders
<1>8. LedgerMatchesOrders'
  <2>1. ASSUME NEW i \in Items
        PROVE  /\ ledger'[i].sold = SumFunctionOnSet(NeedOf(i), AcceptedOrders')
               /\ ledger'[i].bought = SumFunctionOnSet(GotOf(i)', Purchases)
    BY <1>5, <1>6, <1>7, LedgerIsSums DEF LedgerInv
  <2> QED  BY <2>1, LedgerIsSumsNext
<1>9. OrderLocked'  BY <1>2, DoneSelling DEF LedgerInv
<1> QED  BY <1>8, <1>9 DEF LedgerInv

\* The commits that sell and buy nothing.
LEMMA OtherLedger ==
  ASSUME Inv, LedgerInv, NEW w \in Workers, CommitAdjustment(w) \/ CommitPurchaseChange(w)
  PROVE  LedgerInv'
<1>1. Done(w) /\ UNCHANGED <<order, received>>
  BY DEF CommitAdjustment, CommitPurchaseChange
<1>2. OrderLocked'  BY <1>1, DoneSelling DEF Inv, LedgerInv
<1>3. \A i \in Items : ledger'[i].sold = ledger[i].sold /\ ledger'[i].bought = ledger[i].bought
  <2>1. ledger \in [Items -> LedgerType]  BY DEF Inv, TypeInv, TypeOK, LedgerType
  <2>2. CASE CommitPurchaseChange(w)  BY <2>2 DEF CommitPurchaseChange
  <2>3. CASE CommitAdjustment(w)
    <3> DEFINE j == op[w].item
    <3>1. PICK a, d : ledger' = [ledger EXCEPT ![j].manual = d, ![j].after = a]
      BY <2>3 DEF CommitAdjustment
    <3> HIDE DEF j
    <3> QED  BY <2>1, <3>1 DEF LedgerType
  <2> QED  BY <2>2, <2>3
<1>4. LedgerMatchesOrders'  BY <1>1, <1>3 DEF LedgerInv, LedgerMatchesOrders
<1> QED  BY <1>2, <1>4 DEF LedgerInv

LEMMA LedgerInit == Init => LedgerInv
<1> SUFFICES ASSUME Init PROVE LedgerInv  OBVIOUS
<1> USE InventoryAssumption
<1>1. OrderLocked  BY DEF Init, Idle, OrderLocked, Selling
<1>2. AcceptedOrders = {}  BY DEF Init, AcceptedOrders
<1>3. ASSUME NEW i \in Items  PROVE SumFunctionOnSet(GotOf(i), Purchases) = 0
  <2> DEFINE f == GotOf(i)
  <2>1. \A p \in Purchases : f[p] = 0  BY DEF Init, Nothing, GotOf
  <2> HIDE DEF f
  <2>2. SumFunctionOnSet(f, Purchases) = 0  BY <2>1, SumZero
  <2> QED  BY <2>2 DEF f
<1>4. \A i \in Items : ledger[i].sold = 0 /\ ledger[i].bought = 0  BY DEF Init
<1>5. \A i \in Items : SumFunctionOnSet(NeedOf(i), AcceptedOrders) = 0
  BY <1>2, SumEmpty
<1>6. LedgerMatchesOrders  BY <1>3, <1>4, <1>5, LedgerIsSums
<1> QED  BY <1>1, <1>6 DEF LedgerInv

LEMMA LedgerNext == Inv /\ LedgerInv /\ [Next]_vars => LedgerInv'
<1> SUFFICES ASSUME Inv, LedgerInv, [Next]_vars PROVE LedgerInv'  OBVIOUS
<1>1. CASE UNCHANGED vars
  BY <1>1 DEF vars, LedgerInv, OrderLocked, Selling, LedgerMatchesOrders
<1>2. CASE Next
  BY <1>2, QuietLedger, AcceptLedger, ReceiveLedger, OtherLedger DEF Next, Quiet
<1> QED  BY <1>1, <1>2

\* What the movements of an item say was sold and bought is the sum of what the accepted
\* orders needed and of what the lines of the purchase orders received.
THEOREM LedgerMatchesOrdersHolds == Spec => []LedgerMatchesOrders
<1>1. LedgerInv => LedgerMatchesOrders  BY DEF LedgerInv
<1>2. Spec => []LedgerInv
  BY Invariant, LedgerInit, LedgerNext, PTL DEF Spec
<1> QED  BY <1>1, <1>2, PTL
=============================================================================
