------------------------------- MODULE Inventory -------------------------------
(***************************************************************************)
(* The stock of one branch.  Accepting an order takes what its items need, *)
(* staff adjust a level by hand, and purchase orders are submitted,        *)
(* cancelled and received.  Every change of a level writes a movement.     *)
(* Levels are changed under an advisory lock for each item that is held to *)
(* the end of the transaction; receipts are numbered by counting them.     *)
(***************************************************************************)
EXTENDS Integers, FiniteSets, Functions

CONSTANTS Items,             \* inventory items
          Orders, Needs,     \* what accepting each order takes of each item
          Purchases, Ordered,\* what each purchase order asks for of each item
          Deltas, Finals,    \* manual movements and corrections
          MaxStock, Workers, None

ASSUME InventoryAssumption ==
  /\ Needs \in [Orders -> [Items -> Nat]]
  /\ Ordered \in [Purchases -> [Items -> Nat]]
  /\ IsFiniteSet(Orders) /\ IsFiniteSet(Purchases)
  /\ Deltas \subseteq Int /\ Finals \subseteq Nat /\ MaxStock \in Nat

VARIABLES order,     \* status of each order
          level,     \* quantity on hand of each item
          ledger,    \* the movements of each item: sums by source, latest quantityAfter
          purchase,  \* status of each purchase order
          received,  \* quantity received on each of its lines
          receipts,  \* numbers of the receipts
          op         \* the requests

vars == <<order, level, ledger, purchase, received, receipts, op>>

OrderStatuses == {"submitted", "accepted"}
PurchaseStatuses == {"draft", "submitted", "partially_received", "received", "cancelled"}
Nothing == [i \in Items |-> 0]
Idle == [cmd |-> "none", step |-> "none", for |-> None, item |-> None, delta |-> 0,
         qty |-> Nothing, locks |-> {}, read |-> Nothing, number |-> 0, status |-> "none"]

Init ==
  /\ order = [o \in Orders |-> "submitted"]
  /\ level = Nothing
  /\ ledger = [i \in Items |-> [manual |-> 0, bought |-> 0, sold |-> 0, after |-> 0]]
  /\ purchase = [p \in Purchases |-> "draft"]
  /\ received = [p \in Purchases |-> Nothing]
  /\ receipts = {}
  /\ op = [w \in Workers |-> Idle]

Begin(w, r) == op[w].cmd = "none" /\ op' = [op EXCEPT ![w] = r]
Done(w) == op' = [op EXCEPT ![w] = Idle]

\* A transaction that does not commit, be it refused or the victim of a deadlock,
\* has changed nothing.
RollBack(w) ==
  /\ op[w].cmd # "none" /\ Done(w)
  /\ UNCHANGED <<order, level, ledger, purchase, received, receipts>>

-----------------------------------------------------------------------------
(* The advisory lock of an item's level.                                   *)

\* Mutant: nobody waits for the lock.
ItemAlwaysFree(i) == TRUE

ItemFree(i) == \A w \in Workers : i \notin op[w].locks

\* Under the lock the level is read.
LockLevel(w, i) ==
  /\ ItemFree(i)
  /\ op' = [op EXCEPT ![w].locks = @ \cup {i}, ![w].read[i] = level[i]]

-----------------------------------------------------------------------------
(* Manual adjustment of a level.                                           *)

StartAdjustment(w, i, d) ==
  /\ Begin(w, [Idle EXCEPT !.cmd = "adjust", !.item = i, !.delta = d])
  /\ UNCHANGED <<order, level, ledger, purchase, received, receipts>>

\* A correction names the final quantity.
StartCorrection(w, i, f) ==
  /\ Begin(w, [Idle EXCEPT !.cmd = "correct", !.item = i, !.delta = f])
  /\ UNCHANGED <<order, level, ledger, purchase, received, receipts>>

LockForAdjustment(w) ==
  /\ op[w].cmd \in {"adjust", "correct"} /\ op[w].locks = {}
  /\ LockLevel(w, op[w].item)
  /\ UNCHANGED <<order, level, ledger, purchase, received, receipts>>

\* Mutant: stock may become negative.
CommitAdjustmentUnchecked(w) ==
  LET i == op[w].item
      now == op[w].read[i]
      after == IF op[w].cmd = "correct" THEN op[w].delta ELSE now + op[w].delta IN
  /\ op[w].cmd \in {"adjust", "correct"} /\ op[w].locks # {} /\ after <= MaxStock
  /\ level' = [level EXCEPT ![i] = after]
  /\ ledger' = [ledger EXCEPT ![i].manual = @ + (after - now), ![i].after = after]
  /\ Done(w) /\ UNCHANGED <<order, purchase, received, receipts>>

CommitAdjustment(w) ==
  LET i == op[w].item
      now == op[w].read[i]
      after == IF op[w].cmd = "correct" THEN op[w].delta ELSE now + op[w].delta IN
  /\ op[w].cmd \in {"adjust", "correct"} /\ op[w].locks # {}
  /\ after >= 0 /\ after <= MaxStock
  /\ level' = [level EXCEPT ![i] = after]
  /\ ledger' = [ledger EXCEPT ![i].manual = @ + (after - now), ![i].after = after]
  /\ Done(w) /\ UNCHANGED <<order, purchase, received, receipts>>

-----------------------------------------------------------------------------
(* Accepting an order, by the cashier or the smart cashier.                *)

StartAccept(w, o) ==
  /\ order[o] = "submitted"
  /\ Begin(w, [Idle EXCEPT !.cmd = "accept", !.step = "status", !.for = o])
  /\ UNCHANGED <<order, level, ledger, purchase, received, receipts>>

\* Mutant: the order is accepted whatever its status.
TakeAnyOrder(w) ==
  /\ op[w].cmd = "accept" /\ op[w].step = "status"
  /\ op' = [op EXCEPT ![w].step = "stock"]
  /\ UNCHANGED <<order, level, ledger, purchase, received, receipts>>

\* updateMany ... where status = submitted: the row is then locked to the commit.
TakeOrder(w) ==
  /\ op[w].cmd = "accept" /\ op[w].step = "status" /\ order[op[w].for] = "submitted"
  /\ \A v \in Workers : ~(op[v].cmd = "accept" /\ op[v].step = "stock" /\ op[v].for = op[w].for)
  /\ op' = [op EXCEPT ![w].step = "stock"]
  /\ UNCHANGED <<order, level, ledger, purchase, received, receipts>>

\* The items come in no particular order; one that does not suffice fails the whole.
LockNeededItem(w, i) ==
  /\ op[w].cmd = "accept" /\ op[w].step = "stock"
  /\ Needs[op[w].for][i] > 0 /\ i \notin op[w].locks
  /\ level[i] >= Needs[op[w].for][i]
  /\ LockLevel(w, i)
  /\ UNCHANGED <<order, level, ledger, purchase, received, receipts>>

CommitAccept(w) ==
  LET o == op[w].for
      sold == [i \in Items |-> IF i \in op[w].locks THEN Needs[o][i] ELSE 0] IN
  /\ op[w].cmd = "accept" /\ op[w].step = "stock"
  /\ \A i \in Items : Needs[o][i] > 0 => i \in op[w].locks
  /\ \A i \in op[w].locks : level[i] >= Needs[o][i]
  /\ order' = [order EXCEPT ![o] = "accepted"]
  /\ level' = [i \in Items |-> level[i] - sold[i]]
  /\ ledger' = [i \in Items |->
       IF i \in op[w].locks
       THEN [ledger[i] EXCEPT !.sold = @ + sold[i], !.after = op[w].read[i] - sold[i]]
       ELSE ledger[i]]
  /\ Done(w) /\ UNCHANGED <<purchase, received, receipts>>

-----------------------------------------------------------------------------
(* Purchase orders.                                                        *)

\* Submitting or cancelling: the status is read, and later written without condition.
StartPurchaseChange(w, c, p) ==
  /\ purchase[p] \in (IF c = "submit" THEN {"draft"}
                                      ELSE {"draft", "submitted", "partially_received"})
  /\ Begin(w, [Idle EXCEPT !.cmd = c, !.for = p])
  /\ UNCHANGED <<order, level, ledger, purchase, received, receipts>>

CommitPurchaseChange(w) ==
  /\ op[w].cmd \in {"submit", "cancel"}
  /\ purchase' = [purchase EXCEPT ![op[w].for] =
                    IF op[w].cmd = "submit" THEN "submitted" ELSE "cancelled"]
  /\ Done(w) /\ UNCHANGED <<order, level, ledger, received, receipts>>

\* Goods arrive: at least one line, none beyond what remains of it.
StartReceive(w, p, q) ==
  /\ purchase[p] \in {"submitted", "partially_received"}
  /\ q # Nothing /\ \A i \in Items : q[i] <= Ordered[p][i] - received[p][i]
  /\ Begin(w, [Idle EXCEPT !.cmd = "receive", !.step = "count", !.for = p, !.qty = q])
  /\ UNCHANGED <<order, level, ledger, purchase, received, receipts>>

CountReceipts(w) ==
  /\ op[w].cmd = "receive" /\ op[w].step = "count"
  /\ op' = [op EXCEPT ![w].step = "insert", ![w].number = Cardinality(receipts) + 1]
  /\ UNCHANGED <<order, level, ledger, purchase, received, receipts>>

\* Mutant: receipts may share a number.
NumberAlwaysFree(n) == TRUE

\* The unique index on the receipt's number: a number that is taken fails the
\* insertion, one that a transaction in progress has inserted makes it wait.
NumberFree(n) ==
  /\ n \notin receipts
  /\ \A w \in Workers : ~(op[w].step \in {"lines", "commit"} /\ op[w].number = n)

InsertReceipt(w) ==
  /\ op[w].step = "insert" /\ NumberFree(op[w].number)
  /\ op' = [op EXCEPT ![w].step = "lines"]
  /\ UNCHANGED <<order, level, ledger, purchase, received, receipts>>

\* Mutant: the check before the transaction's writes is thought to suffice.
ReceiveLineAsChecked(w, i) ==
  /\ op[w].step = "lines" /\ op[w].qty[i] > 0 /\ i \notin op[w].locks
  /\ LockLevel(w, i)
  /\ UNCHANGED <<order, level, ledger, purchase, received, receipts>>

\* updateMany ... where quantityReceived <= ordered - quantity, then the level's lock.
ReceiveLine(w, i) ==
  /\ op[w].step = "lines" /\ op[w].qty[i] > 0 /\ i \notin op[w].locks
  /\ received[op[w].for][i] <= Ordered[op[w].for][i] - op[w].qty[i]
  /\ LockLevel(w, i)
  /\ UNCHANGED <<order, level, ledger, purchase, received, receipts>>

ReceivedWith(p, q) == [i \in Items |-> received[p][i] + q[i]]
Complete(p, r) == \A i \in Items : r[i] >= Ordered[p][i]

\* All lines are done: the purchase order's lines, as now seen, give its status.
AssessPurchase(w) ==
  LET p == op[w].for IN
  /\ op[w].step = "lines" /\ \A i \in Items : op[w].qty[i] > 0 => i \in op[w].locks
  /\ op' = [op EXCEPT ![w].step = "commit",
                      ![w].status = IF Complete(p, ReceivedWith(p, op[w].qty))
                                    THEN "received" ELSE "partially_received"]
  /\ UNCHANGED <<order, level, ledger, purchase, received, receipts>>

CommitReceive(w) ==
  LET p == op[w].for
      q == op[w].qty
      after == [i \in Items |-> op[w].read[i] + q[i]] IN
  /\ op[w].step = "commit"
  /\ received' = [received EXCEPT ![p] = ReceivedWith(p, q)]
  /\ level' = [i \in Items |-> IF i \in op[w].locks THEN after[i] ELSE level[i]]
  /\ ledger' = [i \in Items |->
       IF i \in op[w].locks
       THEN [ledger[i] EXCEPT !.bought = @ + q[i], !.after = after[i]]
       ELSE ledger[i]]
  /\ purchase' = [purchase EXCEPT ![p] = op[w].status]
  /\ receipts' = receipts \cup {op[w].number}
  /\ Done(w) /\ UNCHANGED order

Deliveries(p) == {q \in [Items -> 0 .. MaxStock] : \A i \in Items : q[i] <= Ordered[p][i]}

Next == \E w \in Workers :
  \/ \E i \in Items, d \in Deltas : StartAdjustment(w, i, d)
  \/ \E i \in Items, f \in Finals : StartCorrection(w, i, f)
  \/ LockForAdjustment(w) \/ CommitAdjustment(w)
  \/ \E o \in Orders : StartAccept(w, o)
  \/ TakeOrder(w) \/ CommitAccept(w)
  \/ \E i \in Items : LockNeededItem(w, i) \/ ReceiveLine(w, i)
  \/ \E c \in {"submit", "cancel"}, p \in Purchases : StartPurchaseChange(w, c, p)
  \/ CommitPurchaseChange(w)
  \/ \E p \in Purchases : \E q \in Deliveries(p) : StartReceive(w, p, q)
  \/ CountReceipts(w) \/ InsertReceipt(w) \/ AssessPurchase(w) \/ CommitReceive(w)
  \/ RollBack(w)

Spec == Init /\ [][Next]_vars

-----------------------------------------------------------------------------
(* Properties.                                                             *)

TypeOK ==
  /\ order \in [Orders -> OrderStatuses]
  /\ level \in [Items -> Nat]
  /\ ledger \in [Items -> [manual : Int, bought : Nat, sold : Nat, after : Nat]]
  /\ purchase \in [Purchases -> PurchaseStatuses]
  /\ received \in [Purchases -> [Items -> Nat]]
  /\ receipts \subseteq Nat \ {0}

\* Whatever adjustments, sales and deliveries overlap, the movements of an item add up
\* to its level, and the latest of them says so: no read-modify-write is lost.
LevelIsLedger ==
  \A i \in Items : /\ level[i] = ledger[i].manual + ledger[i].bought - ledger[i].sold
                   /\ level[i] = ledger[i].after

\* What the movements say was sold and bought is what the accepted orders needed and
\* what the lines of the purchase orders say was received: an order that is accepted
\* twice at once takes its stock once, and a failed request takes or brings nothing.
LedgerMatchesOrders ==
  \A i \in Items :
    /\ ledger[i].sold = SumFunctionOnSet([o \in Orders |-> Needs[o][i]],
                                        {o \in Orders : order[o] = "accepted"})
    /\ ledger[i].bought = SumFunctionOnSet([p \in Purchases |-> received[p][i]], Purchases)

\* However deliveries of a purchase order overlap, no line is received beyond what was
\* ordered, by the condition of the update and not by the check before it.
NothingOverReceived == \A p \in Purchases, i \in Items : received[p][i] <= Ordered[p][i]

\* Two deliveries that complete a purchase order between them do not both take it for
\* partial.  Nothing locks the purchase order: the numbers of their receipts collide.
PartialIsIncomplete ==
  \A p \in Purchases : purchase[p] = "partially_received" => ~Complete(p, received[p])
=============================================================================
