----------------------------- MODULE TableOrdering -----------------------------
(***************************************************************************)
(* One table: customers scan its code and share a session, put items in    *)
(* the session's draft cart, clear it, and submit it as an order; requests *)
(* are repeated.  A payment completes the orders that have been served and *)
(* closes the session when none is left.  Each request is a transaction at *)
(* READ COMMITTED; scans and submits take an advisory lock to its end.     *)
(***************************************************************************)
EXTENDS Integers, FiniteSets

CONSTANTS Sessions, Carts, Items,
          Keys, SessionOf,    \* a submit's idempotency key, and whose it is
          Workers, None

ASSUME TableOrderingAssumption ==
  /\ SessionOf \in [Keys -> Sessions]
  /\ None \notin Sessions \cup Carts \cup {"active", "closed", "settled"}
  /\ None \notin {"draft", "converted"}

VARIABLES session,   \* status of each session of the table
          cartOf,    \* the session of each cart
          cart,      \* status of each cart
          items,     \* rows of each cart
          order,     \* the order submitted with each key
          revived,   \* history: converted carts that a clear has made drafts of
          op         \* the requests

vars == <<session, cartOf, cart, items, order, revived, op>>

NoOrder == [status |-> "none", cart |-> None, items |-> {}]
Idle == [cmd |-> "none", step |-> "none", session |-> None, cart |-> None,
         item |-> None, key |-> None, items |-> {}, served |-> {}, left |-> {}]

Init ==
  /\ session = [s \in Sessions |-> None]
  /\ cartOf = [c \in Carts |-> None]
  /\ cart = [c \in Carts |-> None]
  /\ items = [c \in Carts |-> {}]
  /\ order = [k \in Keys |-> NoOrder]
  /\ revived = {}
  /\ op = [w \in Workers |-> Idle]

OpenSessions == {s \in Sessions : session[s] = "active"}
Drafts(s) == {c \in Carts : cartOf[c] = s /\ cart[c] = "draft"}
OrdersOf(s) == {k \in Keys : SessionOf[k] = s /\ order[k] # NoOrder}

Begin(w, r) == op[w].cmd = "none" /\ op' = [op EXCEPT ![w] = r]
Done(w) == op' = [op EXCEPT ![w] = Idle]

\* A request is refused, fails on an index, or its transaction does not commit.
RollBack(w) ==
  /\ op[w].cmd # "none" /\ Done(w)
  /\ UNCHANGED <<session, cartOf, cart, items, order, revived>>

-----------------------------------------------------------------------------
(* Scanning the code of the table.                                         *)

StartScan(w) ==
  /\ Begin(w, [Idle EXCEPT !.cmd = "scan", !.step = "lock"])
  /\ UNCHANGED <<session, cartOf, cart, items, order, revived>>

\* Mutant: the lock is not waited for.
LockTableAtOnce(w) ==
  /\ op[w].cmd = "scan" /\ op[w].step = "lock"
  /\ IF OpenSessions # {} THEN Done(w)
                          ELSE op' = [op EXCEPT ![w].step = "create"]
  /\ UNCHANGED <<session, cartOf, cart, items, order, revived>>

\* Under the table's lock: resume the open session, or go on to create one.
LockTable(w) ==
  /\ op[w].cmd = "scan" /\ op[w].step = "lock"
  /\ \A v \in Workers : op[v].step # "create"
  /\ IF OpenSessions # {} THEN Done(w)
                          ELSE op' = [op EXCEPT ![w].step = "create"]
  /\ UNCHANGED <<session, cartOf, cart, items, order, revived>>

\* An index of the database allows one open session.
CreateSession(w, s) ==
  /\ op[w].step = "create" /\ session[s] = None /\ OpenSessions = {}
  /\ session' = [session EXCEPT ![s] = "active"]
  /\ Done(w) /\ UNCHANGED <<cartOf, cart, items, order, revived>>

\* Staff close a session whatever it holds.
CloseSession(s) ==
  /\ session[s] # None
  /\ session' = [session EXCEPT ![s] = "closed"]
  /\ UNCHANGED <<cartOf, cart, items, order, revived, op>>

-----------------------------------------------------------------------------
(* The draft cart.                                                         *)

\* The request finds the draft cart, or none.  A repeated request whose row is there
\* already has nothing to do.
StartAdd(w, s, i) ==
  /\ session[s] = "active"
  /\ \/ /\ Drafts(s) = {}
        /\ Begin(w, [Idle EXCEPT !.cmd = "add", !.step = "write", !.session = s, !.item = i])
     \/ \E c \in Drafts(s) :
          /\ i \notin items[c]
          /\ Begin(w, [Idle EXCEPT !.cmd = "add", !.step = "write", !.session = s,
                                   !.item = i, !.cart = c])
  /\ UNCHANGED <<session, cartOf, cart, items, order, revived>>

\* The row goes into the cart that was found, whatever has become of that; a new cart is
\* created only if the index still allows a draft.
AddItem(w, c) ==
  LET s == op[w].session
      i == op[w].item IN
  /\ op[w].cmd = "add"
  /\ \/ /\ op[w].cart = None /\ cart[c] = None /\ Drafts(s) = {}
        /\ cartOf' = [cartOf EXCEPT ![c] = s] /\ cart' = [cart EXCEPT ![c] = "draft"]
     \/ /\ op[w].cart = c /\ i \notin items[c] /\ UNCHANGED <<cartOf, cart>>
  /\ items' = [items EXCEPT ![c] = @ \cup {i}]
  /\ Done(w) /\ UNCHANGED <<session, order, revived>>

StartRemove(w, c, i) ==
  /\ cart[c] = "draft" /\ session[cartOf[c]] = "active" /\ i \in items[c]
  /\ Begin(w, [Idle EXCEPT !.cmd = "remove", !.step = "write", !.cart = c, !.item = i])
  /\ UNCHANGED <<session, cartOf, cart, items, order, revived>>

RemoveItem(w) ==
  LET c == op[w].cart IN
  /\ op[w].cmd = "remove" /\ op[w].item \in items[c]
  /\ items' = [items EXCEPT ![c] = @ \ {op[w].item}]
  /\ Done(w) /\ UNCHANGED <<session, cartOf, cart, order, revived>>

StartClear(w, s, c) ==
  /\ session[s] = "active" /\ c \in Drafts(s)
  /\ Begin(w, [Idle EXCEPT !.cmd = "clear", !.step = "delete", !.session = s, !.cart = c])
  /\ UNCHANGED <<session, cartOf, cart, items, order, revived>>

\* The rows that are there are deleted ...
DeleteItems(w) ==
  /\ op[w].cmd = "clear" /\ op[w].step = "delete"
  /\ op' = [op EXCEPT ![w].step = "write", ![w].items = items[op[w].cart]]
  /\ UNCHANGED <<session, cartOf, cart, items, order, revived>>

\* Mutant: the cart gets a status of its own.
ClearCartForGood(w) ==
  LET c == op[w].cart IN
  /\ op[w].cmd = "clear" /\ op[w].step = "write"
  /\ items' = [items EXCEPT ![c] = @ \ op[w].items]
  /\ cart' = [cart EXCEPT ![c] = "cleared"]
  /\ Done(w) /\ UNCHANGED <<session, cartOf, order, revived>>

\* ... and the cart is written as a draft, whatever it is by now.
ClearCart(w) ==
  LET c == op[w].cart IN
  /\ op[w].cmd = "clear" /\ op[w].step = "write"
  /\ Drafts(op[w].session) \subseteq {c}
  /\ items' = [items EXCEPT ![c] = @ \ op[w].items]
  /\ cart' = [cart EXCEPT ![c] = "draft"]
  /\ revived' = IF cart[c] = "converted" THEN revived \cup {c} ELSE revived
  /\ Done(w) /\ UNCHANGED <<session, cartOf, order>>

-----------------------------------------------------------------------------
(* Submitting the cart.                                                    *)

StartSubmit(w, k) ==
  /\ session[SessionOf[k]] # None
  /\ Begin(w, [Idle EXCEPT !.cmd = "submit", !.step = "lock", !.key = k,
                           !.session = SessionOf[k]])
  /\ UNCHANGED <<session, cartOf, cart, items, order, revived>>

HoldsSubmit(w, s) ==
  op[w].cmd = "submit" /\ op[w].session = s /\ op[w].step # "lock"

\* Mutant: the lock is not waited for.
LockSubmitAtOnce(w) ==
  /\ op[w].cmd = "submit" /\ op[w].step = "lock"
  /\ op' = [op EXCEPT ![w].step = "lookup"]
  /\ UNCHANGED <<session, cartOf, cart, items, order, revived>>

LockSubmitForSession(w) ==
  /\ op[w].cmd = "submit" /\ op[w].step = "lock"
  /\ \A v \in Workers : ~HoldsSubmit(v, op[w].session)
  /\ op' = [op EXCEPT ![w].step = "lookup"]
  /\ UNCHANGED <<session, cartOf, cart, items, order, revived>>

\* The order of the same key is the answer, if there is one.
FindByIdempotencyKey(w) ==
  /\ op[w].step = "lookup"
  /\ IF order[op[w].key] # NoOrder THEN Done(w)
                                   ELSE op' = [op EXCEPT ![w].step = "cart"]
  /\ UNCHANGED <<session, cartOf, cart, items, order, revived>>

\* The draft cart is read with its rows; without any the request is refused, which is
\* a step of its own here: "Cart is empty".
ReadDraftCart(w) ==
  LET s == op[w].session IN
  /\ op[w].step = "cart" /\ session[s] = "active"
  /\ \/ /\ \A c \in Drafts(s) : items[c] = {}
        /\ op' = [op EXCEPT ![w].step = "empty"]
     \/ \E c \in Drafts(s) :
          /\ items[c] # {}
          /\ op' = [op EXCEPT ![w].step = "write", ![w].cart = c, ![w].items = items[c]]
  /\ UNCHANGED <<session, cartOf, cart, items, order, revived>>

\* Mutant: the cart remains a draft.
SubmitCartUnconverted(w) ==
  /\ op[w].cmd = "submit" /\ op[w].step = "write"
  /\ order' = [order EXCEPT ![op[w].key] =
                 [status |-> "open", cart |-> op[w].cart, items |-> op[w].items]]
  /\ Done(w) /\ UNCHANGED <<session, cartOf, cart, items, revived>>

SubmitCart(w) ==
  LET c == op[w].cart
      k == op[w].key IN
  /\ op[w].cmd = "submit" /\ op[w].step = "write"
  /\ order' = [order EXCEPT ![k] = [status |-> "open", cart |-> c, items |-> op[w].items]]
  /\ cart' = [cart EXCEPT ![c] = "converted"]
  /\ Done(w) /\ UNCHANGED <<session, cartOf, items, revived>>

-----------------------------------------------------------------------------
(* What becomes of orders, and the payment of a bill.                      *)

\* Accepted, prepared and served; or rejected, cancelled or completed.
OrderMoves(k, to) ==
  /\ \/ order[k].status = "open" /\ to \in {"served", "ended"}
     \/ order[k].status = "served" /\ to = "ended"
  /\ order' = [order EXCEPT ![k].status = to]
  /\ UNCHANGED <<session, cartOf, cart, items, revived, op>>

\* completeServedOrdersForPaidBill and closeTableSessionIfSettled read the orders ...
StartPayment(w, s) ==
  LET served == {k \in OrdersOf(s) : order[k].status = "served"}
      left == {k \in OrdersOf(s) : order[k].status = "open"} IN
  /\ OrdersOf(s) # {}
  /\ Begin(w, [Idle EXCEPT !.cmd = "pay", !.step = "write", !.session = s,
                           !.served = served, !.left = left])
  /\ UNCHANGED <<session, cartOf, cart, items, order, revived>>

\* ... and each write is conditional on the status of its own row only.
PayBill(w) ==
  LET s == op[w].session IN
  /\ op[w].cmd = "pay"
  /\ order' = [k \in Keys |-> IF k \in op[w].served /\ order[k].status = "served"
                              THEN [order[k] EXCEPT !.status = "ended"] ELSE order[k]]
  /\ session' = IF op[w].left = {} /\ session[s] = "active"
                THEN [session EXCEPT ![s] = "settled"] ELSE session
  /\ Done(w) /\ UNCHANGED <<cartOf, cart, items, revived>>

Next ==
  \/ \E w \in Workers :
       \/ StartScan(w) \/ LockTable(w) \/ \E s \in Sessions : CreateSession(w, s)
       \/ \E s \in Sessions, i \in Items : StartAdd(w, s, i)
       \/ \E c \in Carts : AddItem(w, c)
       \/ \E c \in Carts, i \in Items : StartRemove(w, c, i)
       \/ RemoveItem(w)
       \/ \E s \in Sessions, c \in Carts : StartClear(w, s, c)
       \/ DeleteItems(w) \/ ClearCart(w)
       \/ \E k \in Keys : StartSubmit(w, k)
       \/ LockSubmitForSession(w) \/ FindByIdempotencyKey(w) \/ ReadDraftCart(w)
       \/ SubmitCart(w)
       \/ \E s \in Sessions : StartPayment(w, s)
       \/ PayBill(w) \/ RollBack(w)
  \/ \E s \in Sessions : CloseSession(s)
  \/ \E k \in Keys, to \in {"served", "ended"} : OrderMoves(k, to)

Spec == Init /\ [][Next]_vars

-----------------------------------------------------------------------------
(* Properties.                                                             *)

TypeOK ==
  /\ session \in [Sessions -> {None, "active", "closed", "settled"}]
  /\ cartOf \in [Carts -> Sessions \cup {None}]
  /\ cart \in [Carts -> {None, "draft", "converted"}]
  /\ items \in [Carts -> SUBSET Items]
  /\ order \in [Keys -> [status : {"none", "open", "served", "ended"},
                         cart : Carts \cup {None}, items : SUBSET Items]]
  /\ revived \subseteq Carts

\* A scan that goes on to create a session never runs into the index that allows one
\* open session: the table's lock lets every other scan resume it instead.
ScanNeverCollides ==
  \A w \in Workers : op[w].step = "create" => OpenSessions = {}

\* A submit is not answered "Cart is empty" when its order has been created, by an
\* earlier request with the same key: the key is looked up under the lock under which
\* the cart is converted.
RetryFindsOrder ==
  \A w \in Workers : op[w].step = "empty" => order[op[w].key] = NoOrder

\* Rapid double taps, each with a key of its own, do not make two orders of one cart,
\* though customers clear it and fill it; only when a clear that found the draft has
\* written after the submit converted it can the cart be submitted again.
OneOrderPerCart ==
  \A k, l \in Keys :
    k # l /\ order[k] # NoOrder /\ order[k].cart = order[l].cart => order[k].cart \in revived

\* docs/architecture/product-phase-4p0-bill-manual-payment-receipt-core.md:51: after a
\* payment "the table session is closed only when no non-terminal orders remain".
SettledTableIsDone ==
  \A s \in Sessions : session[s] = "settled" =>
    \A k \in OrdersOf(s) : order[k].status = "ended"
=============================================================================
