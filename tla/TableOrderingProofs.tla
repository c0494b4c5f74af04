--------------------------- MODULE TableOrderingProofs ---------------------------
(***************************************************************************)
(* What TableOrdering keeps for any number of sessions, carts, keys and    *)
(* requests: what follows from the lock of the table and from the lock of  *)
(* the session, with no help from the indexes of the database.             *)
(***************************************************************************)
EXTENDS TableOrdering, TLAPS

-----------------------------------------------------------------------------
(* The inductive invariant.                                                *)

Ops == [cmd : {"none", "scan", "add", "remove", "clear", "submit", "pay"},
        step : {"none", "lock", "create", "write", "delete", "lookup", "cart", "empty"},
        session : Sessions \cup {None}, cart : Carts \cup {None}, item : Items \cup {None},
        key : Keys \cup {None}, items : SUBSET Items,
        served : SUBSET Keys, left : SUBSET Keys]

\* What a request has been given, and how far it can be.
Inputs(r) ==
  /\ r.cmd = "add" => r.session \in Sessions /\ r.item \in Items
  /\ r.cmd \in {"remove", "clear"} => r.cart \in Carts
  /\ r.cmd = "submit" => r.key \in Keys /\ r.session = SessionOf[r.key]
  /\ r.step \in {"lookup", "cart", "empty"} => r.cmd = "submit"
  /\ r.cmd = "submit" => r.step \in {"lock", "lookup", "cart", "empty", "write"}
  /\ r.step = "create" => r.cmd = "scan"

TypeInv == TypeOK /\ op \in [Workers -> Ops] /\ \A w \in Workers : Inputs(op[w])

\* The lock of the table: one scan is about to create a session, and there is none.
OneCreates == \A v, w \in Workers : op[v].step = "create" /\ op[w].step = "create" => v = w

\* The lock of the session: one submit is past it.
OneSubmits ==
  \A v, w \in Workers, s \in Sessions : HoldsSubmit(v, s) /\ HoldsSubmit(w, s) => v = w

\* A submit that has not found its order creates the only one of its key ...
Unfound(w) ==
  op[w].cmd = "submit" /\ op[w].step \in {"cart", "empty", "write"} =>
    order[op[w].key] = NoOrder

\* ... from a cart of its session that is still a draft.
FromDraft(w) ==
  op[w].cmd = "submit" /\ op[w].step = "write" =>
    /\ op[w].cart \in Carts /\ cartOf[op[w].cart] = op[w].session
    /\ cart[op[w].cart] = "draft"

\* The cart of an order is converted, unless a clear has revived it.
Converted ==
  \A k \in Keys : order[k] # NoOrder =>
    /\ order[k].cart \in Carts
    /\ cart[order[k].cart] = "converted" \/ order[k].cart \in revived

ScanInv == OneCreates /\ ScanNeverCollides
SubmitInv == /\ OneSubmits /\ (\A w \in Workers : Unfound(w) /\ FromDraft(w))
             /\ Converted /\ OneOrderPerCart

Inv == TypeInv /\ ScanInv /\ SubmitInv

-----------------------------------------------------------------------------
(* Types.                                                                  *)

OrderType == [status : {"none", "open", "served", "ended"},
              cart : Carts \cup {None}, items : SUBSET Items]

LEMMA IdleType == Idle \in Ops /\ Inputs(Idle) /\ Idle.step = "none" /\ Idle.cmd = "none"
  BY DEF Idle, Ops, Inputs

LEMMA NoOrderType == NoOrder \in OrderType /\ NoOrder.status = "none"
  BY DEF NoOrder, OrderType

LEMMA OpStep ==
  ASSUME TypeInv, NEW w \in Workers, NEW r \in Ops, Inputs(r), op' = [op EXCEPT ![w] = r]
  PROVE  /\ op' \in [Workers -> Ops] /\ \A v \in Workers : Inputs(op'[v])
         /\ op'[w] = r /\ \A v \in Workers \ {w} : op'[v] = op[v]
  BY DEF TypeInv

LEMMA DoneStep ==
  ASSUME TypeInv, NEW w \in Workers, Done(w)
  PROVE  /\ op' \in [Workers -> Ops] /\ \A v \in Workers : Inputs(op'[v])
         /\ op'[w].step = "none" /\ op'[w].cmd = "none"
         /\ \A v \in Workers \ {w} : op'[v] = op[v]
  BY OpStep, IdleType DEF Done

LEMMA TypeInit == Init => TypeInv
  BY IdleType, NoOrderType DEF Init, TypeInv, TypeOK, OrderType

-----------------------------------------------------------------------------
(* The steps that change nothing but a request.                            *)

Frame == UNCHANGED <<session, cartOf, cart, items, order, revived>>

LEMMA QuietStep ==
  ASSUME Inv, Frame, NEW w \in Workers, NEW r \in Ops, Inputs(r), op' = [op EXCEPT ![w] = r],
         r.step = "create" => OpenSessions = {} /\ \A v \in Workers \ {w} : op[v].step # "create",
         r.cmd = "submit" /\ r.step # "lock" =>
           \A v \in Workers \ {w} : ~HoldsSubmit(v, r.session),
         Unfound(w)', FromDraft(w)'
  PROVE  Inv'
<1> USE DEF Inv, Frame
<1>1. /\ op' \in [Workers -> Ops] /\ \A v \in Workers : Inputs(op'[v])
      /\ op'[w] = r /\ \A v \in Workers \ {w} : op'[v] = op[v]
  BY OpStep
<1>2. TypeInv'  BY <1>1 DEF TypeInv, TypeOK
<1>3. ScanInv'
  BY <1>1 DEF ScanInv, OneCreates, ScanNeverCollides, OpenSessions
<1>4. OneSubmits'  BY <1>1 DEF SubmitInv, OneSubmits, HoldsSubmit
<1>5. \A v \in Workers : Unfound(v)' /\ FromDraft(v)'
  BY <1>1 DEF SubmitInv, Unfound, FromDraft
<1>6. Converted' /\ OneOrderPerCart'  BY DEF SubmitInv, Converted, OneOrderPerCart
<1> QED  BY <1>2, <1>3, <1>4, <1>5, <1>6 DEF SubmitInv

LEMMA HarmlessStep ==
  ASSUME Inv, Frame, NEW w \in Workers, NEW r \in Ops, Inputs(r), op' = [op EXCEPT ![w] = r],
         r.step # "create", r.cmd = "submit" => r.step = "lock"
  PROVE  Inv'
<1>1. op'[w] = r  BY OpStep DEF Inv
<1>2. Unfound(w)' /\ FromDraft(w)'  BY <1>1 DEF Unfound, FromDraft
<1> QED  BY <1>2, QuietStep

LEMMA RollBackKeeps ==
  ASSUME Inv, Frame, NEW w \in Workers, Done(w)
  PROVE  Inv'
  BY HarmlessStep, IdleType DEF Done

LEMMA StartKeeps ==
  ASSUME Inv, NEW w \in Workers,
         \/ StartScan(w)
         \/ \E s \in Sessions, i \in Items : StartAdd(w, s, i)
         \/ \E c \in Carts, i \in Items : StartRemove(w, c, i)
         \/ \E s \in Sessions, c \in Carts : StartClear(w, s, c)
         \/ \E k \in Keys : StartSubmit(w, k)
         \/ \E s \in Sessions : StartPayment(w, s)
  PROVE  Inv'
<1> USE TableOrderingAssumption
<1>1. CASE StartScan(w)
  <2> DEFINE r == [Idle EXCEPT !.cmd = "scan", !.step = "lock"]
  <2>1. r.cmd = "scan" /\ r.step = "lock"  BY DEF Idle
  <2>2. r \in Ops  BY IdleType DEF Idle, Ops
  <2>3. Inputs(r)  BY <2>1 DEF Inputs
  <2>4. op' = [op EXCEPT ![w] = r] /\ Frame  BY <1>1 DEF StartScan, Begin, Frame
  <2> QED  BY <2>1, <2>2, <2>3, <2>4, HarmlessStep
<1>2. ASSUME NEW s \in Sessions, NEW i \in Items, StartAdd(w, s, i)  PROVE Inv'
  <2>0. Frame  BY <1>2 DEF StartAdd, Frame
  <2>1. ASSUME Begin(w, [Idle EXCEPT !.cmd = "add", !.step = "write", !.session = s, !.item = i])
        PROVE  Inv'
    <3> DEFINE r == [Idle EXCEPT !.cmd = "add", !.step = "write", !.session = s, !.item = i]
    <3>1. r.cmd = "add" /\ r.step = "write" /\ r.session = s /\ r.item = i  BY DEF Idle
    <3>2. r \in Ops  BY IdleType DEF Idle, Ops
    <3>3. Inputs(r)  BY <3>1 DEF Inputs
    <3>4. op' = [op EXCEPT ![w] = r]  BY <2>1 DEF Begin
    <3> QED  BY <2>0, <3>1, <3>2, <3>3, <3>4, HarmlessStep
  <2>2. ASSUME NEW c \in Carts,
               Begin(w, [Idle EXCEPT !.cmd = "add", !.step = "write", !.session = s,
                                     !.item = i, !.cart = c])
        PROVE  Inv'
    <3> DEFINE r == [Idle EXCEPT !.cmd = "add", !.step = "write", !.session = s,
                                 !.item = i, !.cart = c]
    <3>1. r.cmd = "add" /\ r.step = "write" /\ r.session = s /\ r.item = i  BY DEF Idle
    <3>2. r \in Ops  BY IdleType DEF Idle, Ops
    <3>3. Inputs(r)  BY <3>1 DEF Inputs
    <3>4. op' = [op EXCEPT ![w] = r]  BY <2>2 DEF Begin
    <3> QED  BY <2>0, <3>1, <3>2, <3>3, <3>4, HarmlessStep
  <2> QED  BY <1>2, <2>1, <2>2 DEF StartAdd, Drafts
<1>3. ASSUME NEW c \in Carts, NEW i \in Items, StartRemove(w, c, i)  PROVE Inv'
  <2> DEFINE r == [Idle EXCEPT !.cmd = "remove", !.step = "write", !.cart = c, !.item = i]
  <2>1. r.cmd = "remove" /\ r.step = "write" /\ r.cart = c  BY DEF Idle
  <2>2. r \in Ops  BY IdleType DEF Idle, Ops
  <2>3. Inputs(r)  BY <2>1 DEF Inputs
  <2>4. op' = [op EXCEPT ![w] = r] /\ Frame  BY <1>3 DEF StartRemove, Begin, Frame
  <2> QED  BY <2>1, <2>2, <2>3, <2>4, HarmlessStep
<1>4. ASSUME NEW s \in Sessions, NEW c \in Carts, StartClear(w, s, c)  PROVE Inv'
  <2> DEFINE r == [Idle EXCEPT !.cmd = "clear", !.step = "delete", !.session = s, !.cart = c]
  <2>1. r.cmd = "clear" /\ r.step = "delete" /\ r.cart = c  BY DEF Idle
  <2>2. r \in Ops  BY IdleType DEF Idle, Ops
  <2>3. Inputs(r)  BY <2>1 DEF Inputs
  <2>4. op' = [op EXCEPT ![w] = r] /\ Frame  BY <1>4 DEF StartClear, Begin, Frame
  <2> QED  BY <2>1, <2>2, <2>3, <2>4, HarmlessStep
<1>5. ASSUME NEW k \in Keys, StartSubmit(w, k)  PROVE Inv'
  <2> DEFINE r == [Idle EXCEPT !.cmd = "submit", !.step = "lock", !.key = k,
                               !.session = SessionOf[k]]
  <2>1. r.cmd = "submit" /\ r.step = "lock" /\ r.key = k /\ r.session = SessionOf[k]
    BY DEF Idle
  <2>2. r \in Ops  BY IdleType DEF Idle, Ops
  <2>3. Inputs(r)  BY <2>1 DEF Inputs
  <2>4. op' = [op EXCEPT ![w] = r] /\ Frame  BY <1>5 DEF StartSubmit, Begin, Frame
  <2> QED  BY <2>1, <2>2, <2>3, <2>4, HarmlessStep
<1>6. ASSUME NEW s \in Sessions, StartPayment(w, s)  PROVE Inv'
  <2> DEFINE served == {k \in OrdersOf(s) : order[k].status = "served"}
             left == {k \in OrdersOf(s) : order[k].status = "open"}
             r == [Idle EXCEPT !.cmd = "pay", !.step = "write", !.session = s,
                               !.served = served, !.left = left]
  <2>0. served \in SUBSET Keys /\ left \in SUBSET Keys  BY DEF OrdersOf
  <2>4. op' = [op EXCEPT ![w] = r] /\ Frame  BY <1>6 DEF StartPayment, Begin, Frame
  <2> HIDE DEF served, left
  <2>1. r.cmd = "pay" /\ r.step = "write"  BY DEF Idle
  <2>2. r \in Ops  BY <2>0, IdleType DEF Idle, Ops
  <2>3. Inputs(r)  BY <2>1 DEF Inputs
  <2> QED  BY <2>1, <2>2, <2>3, <2>4, HarmlessStep
<1> QED  BY <1>1, <1>2, <1>3, <1>4, <1>5, <1>6

LEMMA LockTableKeeps ==
  ASSUME Inv, NEW w \in Workers, LockTable(w)
  PROVE  Inv'
<1>0. Frame  BY DEF LockTable, Frame
<1>1. CASE OpenSessions # {}  BY <1>0, <1>1, RollBackKeeps DEF LockTable
<1>2. CASE OpenSessions = {}
  <2> DEFINE r == [op[w] EXCEPT !.step = "create"]
  <2>1. op' = [op EXCEPT ![w] = r] /\ op[w].cmd = "scan"  BY <1>2 DEF LockTable
  <2>2. r \in Ops /\ r.cmd = "scan" /\ r.step = "create"  BY <2>1 DEF Inv, TypeInv, Ops
  <2>3. Inputs(r)  BY <2>2 DEF Inputs
  <2>4. op'[w] = r  BY <2>1, <2>2, <2>3, OpStep DEF Inv
  <2>5. Unfound(w)' /\ FromDraft(w)'  BY <2>2, <2>4 DEF Unfound, FromDraft
  <2>6. \A v \in Workers : op[v].step # "create"  BY DEF LockTable
  <2> QED  BY <1>0, <1>2, <2>1, <2>2, <2>3, <2>5, <2>6, QuietStep
<1> QED  BY <1>1, <1>2

LEMMA DeleteKeeps ==
  ASSUME Inv, NEW w \in Workers, DeleteItems(w)
  PROVE  Inv'
<1> DEFINE x == items[op[w].cart]
           r == [op[w] EXCEPT !.step = "write", !.items = x]
<1>0. Frame /\ op' = [op EXCEPT ![w] = r] /\ op[w].cmd = "clear"  BY DEF DeleteItems, Frame
<1>1. op[w].cart \in Carts /\ x \in SUBSET Items
  BY <1>0 DEF Inv, TypeInv, TypeOK, Inputs
<1> HIDE DEF x
<1>2. /\ r \in Ops /\ r.cmd = "clear" /\ r.step = "write" /\ r.cart = op[w].cart
  BY <1>0, <1>1 DEF Inv, TypeInv, Ops
<1>3. Inputs(r)  BY <1>1, <1>2 DEF Inputs
<1> QED  BY <1>0, <1>2, <1>3, HarmlessStep

LEMMA LockSubmitKeeps ==
  ASSUME Inv, NEW w \in Workers, LockSubmitForSession(w)
  PROVE  Inv'
<1> DEFINE r == [op[w] EXCEPT !.step = "lookup"]
<1>0. /\ Frame /\ op' = [op EXCEPT ![w] = r] /\ op[w].cmd = "submit"
      /\ \A v \in Workers : ~HoldsSubmit(v, op[w].session)
  BY DEF LockSubmitForSession, Frame
<1>1. /\ r \in Ops /\ r.cmd = "submit" /\ r.step = "lookup" /\ r.session = op[w].session
      /\ r.key = op[w].key
  BY <1>0 DEF Inv, TypeInv, Ops
<1>2. Inputs(r)  BY <1>0, <1>1 DEF Inv, TypeInv, Inputs
<1>3. op'[w] = r  BY <1>0, <1>1, <1>2, OpStep DEF Inv
<1>4. Unfound(w)' /\ FromDraft(w)'  BY <1>1, <1>3 DEF Unfound, FromDraft
<1> QED  BY <1>0, <1>1, <1>2, <1>4, QuietStep

\* A submit that goes on, with the lock that it has.
LEMMA SubmitStep ==
  ASSUME Inv, Frame, NEW w \in Workers, op[w].cmd = "submit", op[w].step # "lock",
         NEW r \in Ops, op' = [op EXCEPT ![w] = r], r.cmd = "submit",
         r.key = op[w].key, r.session = op[w].session, r.step \in {"cart", "empty", "write"},
         order[op[w].key] = NoOrder,
         r.step = "write" => /\ r.cart \in Carts /\ cartOf[r.cart] = r.session
                             /\ cart[r.cart] = "draft"
  PROVE  Inv'
<1>1. Inputs(r)  BY DEF Inv, TypeInv, Inputs
<1>2. op'[w] = r  BY <1>1, OpStep DEF Inv
<1>3. Unfound(w)' /\ FromDraft(w)'  BY <1>2 DEF Unfound, FromDraft, Frame
<1>4. HoldsSubmit(w, r.session) /\ r.session \in Sessions
  BY TableOrderingAssumption DEF HoldsSubmit, Inv, TypeInv, Inputs
<1>5. \A v \in Workers \ {w} : ~HoldsSubmit(v, r.session)
  BY <1>4 DEF Inv, SubmitInv, OneSubmits
<1> QED  BY <1>1, <1>3, <1>5, QuietStep

LEMMA FindKeeps ==
  ASSUME Inv, NEW w \in Workers, FindByIdempotencyKey(w)
  PROVE  Inv'
<1>0. Frame /\ op[w].step = "lookup"  BY DEF FindByIdempotencyKey, Frame
<1>1. CASE order[op[w].key] # NoOrder
  BY <1>0, <1>1, RollBackKeeps DEF FindByIdempotencyKey
<1>2. CASE order[op[w].key] = NoOrder
  <2> DEFINE r == [op[w] EXCEPT !.step = "cart"]
  <2>1. op' = [op EXCEPT ![w] = r]  BY <1>2 DEF FindByIdempotencyKey
  <2>2. op[w].cmd = "submit"  BY <1>0 DEF Inv, TypeInv, Inputs
  <2>3. /\ r \in Ops /\ r.cmd = "submit" /\ r.step = "cart" /\ r.key = op[w].key
        /\ r.session = op[w].session
    BY <2>2 DEF Inv, TypeInv, Ops
  <2> QED  BY <1>0, <1>2, <2>1, <2>2, <2>3, SubmitStep
<1> QED  BY <1>1, <1>2

LEMMA ReadDraftKeeps ==
  ASSUME Inv, NEW w \in Workers, ReadDraftCart(w)
  PROVE  Inv'
<1>0. Frame /\ op[w].step = "cart"  BY DEF ReadDraftCart, Frame
<1>1. op[w].cmd = "submit"  BY <1>0 DEF Inv, TypeInv, Inputs
<1>2. order[op[w].key] = NoOrder  BY <1>0, <1>1 DEF Inv, SubmitInv, Unfound
<1>3. ASSUME op' = [op EXCEPT ![w].step = "empty"]  PROVE Inv'
  <2> DEFINE r == [op[w] EXCEPT !.step = "empty"]
  <2>1. op' = [op EXCEPT ![w] = r]  BY <1>3
  <2>2. /\ r \in Ops /\ r.cmd = "submit" /\ r.step = "empty" /\ r.key = op[w].key
        /\ r.session = op[w].session
    BY <1>1 DEF Inv, TypeInv, Ops
  <2> QED  BY <1>0, <1>1, <1>2, <2>1, <2>2, SubmitStep
<1>4. ASSUME NEW c \in Drafts(op[w].session),
             op' = [op EXCEPT ![w].step = "write", ![w].cart = c, ![w].items = items[c]]
      PROVE  Inv'
  <2> DEFINE x == items[c]
             r == [op[w] EXCEPT !.step = "write", !.cart = c, !.items = x]
  <2>0. /\ c \in Carts /\ cartOf[c] = op[w].session /\ cart[c] = "draft"
        /\ x \in SUBSET Items
    BY DEF Drafts, Inv, TypeInv, TypeOK
  <2>1. op' = [op EXCEPT ![w] = r]  BY <1>4
  <2> HIDE DEF x
  <2>2. /\ r \in Ops /\ r.cmd = "submit" /\ r.step = "write" /\ r.key = op[w].key
        /\ r.session = op[w].session /\ r.cart = c
    BY <1>1, <2>0 DEF Inv, TypeInv, Ops
  <2> QED  BY <1>0, <1>1, <1>2, <2>0, <2>1, <2>2, SubmitStep
<1> QED  BY <1>3, <1>4 DEF ReadDraftCart

-----------------------------------------------------------------------------
(* The steps that write.                                                   *)

\* A request ends: its locks go, and nobody else's.
LEMMA DoneLocks ==
  ASSUME Inv, NEW w \in Workers, Done(w),
         OpenSessions' \subseteq OpenSessions \/ op[w].step = "create"
  PROVE  /\ op' \in [Workers -> Ops] /\ \A v \in Workers : Inputs(op'[v])
         /\ op'[w].step = "none" /\ op'[w].cmd = "none"
         /\ \A v \in Workers \ {w} : op'[v] = op[v]
         /\ ScanInv' /\ OneSubmits'
<1>1. /\ op' \in [Workers -> Ops] /\ \A v \in Workers : Inputs(op'[v])
      /\ op'[w].step = "none" /\ op'[w].cmd = "none"
      /\ \A v \in Workers \ {w} : op'[v] = op[v]
  BY DoneStep DEF Inv
<1>2. ScanInv'  BY <1>1 DEF Inv, ScanInv, OneCreates, ScanNeverCollides
<1>3. OneSubmits'  BY <1>1 DEF Inv, SubmitInv, OneSubmits, HoldsSubmit
<1> QED  BY <1>1, <1>2, <1>3

\* Rows are written, of carts that were there and of one that was not.
LEMMA RowsKeep ==
  ASSUME Inv, NEW w \in Workers, Done(w), UNCHANGED <<session, order, revived>>, TypeOK',
         \A c \in Carts : cart[c] # None => cart'[c] = cart[c] /\ cartOf'[c] = cartOf[c]
  PROVE  Inv'
<1>1. /\ op' \in [Workers -> Ops] /\ \A v \in Workers : Inputs(op'[v])
      /\ op'[w].step = "none" /\ op'[w].cmd = "none"
      /\ \A v \in Workers \ {w} : op'[v] = op[v]
      /\ ScanInv' /\ OneSubmits'
  BY DoneLocks DEF OpenSessions
<1>2. \A v \in Workers : Unfound(v)'  BY <1>1 DEF Inv, SubmitInv, Unfound
<1>3. \A v \in Workers : FromDraft(v)'
  BY <1>1, TableOrderingAssumption DEF Inv, SubmitInv, FromDraft
<1>4. Converted' /\ OneOrderPerCart'
  BY TableOrderingAssumption DEF Inv, SubmitInv, Converted, OneOrderPerCart
<1> QED  BY <1>1, <1>2, <1>3, <1>4 DEF Inv, TypeInv, SubmitInv

LEMMA AddKeeps ==
  ASSUME Inv, NEW w \in Workers, NEW c \in Carts, AddItem(w, c)
  PROVE  Inv'
<1>1. /\ Done(w) /\ UNCHANGED <<session, order, revived>>
      /\ op[w].session \in Sessions /\ op[w].item \in Items
      /\ items' = [items EXCEPT ![c] = @ \cup {op[w].item}]
  BY DEF AddItem, Inv, TypeInv, Inputs
<1>2. \/ /\ cart[c] = None /\ cartOf' = [cartOf EXCEPT ![c] = op[w].session]
         /\ cart' = [cart EXCEPT ![c] = "draft"]
      \/ UNCHANGED <<cartOf, cart>>
  BY DEF AddItem
<1>3. TypeOK'  BY <1>1, <1>2 DEF Inv, TypeInv, TypeOK
<1>4. \A d \in Carts : cart[d] # None => cart'[d] = cart[d] /\ cartOf'[d] = cartOf[d]
  BY <1>2 DEF Inv, TypeInv, TypeOK
<1> QED  BY <1>1, <1>3, <1>4, RowsKeep

LEMMA RemoveKeeps ==
  ASSUME Inv, NEW w \in Workers, RemoveItem(w)
  PROVE  Inv'
<1>1. /\ Done(w) /\ UNCHANGED <<session, cartOf, cart, order, revived>>
      /\ op[w].cart \in Carts
      /\ items' = [items EXCEPT ![op[w].cart] = @ \ {op[w].item}]
  BY DEF RemoveItem, Inv, TypeInv, Inputs
<1>2. TypeOK'  BY <1>1 DEF Inv, TypeInv, TypeOK
<1> QED  BY <1>1, <1>2, RowsKeep

\* The cart is a draft, whatever it was: one that was converted counts as revived from
\* now on.
LEMMA ClearKeeps ==
  ASSUME Inv, NEW w \in Workers, ClearCart(w)
  PROVE  Inv'
<1> DEFINE c == op[w].cart
<1>1. /\ Done(w) /\ UNCHANGED <<session, cartOf, order>> /\ c \in Carts
      /\ items' = [items EXCEPT ![c] = @ \ op[w].items]
      /\ cart' = [cart EXCEPT ![c] = "draft"]
      /\ revived' = IF cart[c] = "converted" THEN revived \cup {c} ELSE revived
  BY DEF ClearCart, Inv, TypeInv, Inputs
<1> HIDE DEF c
<1>2. /\ op' \in [Workers -> Ops] /\ \A v \in Workers : Inputs(op'[v])
      /\ op'[w].step = "none" /\ op'[w].cmd = "none"
      /\ \A v \in Workers \ {w} : op'[v] = op[v]
      /\ ScanInv' /\ OneSubmits'
  BY <1>1, DoneLocks DEF OpenSessions
<1>3. TypeOK'  BY <1>1 DEF Inv, TypeInv, TypeOK
<1>4. \A v \in Workers : Unfound(v)'  BY <1>1, <1>2 DEF Inv, SubmitInv, Unfound
<1>5. \A d \in Carts : cart'[d] = IF d = c THEN "draft" ELSE cart[d]
  BY <1>1 DEF Inv, TypeInv, TypeOK
<1>6. \A v \in Workers : FromDraft(v)'
  BY <1>1, <1>2, <1>5 DEF Inv, SubmitInv, FromDraft
<1>7. Converted' /\ OneOrderPerCart'
  BY <1>1, <1>5 DEF Inv, SubmitInv, Converted, OneOrderPerCart
<1> QED  BY <1>2, <1>3, <1>4, <1>6, <1>7 DEF Inv, TypeInv, SubmitInv

LEMMA SubmitKeeps ==
  ASSUME Inv, NEW w \in Workers, SubmitCart(w)
  PROVE  Inv'
<1> DEFINE c == op[w].cart
           k == op[w].key
           n == [status |-> "open", cart |-> c, items |-> op[w].items]
<1>1. /\ Done(w) /\ UNCHANGED <<session, cartOf, items, revived>>
      /\ op[w].cmd = "submit" /\ op[w].step = "write"
      /\ order' = [order EXCEPT ![k] = n] /\ cart' = [cart EXCEPT ![c] = "converted"]
  BY DEF SubmitCart
<1>2. /\ k \in Keys /\ op[w].session = SessionOf[k] /\ op[w].session \in Sessions
      /\ op[w].items \in SUBSET Items
  BY <1>1, TableOrderingAssumption DEF Inv, TypeInv, Inputs, Ops
<1>3. c \in Carts /\ cartOf[c] = op[w].session /\ cart[c] = "draft" /\ order[k] = NoOrder
  BY <1>1 DEF Inv, SubmitInv, FromDraft, Unfound
<1>4. \A v \in Workers \ {w} : ~HoldsSubmit(v, op[w].session)
  BY <1>1, <1>2 DEF Inv, SubmitInv, OneSubmits, HoldsSubmit
<1>5. /\ n \in OrderType /\ n # NoOrder /\ n.cart = c
  BY <1>2, <1>3 DEF OrderType, NoOrder
<1> HIDE DEF c, k, n
<1>6. /\ op' \in [Workers -> Ops] /\ \A v \in Workers : Inputs(op'[v])
      /\ op'[w].step = "none" /\ op'[w].cmd = "none"
      /\ \A v \in Workers \ {w} : op'[v] = op[v]
      /\ ScanInv' /\ OneSubmits'
  BY <1>1, DoneLocks DEF OpenSessions
<1>7. /\ \A l \in Keys : order'[l] = IF l = k THEN n ELSE order[l]
      /\ \A d \in Carts : cart'[d] = IF d = c THEN "converted" ELSE cart[d]
  BY <1>1 DEF Inv, TypeInv, TypeOK
<1>8. TypeOK'  BY <1>1, <1>2, <1>3, <1>5 DEF Inv, TypeInv, TypeOK, OrderType
<1>9. ASSUME NEW v \in Workers  PROVE Unfound(v)' /\ FromDraft(v)'
  <2>1. CASE v = w  BY <1>6, <2>1 DEF Unfound, FromDraft
  <2>2. CASE v # w
    <3>1. op'[v] = op[v] /\ ~HoldsSubmit(v, op[w].session)  BY <1>4, <1>6, <2>2
    <3>2. Unfound(v) /\ FromDraft(v) /\ Inputs(op[v])  BY DEF Inv, SubmitInv, TypeInv
    <3>3. Unfound(v)'
      BY <1>2, <1>7, <3>1, <3>2 DEF Unfound, HoldsSubmit, Inputs
    <3>4. FromDraft(v)'
      BY <1>1, <1>3, <1>7, <3>1, <3>2 DEF FromDraft, HoldsSubmit
    <3> QED  BY <3>3, <3>4
  <2> QED  BY <2>1, <2>2
<1>10. \A l \in Keys : order[l] # NoOrder /\ order[l].cart = c => c \in revived
  BY <1>3 DEF Inv, SubmitInv, Converted
<1>11. Converted'
  BY <1>1, <1>3, <1>5, <1>7 DEF Inv, SubmitInv, Converted
<1>12. OneOrderPerCart'
  <2> SUFFICES ASSUME NEW i \in Keys, NEW j \in Keys, i # j, order'[i] # NoOrder,
                      order'[i].cart = order'[j].cart
               PROVE  order'[i].cart \in revived
    BY <1>1 DEF OneOrderPerCart
  <2>1. CASE i = k
    <3>1. order'[i].cart = c /\ order'[j] = order[j] /\ order[j].cart = c
      BY <1>5, <1>7, <2>1
    <3>2. order[j] # NoOrder
      BY <1>3, <3>1, TableOrderingAssumption DEF NoOrder, Inv, TypeInv, TypeOK
    <3> QED  BY <1>10, <3>1, <3>2
  <2>2. CASE j = k
    <3>1. order[i] # NoOrder /\ order[i].cart = c /\ order'[i].cart = c
      BY <1>5, <1>7, <2>2
    <3> QED  BY <1>10, <3>1
  <2>3. CASE i # k /\ j # k
    BY <1>7, <2>3 DEF Inv, SubmitInv, OneOrderPerCart
  <2> QED  BY <2>1, <2>2, <2>3
<1> QED  BY <1>6, <1>8, <1>9, <1>11, <1>12 DEF Inv, TypeInv, SubmitInv

\* The lock of the table keeps every other scan away from the creation.
LEMMA CreateKeeps ==
  ASSUME Inv, NEW w \in Workers, NEW s \in Sessions, CreateSession(w, s)
  PROVE  Inv'
<1>1. /\ Done(w) /\ op[w].step = "create" /\ UNCHANGED <<cartOf, cart, items, order, revived>>
      /\ session' = [session EXCEPT ![s] = "active"]
  BY DEF CreateSession
<1>2. /\ op' \in [Workers -> Ops] /\ \A v \in Workers : Inputs(op'[v])
      /\ op'[w].step = "none" /\ op'[w].cmd = "none"
      /\ \A v \in Workers \ {w} : op'[v] = op[v]
      /\ OneSubmits'
  BY <1>1, DoneLocks
<1>3. \A v \in Workers : op'[v].step # "create"
  BY <1>1, <1>2 DEF Inv, ScanInv, OneCreates
<1>4. ScanInv'  BY <1>3 DEF ScanInv, OneCreates, ScanNeverCollides
<1>5. TypeOK'  BY <1>1 DEF Inv, TypeInv, TypeOK
<1>6. \A v \in Workers : Unfound(v)' /\ FromDraft(v)'
  BY <1>1, <1>2 DEF Inv, SubmitInv, Unfound, FromDraft
<1>7. Converted' /\ OneOrderPerCart'
  BY <1>1 DEF Inv, SubmitInv, Converted, OneOrderPerCart
<1> QED  BY <1>2, <1>4, <1>5, <1>6, <1>7 DEF Inv, TypeInv, SubmitInv

LEMMA CloseKeeps ==
  ASSUME Inv, NEW s \in Sessions, CloseSession(s)
  PROVE  Inv'
<1>1. /\ UNCHANGED <<cartOf, cart, items, order, revived, op>>
      /\ session' = [session EXCEPT ![s] = "closed"]
  BY DEF CloseSession
<1>2. TypeInv'  BY <1>1 DEF Inv, TypeInv, TypeOK
<1>3. OpenSessions' \subseteq OpenSessions
  BY <1>1 DEF OpenSessions, Inv, TypeInv, TypeOK
<1>4. ScanInv'  BY <1>1, <1>3 DEF Inv, ScanInv, OneCreates, ScanNeverCollides
<1>5. OneSubmits' /\ \A v \in Workers : Unfound(v)' /\ FromDraft(v)'
  BY <1>1 DEF Inv, SubmitInv, OneSubmits, HoldsSubmit, Unfound, FromDraft
<1>6. Converted' /\ OneOrderPerCart'
  BY <1>1 DEF Inv, SubmitInv, Converted, OneOrderPerCart
<1> QED  BY <1>2, <1>4, <1>5, <1>6 DEF Inv, SubmitInv

\* The status of an order that is there does not matter to any of this.
Restatused ==
  /\ order' \in [Keys -> OrderType] /\ UNCHANGED <<cartOf, cart, revived>>
  /\ \A k \in Keys : /\ order'[k].cart = order[k].cart
                     /\ order'[k] # NoOrder <=> order[k] # NoOrder

LEMMA StatusStep ==
  ASSUME Inv, Restatused, OneSubmits',
         \A v \in Workers : op'[v] = op[v] \/ op'[v].cmd = "none"
  PROVE  SubmitInv'
<1>1. ASSUME NEW v \in Workers  PROVE Unfound(v)' /\ FromDraft(v)'
  <2>1. CASE op'[v].cmd = "none"  BY <2>1 DEF Unfound, FromDraft
  <2>2. CASE op'[v] = op[v]
    BY <2>2 DEF Restatused, Inv, TypeInv, Inputs, SubmitInv, Unfound, FromDraft
  <2> QED  BY <2>1, <2>2
<1>2. Converted' /\ OneOrderPerCart'
  BY DEF Restatused, Inv, SubmitInv, Converted, OneOrderPerCart
<1> QED  BY <1>1, <1>2 DEF SubmitInv

LEMMA EndedIsThere ==
  ASSUME NEW o \in OrderType, NEW t \in {"served", "ended"}, o.status \in {"open", "served"}
  PROVE  /\ [o EXCEPT !.status = t] \in OrderType /\ [o EXCEPT !.status = t] # NoOrder
         /\ [o EXCEPT !.status = t].cart = o.cart /\ o # NoOrder
<1> DEFINE n == [o EXCEPT !.status = t]
<1>1. n \in OrderType /\ n.status = t /\ n.cart = o.cart  BY DEF OrderType
<1> QED  BY <1>1, NoOrderType

LEMMA MovesKeeps ==
  ASSUME Inv, NEW k \in Keys, NEW t \in {"served", "ended"}, OrderMoves(k, t)
  PROVE  Inv'
<1>1. /\ UNCHANGED <<session, cartOf, cart, items, revived, op>>
      /\ order' = [order EXCEPT ![k] = [order[k] EXCEPT !.status = t]]
      /\ order[k].status \in {"open", "served"}
  BY DEF OrderMoves
<1>2. order \in [Keys -> OrderType]  BY DEF Inv, TypeInv, TypeOK, OrderType
<1>3. Restatused  BY <1>1, <1>2, EndedIsThere DEF Restatused
<1>4. TypeInv'  BY <1>1, <1>3 DEF Restatused, Inv, TypeInv, TypeOK, OrderType
<1>5. ScanInv'
  BY <1>1 DEF Inv, ScanInv, OneCreates, ScanNeverCollides, OpenSessions
<1>6. SubmitInv'
  <2>1. OneSubmits'  BY <1>1 DEF Inv, SubmitInv, OneSubmits, HoldsSubmit
  <2> QED  BY <1>1, <1>3, <2>1, StatusStep
<1> QED  BY <1>4, <1>5, <1>6 DEF Inv

LEMMA PayKeeps ==
  ASSUME Inv, NEW w \in Workers, PayBill(w)
  PROVE  Inv'
<1>1. /\ Done(w) /\ UNCHANGED <<cartOf, cart, items, revived>>
      /\ order' = [k \in Keys |-> IF k \in op[w].served /\ order[k].status = "served"
                                  THEN [order[k] EXCEPT !.status = "ended"] ELSE order[k]]
      /\ session' = session \/ session' = [session EXCEPT ![op[w].session] = "settled"]
  BY DEF PayBill
<1>2. order \in [Keys -> OrderType]  BY DEF Inv, TypeInv, TypeOK, OrderType
<1>3. ASSUME NEW k \in Keys
      PROVE  /\ order'[k] \in OrderType /\ order'[k].cart = order[k].cart
             /\ order'[k] # NoOrder <=> order[k] # NoOrder
  <2>1. CASE k \in op[w].served /\ order[k].status = "served"
    BY <1>1, <1>2, <2>1, EndedIsThere
  <2>2. CASE ~(k \in op[w].served /\ order[k].status = "served")
    BY <1>1, <1>2, <2>2
  <2> QED  BY <2>1, <2>2
<1>4. Restatused
  <2>1. order' = [k \in Keys |-> order'[k]]  BY <1>1
  <2> QED  BY <1>1, <1>3, <2>1 DEF Restatused
<1>5. OpenSessions' \subseteq OpenSessions
  BY <1>1 DEF OpenSessions, Inv, TypeInv, TypeOK
<1>6. /\ op' \in [Workers -> Ops] /\ \A v \in Workers : Inputs(op'[v])
      /\ op'[w].cmd = "none" /\ \A v \in Workers \ {w} : op'[v] = op[v]
      /\ ScanInv' /\ OneSubmits'
  BY <1>1, <1>5, DoneLocks
<1>7. TypeOK'
  BY <1>1, <1>4 DEF Restatused, Inv, TypeInv, TypeOK, OrderType
<1>8. SubmitInv'  BY <1>4, <1>6, StatusStep
<1> QED  BY <1>6, <1>7, <1>8 DEF Inv, TypeInv

-----------------------------------------------------------------------------
(* The invariant, and what it says.                                        *)

LEMMA InvInit == Init => Inv
<1> SUFFICES ASSUME Init PROVE Inv  OBVIOUS
<1>1. TypeInv  BY TypeInit
<1>2. \A w \in Workers : op[w].step = "none" /\ op[w].cmd = "none"  BY IdleType DEF Init
<1>3. ScanInv  BY <1>2 DEF ScanInv, OneCreates, ScanNeverCollides
<1>4. \A k \in Keys : order[k] = NoOrder  BY DEF Init
<1>5. SubmitInv
  BY <1>2, <1>4 DEF SubmitInv, OneSubmits, HoldsSubmit, Unfound, FromDraft, Converted,
                    OneOrderPerCart
<1> QED  BY <1>1, <1>3, <1>5 DEF Inv

LEMMA InvNext == Inv /\ [Next]_vars => Inv'
<1> SUFFICES ASSUME Inv, [Next]_vars PROVE Inv'  OBVIOUS
<1>1. ASSUME NEW w \in Workers,
             \/ StartScan(w)
             \/ \E s \in Sessions, i \in Items : StartAdd(w, s, i)
             \/ \E c \in Carts, i \in Items : StartRemove(w, c, i)
             \/ \E s \in Sessions, c \in Carts : StartClear(w, s, c)
             \/ \E k \in Keys : StartSubmit(w, k)
             \/ \E s \in Sessions : StartPayment(w, s)
      PROVE  Inv'
  BY <1>1, StartKeeps
<1>2. ASSUME NEW w \in Workers, LockTable(w) \/ \E s \in Sessions : CreateSession(w, s)
      PROVE  Inv'
  BY <1>2, LockTableKeeps, CreateKeeps
<1>3. ASSUME NEW w \in Workers,
             (\E c \in Carts : AddItem(w, c)) \/ RemoveItem(w) \/ DeleteItems(w) \/ ClearCart(w)
      PROVE  Inv'
  BY <1>3, AddKeeps, RemoveKeeps, DeleteKeeps, ClearKeeps
<1>4. ASSUME NEW w \in Workers,
             \/ LockSubmitForSession(w) \/ FindByIdempotencyKey(w) \/ ReadDraftCart(w)
             \/ SubmitCart(w)
      PROVE  Inv'
  BY <1>4, LockSubmitKeeps, FindKeeps, ReadDraftKeeps, SubmitKeeps
<1>5. ASSUME NEW w \in Workers, PayBill(w) \/ RollBack(w)  PROVE Inv'
  BY <1>5, PayKeeps, RollBackKeeps DEF RollBack, Frame
<1>6. ASSUME NEW s \in Sessions, CloseSession(s)  PROVE Inv'  BY <1>6, CloseKeeps
<1>7. ASSUME NEW k \in Keys, NEW t \in {"served", "ended"}, OrderMoves(k, t)  PROVE Inv'
  BY <1>7, MovesKeeps
<1>8. CASE UNCHANGED vars
  BY <1>8 DEF vars, Inv, TypeInv, TypeOK, ScanInv, OneCreates, ScanNeverCollides,
              OpenSessions, SubmitInv, OneSubmits, HoldsSubmit, Unfound, FromDraft,
              Converted, OneOrderPerCart
<1> QED  BY <1>1, <1>2, <1>3, <1>4, <1>5, <1>6, <1>7, <1>8 DEF Next

LEMMA Invariant == Spec => []Inv
  BY InvInit, InvNext, PTL DEF Spec

\* Sessions, carts, orders and requests keep their types, for any number of them: in
\* particular the cart that a submit converts and a payment's session exist.
THEOREM TypeCorrect == Spec => []TypeOK
<1>1. Inv => TypeOK  BY DEF Inv, TypeInv
<1> QED  BY <1>1, Invariant, PTL

\* A scan that goes on to create a session finds none open: the advisory lock of start()
\* is enough, the index is never needed.
THEOREM ScanNeverCollidesHolds == Spec => []ScanNeverCollides
<1>1. Inv => ScanNeverCollides  BY DEF Inv, ScanInv
<1> QED  BY <1>1, Invariant, PTL

\* A repeated submit is never answered "Cart is empty" once its order is there, since
\* submitCart looks the key up after lockSubmitForSession.
THEOREM RetryFindsOrderHolds == Spec => []RetryFindsOrder
<1>1. Inv => RetryFindsOrder
  BY DEF Inv, TypeInv, Inputs, SubmitInv, Unfound, RetryFindsOrder
<1> QED  BY <1>1, Invariant, PTL

\* Two submits with keys of their own make two orders of one cart only if clearCart has
\* made a draft of it in between.
THEOREM OneOrderPerCartHolds == Spec => []OneOrderPerCart
<1>1. Inv => OneOrderPerCart  BY DEF Inv, SubmitInv
<1> QED  BY <1>1, Invariant, PTL
=============================================================================
