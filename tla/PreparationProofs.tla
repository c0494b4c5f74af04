---------------------------- MODULE PreparationProofs ----------------------------
(***************************************************************************)
(* What Preparation keeps for any number of orders, tasks and requests,    *)
(* and that it implements OrderLifecycle.  Requests about tasks read with  *)
(* no lock and write without a condition; what saves the orders is that a  *)
(* request that moves one holds its row from the update to the commit.     *)
(***************************************************************************)
EXTENDS Preparation, TLAPS

-----------------------------------------------------------------------------
(* The inductive invariant.                                                *)

Ops == [cmd : {"none"} \cup OrderCommands \cup TaskCommands,
        step : {"none", "update", "task", "ticket", "commit"},
        order : Orders \cup {None}, task : Tasks \cup {None},
        seen : OrderStatuses \cup {"none"},
        moves : {None, "preparing", "ready"},
        shows : {None, "in_progress", "ready", "cancelled"}]

\* What a request has been given, by the step that it has come to.
Inputs(r) ==
  /\ r.step = "update" => /\ r.cmd \in OrderCommands /\ r.order \in Orders
                          /\ r.seen \in Allowed(r.cmd)
  /\ r.step \in {"task", "ticket", "commit"} =>
       r.cmd \in TaskCommands /\ r.task \in Tasks /\ r.order = OrderOf[r.task]

TypeInv == TypeOK /\ op \in [Workers -> Ops] /\ \A w \in Workers : Inputs(op[w])

\* The row of an order that a request moves is its own until the commit.
Moving(w) == Holding(w) /\ op[w].moves # None
RowLock ==
  \A v, w \in Workers : Moving(v) /\ Moving(w) /\ op[v].order = op[w].order => v = w

\* An order that a request is about to move is where the request has found it, and if
\* it is about to be ready, nothing has been put before its stations since.
MoveHolds(w) ==
  LET o == op[w].order IN
  Moving(w) =>
    /\ op[w].moves = "preparing" => order[o] = "accepted"
    /\ op[w].moves = "ready" =>
         /\ order[o] \in {"accepted", "preparing"} /\ op[w].cmd = "finish"
         /\ \A u \in TasksOf(o) \ {op[w].task} : task[u] # "pending"

StockOnce == \A o \in Orders : order[o] = "submitted" => stock[o] = 0

OrderInv == RowLock /\ (\A w \in Workers : MoveHolds(w)) /\ StockOnce /\ NothingLeftPending

\* Work at a station has a ticket, tickets are served with their order, and a cancelled
\* ticket is voided.
Ticketed ==
  /\ \A t \in Tasks : task[t] # None => ticket[TicketOf(t)] # None
  /\ \A w \in Workers : op[w].step \in {"task", "ticket", "commit"} =>
                          ticket[TicketOf(op[w].task)] # None
ServedWithOrder ==
  \A k \in Tickets : ticket[k] = "served" => order[k[1]] \in {"served", "completed"}
Voided(k) == <<k, "void">> \in printed \cup after \cup lost
CancelledIsVoided ==
  \A k \in Tickets : ticket[k] = "cancelled" => Voided(k)

TicketInv == Ticketed /\ ServedWithOrder /\ CancelledIsVoided /\ VoidReachesKitchen

Inv == TypeInv /\ OrderInv /\ TicketInv

-----------------------------------------------------------------------------
(* Types.                                                                  *)

LEMMA TicketTypes ==
  /\ \A t \in Tasks : TicketOf(t) \in Tickets /\ TicketOf(t)[1] = OrderOf[t]
  /\ \A k \in Tickets : k[1] \in Orders
  BY PreparationAssumption DEF Tickets, TicketOf

LEMMA IdleType == Idle \in Ops /\ Inputs(Idle) /\ Idle.step = "none"
  BY DEF Idle, Ops, Inputs

LEMMA Results ==
  ASSUME NEW c \in TaskCommands
  PROVE  TaskResult(c) \in TaskStatuses \ {"pending"} /\ LineResult(c) \in TicketStatuses
  BY DEF TaskCommands, TaskResult, LineResult, TaskStatuses, TicketStatuses

LEMMA MoveTypes ==
  ASSUME NEW c, NEW t
  PROVE  /\ OrderMove(c, t) \in {None, "preparing", "ready"}
         /\ TicketMove(c, t) \in {None, "in_progress", "ready", "cancelled"}
  BY DEF OrderMove, TicketMove

LEMMA OpStep ==
  ASSUME TypeInv, NEW w \in Workers, NEW r \in Ops, Inputs(r), op' = [op EXCEPT ![w] = r]
  PROVE  /\ op' \in [Workers -> Ops] /\ \A v \in Workers : Inputs(op'[v])
         /\ op'[w] = r /\ \A v \in Workers \ {w} : op'[v] = op[v]
  BY DEF TypeInv

LEMMA DoneStep ==
  ASSUME TypeInv, NEW w \in Workers, Done(w)
  PROVE  /\ op' \in [Workers -> Ops] /\ \A v \in Workers : Inputs(op'[v])
         /\ op'[w].step = "none" /\ \A v \in Workers \ {w} : op'[v] = op[v]
  BY OpStep, IdleType DEF Done

LEMMA TypeInit == Init => TypeInv
  BY IdleType, PreparationAssumption DEF Init, TypeInv, TypeOK, OrderStatuses

\* The steps that only begin, read or give up.
LEMMA StartOrderOp ==
  ASSUME TypeInv, NEW w \in Workers, NEW c \in Commands \cap OrderCommands, NEW o \in Orders,
         StartOrderCommand(w, c, o)
  PROVE  \E r \in Ops : Inputs(r) /\ op' = [op EXCEPT ![w] = r] /\ r.step = "update"
<1> DEFINE r == [Idle EXCEPT !.cmd = c, !.step = "update", !.order = o, !.seen = order[o]]
<1>0. order[o] \in OrderStatuses /\ order[o] \in Allowed(c)
  BY DEF StartOrderCommand, TypeInv, TypeOK
<1>1. r.cmd = c /\ r.step = "update" /\ r.order = o /\ r.seen = order[o]  BY DEF Idle
<1>2. r \in Ops  BY <1>0, IdleType DEF Idle, Ops
<1>3. Inputs(r)  BY <1>0, <1>1 DEF Inputs
<1>4. op' = [op EXCEPT ![w] = r]  BY DEF StartOrderCommand
<1> QED  BY <1>1, <1>2, <1>3, <1>4

LEMMA StartTaskOp ==
  ASSUME TypeInv, NEW w \in Workers, NEW c \in Commands \cap TaskCommands, NEW t \in Tasks,
         StartTaskCommand(w, c, t)
  PROVE  \E r \in Ops : /\ Inputs(r) /\ op' = [op EXCEPT ![w] = r]
                        /\ r.step = "task" /\ r.task = t
<1> DEFINE r == [Idle EXCEPT !.cmd = c, !.step = "task", !.order = OrderOf[t], !.task = t]
<1>0. OrderOf[t] \in Orders  BY PreparationAssumption
<1>1. r.cmd = c /\ r.step = "task" /\ r.order = OrderOf[t] /\ r.task = t  BY DEF Idle
<1>2. r \in Ops  BY <1>0, IdleType DEF Idle, Ops
<1>3. Inputs(r)  BY <1>0, <1>1 DEF Inputs
<1>4. op' = [op EXCEPT ![w] = r]  BY DEF StartTaskCommand
<1> QED  BY <1>1, <1>2, <1>3, <1>4

LEMMA UpdateTaskOp ==
  ASSUME TypeInv, NEW w \in Workers, UpdateTask(w)
  PROVE  \E r \in Ops :
           /\ Inputs(r) /\ op' = [op EXCEPT ![w] = r] /\ r.step = "ticket"
           /\ r.cmd = op[w].cmd /\ r.task = op[w].task /\ r.order = op[w].order
           /\ r.moves = OrderMove(op[w].cmd, op[w].task)
<1> DEFINE m == OrderMove(op[w].cmd, op[w].task)
           r == [op[w] EXCEPT !.step = "ticket", !.moves = m]
<1>0. m \in {None, "preparing", "ready"}  BY MoveTypes
<1>1. op' = [op EXCEPT ![w] = r] /\ op[w].step = "task"  BY DEF UpdateTask
<1> HIDE DEF m
<1>2. /\ r \in Ops /\ r.step = "ticket" /\ r.moves = m
      /\ r.cmd = op[w].cmd /\ r.task = op[w].task /\ r.order = op[w].order
  BY <1>0 DEF TypeInv, Ops
<1>3. Inputs(r)  BY <1>1, <1>2 DEF TypeInv, Inputs
<1> QED  BY <1>1, <1>2, <1>3 DEF m

LEMMA SyncTicketOp ==
  ASSUME TypeInv, NEW w \in Workers, SyncTicket(w)
  PROVE  \E r \in Ops :
           /\ Inputs(r) /\ op' = [op EXCEPT ![w] = r] /\ r.step = "commit"
           /\ r.cmd = op[w].cmd /\ r.task = op[w].task /\ r.order = op[w].order
           /\ r.moves = op[w].moves
<1> DEFINE m == TicketMove(op[w].cmd, op[w].task)
           r == [op[w] EXCEPT !.step = "commit", !.shows = m]
<1>0. m \in {None, "in_progress", "ready", "cancelled"}  BY MoveTypes
<1>1. op' = [op EXCEPT ![w] = r] /\ op[w].step = "ticket"  BY DEF SyncTicket
<1> HIDE DEF m
<1>2. /\ r \in Ops /\ r.step = "commit" /\ r.moves = op[w].moves
      /\ r.cmd = op[w].cmd /\ r.task = op[w].task /\ r.order = op[w].order
  BY <1>0 DEF TypeInv, Ops
<1>3. Inputs(r)  BY <1>1, <1>2 DEF TypeInv, Inputs
<1> QED  BY <1>1, <1>2, <1>3

-----------------------------------------------------------------------------
(* The steps that change nothing but a request.                            *)

LEMMA QuietStep ==
  ASSUME Inv, UNCHANGED <<order, stock, task, line, ticket, printed, after, lost>>,
         NEW w \in Workers, NEW r \in Ops, Inputs(r), op' = [op EXCEPT ![w] = r],
         Moving(w)' => \A v \in Workers \ {w} : ~(Moving(v) /\ op[v].order = r.order),
         MoveHolds(w)',
         r.step \in {"task", "ticket", "commit"} => ticket[TicketOf(r.task)] # None
  PROVE  Inv'
<1> USE DEF Inv
<1>1. /\ op' \in [Workers -> Ops] /\ \A v \in Workers : Inputs(op'[v])
      /\ op'[w] = r /\ \A v \in Workers \ {w} : op'[v] = op[v]
  BY OpStep
<1>2. TypeInv'  BY <1>1 DEF TypeInv, TypeOK
<1>3. RowLock'  BY <1>1 DEF OrderInv, RowLock, Moving, Holding
<1>4. \A v \in Workers : MoveHolds(v)'
  BY <1>1 DEF OrderInv, MoveHolds, Moving, Holding
<1>5. StockOnce' /\ NothingLeftPending'  BY DEF OrderInv, StockOnce, NothingLeftPending
<1>6. Ticketed'  BY <1>1 DEF TicketInv, Ticketed
<1>7. ServedWithOrder' /\ CancelledIsVoided' /\ VoidReachesKitchen'
  BY DEF TicketInv, ServedWithOrder, CancelledIsVoided, Voided, VoidReachesKitchen
<1> QED  BY <1>2, <1>3, <1>4, <1>5, <1>6, <1>7 DEF OrderInv, TicketInv

LEMMA StartOrderKeeps ==
  ASSUME Inv, NEW w \in Workers, NEW c \in Commands \cap OrderCommands, NEW o \in Orders,
         StartOrderCommand(w, c, o)
  PROVE  Inv'
<1>1. PICK r \in Ops : Inputs(r) /\ op' = [op EXCEPT ![w] = r] /\ r.step = "update"
  BY StartOrderOp DEF Inv
<1>2. op'[w] = r  BY <1>1, OpStep DEF Inv
<1>3. ~Moving(w)'  BY <1>1, <1>2 DEF Moving, Holding
<1>4. MoveHolds(w)'  BY <1>3 DEF MoveHolds
<1> QED  BY <1>1, <1>3, <1>4, QuietStep DEF StartOrderCommand

LEMMA StartTaskKeeps ==
  ASSUME Inv, NEW w \in Workers, NEW c \in Commands \cap TaskCommands, NEW t \in Tasks,
         StartTaskCommand(w, c, t)
  PROVE  Inv'
<1>1. PICK r \in Ops : /\ Inputs(r) /\ op' = [op EXCEPT ![w] = r]
                       /\ r.step = "task" /\ r.task = t
  BY StartTaskOp DEF Inv
<1>2. op'[w] = r  BY <1>1, OpStep DEF Inv
<1>3. ~Moving(w)'  BY <1>1, <1>2 DEF Moving, Holding
<1>4. MoveHolds(w)'  BY <1>3 DEF MoveHolds
<1>5. task[t] # None
  BY PreparationAssumption DEF StartTaskCommand, TaskStatuses
<1>6. ticket[TicketOf(r.task)] # None  BY <1>1, <1>5 DEF Inv, TicketInv, Ticketed
<1> QED  BY <1>1, <1>3, <1>4, <1>6, QuietStep DEF StartTaskCommand

LEMMA UpdateTaskKeeps ==
  ASSUME Inv, NEW w \in Workers, UpdateTask(w)
  PROVE  Inv'
<1> DEFINE t == op[w].task
           o == OrderOf[t]
<1>1. PICK r \in Ops :
        /\ Inputs(r) /\ op' = [op EXCEPT ![w] = r] /\ r.step = "ticket"
        /\ r.cmd = op[w].cmd /\ r.task = op[w].task /\ r.order = op[w].order
        /\ r.moves = OrderMove(op[w].cmd, op[w].task)
  BY UpdateTaskOp DEF Inv
<1>2. op'[w] = r  BY <1>1, OpStep DEF Inv
<1>3. t \in Tasks /\ op[w].order = o /\ o \in Orders /\ op[w].step = "task"
  BY PreparationAssumption DEF UpdateTask, Inv, TypeInv, Inputs
<1>4. r.moves # None => OrderFree(o)  BY <1>1 DEF UpdateTask
<1>5. Moving(w)' => \A v \in Workers \ {w} : ~(Moving(v) /\ op[v].order = r.order)
  BY <1>1, <1>2, <1>3, <1>4 DEF Moving, OrderFree
<1>6. UNCHANGED <<order, stock, task, line, ticket, printed, after, lost>>
  BY DEF UpdateTask
<1>7. r.moves = "preparing" => order[o] = "accepted"
  BY <1>1, PreparationAssumption DEF OrderMove, TaskStatuses
<1>8. r.moves = "ready" => /\ order[o] \in {"accepted", "preparing"} /\ op[w].cmd = "finish"
                           /\ OthersReady(t)
  BY <1>1, PreparationAssumption DEF OrderMove, TaskStatuses
<1>9. MoveHolds(w)'
  BY <1>1, <1>2, <1>3, <1>6, <1>7, <1>8 DEF MoveHolds, OthersReady, TasksOf
<1>10. ticket[TicketOf(r.task)] # None
  BY <1>1, <1>3 DEF Inv, TicketInv, Ticketed
<1> QED  BY <1>1, <1>5, <1>6, <1>9, <1>10, QuietStep

LEMMA SyncTicketKeeps ==
  ASSUME Inv, NEW w \in Workers, SyncTicket(w)
  PROVE  Inv'
<1>1. PICK r \in Ops :
        /\ Inputs(r) /\ op' = [op EXCEPT ![w] = r] /\ r.step = "commit"
        /\ r.cmd = op[w].cmd /\ r.task = op[w].task /\ r.order = op[w].order
        /\ r.moves = op[w].moves
  BY SyncTicketOp DEF Inv
<1>2. op'[w] = r /\ op[w].step = "ticket"  BY <1>1, OpStep DEF Inv, SyncTicket
<1>3. UNCHANGED <<order, stock, task, line, ticket, printed, after, lost>>
  BY DEF SyncTicket
<1>4. Moving(w)' => Moving(w)  BY <1>1, <1>2 DEF Moving, Holding
<1>5. Moving(w)' => \A v \in Workers \ {w} : ~(Moving(v) /\ op[v].order = r.order)
  BY <1>1, <1>4 DEF Inv, OrderInv, RowLock
<1>6. MoveHolds(w)'
  BY <1>1, <1>2, <1>3, <1>4 DEF Inv, OrderInv, MoveHolds, TasksOf
<1>7. ticket[TicketOf(r.task)] # None
  BY <1>1, <1>2 DEF Inv, TicketInv, Ticketed
<1> QED  BY <1>1, <1>3, <1>5, <1>6, <1>7, QuietStep

LEMMA RollBackKeeps ==
  ASSUME Inv, NEW w \in Workers, RollBack(w)
  PROVE  Inv'
<1>1. op' = [op EXCEPT ![w] = Idle] /\ op'[w].step = "none"
  BY DoneStep DEF RollBack, Done, Inv
<1>2. ~Moving(w)'  BY <1>1 DEF Moving, Holding
<1>3. MoveHolds(w)'  BY <1>2 DEF MoveHolds
<1> QED  BY <1>1, <1>2, <1>3, IdleType, QuietStep DEF RollBack

-----------------------------------------------------------------------------
(* The commits of the requests about an order.                             *)

LEMMA FreshFacts ==
  ASSUME Inv, NEW w \in Workers, NEW c \in OrderCommands, Fresh(w, c)
  PROVE  /\ op[w].order \in Orders /\ order[op[w].order] \in Allowed(c)
         /\ \A v \in Workers : ~(Moving(v) /\ op[v].order = op[w].order)
<1>1. op[w].step = "update" /\ op[w].cmd = c /\ order[op[w].order] = op[w].seen
  BY DEF Fresh
<1>2. op[w].order \in Orders /\ op[w].seen \in Allowed(c)
  BY <1>1 DEF Inv, TypeInv, Inputs
<1>3. \A v \in Workers : ~(Moving(v) /\ op[v].order = op[w].order)
  BY DEF Fresh, OrderFree, Moving
<1> QED  BY <1>1, <1>2, <1>3

\* The orders that other requests are about to move are not touched.
LEMMA OrderStep ==
  ASSUME Inv, NEW w \in Workers, NEW c \in OrderCommands, Fresh(w, c), Done(w),
         \A o \in Orders \ {op[w].order} : order'[o] = order[o],
         \A t \in Tasks : OrderOf[t] # op[w].order => task'[t] = task[t]
  PROVE  /\ op' \in [Workers -> Ops] /\ \A v \in Workers : Inputs(op'[v])
         /\ RowLock' /\ \A v \in Workers : MoveHolds(v)'
         /\ op'[w].step = "none" /\ \A v \in Workers \ {w} : op'[v] = op[v]
<1>1. /\ op' \in [Workers -> Ops] /\ \A v \in Workers : Inputs(op'[v])
      /\ op'[w].step = "none" /\ \A v \in Workers \ {w} : op'[v] = op[v]
  BY DoneStep DEF Inv
<1>2. RowLock'  BY <1>1 DEF Inv, OrderInv, RowLock, Moving, Holding
<1>3. ASSUME NEW v \in Workers  PROVE MoveHolds(v)'
  <2>1. CASE v = w  BY <1>1, <2>1 DEF MoveHolds, Moving, Holding
  <2>2. CASE v # w /\ ~Moving(v)  BY <1>1, <2>2 DEF MoveHolds, Moving, Holding
  <2>3. CASE v # w /\ Moving(v)
    <3>1. op[v].order # op[w].order  BY <2>3, FreshFacts
    <3>2. op[v].task \in Tasks /\ op[v].order = OrderOf[op[v].task] /\ op[v].order \in Orders
      BY <2>3, PreparationAssumption DEF Moving, Holding, Inv, TypeInv, Inputs
    <3>3. order'[op[v].order] = order[op[v].order]  BY <3>1, <3>2
    <3>4. \A u \in TasksOf(op[v].order) : task'[u] = task[u]  BY <3>1 DEF TasksOf
    <3> QED
      BY <1>1, <2>3, <3>3, <3>4 DEF Inv, OrderInv, MoveHolds, TasksOf, Moving, Holding
  <2> QED  BY <2>1, <2>2, <2>3
<1> QED  BY <1>1, <1>2, <1>3

LEMMA AcceptKeeps ==
  ASSUME Inv, NEW w \in Workers, Accept(w)
  PROVE  Inv'
<1> USE PreparationAssumption
<1> DEFINE o == op[w].order
           s == IF TasksOf(o) = {} THEN "ready" ELSE "accepted"
           prints == TicketsOf(o) \X {"order"}
<1>1. PICK c \in {"accept", "autoaccept"} : Fresh(w, c)  BY DEF Accept
<1>2. o \in Orders /\ order[o] = "submitted" /\ c \in OrderCommands
  BY <1>1, FreshFacts DEF OrderCommands, Allowed
<1>3. /\ order' = [order EXCEPT ![o] = s]
      /\ stock' = [stock EXCEPT ![o] = @ + 1]
      /\ task' = [t \in Tasks |-> IF t \in TasksOf(o) THEN "pending" ELSE task[t]]
      /\ line' = [t \in Tasks |-> IF t \in TasksOf(o) THEN "queued" ELSE line[t]]
      /\ ticket' = [k \in Tickets |-> IF k \in TicketsOf(o) THEN "queued" ELSE ticket[k]]
      /\ printed' \in {printed, printed \cup prints} /\ after' \in {after, after \cup prints}
      /\ Done(w) /\ lost' = lost
  BY DEF Accept, Moved
<1>4. s \in {"accepted", "ready"} /\ (s = "ready" => TasksOf(o) = {})  OBVIOUS
<1>5. prints \subseteq Tickets \X Kinds  BY DEF TicketsOf, Kinds
<1> HIDE DEF o, s, prints
<1>6. /\ order'[o] = s /\ \A x \in Orders \ {o} : order'[x] = order[x]
      /\ \A t \in Tasks : OrderOf[t] # o => task'[t] = task[t]
  BY <1>2, <1>3 DEF Inv, TypeInv, TypeOK, TasksOf
<1>7. /\ op' \in [Workers -> Ops] /\ \A v \in Workers : Inputs(op'[v])
      /\ RowLock' /\ \A v \in Workers : MoveHolds(v)'
      /\ op'[w].step = "none" /\ \A v \in Workers \ {w} : op'[v] = op[v]
  BY <1>1, <1>2, <1>3, <1>6, OrderStep DEF o
<1>8. TypeOK'
  <2>1. order' \in [Orders -> OrderStatuses] /\ stock' \in [Orders -> Nat]
    BY <1>2, <1>3, <1>4 DEF Inv, TypeInv, TypeOK, OrderStatuses
  <2>2. /\ task' \in [Tasks -> TaskStatuses \cup {None}]
        /\ line' \in [Tasks -> TicketStatuses \cup {None}]
        /\ ticket' \in [Tickets -> TicketStatuses \cup {None}]
    BY <1>3 DEF Inv, TypeInv, TypeOK, TaskStatuses, TicketStatuses
  <2>3. printed' \subseteq Tickets \X Kinds /\ after' \subseteq Tickets \X Kinds
    BY <1>3, <1>5 DEF Inv, TypeInv, TypeOK
  <2> QED  BY <1>3, <2>1, <2>2, <2>3 DEF Inv, TypeInv, TypeOK
<1>9. StockOnce' /\ NothingLeftPending'
  BY <1>2, <1>3, <1>4, <1>6 DEF Inv, OrderInv, StockOnce, NothingLeftPending, TasksOf, TypeInv, TypeOK
<1>10. \A k \in Tickets : IF k[1] = o THEN ticket'[k] = "queued" ELSE ticket'[k] = ticket[k]
  BY <1>3 DEF TicketsOf
<1>11. \A k \in Tickets : Voided(k) => Voided(k)'  BY <1>3 DEF Voided
<1>12. Ticketed'
  <2>1. \A t \in Tasks : task'[t] # None => ticket'[TicketOf(t)] # None
    BY <1>6, <1>10, TicketTypes DEF Inv, TicketInv, Ticketed, TicketStatuses
  <2>2. \A v \in Workers : op'[v].step \in {"task", "ticket", "commit"} =>
                             ticket'[TicketOf(op'[v].task)] # None
    <3> SUFFICES ASSUME NEW v \in Workers, op'[v].step \in {"task", "ticket", "commit"}
                 PROVE  ticket'[TicketOf(op'[v].task)] # None
      OBVIOUS
    <3>1. op'[v] = op[v] /\ op[v].task \in Tasks  BY <1>7 DEF Inv, TypeInv, Inputs
    <3>2. ticket[TicketOf(op[v].task)] # None  BY <3>1 DEF Inv, TicketInv, Ticketed
    <3> QED  BY <1>10, <3>1, <3>2, TicketTypes DEF TicketStatuses
  <2> QED  BY <2>1, <2>2 DEF Ticketed
<1>13. ServedWithOrder' /\ CancelledIsVoided' /\ VoidReachesKitchen'
  BY <1>3, <1>4, <1>6, <1>10, <1>11, TicketTypes
     DEF Inv, TicketInv, ServedWithOrder, CancelledIsVoided, VoidReachesKitchen, Voided
<1> QED  BY <1>7, <1>8, <1>9, <1>12, <1>13 DEF Inv, TypeInv, OrderInv, TicketInv

\* A step that moves an order and leaves its tasks, stock and paper alone, and whose
\* tickets remain or are served with it.
LEMMA MoveStep ==
  ASSUME Inv, NEW w \in Workers, NEW c \in OrderCommands, Fresh(w, c), Done(w),
         NEW s \in OrderStatuses, order' = Moved(op[w].order, s),
         s \notin {"submitted", "accepted", "preparing", "cancelled"},
         order[op[w].order] \notin {"accepted", "preparing"},
         UNCHANGED <<stock, task, line, printed, after, lost>>,
         ticket' \in [Tickets -> TicketStatuses \cup {None}],
         \A k \in Tickets : \/ ticket'[k] = ticket[k]
                            \/ k[1] = op[w].order /\ ticket'[k] = "served" /\ s = "served",
         order[op[w].order] \in {"served", "completed"} => s \in {"served", "completed"}
  PROVE  Inv'
<1> USE PreparationAssumption
<1> DEFINE o == op[w].order
<1>1. o \in Orders  BY FreshFacts
<1>2. order'[o] = s /\ \A x \in Orders \ {o} : order'[x] = order[x]
  BY <1>1 DEF Moved, Inv, TypeInv, TypeOK
<1>3. /\ op' \in [Workers -> Ops] /\ \A v \in Workers : Inputs(op'[v])
      /\ RowLock' /\ \A v \in Workers : MoveHolds(v)'
      /\ op'[w].step = "none" /\ \A v \in Workers \ {w} : op'[v] = op[v]
  BY <1>2, OrderStep
<1> HIDE DEF o
<1>4. TypeOK'
  <2>1. order' \in [Orders -> OrderStatuses]  BY <1>1 DEF Moved, Inv, TypeInv, TypeOK
  <2> QED  BY <2>1 DEF Inv, TypeInv, TypeOK
<1>5. StockOnce' /\ NothingLeftPending'
  BY <1>1, <1>2 DEF Inv, OrderInv, StockOnce, NothingLeftPending, o
<1>6. Ticketed'
  <2>1. \A t \in Tasks : task'[t] # None => ticket'[TicketOf(t)] # None
    BY TicketTypes DEF Inv, TicketInv, Ticketed, TicketStatuses
  <2>2. \A v \in Workers : op'[v].step \in {"task", "ticket", "commit"} =>
                             ticket'[TicketOf(op'[v].task)] # None
    <3> SUFFICES ASSUME NEW v \in Workers, op'[v].step \in {"task", "ticket", "commit"}
                 PROVE  ticket'[TicketOf(op'[v].task)] # None
      OBVIOUS
    <3>1. op'[v] = op[v] /\ op[v].task \in Tasks  BY <1>3 DEF Inv, TypeInv, Inputs
    <3>2. ticket[TicketOf(op[v].task)] # None  BY <3>1 DEF Inv, TicketInv, Ticketed
    <3> QED  BY <3>1, <3>2, TicketTypes DEF TicketStatuses
  <2> QED  BY <2>1, <2>2 DEF Ticketed
<1>7. ServedWithOrder'
  BY <1>1, <1>2, TicketTypes DEF Inv, TicketInv, ServedWithOrder, o
<1>8. CancelledIsVoided' /\ VoidReachesKitchen'
  BY <1>1, <1>2, TicketTypes DEF Inv, TicketInv, CancelledIsVoided, VoidReachesKitchen, Voided, o
<1> QED  BY <1>3, <1>4, <1>5, <1>6, <1>7, <1>8 DEF Inv, TypeInv, OrderInv, TicketInv

LEMMA MovesKeep ==
  ASSUME Inv, NEW w \in Workers, Reject(w) \/ Serve(w) \/ Complete(w)
  PROVE  Inv'
<1>0. ticket \in [Tickets -> TicketStatuses \cup {None}]  BY DEF Inv, TypeInv, TypeOK
<1>1. CASE Reject(w)
  <2>1. Fresh(w, "reject") /\ order[op[w].order] = "submitted"
    BY <1>1, FreshFacts DEF Reject, OrderCommands, Allowed
  <2> QED
    BY <1>0, <1>1, <2>1, MoveStep DEF Reject, OrderCommands, OrderStatuses
<1>2. CASE Serve(w)
  <2>1. Fresh(w, "serve") /\ order[op[w].order] = "ready"
    BY <1>2, FreshFacts DEF Serve, OrderCommands, Allowed
  <2>2. /\ ticket' \in [Tickets -> TicketStatuses \cup {None}]
        /\ \A k \in Tickets : \/ ticket'[k] = ticket[k]
                              \/ k[1] = op[w].order /\ ticket'[k] = "served"
    BY <1>0, <1>2 DEF Serve, TicketsOf, TicketStatuses
  <2> QED
    BY <1>2, <2>1, <2>2, MoveStep DEF Serve, OrderCommands, OrderStatuses
<1>3. CASE Complete(w)
  <2>1. Fresh(w, "complete") /\ order[op[w].order] = "served"
    BY <1>3, FreshFacts DEF Complete, OrderCommands, Allowed
  <2> QED
    BY <1>0, <1>3, <2>1, MoveStep DEF Complete, OrderCommands, OrderStatuses
<1> QED  BY <1>1, <1>2, <1>3

\* Every ticket of the cancelled order is voided: by this step, by the one that had
\* cancelled it before, and none has been served.
LEMMA CancelKeeps ==
  ASSUME Inv, NEW w \in Workers, CancelOrder(w)
  PROVE  Inv'
<1> USE PreparationAssumption
<1> DEFINE o == op[w].order
           stopped == {t \in TasksOf(o) : task[t] \in {"pending", "preparing"}}
           emptied == {k \in TicketsOf(o) :
                         /\ LinesOf(k) \cap stopped # {}
                         /\ \A t \in LinesOf(k) \ stopped : line[t] = "cancelled"}
           finished == {k \in TicketsOf(o) \ emptied :
                         /\ LinesOf(k) \cap stopped # {}
                         /\ \A t \in LinesOf(k) \ stopped : line[t] \in {"ready", "cancelled"}}
           closed == finished \cup {k \in TicketsOf(o) \ emptied :
                                      ticket[k] \notin {None, "cancelled", "served"}}
<1>1. Fresh(w, "cancel") /\ "cancel" \in OrderCommands  BY DEF CancelOrder, OrderCommands
<1>2. o \in Orders /\ order[o] \in {"submitted", "accepted", "preparing"}
  BY <1>1, FreshFacts DEF Allowed
<1>3. /\ order' = [order EXCEPT ![o] = "cancelled"]
      /\ task' = [t \in Tasks |-> IF t \in stopped THEN "cancelled" ELSE task[t]]
      /\ line' = [t \in Tasks |-> IF t \in stopped \/ TicketOf(t) \in closed
                                  THEN "cancelled" ELSE line[t]]
      /\ ticket' = [k \in Tickets |-> IF k \in emptied \cup closed
                                      THEN "cancelled" ELSE ticket[k]]
      /\ after' = after \cup (emptied \X {"void"})
      /\ printed' = printed \cup (closed \X {"void"})
      /\ Done(w) /\ UNCHANGED <<stock, lost>>
  BY DEF CancelOrder, Moved
<1>4. emptied \subseteq TicketsOf(o) /\ closed \subseteq TicketsOf(o)  OBVIOUS
<1>5. \A k \in TicketsOf(o) : k \in emptied \cup closed \/ ticket[k] \in {None, "cancelled", "served"}
  OBVIOUS
<1>6. \A t \in Tasks : OrderOf[t] = o /\ task[t] = "pending" => t \in stopped  BY DEF TasksOf
<1>7. stopped \subseteq TasksOf(o)  OBVIOUS
<1> HIDE DEF o, stopped, emptied, finished, closed
<1>8. /\ order'[o] = "cancelled" /\ \A x \in Orders \ {o} : order'[x] = order[x]
      /\ \A t \in Tasks : OrderOf[t] # o => task'[t] = task[t]
  BY <1>2, <1>3, <1>7 DEF Inv, TypeInv, TypeOK, TasksOf
<1>9. /\ op' \in [Workers -> Ops] /\ \A v \in Workers : Inputs(op'[v])
      /\ RowLock' /\ \A v \in Workers : MoveHolds(v)'
      /\ op'[w].step = "none" /\ \A v \in Workers \ {w} : op'[v] = op[v]
  BY <1>1, <1>3, <1>8, OrderStep DEF o
<1>10. TypeOK'
  <2>1. order' \in [Orders -> OrderStatuses]
    BY <1>2, <1>3 DEF Inv, TypeInv, TypeOK, OrderStatuses
  <2>2. /\ task' \in [Tasks -> TaskStatuses \cup {None}]
        /\ line' \in [Tasks -> TicketStatuses \cup {None}]
        /\ ticket' \in [Tickets -> TicketStatuses \cup {None}]
    BY <1>3 DEF Inv, TypeInv, TypeOK, TaskStatuses, TicketStatuses
  <2>3. printed' \subseteq Tickets \X Kinds /\ after' \subseteq Tickets \X Kinds
    BY <1>3, <1>4 DEF Inv, TypeInv, TypeOK, TicketsOf, Kinds
  <2> QED  BY <1>3, <2>1, <2>2, <2>3 DEF Inv, TypeInv, TypeOK
<1>11. StockOnce' /\ NothingLeftPending'
  <2>1. StockOnce'  BY <1>2, <1>3, <1>8 DEF Inv, OrderInv, StockOnce
  <2>2. NothingLeftPending'
    BY <1>2, <1>3, <1>6, <1>8 DEF Inv, OrderInv, NothingLeftPending
  <2> QED  BY <2>1, <2>2
<1>12. \A k \in Tickets : /\ k \in emptied \cup closed => ticket'[k] = "cancelled"
                          /\ k \notin emptied \cup closed => ticket'[k] = ticket[k]
  BY <1>3
<1>13. \A k \in Tickets : Voided(k) \/ k \in emptied \cup closed => Voided(k)'
  BY <1>3 DEF Voided
<1>14. Ticketed'
  <2>1. \A k \in Tickets : ticket[k] # None => ticket'[k] # None
    BY <1>12 DEF TicketStatuses
  <2>2. \A t \in Tasks : task'[t] # None => task[t] # None
    <3> SUFFICES ASSUME NEW t \in Tasks, task[t] = None  PROVE task'[t] = None  OBVIOUS
    <3>1. t \notin stopped  BY DEF stopped, TaskStatuses
    <3> QED  BY <1>3, <3>1
  <2>3. \A t \in Tasks : task'[t] # None => ticket'[TicketOf(t)] # None
    BY <2>1, <2>2, TicketTypes DEF Inv, TicketInv, Ticketed
  <2>4. \A v \in Workers : op'[v].step \in {"task", "ticket", "commit"} =>
                             ticket'[TicketOf(op'[v].task)] # None
    <3> SUFFICES ASSUME NEW v \in Workers, op'[v].step \in {"task", "ticket", "commit"}
                 PROVE  ticket'[TicketOf(op'[v].task)] # None
      OBVIOUS
    <3>1. op'[v] = op[v] /\ op[v].task \in Tasks  BY <1>9 DEF Inv, TypeInv, Inputs
    <3>2. ticket[TicketOf(op[v].task)] # None  BY <3>1 DEF Inv, TicketInv, Ticketed
    <3> QED  BY <2>1, <3>1, <3>2, TicketTypes
  <2> QED  BY <2>3, <2>4 DEF Ticketed
<1>15. ServedWithOrder'
  <2> SUFFICES ASSUME NEW k \in Tickets, ticket'[k] = "served"
               PROVE  order'[k[1]] \in {"served", "completed"}
    BY DEF ServedWithOrder
  <2>1. ticket[k] = "served"  BY <1>12
  <2>2. order[k[1]] \in {"served", "completed"} /\ k[1] \in Orders
    BY <2>1, TicketTypes DEF Inv, TicketInv, ServedWithOrder
  <2> QED  BY <1>2, <1>8, <2>2
<1>16. CancelledIsVoided'
  BY <1>3, <1>12, <1>13 DEF Inv, TicketInv, CancelledIsVoided
<1>17. VoidReachesKitchen'
  <2> SUFFICES ASSUME NEW k \in Tickets, order'[k[1]] = "cancelled",
                      ticket'[k] # None
               PROVE  Voided(k)'
    BY DEF VoidReachesKitchen, Voided
  <2>0. k[1] \in Orders  BY TicketTypes
  <2>1. CASE k \in emptied \cup closed  BY <1>13, <2>1
  <2>2. CASE k \notin emptied \cup closed /\ k[1] = o
    <3>1. ticket[k] \in {"cancelled", "served"}
      BY <1>5, <1>12, <2>2 DEF TicketsOf
    <3>2. ticket[k] # "served"
      BY <1>2, <2>2 DEF Inv, TicketInv, ServedWithOrder
    <3> QED  BY <1>13, <3>1, <3>2 DEF Inv, TicketInv, CancelledIsVoided
  <2>3. CASE k \notin emptied \cup closed /\ k[1] # o
    <3>1. order[k[1]] = "cancelled" /\ ticket[k] # None  BY <1>8, <1>12, <2>0, <2>3
    <3> QED  BY <1>13, <2>0, <3>1 DEF Inv, TicketInv, VoidReachesKitchen, Voided
  <2> QED  BY <2>1, <2>2, <2>3
<1> QED
  BY <1>9, <1>10, <1>11, <1>14, <1>15, <1>16, <1>17 DEF Inv, TypeInv, OrderInv, TicketInv

-----------------------------------------------------------------------------
(* The commit of a request about a task, and the process.                  *)

\* What the commit does to the order of the task.
LEMMA CommitMoves ==
  ASSUME Inv, NEW w \in Workers, CommitTask(w)
  PROVE  /\ op[w].task \in Tasks /\ op[w].order = OrderOf[op[w].task]
         /\ op[w].order \in Orders
         /\ op[w].moves \in {None, "preparing", "ready"}
         /\ op[w].moves # None =>
              /\ order' = [order EXCEPT ![op[w].order] = op[w].moves]
              /\ order[op[w].order] \in {"accepted", "preparing"}
              /\ op[w].moves = "preparing" => order[op[w].order] = "accepted"
              /\ op[w].moves = "ready" =>
                   \A u \in TasksOf(op[w].order) \ {op[w].task} : task[u] # "pending"
         /\ op[w].moves = None => order' = order
<1>1. /\ op[w].step = "commit"
      /\ order' = IF op[w].moves = None THEN order ELSE Moved(OrderOf[op[w].task], op[w].moves)
  BY DEF CommitTask
<1>2. /\ op[w].task \in Tasks /\ op[w].order = OrderOf[op[w].task]
      /\ op[w].moves \in {None, "preparing", "ready"}
  BY <1>1 DEF Inv, TypeInv, Inputs, Ops
<1>3. op[w].order \in Orders  BY <1>2, PreparationAssumption
<1>4. op[w].moves # None => Moving(w)  BY <1>1 DEF Moving, Holding
<1>5. MoveHolds(w)  BY DEF Inv, OrderInv
<1> QED
  BY <1>1, <1>2, <1>3, <1>4, <1>5, PreparationAssumption DEF MoveHolds, Moved, TaskStatuses

LEMMA CommitKeeps ==
  ASSUME Inv, NEW w \in Workers, CommitTask(w)
  PROVE  Inv'
<1> USE PreparationAssumption
<1> DEFINE t == op[w].task
           o == op[w].order
           k == TicketOf(t)
           m == op[w].moves
           done == TaskResult(op[w].cmd)
           shown == LineResult(op[w].cmd)
           shows == op[w].shows
<1>1. /\ op[w].step = "commit" /\ op[w].cmd \in TaskCommands
      /\ shows \in {None, "in_progress", "ready", "cancelled"}
  BY DEF CommitTask, Inv, TypeInv, Inputs, Ops
<1>2. /\ t \in Tasks /\ o = OrderOf[t] /\ o \in Orders /\ m \in {None, "preparing", "ready"}
      /\ m # None => /\ order' = [order EXCEPT ![o] = m]
                     /\ order[o] \in {"accepted", "preparing"}
                     /\ m = "preparing" => order[o] = "accepted"
                     /\ m = "ready" => \A u \in TasksOf(o) \ {t} : task[u] # "pending"
      /\ m = None => order' = order
  BY CommitMoves
<1>3. /\ task' = [task EXCEPT ![t] = done] /\ line' = [line EXCEPT ![t] = shown]
      /\ ticket' = IF shows = None THEN ticket ELSE [ticket EXCEPT ![k] = shows]
      /\ after' = IF shows = "cancelled" THEN after \cup {<<k, "void">>} ELSE after
      /\ Done(w) /\ UNCHANGED <<stock, printed, lost>>
  BY DEF CommitTask
<1>4. done \in TaskStatuses \ {"pending"} /\ shown \in TicketStatuses
  BY <1>1, Results
<1>5. k \in Tickets /\ k[1] = o  BY <1>2, TicketTypes
<1>6. ticket[k] # None  BY <1>1 DEF Inv, TicketInv, Ticketed
<1>7. m # None => Moving(w)  BY <1>1 DEF Moving, Holding
<1>8. m # None => \A v \in Workers \ {w} : Moving(v) => op[v].order # o
  BY <1>7 DEF Inv, OrderInv, RowLock
<1> HIDE DEF t, o, k, m, done, shown, shows
<1>9. /\ op' \in [Workers -> Ops] /\ \A v \in Workers : Inputs(op'[v])
      /\ op'[w].step = "none" /\ \A v \in Workers \ {w} : op'[v] = op[v]
  BY <1>3, DoneStep DEF Inv
<1>10. /\ \A x \in Orders \ {o} : order'[x] = order[x]
       /\ order'[o] = IF m = None THEN order[o] ELSE m
  BY <1>2 DEF Inv, TypeInv, TypeOK
<1>11. task'[t] = done /\ \A u \in Tasks \ {t} : task'[u] = task[u]
  BY <1>2, <1>3 DEF Inv, TypeInv, TypeOK
<1>12. /\ ticket'[k] = IF shows = None THEN ticket[k] ELSE shows
       /\ \A j \in Tickets \ {k} : ticket'[j] = ticket[j]
  BY <1>3, <1>5 DEF Inv, TypeInv, TypeOK
<1>13. TypeOK'
  <2>1. order' \in [Orders -> OrderStatuses]
    BY <1>2 DEF Inv, TypeInv, TypeOK, OrderStatuses
  <2>2. task' \in [Tasks -> TaskStatuses \cup {None}] /\ line' \in [Tasks -> TicketStatuses \cup {None}]
    BY <1>2, <1>3, <1>4 DEF Inv, TypeInv, TypeOK
  <2>3. ticket' \in [Tickets -> TicketStatuses \cup {None}]
    BY <1>1, <1>3, <1>5 DEF Inv, TypeInv, TypeOK, TicketStatuses, shows
  <2>4. after' \subseteq Tickets \X Kinds
    BY <1>3, <1>5 DEF Inv, TypeInv, TypeOK, Kinds
  <2> QED  BY <1>3, <2>1, <2>2, <2>3, <2>4 DEF Inv, TypeInv, TypeOK
<1>14. RowLock'  BY <1>9 DEF Inv, OrderInv, RowLock, Moving, Holding
<1>15. ASSUME NEW v \in Workers  PROVE MoveHolds(v)'
  <2>1. CASE v = w  BY <1>9, <2>1 DEF MoveHolds, Moving, Holding
  <2>2. CASE v # w /\ ~Moving(v)  BY <1>9, <2>2 DEF MoveHolds, Moving, Holding
  <2>3. CASE v # w /\ Moving(v)
    <3>1. op[v].order \in Orders
      BY <2>3 DEF Moving, Holding, Inv, TypeInv, Inputs
    <3>2. order'[op[v].order] = order[op[v].order]
      BY <1>2, <1>8, <1>10, <2>3, <3>1
    <3>3. \A u \in Tasks : task[u] # "pending" => task'[u] # "pending"  BY <1>4, <1>11
    <3>4. op'[v] = op[v] /\ MoveHolds(v)  BY <1>9, <2>3 DEF Inv, OrderInv
    <3> QED  BY <2>3, <3>2, <3>3, <3>4 DEF MoveHolds, TasksOf, Moving, Holding
  <2> QED  BY <2>1, <2>2, <2>3
<1>16. StockOnce'
  BY <1>2, <1>3, <1>10 DEF Inv, OrderInv, StockOnce
<1>17. NothingLeftPending'
  <2> SUFFICES ASSUME NEW u \in Tasks, order'[OrderOf[u]] \notin {"accepted", "preparing"}
               PROVE  task'[u] # "pending"
    BY DEF NothingLeftPending
  <2>1. CASE u = t  BY <1>4, <1>11, <2>1
  <2>2. CASE u # t /\ OrderOf[u] = o /\ m # None
    <3>1. m = "ready"  BY <1>2, <1>10, <2>2
    <3> QED  BY <1>2, <1>11, <2>2, <3>1 DEF TasksOf
  <2>3. CASE u # t /\ (OrderOf[u] # o \/ m = None)
    <3>1. order'[OrderOf[u]] = order[OrderOf[u]]  BY <1>10, <2>3
    <3> QED  BY <1>11, <2>3, <3>1 DEF Inv, OrderInv, NothingLeftPending
  <2> QED  BY <2>1, <2>2, <2>3
<1>18. \A j \in Tickets : ticket[j] # None <=> ticket'[j] # None
  BY <1>1, <1>6, <1>12 DEF TicketStatuses, shows
<1>19. Ticketed'
  <2>1. \A u \in Tasks : task'[u] # None => ticket'[TicketOf(u)] # None
    <3> SUFFICES ASSUME NEW u \in Tasks, task'[u] # None  PROVE ticket'[TicketOf(u)] # None
      OBVIOUS
    <3>1. CASE u = t  BY <1>5, <1>6, <1>18, <3>1 DEF k
    <3>2. CASE u # t
      BY <1>11, <1>18, <3>2, TicketTypes DEF Inv, TicketInv, Ticketed
    <3> QED  BY <3>1, <3>2
  <2>2. \A v \in Workers : op'[v].step \in {"task", "ticket", "commit"} =>
                             ticket'[TicketOf(op'[v].task)] # None
    <3> SUFFICES ASSUME NEW v \in Workers, op'[v].step \in {"task", "ticket", "commit"}
                 PROVE  ticket'[TicketOf(op'[v].task)] # None
      OBVIOUS
    <3>1. op'[v] = op[v] /\ op[v].task \in Tasks  BY <1>9 DEF Inv, TypeInv, Inputs
    <3>2. ticket[TicketOf(op[v].task)] # None  BY <3>1 DEF Inv, TicketInv, Ticketed
    <3> QED  BY <1>18, <3>1, <3>2, TicketTypes
  <2> QED  BY <2>1, <2>2 DEF Ticketed
<1>20. ServedWithOrder'
  <2> SUFFICES ASSUME NEW j \in Tickets, ticket'[j] = "served"
               PROVE  order'[j[1]] \in {"served", "completed"}
    BY DEF ServedWithOrder
  <2>1. ticket[j] = "served"  BY <1>1, <1>12 DEF shows
  <2>2. order[j[1]] \in {"served", "completed"} /\ j[1] \in Orders
    BY <2>1, TicketTypes DEF Inv, TicketInv, ServedWithOrder
  <2> QED  BY <1>2, <1>10, <2>2
<1>21. \A j \in Tickets : Voided(j) => Voided(j)'  BY <1>3 DEF Voided
<1>22. CancelledIsVoided'
  <2> SUFFICES ASSUME NEW j \in Tickets, ticket'[j] = "cancelled"
               PROVE  Voided(j)'
    BY DEF CancelledIsVoided
  <2>1. CASE ticket[j] = "cancelled"
    BY <1>21, <2>1 DEF Inv, TicketInv, CancelledIsVoided
  <2>2. CASE ticket[j] # "cancelled"
    <3>1. j = k /\ shows = "cancelled"  BY <1>12, <2>2
    <3> QED  BY <1>3, <3>1 DEF Voided
  <2> QED  BY <2>1, <2>2
<1>23. VoidReachesKitchen'
  <2> SUFFICES ASSUME NEW j \in Tickets, order'[j[1]] = "cancelled",
                      ticket'[j] # None
               PROVE  Voided(j)'
    BY DEF VoidReachesKitchen, Voided
  <2>0. j[1] \in Orders  BY TicketTypes
  <2>1. order[j[1]] = "cancelled"  BY <1>2, <1>10, <2>0
  <2>2. ticket[j] # None  BY <1>18
  <2> QED  BY <1>21, <2>0, <2>1, <2>2 DEF Inv, TicketInv, VoidReachesKitchen, Voided
<1> QED
  BY <1>9, <1>13, <1>14, <1>15, <1>16, <1>17, <1>19, <1>20, <1>22, <1>23
     DEF Inv, TypeInv, OrderInv, TicketInv

\* What is printed or lost has left the process, and nothing else has changed.
LEMMA AfterKeeps ==
  ASSUME Inv, UNCHANGED <<order, stock, task, line, ticket>>,
         \A w \in Workers : op'[w] = op[w] \/ op'[w] = Idle,
         op' \in [Workers -> Ops],
         printed' \cup after' \cup lost' = printed \cup after \cup lost
  PROVE  Inv'
<1>1. TypeInv'
  <2>1. \A w \in Workers : Inputs(op'[w])  BY IdleType DEF Inv, TypeInv
  <2> QED  BY <2>1 DEF Inv, TypeInv, TypeOK
<1>2. OrderInv'
  BY IdleType DEF Inv, OrderInv, RowLock, Moving, Holding, MoveHolds, TasksOf, StockOnce,
                  NothingLeftPending
<1>3. TicketInv'
  BY IdleType DEF Inv, TicketInv, Ticketed, ServedWithOrder, CancelledIsVoided, Voided,
                  VoidReachesKitchen
<1> QED  BY <1>1, <1>2, <1>3 DEF Inv

LEMMA PrintKeeps ==
  ASSUME Inv, NEW j \in Tickets \X Kinds, CreatePrintJob(j) \/ DropPrintJob(j)
  PROVE  Inv'
<1>1. /\ UNCHANGED <<order, stock, task, line, ticket, op>>
      /\ printed' \cup after' \cup lost' = printed \cup after \cup lost
  BY DEF CreatePrintJob, DropPrintJob
<1> QED  BY <1>1, AfterKeeps DEF Inv, TypeInv

LEMMA CrashKeeps == Inv /\ Crash => Inv'
<1> SUFFICES ASSUME Inv, Crash PROVE Inv'  OBVIOUS
<1>1. PICK ws \in SUBSET Workers : op' = [w \in Workers |-> IF w \in ws THEN Idle ELSE op[w]]
  BY DEF Crash
<1>2. /\ UNCHANGED <<order, stock, task, line, ticket, printed>>
      /\ after' \cup lost' = after \cup lost
  BY DEF Crash
<1>3. \A w \in Workers : op'[w] = op[w] \/ op'[w] = Idle  BY <1>1
<1>4. op' \in [Workers -> Ops]  BY <1>1, IdleType DEF Inv, TypeInv
<1> QED  BY <1>2, <1>3, <1>4, AfterKeeps

-----------------------------------------------------------------------------
(* The invariant and what follows from it.                                 *)

LEMMA InvInit == Init => Inv
<1> SUFFICES ASSUME Init PROVE Inv  OBVIOUS
<1> USE PreparationAssumption
<1>1. \A w \in Workers : op[w].step = "none"  BY DEF Init, Idle
<1>2. OrderInv
  BY <1>1 DEF Init, OrderInv, RowLock, Moving, Holding, MoveHolds, StockOnce,
              NothingLeftPending, TaskStatuses
<1>3. TicketInv
  BY <1>1, TicketTypes DEF Init, TicketInv, Ticketed, ServedWithOrder, CancelledIsVoided,
                           VoidReachesKitchen, TicketStatuses
<1> QED  BY <1>2, <1>3, TypeInit DEF Inv

LEMMA InvNext == Inv /\ [Next]_vars => Inv'
<1> SUFFICES ASSUME Inv, [Next]_vars PROVE Inv'  OBVIOUS
<1>1. CASE UNCHANGED vars
  BY <1>1 DEF vars, Inv, TypeInv, TypeOK, OrderInv, RowLock, Moving, Holding, MoveHolds,
              TasksOf, StockOnce, NothingLeftPending, TicketInv, Ticketed, ServedWithOrder,
              CancelledIsVoided, Voided, VoidReachesKitchen
<1>2. CASE Next
  BY <1>2, StartOrderKeeps, StartTaskKeeps, AcceptKeeps, MovesKeep, CancelKeeps,
     UpdateTaskKeeps, SyncTicketKeeps, CommitKeeps, RollBackKeeps, PrintKeeps, CrashKeeps
     DEF Next
<1> QED  BY <1>1, <1>2

LEMMA Invariant == Spec => []Inv
  BY InvInit, InvNext, PTL DEF Spec

\* Statuses are those of the schema, and stock is counted in whole orders.
THEOREM TypeCorrect == Spec => []TypeOK
<1>1. Inv => TypeOK  BY DEF Inv, TypeInv
<1> QED  BY <1>1, Invariant, PTL

\* No order is ready or at an end while a task of it waits at its station.
THEOREM NothingLeftPendingHolds == Spec => []NothingLeftPending
<1>1. Inv => NothingLeftPending  BY DEF Inv, OrderInv
<1> QED  BY <1>1, Invariant, PTL

\* Each ticket of a cancelled order is voided on paper, unless the print job was lost.
THEOREM VoidReachesKitchenHolds == Spec => []VoidReachesKitchen
<1>1. Inv => VoidReachesKitchen  BY DEF Inv, TicketInv
<1> QED  BY <1>1, Invariant, PTL

-----------------------------------------------------------------------------
(* The refinement.                                                         *)

LEMMA LifecycleInit == Init => Lifecycle!Init
  BY DEF Init, Lifecycle!Init

\* An order moves along an edge.
LEMMA EdgeStep ==
  ASSUME Inv, NEW o \in Orders, NEW s, <<order[o], s>> \in Lifecycle!Edges,
         order' = [order EXCEPT ![o] = s], stock' = stock
  PROVE  Lifecycle!Next
<1>1. s \in {e[2] : e \in {e \in Lifecycle!Edges : e[1] = order[o]}}  OBVIOUS
<1>2. Lifecycle!Move(o)  BY <1>1 DEF Lifecycle!Move
<1> QED  BY <1>2 DEF Lifecycle!Next

LEMMA AcceptStep ==
  ASSUME Inv, NEW w \in Workers, Accept(w)
  PROVE  Lifecycle!Next
<1> DEFINE o == op[w].order
           s == IF TasksOf(o) = {} THEN "ready" ELSE "accepted"
<1>1. PICK c \in {"accept", "autoaccept"} : Fresh(w, c)  BY DEF Accept
<1>2. o \in Orders /\ order[o] = "submitted"
  BY <1>1, FreshFacts DEF OrderCommands, Allowed
<1>3. stock[o] = 0  BY <1>2 DEF Inv, OrderInv, StockOnce
<1>4. order' = [order EXCEPT ![o] = s] /\ stock' = [stock EXCEPT ![o] = 1]
  <2>1. order' = [order EXCEPT ![o] = s] /\ stock' = [stock EXCEPT ![o] = @ + 1]
    BY DEF Accept, Moved
  <2>2. stock[o] + 1 = 1  BY <1>3
  <2> QED  BY <2>1, <2>2
<1>5. s \in {"accepted", "ready"}  OBVIOUS
<1> HIDE DEF o, s
<1>6. Lifecycle!Accept(o)  BY <1>2, <1>3, <1>4, <1>5 DEF Lifecycle!Accept
<1> QED  BY <1>2, <1>6 DEF Lifecycle!Next

LEMMA MovesStep ==
  ASSUME Inv, NEW w \in Workers, Reject(w) \/ Serve(w) \/ Complete(w) \/ CancelOrder(w)
  PROVE  Lifecycle!Next
<1> DEFINE o == op[w].order
<1>1. CASE Reject(w)
  <2>1. o \in Orders /\ order[o] = "submitted"
    BY <1>1, FreshFacts DEF Reject, OrderCommands, Allowed
  <2>3. <<order[o], "rejected">> \in Lifecycle!Edges  BY <2>1 DEF Lifecycle!Edges
  <2>2. order' = [order EXCEPT ![o] = "rejected"] /\ stock' = stock
    BY <1>1 DEF Reject, Moved
  <2> QED  BY <2>1, <2>2, <2>3, EdgeStep
<1>2. CASE Serve(w)
  <2>1. o \in Orders /\ order[o] = "ready"
    BY <1>2, FreshFacts DEF Serve, OrderCommands, Allowed
  <2>3. <<order[o], "served">> \in Lifecycle!Edges  BY <2>1 DEF Lifecycle!Edges
  <2>2. order' = [order EXCEPT ![o] = "served"] /\ stock' = stock
    BY <1>2 DEF Serve, Moved
  <2> QED  BY <2>1, <2>2, <2>3, EdgeStep
<1>3. CASE Complete(w)
  <2>1. o \in Orders /\ order[o] = "served"
    BY <1>3, FreshFacts DEF Complete, OrderCommands, Allowed
  <2>3. <<order[o], "completed">> \in Lifecycle!Edges  BY <2>1 DEF Lifecycle!Edges
  <2>2. order' = [order EXCEPT ![o] = "completed"] /\ stock' = stock
    BY <1>3 DEF Complete, Moved
  <2> QED  BY <2>1, <2>2, <2>3, EdgeStep
<1>4. CASE CancelOrder(w)
  <2>1. o \in Orders /\ order[o] \in {"submitted", "accepted", "preparing"}
    BY <1>4, FreshFacts DEF CancelOrder, OrderCommands, Allowed
  <2>2. order' = [order EXCEPT ![o] = "cancelled"] /\ stock' = stock
    BY <1>4 DEF CancelOrder, Moved
  <2>3. <<order[o], "cancelled">> \in Lifecycle!Edges  BY <2>1 DEF Lifecycle!Edges
  <2> QED  BY <2>1, <2>2, <2>3, EdgeStep
<1> QED  BY <1>1, <1>2, <1>3, <1>4

LEMMA CommitStep ==
  ASSUME Inv, NEW w \in Workers, CommitTask(w)
  PROVE  [Lifecycle!Next]_<<order, stock>>
<1> DEFINE o == op[w].order
           m == op[w].moves
<1>1. stock' = stock  BY DEF CommitTask
<1>2. /\ o \in Orders /\ m \in {None, "preparing", "ready"}
      /\ m # None => /\ order' = [order EXCEPT ![o] = m]
                     /\ order[o] \in {"accepted", "preparing"}
                     /\ m = "preparing" => order[o] = "accepted"
      /\ m = None => order' = order
  BY CommitMoves
<1> HIDE DEF o, m
<1>3. m # None => <<order[o], m>> \in Lifecycle!Edges  BY <1>2 DEF Lifecycle!Edges
<1> QED  BY <1>1, <1>2, <1>3, EdgeStep

LEMMA LifecycleStep == Inv /\ [Next]_vars => [Lifecycle!Next]_<<order, stock>>
<1> SUFFICES ASSUME Inv, [Next]_vars PROVE [Lifecycle!Next]_<<order, stock>>  OBVIOUS
<1>1. CASE UNCHANGED vars  BY <1>1 DEF vars
<1>2. CASE Crash \/ \E j \in Tickets \X Kinds : CreatePrintJob(j) \/ DropPrintJob(j)
  BY <1>2 DEF Crash, CreatePrintJob, DropPrintJob
<1>3. ASSUME NEW w \in Workers,
             \/ \E c \in Commands \cap OrderCommands, o \in Orders : StartOrderCommand(w, c, o)
             \/ \E c \in Commands \cap TaskCommands, t \in Tasks : StartTaskCommand(w, c, t)
             \/ UpdateTask(w) \/ SyncTicket(w) \/ RollBack(w)
      PROVE  UNCHANGED <<order, stock>>
  BY <1>3 DEF StartOrderCommand, StartTaskCommand, UpdateTask, SyncTicket, RollBack
<1>4. CASE Next
  BY <1>2, <1>3, <1>4, AcceptStep, MovesStep, CommitStep DEF Next
<1> QED  BY <1>1, <1>4

\* Requests and tasks together implement the lifecycle of an order, whose stock is taken
\* in the very step that accepts it.
THEOREM LifecycleImplemented == Spec => LifecycleSpec
<1>1. Spec => [][Lifecycle!Next]_<<order, stock>>
  BY Invariant, LifecycleStep, PTL DEF Spec
<1> QED  BY <1>1, LifecycleInit, PTL DEF Spec, LifecycleSpec, Lifecycle!Spec
=============================================================================
