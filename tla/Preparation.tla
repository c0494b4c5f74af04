------------------------------ MODULE Preparation ------------------------------
(***************************************************************************)
(* Submitted orders and what becomes of them: the cashier or the smart     *)
(* cashier accepts an order, which creates a preparation task for each     *)
(* item and a kitchen ticket for each station; the stations start, finish  *)
(* or cancel tasks; the order follows its tasks; staff serve, complete or  *)
(* cancel it.  Every request is a transaction at READ COMMITTED: it reads  *)
(* without locks, and what it has written is seen when it commits.         *)
(***************************************************************************)
EXTENDS Integers, FiniteSets

CONSTANTS Orders, Tasks,        \* a task is named by the item it prepares
          OrderOf, StationOf,   \* of each task
          Workers, Commands,    \* the requests in progress, and their kinds
          None

TaskStatuses == {"pending", "preparing", "ready", "cancelled"}
OrderStatuses == {"submitted", "accepted", "preparing", "ready", "served",
                  "completed", "rejected", "cancelled"}
TicketStatuses == {"queued", "in_progress", "ready", "served", "cancelled"}

ASSUME PreparationAssumption ==
  /\ OrderOf \in [Tasks -> Orders]
  /\ None \notin Tasks \cup TaskStatuses \cup TicketStatuses

VARIABLES order,    \* status of each order
          stock,    \* how often the stock of each order has been taken
          task,     \* status of the preparation task of each item
          line,     \* status of the item on its kitchen ticket
          ticket,   \* status of the ticket of each order and station
          printed,  \* print jobs created
          after,    \* work that a committed request has left to its process
          lost,     \* history: print jobs that were left so and then dropped
          op        \* the requests

vars == <<order, stock, task, line, ticket, printed, after, lost, op>>

TasksOf(o) == {t \in Tasks : OrderOf[t] = o}
TicketOf(t) == <<OrderOf[t], StationOf[t]>>
Tickets == {TicketOf(t) : t \in Tasks}
TicketsOf(o) == {k \in Tickets : k[1] = o}
LinesOf(k) == {t \in Tasks : TicketOf(t) = k}
Kinds == {"order", "void"}

OrderCommands == {"accept", "autoaccept", "reject", "serve", "complete", "cancel"}
TaskCommands == {"start", "finish", "drop"}

Idle == [cmd |-> "none", step |-> "none", order |-> None, task |-> None,
         seen |-> "none", moves |-> None, shows |-> None]

Init ==
  /\ order = [o \in Orders |-> "submitted"]
  /\ stock = [o \in Orders |-> 0]
  /\ task = [t \in Tasks |-> None]
  /\ line = [t \in Tasks |-> None]
  /\ ticket = [k \in Tickets |-> None]
  /\ printed = {} /\ after = {} /\ lost = {}
  /\ op = [w \in Workers |-> Idle]

-----------------------------------------------------------------------------
(* Row locks: a task, and an order whose status the request moves, from    *)
(* the update to the commit.                                               *)

Holding(w) == op[w].step \in {"ticket", "commit"}
TaskFree(t) == \A w \in Workers : ~(Holding(w) /\ op[w].task = t)
OrderFree(o) == \A w \in Workers : ~(Holding(w) /\ op[w].order = o /\ op[w].moves # None)

-----------------------------------------------------------------------------
(* Requests about a whole order.                                           *)

Allowed(c) == CASE c \in {"accept", "autoaccept", "reject"} -> {"submitted"}
                [] c = "serve"    -> {"ready"}
                [] c = "complete" -> {"served"}
                [] c = "cancel"   -> {"submitted", "accepted", "preparing"}

\* The request reads the order and checks the transition.
StartOrderCommand(w, c, o) ==
  /\ op[w].cmd = "none" /\ order[o] \in Allowed(c)
  /\ op' = [op EXCEPT ![w] = [Idle EXCEPT !.cmd = c, !.step = "update",
                                          !.order = o, !.seen = order[o]]]
  /\ UNCHANGED <<order, stock, task, line, ticket, printed, after, lost>>

\* Mutant: the update does not depend on the status read.
FreshAtAnyStatus(w, c) ==
  op[w].cmd = c /\ op[w].step = "update" /\ OrderFree(op[w].order)

\* updateMany ... where status = the status read: it waits for the row.
Fresh(w, c) ==
  /\ op[w].cmd = c /\ op[w].step = "update"
  /\ OrderFree(op[w].order) /\ order[op[w].order] = op[w].seen

Moved(o, s) == [order EXCEPT ![o] = s]
Done(w) == op' = [op EXCEPT ![w] = Idle]

\* Tasks, tickets and stock come with the acceptance, in one transaction; the
\* first prints come with it only when the smart cashier accepts.
Accept(w) ==
  LET o == op[w].order
      prints == TicketsOf(o) \X {"order"} IN
  /\ Fresh(w, "accept") \/ Fresh(w, "autoaccept")
  /\ order' = Moved(o, IF TasksOf(o) = {} THEN "ready" ELSE "accepted")
  /\ stock' = [stock EXCEPT ![o] = @ + 1]
  /\ task' = [t \in Tasks |-> IF t \in TasksOf(o) THEN "pending" ELSE task[t]]
  /\ line' = [t \in Tasks |-> IF t \in TasksOf(o) THEN "queued" ELSE line[t]]
  /\ ticket' = [k \in Tickets |-> IF k \in TicketsOf(o) THEN "queued" ELSE ticket[k]]
  /\ IF op[w].cmd = "accept" THEN after' = after \cup prints /\ UNCHANGED printed
                             ELSE printed' = printed \cup prints /\ UNCHANGED after
  /\ Done(w) /\ UNCHANGED lost

Reject(w) ==
  /\ Fresh(w, "reject") /\ order' = Moved(op[w].order, "rejected")
  /\ Done(w) /\ UNCHANGED <<stock, task, line, ticket, printed, after, lost>>

Serve(w) ==
  /\ Fresh(w, "serve") /\ order' = Moved(op[w].order, "served")
  /\ ticket' = [k \in Tickets |-> IF k \in TicketsOf(op[w].order) /\ ticket[k] = "ready"
                                  THEN "served" ELSE ticket[k]]
  /\ Done(w) /\ UNCHANGED <<stock, task, line, printed, after, lost>>

Complete(w) ==
  /\ Fresh(w, "complete") /\ order' = Moved(op[w].order, "completed")
  /\ Done(w) /\ UNCHANGED <<stock, task, line, ticket, printed, after, lost>>

\* The tasks still at work are cancelled with the order.  A ticket whose last line
\* goes that way is voided on paper after the commit; any other open ticket, or one
\* that has only finished lines left, is cancelled whole and voided within the
\* transaction.
CancelOrder(w) ==
  LET o == op[w].order
      stopped == {t \in TasksOf(o) : task[t] \in {"pending", "preparing"}}
      emptied == {k \in TicketsOf(o) :
                    /\ LinesOf(k) \cap stopped # {}
                    /\ \A t \in LinesOf(k) \ stopped : line[t] = "cancelled"}
      finished == {k \in TicketsOf(o) \ emptied :
                    /\ LinesOf(k) \cap stopped # {}
                    /\ \A t \in LinesOf(k) \ stopped : line[t] \in {"ready", "cancelled"}}
      closed == finished \cup {k \in TicketsOf(o) \ emptied :
                                 ticket[k] \notin {None, "cancelled", "served"}} IN
  /\ Fresh(w, "cancel") /\ \A t \in stopped : TaskFree(t)
  /\ order' = Moved(o, "cancelled")
  /\ task' = [t \in Tasks |-> IF t \in stopped THEN "cancelled" ELSE task[t]]
  /\ line' = [t \in Tasks |-> IF t \in stopped \/ TicketOf(t) \in closed
                              THEN "cancelled" ELSE line[t]]
  /\ ticket' = [k \in Tickets |-> IF k \in emptied \cup closed
                                  THEN "cancelled" ELSE ticket[k]]
  /\ after' = after \cup (emptied \X {"void"})
  /\ printed' = printed \cup (closed \X {"void"})
  /\ Done(w) /\ UNCHANGED <<stock, lost>>

\* Another request was first, the stock does not suffice, the ticket's number is
\* taken, the database chooses the request as the victim of a deadlock: whatever the
\* reason, a transaction that does not commit has changed nothing.
RollBack(w) ==
  /\ op[w].cmd # "none" /\ Done(w)
  /\ UNCHANGED <<order, stock, task, line, ticket, printed, after, lost>>

-----------------------------------------------------------------------------
(* Requests about one task.                                                *)

\* The task and its order are read together.
StartTaskCommand(w, c, t) ==
  LET o == OrderOf[t] IN
  /\ op[w].cmd = "none"
  /\ order[o] \in (IF c = "drop" THEN {"accepted", "preparing", "ready"}
                                 ELSE {"accepted", "preparing"})
  /\ task[t] \in (IF c = "start" THEN {"pending"} ELSE {"pending", "preparing"})
  /\ op' = [op EXCEPT ![w] = [Idle EXCEPT !.cmd = c, !.step = "task",
                                          !.order = o, !.task = t]]
  /\ UNCHANGED <<order, stock, task, line, ticket, printed, after, lost>>

TaskResult(c) ==
  CASE c = "start" -> "preparing" [] c = "finish" -> "ready" [] c = "drop" -> "cancelled"

\* Mutant: a task that nobody has taken up counts as done.
OthersNotAtWork(t) == \A u \in TasksOf(OrderOf[t]) \ {t} : task[u] # "preparing"

\* syncOrderPreparationReady reads the tasks as committed, but for the request's own.
OthersReady(t) ==
  \A u \in TasksOf(OrderOf[t]) \ {t} : task[u] \in {"ready", "cancelled"}

\* Where the request moves the order, if it does.
OrderMove(c, t) ==
  CASE c = "start" /\ order[OrderOf[t]] = "accepted" -> "preparing"
    [] c = "finish" /\ order[OrderOf[t]] \in {"accepted", "preparing"}
                    /\ OthersReady(t) -> "ready"
    [] OTHER -> None

\* The task is updated without a condition on its status, then the order with one.
UpdateTask(w) ==
  LET t == op[w].task
      move == OrderMove(op[w].cmd, t) IN
  /\ op[w].step = "task" /\ TaskFree(t)
  /\ move # None => OrderFree(OrderOf[t])
  /\ op' = [op EXCEPT ![w].step = "ticket", ![w].moves = move]
  /\ UNCHANGED <<order, stock, task, line, ticket, printed, after, lost>>

\* Mutant: the line has the status of the task.
LineLikeTask(c) == TaskResult(c)

LineResult(c) ==
  CASE c = "start" -> "in_progress" [] c = "finish" -> "ready" [] c = "drop" -> "cancelled"

\* The ticket's new status by its lines, the request's own line among them.
TicketMove(c, t) ==
  LET k == TicketOf(t)
      seen == [u \in LinesOf(k) |-> IF u = t THEN LineResult(c) ELSE line[u]]
      active == {u \in LinesOf(k) : seen[u] # "cancelled"} IN
  CASE c = "start" -> IF ticket[k] = "queued" THEN "in_progress" ELSE None
    [] c # "start" /\ active = {} -> "cancelled"
    [] c # "start" /\ active # {} /\ \A u \in active : seen[u] = "ready" -> "ready"
    [] OTHER -> IF ticket[k] = "queued" /\ \E u \in active : seen[u] = "in_progress"
                THEN "in_progress" ELSE None

SyncTicket(w) ==
  /\ op[w].step = "ticket"
  /\ op' = [op EXCEPT ![w].step = "commit", ![w].shows = TicketMove(op[w].cmd, op[w].task)]
  /\ UNCHANGED <<order, stock, task, line, ticket, printed, after, lost>>

\* Mutant: the ticket that is cancelled with its last line is not voided on paper.
CommitTaskUnvoided(w) ==
  LET t == op[w].task IN
  /\ op[w].step = "commit"
  /\ task' = [task EXCEPT ![t] = TaskResult(op[w].cmd)]
  /\ line' = [line EXCEPT ![t] = LineResult(op[w].cmd)]
  /\ order' = IF op[w].moves = None THEN order ELSE Moved(OrderOf[t], op[w].moves)
  /\ ticket' = IF op[w].shows = None THEN ticket
               ELSE [ticket EXCEPT ![TicketOf(t)] = op[w].shows]
  /\ Done(w) /\ UNCHANGED <<stock, printed, after, lost>>

CommitTask(w) ==
  LET t == op[w].task
      k == TicketOf(t) IN
  /\ op[w].step = "commit"
  /\ task' = [task EXCEPT ![t] = TaskResult(op[w].cmd)]
  /\ line' = [line EXCEPT ![t] = LineResult(op[w].cmd)]
  /\ order' = IF op[w].moves = None THEN order ELSE Moved(OrderOf[t], op[w].moves)
  /\ ticket' = IF op[w].shows = None THEN ticket
               ELSE [ticket EXCEPT ![k] = op[w].shows]
  /\ after' = IF op[w].shows = "cancelled" THEN after \cup {<<k, "void">>} ELSE after
  /\ Done(w) /\ UNCHANGED <<stock, printed, lost>>

-----------------------------------------------------------------------------
(* Work after the commit, and the process that has it in memory.           *)

CreatePrintJob(j) ==
  /\ j \in after /\ after' = after \ {j} /\ printed' = printed \cup {j}
  /\ UNCHANGED <<order, stock, task, line, ticket, lost, op>>

\* The job has a transaction of its own.  When that fails the error is caught and
\* logged, and nothing tries again.
DropPrintJob(j) ==
  /\ j \in after /\ after' = after \ {j} /\ lost' = lost \cup {j}
  /\ UNCHANGED <<order, stock, task, line, ticket, printed, op>>

\* A process dies with what it had in memory; its transactions are rolled back.
Crash ==
  /\ \E js \in SUBSET after : after' = after \ js /\ lost' = lost \cup js
  /\ \E ws \in SUBSET Workers : op' = [w \in Workers |-> IF w \in ws THEN Idle ELSE op[w]]
  /\ UNCHANGED <<order, stock, task, line, ticket, printed>>

Next ==
  \/ \E w \in Workers :
       \/ \E c \in Commands \cap OrderCommands, o \in Orders : StartOrderCommand(w, c, o)
       \/ \E c \in Commands \cap TaskCommands, t \in Tasks : StartTaskCommand(w, c, t)
       \/ Accept(w) \/ Reject(w) \/ Serve(w) \/ Complete(w) \/ CancelOrder(w)
       \/ UpdateTask(w) \/ SyncTicket(w) \/ CommitTask(w) \/ RollBack(w)
  \/ \E j \in Tickets \X Kinds : CreatePrintJob(j) \/ DropPrintJob(j)
  \/ Crash

Spec == Init /\ [][Next]_vars

-----------------------------------------------------------------------------
(* Properties.                                                             *)

TypeOK ==
  /\ order \in [Orders -> OrderStatuses] /\ stock \in [Orders -> Nat]
  /\ task \in [Tasks -> TaskStatuses \cup {None}]
  /\ line \in [Tasks -> TicketStatuses \cup {None}]
  /\ ticket \in [Tickets -> TicketStatuses \cup {None}]
  /\ printed \subseteq Tickets \X Kinds /\ after \subseteq Tickets \X Kinds
  /\ lost \subseteq Tickets \X Kinds

\* No request, however stale what it has read, leaves untouched work behind: when an
\* order is ready or has ended, each of its tasks has been taken up or cancelled.
\* About syncOrderPreparationReady and cancelActiveTasksForOrderCancellation, which
\* race with the acceptance and with each other.
NothingLeftPending ==
  \A t \in Tasks : order[OrderOf[t]] \notin {"accepted", "preparing"} => task[t] # "pending"

\* The kitchen has paper, or will have, that voids each ticket of a cancelled order,
\* unless that very job was created after the commit and then lost: its transaction
\* failed, or its process died.  About the cancellation of a ticket's last task, whose
\* void is left to the process, and of the order, which voids the ticket within its
\* transaction unless the tasks it stops are the last.
VoidReachesKitchen ==
  \A k \in Tickets : order[k[1]] = "cancelled" /\ ticket[k] # None =>
                     <<k, "void">> \in printed \cup after \cup lost

Lifecycle == INSTANCE OrderLifecycle WITH status <- order, taken <- stock

\* However the cashier, the smart cashier and the stations race, an order moves along
\* its lifecycle, is accepted once and has its stock taken once, then.
LifecycleSpec == Lifecycle!Spec
=============================================================================
