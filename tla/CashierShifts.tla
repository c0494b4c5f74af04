----------------------------- MODULE CashierShifts -----------------------------
(***************************************************************************)
(* The cashier shifts of one branch.  A shift is opened with a float,      *)
(* takes the payments that the cashier records and the adjustments of the  *)
(* drawer, and is closed with a Z report.  All of these hold the branch's  *)
(* advisory lock from their first read of the shift to the commit.  Online *)
(* payments do not: a report counts them by the time of their success.     *)
(***************************************************************************)
EXTENDS Integers, FiniteSets

CONSTANTS Shifts, Bills, Amount,          \* what each bill asks for
          Floats, Adjustments, Counts,    \* what the cashier may enter
          MaxTime, MaxDrawer, MaxSuccesses, Workers, None

ASSUME CashierShiftsAssumption ==
  /\ IsFiniteSet(Bills) /\ Amount \in [Bills -> Nat]
  /\ Floats \subseteq Nat /\ Adjustments \subseteq Int /\ Counts \subseteq Nat
  /\ MaxTime \in Nat /\ MaxDrawer \in Nat /\ MaxSuccesses \in Nat
  /\ None \notin Shifts /\ None \notin Bills /\ "online" \notin Shifts
  /\ None \notin {"open", "closed", "online"}

VARIABLES clock,     \* the time the processes write
          status,    \* of each shift, None until it is opened
          float, openedAt, closedAt,
          rows,      \* sums of the payments and drawer rows attached to each shift
          cached,    \* the totals kept on the shift itself
          z,         \* the Z report of each shift
          paidOn,    \* what settled each bill: a shift's manual payment, or "online"
          online,    \* the times at which online payments of each bill succeeded
          op         \* the requests

vars == <<clock, status, float, openedAt, closedAt, rows, cached, z, paidOn, online, op>>

\* Payments in cash and by other tenders, their number, the adjustments of the drawer,
\* and all rows of the drawer together; the totals have the number of bills too.
NoRows == [cash |-> 0, other |-> 0, count |-> 0, adjusted |-> 0, drawer |-> 0]
NoTotals == [cash |-> 0, other |-> 0, count |-> 0, bills |-> 0, expected |-> 0]
NoReport == [totals |-> NoTotals, short |-> 0, online |-> {}]
Idle == [cmd |-> "none", step |-> "none", shift |-> None, bill |-> None,
         amount |-> 0, method |-> "none", at |-> 0, totals |-> NoTotals,
         online |-> {}]

Init ==
  /\ clock = 0
  /\ status = [s \in Shifts |-> None]
  /\ float = [s \in Shifts |-> 0]
  /\ openedAt = [s \in Shifts |-> 0] /\ closedAt = [s \in Shifts |-> 0]
  /\ rows = [s \in Shifts |-> NoRows]
  /\ cached = [s \in Shifts |-> NoTotals]
  /\ z = [s \in Shifts |-> NoReport]
  /\ paidOn = [b \in Bills |-> None]
  /\ online = [b \in Bills |-> {}]
  /\ op = [w \in Workers |-> Idle]

Payable(b) == paidOn[b] = None
Begin(w, r) == op[w].cmd = "none" /\ op' = [op EXCEPT ![w] = r]
Done(w) == op' = [op EXCEPT ![w] = Idle]

Tick ==
  /\ clock < MaxTime /\ clock' = clock + 1
  /\ UNCHANGED <<status, float, openedAt, closedAt, rows, cached, z, paidOn, online, op>>

\* A request is refused, or its transaction does not commit.
RollBack(w) ==
  /\ op[w].cmd # "none" /\ Done(w)
  /\ UNCHANGED <<clock, status, float, openedAt, closedAt, rows, cached, z, paidOn, online>>

-----------------------------------------------------------------------------
(* The requests, up to the branch's lock.                                  *)

StartOpen(w, f) ==
  /\ Begin(w, [Idle EXCEPT !.cmd = "open", !.step = "lock", !.amount = f])
  /\ UNCHANGED <<clock, status, float, openedAt, closedAt, rows, cached, z, paidOn, online>>

StartAdjust(w, s, a) ==
  /\ status[s] # None
  /\ rows[s].adjusted + a \in (-MaxDrawer) .. MaxDrawer     \* a bound of the model
  /\ Begin(w, [Idle EXCEPT !.cmd = "adjust", !.step = "lock", !.shift = s, !.amount = a])
  /\ UNCHANGED <<clock, status, float, openedAt, closedAt, rows, cached, z, paidOn, online>>

StartClose(w, s, counted) ==
  /\ status[s] # None
  /\ Begin(w, [Idle EXCEPT !.cmd = "close", !.step = "lock", !.shift = s,
                           !.amount = counted])
  /\ UNCHANGED <<clock, status, float, openedAt, closedAt, rows, cached, z, paidOn, online>>

\* The bill is read before the lock is asked for.
StartPayment(w, b, m) ==
  /\ Payable(b)
  /\ Begin(w, [Idle EXCEPT !.cmd = "pay", !.step = "lock", !.bill = b, !.method = m,
                           !.amount = Amount[b]])
  /\ UNCHANGED <<clock, status, float, openedAt, closedAt, rows, cached, z, paidOn, online>>

\* The commands that hold the branch's lock, from before they read to the commit.
Locked(w) == op[w].step \in {"locked", "write"}

TakeLock(w) ==
  /\ op' = [op EXCEPT ![w].step = "locked"]
  /\ UNCHANGED <<clock, status, float, openedAt, closedAt, rows, cached, z, paidOn, online>>

\* Mutants: one of the commands does not wait for the others.
LockUnlessOpening(w) ==
  op[w].step = "lock" /\ (op[w].cmd = "open" \/ \A v \in Workers : ~Locked(v)) /\ TakeLock(w)
LockUnlessAdjusting(w) ==
  op[w].step = "lock" /\ (op[w].cmd = "adjust" \/ \A v \in Workers : ~Locked(v)) /\ TakeLock(w)
LockUnlessClosing(w) ==
  op[w].step = "lock" /\ (op[w].cmd = "close" \/ \A v \in Workers : ~Locked(v)) /\ TakeLock(w)
LockUnlessPaying(w) ==
  op[w].step = "lock" /\ (op[w].cmd = "pay" \/ \A v \in Workers : ~Locked(v)) /\ TakeLock(w)

LockBranchShift(w) ==
  /\ op[w].step = "lock" /\ \A v \in Workers : ~Locked(v)
  /\ TakeLock(w)

-----------------------------------------------------------------------------
(* Under the lock: each command reads, and then writes and commits.        *)

Reads(w, c) == op[w].cmd = c /\ op[w].step = "locked"
Writes(w, c) == op[w].cmd = c /\ op[w].step = "write"
OpenShifts == {s \in Shifts : status[s] = "open"}

BillsOn(s) == {b \in Bills : paidOn[b] = s}

\* The bills that a report whose window is from .. to finds paid online.
OnlineBetween(from, to) == {b \in Bills : \E t \in online[b] : from <= t /\ t <= to}

\* Mutant: the adjustments of the drawer count as sales.
TotalsWithAdjustments(s, r, on) ==
  [cash |-> r.cash + r.adjusted, other |-> r.other, count |-> r.count,
   bills |-> Cardinality(BillsOn(s) \cup on), expected |-> float[s] + r.cash + r.adjusted]

\* The totals of a shift as they are computed from its rows: the bills paid online in its
\* window are counted with those paid on the shift, each once.
Totals(s, r, on) ==
  [cash |-> r.cash, other |-> r.other, count |-> r.count,
   bills |-> Cardinality(BillsOn(s) \cup on), expected |-> float[s] + r.cash + r.adjusted]

FindNoOpenShift(w) ==
  /\ Reads(w, "open") /\ OpenShifts = {}
  /\ op' = [op EXCEPT ![w].step = "write"]
  /\ UNCHANGED <<clock, status, float, openedAt, closedAt, rows, cached, z, paidOn, online>>

\* The float is a row of the drawer, and the totals are computed from that.  An index of
\* the database allows one open shift.
Open(w, s) ==
  /\ Writes(w, "open") /\ status[s] = None /\ OpenShifts = {}
  /\ status' = [status EXCEPT ![s] = "open"]
  /\ float' = [float EXCEPT ![s] = op[w].amount]
  /\ openedAt' = [openedAt EXCEPT ![s] = clock]
  /\ rows' = [rows EXCEPT ![s] = [NoRows EXCEPT !.drawer = op[w].amount]]
  /\ cached' = [cached EXCEPT ![s] = [cash |-> 0, other |-> 0, count |-> 0,
                  bills |-> Cardinality(OnlineBetween(clock, clock)),
                  expected |-> op[w].amount]]
  /\ Done(w) /\ UNCHANGED <<clock, closedAt, z, paidOn, online>>

\* The cached totals are computed again from the rows, the new one included.
Adjusted(r, a) == [cash |-> r.cash, other |-> r.other, count |-> r.count,
                   adjusted |-> r.adjusted + a, drawer |-> r.drawer + a]

RefreshCachedShiftTotals(w) ==
  LET s == op[w].shift
      on == OnlineBetween(openedAt[s], clock) IN
  /\ Reads(w, "adjust") /\ status[s] = "open"
  /\ op' = [op EXCEPT ![w].step = "write",
                      ![w].totals = Totals(s, Adjusted(rows[s], op[w].amount), on)]
  /\ UNCHANGED <<clock, status, float, openedAt, closedAt, rows, cached, z, paidOn, online>>

CreateCashAdjustment(w) ==
  LET s == op[w].shift IN
  /\ Writes(w, "adjust")
  /\ rows' = [rows EXCEPT ![s] = Adjusted(@, op[w].amount)]
  /\ cached' = [cached EXCEPT ![s] = op[w].totals]
  /\ Done(w) /\ UNCHANGED <<clock, status, float, openedAt, closedAt, z, paidOn, online>>

GetOpenShiftForPayment(w, s) ==
  /\ Reads(w, "pay") /\ s \in OpenShifts
  /\ op' = [op EXCEPT ![w].step = "write", ![w].shift = s]
  /\ UNCHANGED <<clock, status, float, openedAt, closedAt, rows, cached, z, paidOn, online>>

\* A payment of this much in cash and that much by other tenders: a cash payment is a
\* row of the drawer too, and the cached totals are incremented.
Paid(r, cash, other) ==
  [cash |-> r.cash + cash, other |-> r.other + other, count |-> r.count + 1,
   adjusted |-> r.adjusted, drawer |-> r.drawer + cash]
PaidTotals(t, cash, other) ==
  [cash |-> t.cash + cash, other |-> t.other + other, count |-> t.count + 1,
   bills |-> t.bills + 1, expected |-> t.expected + cash]

CashPart(r) == IF r.method = "cash" THEN r.amount ELSE 0
OtherPart(r) == IF r.method = "cash" THEN 0 ELSE r.amount

\* The bill is settled only if it is still due.
RecordManualPayment(w) ==
  LET s == op[w].shift
      cash == CashPart(op[w])
      other == OtherPart(op[w]) IN
  /\ Writes(w, "pay") /\ Payable(op[w].bill)
  /\ paidOn' = [paidOn EXCEPT ![op[w].bill] = s]
  /\ rows' = [rows EXCEPT ![s] = Paid(@, cash, other)]
  /\ cached' = [cached EXCEPT ![s] = PaidTotals(@, cash, other)]
  /\ Done(w) /\ UNCHANGED <<clock, status, float, openedAt, closedAt, z, online>>

\* The report is computed from the rows.
BuildReportSnapshot(w) ==
  LET s == op[w].shift
      on == OnlineBetween(openedAt[s], clock) IN
  /\ Reads(w, "close") /\ status[s] = "open"
  /\ op' = [op EXCEPT ![w].step = "write", ![w].at = clock,
                      ![w].totals = Totals(s, rows[s], on), ![w].online = on]
  /\ UNCHANGED <<clock, status, float, openedAt, closedAt, rows, cached, z, paidOn, online>>

\* The cashier's count is compared with the cash expected.
Close(w) ==
  LET s == op[w].shift
      t == op[w].totals IN
  /\ Writes(w, "close")
  /\ status' = [status EXCEPT ![s] = "closed"]
  /\ closedAt' = [closedAt EXCEPT ![s] = op[w].at]
  /\ z' = [z EXCEPT ![s] = [totals |-> t, short |-> op[w].amount - t.expected,
                            online |-> op[w].online]]
  /\ cached' = [cached EXCEPT ![s] = t]
  /\ Done(w) /\ UNCHANGED <<clock, float, openedAt, rows, paidOn, online>>

-----------------------------------------------------------------------------
(* Online payments do not wait for the branch's lock.                      *)

\* A success that took the time t, some time ago, is recorded, with the settlement of the
\* bill or without: that is skipped when the bill is paid, and when its status, of which
\* only this much is modelled here, or its balance has become another.
SettleOnlinePayment(b, t) ==
  /\ Cardinality(UNION {{c} \X online[c] : c \in Bills}) < MaxSuccesses   \* a bound
  /\ online' = [online EXCEPT ![b] = @ \cup {t}]
  /\ \/ Payable(b) /\ paidOn' = [paidOn EXCEPT ![b] = "online"]
     \/ UNCHANGED paidOn
  /\ UNCHANGED <<clock, status, float, openedAt, closedAt, rows, cached, z, op>>

Next ==
  \/ Tick
  \/ \E w \in Workers :
       \/ \E f \in Floats : StartOpen(w, f)
       \/ \E s \in Shifts, a \in Adjustments : StartAdjust(w, s, a)
       \/ \E s \in Shifts, c \in Counts : StartClose(w, s, c)
       \/ \E b \in Bills, m \in {"cash", "other"} : StartPayment(w, b, m)
       \/ LockBranchShift(w)
       \/ FindNoOpenShift(w) \/ \E s \in Shifts : Open(w, s)
       \/ RefreshCachedShiftTotals(w) \/ CreateCashAdjustment(w)
       \/ \E s \in Shifts : GetOpenShiftForPayment(w, s)
       \/ RecordManualPayment(w) \/ BuildReportSnapshot(w) \/ Close(w)
       \/ RollBack(w)
  \/ \E b \in Bills, t \in 0 .. clock : SettleOnlinePayment(b, t)

Spec == Init /\ [][Next]_vars

-----------------------------------------------------------------------------
(* Properties.                                                             *)

Rows == [cash : Nat, other : Nat, count : Nat, adjusted : Int, drawer : Int]
TotalsType == [cash : Nat, other : Nat, count : Nat, bills : Nat, expected : Int]
Reports == [totals : TotalsType, short : Int, online : SUBSET Bills]

TypeOK ==
  /\ clock \in Nat
  /\ status \in [Shifts -> {None, "open", "closed"}]
  /\ float \in [Shifts -> Nat]
  /\ openedAt \in [Shifts -> Nat] /\ closedAt \in [Shifts -> Nat]
  /\ rows \in [Shifts -> Rows] /\ cached \in [Shifts -> TotalsType]
  /\ z \in [Shifts -> Reports]
  /\ paidOn \in [Bills -> Shifts \cup {None, "online"}]
  /\ online \in [Bills -> SUBSET Nat]

\* Of two cashiers who open a shift at once the second is told that one is open, and does
\* not run into the index of the database: what open() has found under the branch's lock
\* is still so when it creates the shift.
OpenNeverCollides == \A w \in Workers : Writes(w, "open") => OpenShifts = {}

\* The sums of money and the number of payments on the shift, which payments increment
\* and adjustments recompute, are those of its payments, each of another bill, and of its
\* drawer, whatever runs at the same time: the cash expected is the sum of the drawer's
\* rows.
MoneyIsRows(s) ==
  /\ cached[s].cash = rows[s].cash /\ cached[s].other = rows[s].other
  /\ cached[s].count = rows[s].count /\ rows[s].count = Cardinality(BillsOn(s))
  /\ cached[s].expected = rows[s].drawer
  /\ rows[s].drawer = float[s] + rows[s].cash + rows[s].adjusted

\* The number of bills on the shift is not that of a report: payments add one to it, while
\* opening, adjustments and closing count the bills paid online as well.  It is at least
\* the number of payments, and more by no more than the bills paid online in the window.
WindowEnd(s) == IF status[s] = "closed" THEN closedAt[s] ELSE clock
BillsAreBounded(s) ==
  /\ rows[s].count <= cached[s].bills
  /\ cached[s].bills <= rows[s].count
                        + Cardinality(OnlineBetween(openedAt[s], WindowEnd(s)))

\* The totals kept on a shift agree with its payments, its drawer and the online payments,
\* as far as the code makes them: money and payments exactly, bills within these bounds.
TotalsAreRows == \A s \in Shifts : MoneyIsRows(s) /\ BillsAreBounded(s)

\* The Z report of a closed shift covers every payment and drawer row attached to the
\* shift: none slipped in between the report and the closing, nor after it.  Its bills are
\* those of these payments and of the online payments that it lists, each once, and those
\* succeeded while the shift was open (it may miss some).
ZReportCovers ==
  \A s \in Shifts : status[s] = "closed" =>
    /\ z[s].totals.cash = rows[s].cash /\ z[s].totals.other = rows[s].other
    /\ z[s].totals.count = rows[s].count /\ z[s].totals.expected = rows[s].drawer
    /\ z[s].totals.bills = Cardinality(BillsOn(s) \cup z[s].online)
    /\ z[s].online \subseteq OnlineBetween(openedAt[s], closedAt[s])

\* No request, started before the closing or after it, changes a closed shift, its rows
\* or its report: "After close, no new payments can attach to that shift".
ClosedShiftIsFrozen ==
  [][\A s \in Shifts : status[s] = "closed" =>
       /\ status'[s] = "closed" /\ rows'[s] = rows[s] /\ z'[s] = z[s]
       /\ cached'[s] = cached[s] /\ closedAt'[s] = closedAt[s]
       /\ BillsOn(s)' = BillsOn(s)]_vars
=============================================================================
