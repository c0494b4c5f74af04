-------------------------- MODULE CashierShiftsProofs --------------------------
(***************************************************************************)
(* What CashierShifts keeps for any number of shifts, bills and cashiers.  *)
(* Whoever is past the branch's lock is alone there, and what it has read  *)
(* of a shift remains true until it commits.                               *)
(***************************************************************************)
EXTENDS CashierShifts, FiniteSetTheorems, TLAPS

-----------------------------------------------------------------------------
(* The inductive invariant.                                                *)

Ops == [cmd : {"none", "open", "adjust", "close", "pay"},
        step : {"none", "lock", "locked", "write"},
        shift : Shifts \cup {None}, bill : Bills \cup {None}, amount : Int,
        method : {"none", "cash", "other"}, at : Nat, totals : TotalsType,
        online : SUBSET Bills]

\* What a command has been given, and what it finds before it writes.
Inputs(r) ==
  /\ r.cmd \in {"open", "pay"} => r.amount \in Nat
  /\ r.cmd \in {"adjust", "close"} => r.shift \in Shifts
  /\ r.cmd = "pay" => r.bill \in Bills
  /\ r.cmd = "none" => r.step = "none"
  /\ r.cmd = "pay" /\ r.step = "write" => r.shift \in Shifts

TypeInv == TypeOK /\ op \in [Workers -> Ops] /\ \A w \in Workers : Inputs(op[w])

Mutex == \A v, w \in Workers : Locked(v) /\ Locked(w) => v = w

\* What has been read under the lock is still so.
ReadHolds(w) ==
  op[w].step = "write" =>
    LET s == op[w].shift IN
    /\ op[w].cmd = "open" => OpenShifts = {}
    /\ op[w].cmd \in {"adjust", "pay", "close"} => status[s] = "open"
    /\ op[w].cmd = "adjust" =>
         \E on \in SUBSET OnlineBetween(openedAt[s], clock) :
           op[w].totals = Totals(s, Adjusted(rows[s], op[w].amount), on)
    /\ op[w].cmd = "close" =>
         /\ op[w].totals = Totals(s, rows[s], op[w].online)
         /\ op[w].online \subseteq OnlineBetween(openedAt[s], op[w].at)

Unopened(s) == status[s] = None => rows[s] = NoRows /\ cached[s] = NoTotals

Covered(s) == status[s] = "closed" =>
  /\ z[s].totals.cash = rows[s].cash /\ z[s].totals.other = rows[s].other
  /\ z[s].totals.count = rows[s].count /\ z[s].totals.expected = rows[s].drawer
  /\ z[s].totals.bills = Cardinality(BillsOn(s) \cup z[s].online)
  /\ z[s].online \subseteq OnlineBetween(openedAt[s], closedAt[s])

Good(s) == Unopened(s) /\ MoneyIsRows(s) /\ BillsAreBounded(s) /\ Covered(s)

ShiftInv == (\A w \in Workers : ReadHolds(w)) /\ (\A s \in Shifts : Good(s))

Inv == TypeInv /\ Mutex /\ ShiftInv

-----------------------------------------------------------------------------
(* Types.                                                                  *)

LEMMA IdleType == Idle \in Ops /\ Inputs(Idle)
  BY SMT DEF Idle, Ops, Inputs, NoTotals, TotalsType

LEMMA TypeInit == Init => TypeInv
<1> SUFFICES ASSUME Init PROVE TypeInv  OBVIOUS
<1>1. NoRows \in Rows /\ NoTotals \in TotalsType /\ NoReport \in Reports
  BY DEF NoRows, Rows, NoTotals, TotalsType, NoReport, Reports
<1>2. TypeOK  BY <1>1 DEF Init, TypeOK
<1>3. QED  BY <1>2, IdleType DEF Init, TypeInv

LEMMA BillSets ==
  ASSUME NEW S \in SUBSET Bills, NEW T \in SUBSET S
  PROVE  /\ IsFiniteSet(S) /\ Cardinality(S) \in Nat
         /\ Cardinality(T) \in Nat /\ Cardinality(T) <= Cardinality(S)
<1>1. IsFiniteSet(S)  BY CashierShiftsAssumption, FS_Subset
<1>2. IsFiniteSet(T) /\ Cardinality(T) <= Cardinality(S)  BY <1>1, FS_Subset
<1> QED  BY <1>1, <1>2, FS_CardinalityType

LEMMA BillUnion ==
  ASSUME NEW S \in SUBSET Bills, NEW T \in SUBSET Bills
  PROVE  /\ Cardinality(S \cup T) \in Nat /\ Cardinality(S) <= Cardinality(S \cup T)
         /\ Cardinality(S \cup T) <= Cardinality(S) + Cardinality(T)
<1>1. /\ S \cup T \in SUBSET Bills /\ S \in SUBSET (S \cup T)
      /\ S \cap T \in SUBSET S /\ T \in SUBSET T
  OBVIOUS
<1>2. IsFiniteSet(S) /\ IsFiniteSet(T)  BY <1>1, BillSets
<1>3. Cardinality(S \cup T) = Cardinality(S) + Cardinality(T) - Cardinality(S \cap T)
  BY <1>2, FS_Union
<1>4. /\ Cardinality(S \cup T) \in Nat /\ Cardinality(S) <= Cardinality(S \cup T)
      /\ Cardinality(S) \in Nat /\ Cardinality(T) \in Nat /\ Cardinality(S \cap T) \in Nat
  BY <1>1, BillSets
<1> QED  BY <1>3, <1>4

LEMMA TotalsAreTotals ==
  ASSUME TypeOK, NEW s \in Shifts, NEW r \in Rows, NEW on \in SUBSET Bills
  PROVE  Totals(s, r, on) \in TotalsType
<1>1. Cardinality(BillsOn(s) \cup on) \in Nat  BY BillUnion DEF BillsOn
<1> QED  BY <1>1 DEF TypeOK, Totals, Rows, TotalsType

LEMMA AdjustedRows ==
  ASSUME NEW r \in Rows, NEW a \in Int
  PROVE  Adjusted(r, a) \in Rows
  BY DEF Adjusted, Rows

LEMMA PaidTypes ==
  ASSUME NEW r \in Rows, NEW t \in TotalsType, NEW cash \in Nat, NEW other \in Nat
  PROVE  Paid(r, cash, other) \in Rows /\ PaidTotals(t, cash, other) \in TotalsType
  BY DEF Paid, PaidTotals, Rows, TotalsType

\* A request that begins, or one that goes a step further.
LEMMA BeginType ==
  ASSUME TypeInv, NEW w \in Workers, NEW r \in Ops, Inputs(r), op' = [op EXCEPT ![w] = r]
  PROVE  op' \in [Workers -> Ops] /\ \A v \in Workers : Inputs(op'[v])
  BY DEF TypeInv

\* Every step keeps the types.
LEMMA TypeNext == TypeInv /\ [Next]_vars => TypeInv'
<1> SUFFICES ASSUME TypeInv, [Next]_vars PROVE TypeInv'  OBVIOUS
<1> USE CashierShiftsAssumption
<1>0. CASE UNCHANGED vars
  BY <1>0 DEF vars, TypeInv, TypeOK
<1>1. CASE Tick
  BY <1>1 DEF Tick, TypeInv, TypeOK
<1> DEFINE Same == UNCHANGED <<status, float, openedAt, closedAt, rows, cached, z, paidOn, online>>
<1>2. ASSUME NEW w \in Workers, UNCHANGED clock, Same, NEW r \in Ops, Inputs(r),
             op' = [op EXCEPT ![w] = r]
      PROVE  TypeInv'
  BY <1>2, BeginType DEF TypeInv, TypeOK
<1>3. ASSUME NEW w \in Workers, UNCHANGED clock, Done(w), Same  PROVE TypeInv'
  BY <1>3, <1>2, IdleType DEF Done
<1>4. ASSUME NEW w \in Workers, NEW f \in Floats, StartOpen(w, f)  PROVE TypeInv'
  <2> DEFINE r == [Idle EXCEPT !.cmd = "open", !.step = "lock", !.amount = f]
  <2>0. f \in Nat /\ f \in Int  OBVIOUS
  <2>1. r \in Ops  BY <2>0, IdleType DEF Idle, Ops
  <2>2. r.cmd = "open" /\ r.step = "lock" /\ r.amount = f  BY DEF Idle
  <2>3. r \in Ops /\ Inputs(r)  BY <2>0, <2>1, <2>2 DEF Inputs
  <2>4. op' = [op EXCEPT ![w] = r] /\ UNCHANGED clock /\ Same
    BY <1>4 DEF StartOpen, Begin
  <2> QED  BY <2>3, <2>4, <1>2
<1>5. ASSUME NEW w \in Workers, NEW s \in Shifts, NEW a \in Adjustments, StartAdjust(w, s, a)
      PROVE  TypeInv'
  <2> DEFINE r == [Idle EXCEPT !.cmd = "adjust", !.step = "lock", !.shift = s, !.amount = a]
  <2>0. a \in Int  OBVIOUS
  <2>1. r \in Ops  BY <2>0, IdleType DEF Idle, Ops
  <2>2. r.cmd = "adjust" /\ r.step = "lock" /\ r.shift = s  BY DEF Idle
  <2>3. r \in Ops /\ Inputs(r)  BY <2>1, <2>2 DEF Inputs
  <2>4. op' = [op EXCEPT ![w] = r] /\ UNCHANGED clock /\ Same
    BY <1>5 DEF StartAdjust, Begin
  <2> QED  BY <2>3, <2>4, <1>2
<1>6. ASSUME NEW w \in Workers, NEW s \in Shifts, NEW c \in Counts, StartClose(w, s, c)
      PROVE  TypeInv'
  <2> DEFINE r == [Idle EXCEPT !.cmd = "close", !.step = "lock", !.shift = s, !.amount = c]
  <2>0. c \in Int  OBVIOUS
  <2>1. r \in Ops  BY <2>0, IdleType DEF Idle, Ops
  <2>2. r.cmd = "close" /\ r.step = "lock" /\ r.shift = s  BY DEF Idle
  <2>3. r \in Ops /\ Inputs(r)  BY <2>1, <2>2 DEF Inputs
  <2>4. op' = [op EXCEPT ![w] = r] /\ UNCHANGED clock /\ Same
    BY <1>6 DEF StartClose, Begin
  <2> QED  BY <2>3, <2>4, <1>2
<1>7. ASSUME NEW w \in Workers, NEW b \in Bills, NEW m \in {"cash", "other"},
             StartPayment(w, b, m)
      PROVE  TypeInv'
  <2> DEFINE r == [Idle EXCEPT !.cmd = "pay", !.step = "lock", !.bill = b, !.method = m,
                               !.amount = Amount[b]]
  <2>0. Amount[b] \in Nat /\ Amount[b] \in Int  OBVIOUS
  <2>1. r \in Ops  BY <2>0, IdleType DEF Idle, Ops
  <2>2. r.cmd = "pay" /\ r.step = "lock" /\ r.amount = Amount[b] /\ r.bill = b  BY DEF Idle
  <2>3. r \in Ops /\ Inputs(r)  BY <2>0, <2>1, <2>2 DEF Inputs
  <2>4. op' = [op EXCEPT ![w] = r] /\ UNCHANGED clock /\ Same
    BY <1>7 DEF StartPayment, Begin
  <2> QED  BY <2>3, <2>4, <1>2
<1>9. ASSUME NEW w \in Workers, LockBranchShift(w)  PROVE TypeInv'
  <2> DEFINE r == [op[w] EXCEPT !.step = "locked"]
  <2>1. r \in Ops /\ Inputs(r)  BY <1>9 DEF LockBranchShift, TypeInv, Ops, Inputs
  <2>2. op' = [op EXCEPT ![w] = r] /\ UNCHANGED clock /\ Same
    BY <1>9 DEF LockBranchShift, TakeLock
  <2> QED  BY <2>1, <2>2, <1>2
<1>10. ASSUME NEW w \in Workers, FindNoOpenShift(w)  PROVE TypeInv'
  <2> DEFINE r == [op[w] EXCEPT !.step = "write"]
  <2>1. r \in Ops /\ Inputs(r)  BY <1>10 DEF FindNoOpenShift, Reads, TypeInv, Ops, Inputs
  <2>2. op' = [op EXCEPT ![w] = r] /\ UNCHANGED clock /\ Same
    BY <1>10 DEF FindNoOpenShift
  <2> QED  BY <2>1, <2>2, <1>2
<1>11. ASSUME NEW w \in Workers, RefreshCachedShiftTotals(w)  PROVE TypeInv'
  <2> DEFINE s == op[w].shift
             on == OnlineBetween(openedAt[s], clock)
             t == Totals(s, Adjusted(rows[s], op[w].amount), on)
             r == [op[w] EXCEPT !.step = "write", !.totals = t]
  <2>0. s \in Shifts /\ op[w].amount \in Int /\ rows[s] \in Rows /\ on \in SUBSET Bills
    BY <1>11 DEF RefreshCachedShiftTotals, Reads, TypeInv, TypeOK, Ops, Inputs, OnlineBetween
  <2> HIDE DEF on
  <2>1. t \in TotalsType  BY <2>0, AdjustedRows, TotalsAreTotals DEF TypeInv
  <2> HIDE DEF t
  <2>2. r \in Ops /\ Inputs(r)
    BY <1>11, <2>1 DEF RefreshCachedShiftTotals, Reads, TypeInv, Ops, Inputs
  <2>3. op' = [op EXCEPT ![w] = r] /\ UNCHANGED clock /\ Same
    BY <1>11 DEF RefreshCachedShiftTotals, t, on
  <2> QED  BY <2>2, <2>3, <1>2
<1>12. ASSUME NEW w \in Workers, NEW s \in Shifts, GetOpenShiftForPayment(w, s)  PROVE TypeInv'
  <2> DEFINE r == [op[w] EXCEPT !.step = "write", !.shift = s]
  <2>1. r \in Ops /\ Inputs(r)
    BY <1>12 DEF GetOpenShiftForPayment, Reads, TypeInv, Ops, Inputs
  <2>2. op' = [op EXCEPT ![w] = r] /\ UNCHANGED clock /\ Same
    BY <1>12 DEF GetOpenShiftForPayment
  <2> QED  BY <2>1, <2>2, <1>2
<1>13. ASSUME NEW w \in Workers, BuildReportSnapshot(w)  PROVE TypeInv'
  <2> DEFINE s == op[w].shift
             on == OnlineBetween(openedAt[s], clock)
             t == Totals(s, rows[s], on)
             r == [op[w] EXCEPT !.step = "write", !.at = clock, !.totals = t, !.online = on]
  <2>0. s \in Shifts /\ rows[s] \in Rows /\ on \in SUBSET Bills /\ clock \in Nat
    BY <1>13 DEF BuildReportSnapshot, Reads, TypeInv, TypeOK, Inputs, OnlineBetween
  <2> HIDE DEF on
  <2>1. t \in TotalsType  BY <2>0, TotalsAreTotals DEF TypeInv
  <2> HIDE DEF t
  <2>2. r \in Ops /\ Inputs(r)
    <3>1. op[w] \in Ops /\ Inputs(op[w]) /\ op[w].cmd = "close"
      BY <1>13 DEF BuildReportSnapshot, Reads, TypeInv
    <3>2. r \in Ops  BY <2>0, <2>1, <3>1 DEF Ops
    <3>3. r.cmd = "close" /\ r.shift = op[w].shift  BY <3>1 DEF Ops
    <3> QED  BY <3>1, <3>2, <3>3 DEF Inputs
  <2>3. op' = [op EXCEPT ![w] = r] /\ UNCHANGED clock /\ Same
    BY <1>13 DEF BuildReportSnapshot, t, on
  <2> QED  BY <2>2, <2>3, <1>2
<1>14. ASSUME NEW w \in Workers, RollBack(w)  PROVE TypeInv'
  BY <1>14, <1>3 DEF RollBack
<1>15. ASSUME NEW w \in Workers, Done(w)
       PROVE  op' \in [Workers -> Ops] /\ \A v \in Workers : Inputs(op'[v])
  BY <1>15, BeginType, IdleType DEF Done
<1>16. ASSUME NEW w \in Workers, NEW s \in Shifts, Open(w, s)  PROVE TypeInv'
  <2>1. op[w].amount \in Nat  BY <1>16 DEF Open, Writes, TypeInv, Inputs
  <2> DEFINE n == Cardinality(OnlineBetween(clock, clock))
  <2>0. n \in Nat  BY BillSets DEF OnlineBetween
  <2> HIDE DEF n
  <2>2. /\ [NoRows EXCEPT !.drawer = op[w].amount] \in Rows
        /\ [cash |-> 0, other |-> 0, count |-> 0, bills |-> n,
            expected |-> op[w].amount] \in TotalsType
    BY <2>0, <2>1 DEF NoRows, Rows, TotalsType
  <2>3. TypeOK'
    BY <1>16, <2>1, <2>2 DEF Open, TypeInv, TypeOK, n
  <2> QED  BY <1>16, <1>15, <2>3 DEF Open, TypeInv
<1>17. ASSUME NEW w \in Workers, CreateCashAdjustment(w)  PROVE TypeInv'
  <2>1. op[w].shift \in Shifts /\ op[w].amount \in Int /\ op[w].totals \in TotalsType
    BY <1>17 DEF CreateCashAdjustment, Writes, TypeInv, Inputs, Ops
  <2>2. rows' \in [Shifts -> Rows]
    BY <1>17, <2>1, AdjustedRows DEF CreateCashAdjustment, TypeInv, TypeOK
  <2>3. TypeOK'
    BY <1>17, <2>1, <2>2 DEF CreateCashAdjustment, TypeInv, TypeOK
  <2> QED  BY <1>17, <1>15, <2>3 DEF CreateCashAdjustment, TypeInv
<1>18. ASSUME NEW w \in Workers, RecordManualPayment(w)  PROVE TypeInv'
  <2> DEFINE s == op[w].shift
             cash == CashPart(op[w])
             other == OtherPart(op[w])
  <2>1. s \in Shifts /\ op[w].bill \in Bills /\ cash \in Nat /\ other \in Nat
    BY <1>18 DEF RecordManualPayment, Writes, TypeInv, Inputs, CashPart, OtherPart
  <2> HIDE DEF cash, other
  <2>2. Paid(rows[s], cash, other) \in Rows /\ PaidTotals(cached[s], cash, other) \in TotalsType
    BY <2>1, PaidTypes DEF TypeInv, TypeOK
  <2>6. TypeOK'
    BY <1>18, <2>1, <2>2 DEF RecordManualPayment, TypeInv, TypeOK, cash, other
  <2> QED  BY <1>18, <1>15, <2>6 DEF RecordManualPayment, TypeInv
<1>19. ASSUME NEW w \in Workers, Close(w)  PROVE TypeInv'
  <2>1. /\ op[w].shift \in Shifts /\ op[w].amount \in Int /\ op[w].at \in Nat
        /\ op[w].totals \in TotalsType /\ op[w].online \in SUBSET Bills
    BY <1>19 DEF Close, Writes, TypeInv, Inputs, Ops
  <2>2. [totals |-> op[w].totals, short |-> op[w].amount - op[w].totals.expected,
         online |-> op[w].online] \in Reports
    BY <2>1 DEF Reports, TotalsType
  <2>3. TypeOK'
    BY <1>19, <2>1, <2>2 DEF Close, TypeInv, TypeOK
  <2> QED  BY <1>19, <1>15, <2>3 DEF Close, TypeInv
<1>20. ASSUME NEW b \in Bills, NEW t \in 0 .. clock, SettleOnlinePayment(b, t)
       PROVE  TypeInv'
  BY <1>20 DEF SettleOnlinePayment, TypeInv, TypeOK
<1> QED
  BY <1>0, <1>1, <1>4, <1>5, <1>6, <1>7, <1>9, <1>10, <1>11, <1>12, <1>13, <1>14,
     <1>16, <1>17, <1>18, <1>19, <1>20 DEF Next

\* The sums, totals and reports have the types of TypeOK.
THEOREM TypeCorrect == Spec => []TypeOK
<1>1. Init => TypeInv  BY TypeInit
<1>2. TypeInv /\ [Next]_vars => TypeInv'  BY TypeNext
<1>3. TypeInv => TypeOK  BY DEF TypeInv
<1> QED  BY <1>1, <1>2, <1>3, PTL DEF Spec

-----------------------------------------------------------------------------
(* The lock.                                                               *)

\* A request takes a step only for itself.
LEMMA OneMoves ==
  ASSUME TypeInv, Next
  PROVE  \/ UNCHANGED op
         \/ \E w \in Workers :
              /\ \A v \in Workers \ {w} : op'[v] = op[v]
              /\ \/ op'[w].step \in {"none", "lock"}
                 \/ LockBranchShift(w) /\ op'[w].cmd = op[w].cmd
                 \/ op[w].step = "locked"
<1> USE DEF TypeInv
<1>1. CASE Tick \/ \E b \in Bills, t \in 0 .. clock : SettleOnlinePayment(b, t)
  BY <1>1 DEF Tick, SettleOnlinePayment
<1>2. ASSUME NEW w \in Workers, Done(w)
      PROVE  op'[w].step = "none" /\ \A v \in Workers \ {w} : op'[v] = op[v]
  BY <1>2 DEF Done, Idle
<1>3. ASSUME NEW w \in Workers, NEW f \in Floats, StartOpen(w, f)
      PROVE  op'[w].step = "lock" /\ \A v \in Workers \ {w} : op'[v] = op[v]
  BY <1>3 DEF StartOpen, Begin, Idle
<1>4. ASSUME NEW w \in Workers, NEW s \in Shifts, NEW a \in Adjustments, StartAdjust(w, s, a)
      PROVE  op'[w].step = "lock" /\ \A v \in Workers \ {w} : op'[v] = op[v]
  BY <1>4 DEF StartAdjust, Begin, Idle
<1>5. ASSUME NEW w \in Workers, NEW s \in Shifts, NEW c \in Counts, StartClose(w, s, c)
      PROVE  op'[w].step = "lock" /\ \A v \in Workers \ {w} : op'[v] = op[v]
  BY <1>5 DEF StartClose, Begin, Idle
<1>6. ASSUME NEW w \in Workers, NEW b \in Bills, NEW m \in {"cash", "other"},
             StartPayment(w, b, m)
      PROVE  op'[w].step = "lock" /\ \A v \in Workers \ {w} : op'[v] = op[v]
  BY <1>6 DEF StartPayment, Begin, Idle
<1>8. ASSUME NEW w \in Workers, LockBranchShift(w)
      PROVE  op'[w].cmd = op[w].cmd /\ \A v \in Workers \ {w} : op'[v] = op[v]
  BY <1>8 DEF LockBranchShift, TakeLock, Ops
<1>9. ASSUME NEW w \in Workers,
             \/ FindNoOpenShift(w) \/ RefreshCachedShiftTotals(w) \/ BuildReportSnapshot(w)
             \/ \E s \in Shifts : GetOpenShiftForPayment(w, s)
      PROVE  op[w].step = "locked" /\ \A v \in Workers \ {w} : op'[v] = op[v]
  BY <1>9 DEF FindNoOpenShift, RefreshCachedShiftTotals, BuildReportSnapshot,
              GetOpenShiftForPayment, Reads
<1>10. ASSUME NEW w \in Workers,
             \/ \E s \in Shifts : Open(w, s)
             \/ CreateCashAdjustment(w) \/ RecordManualPayment(w) \/ Close(w)
             \/ RollBack(w)
       PROVE  Done(w)
  BY <1>10 DEF Open, CreateCashAdjustment, RecordManualPayment, Close, RollBack
<1> QED
  BY <1>1, <1>2, <1>3, <1>4, <1>5, <1>6, <1>8, <1>9, <1>10 DEF Next

LEMMA MutexNext == TypeInv /\ Mutex /\ [Next]_vars => Mutex'
<1> SUFFICES ASSUME TypeInv, Mutex, [Next]_vars PROVE Mutex'  OBVIOUS
<1>1. CASE UNCHANGED op  BY <1>1 DEF Mutex, Locked
<1>2. ASSUME Next, NEW w \in Workers, \A v \in Workers \ {w} : op'[v] = op[v],
             \/ op'[w].step \in {"none", "lock"}
             \/ LockBranchShift(w)
             \/ op[w].step = "locked"
      PROVE  Mutex'
  <2>1. CASE op'[w].step \in {"none", "lock"}  BY <1>2, <2>1 DEF Mutex, Locked
  <2>2. CASE LockBranchShift(w)  BY <1>2, <2>2 DEF Mutex, Locked, LockBranchShift
  <2>3. CASE op[w].step = "locked"  BY <1>2, <2>3 DEF Mutex, Locked
  <2> QED  BY <1>2, <2>1, <2>2, <2>3
<1> QED  BY <1>1, <1>2, OneMoves DEF vars

-----------------------------------------------------------------------------
(* The shifts.                                                             *)

LEMMA ShiftInit == Init => ShiftInv
<1> SUFFICES ASSUME Init PROVE ShiftInv  OBVIOUS
<1> USE CashierShiftsAssumption
<1>1. \A w \in Workers : ReadHolds(w)  BY DEF Init, ReadHolds, Idle
<1>2. ASSUME NEW s \in Shifts  PROVE Good(s)
  <2>1. status[s] = None /\ rows[s] = NoRows /\ cached[s] = NoTotals /\ float[s] = 0
    BY DEF Init
  <2>2. BillsOn(s) = {}  BY DEF Init, BillsOn
  <2>3. Cardinality(BillsOn(s)) = 0  BY <2>2, FS_EmptySet
  <2>4. MoneyIsRows(s)  BY <2>1, <2>3 DEF MoneyIsRows, NoRows, NoTotals
  <2>5. BillsAreBounded(s)
    <3>1. Cardinality(OnlineBetween(openedAt[s], WindowEnd(s))) \in Nat
      BY BillSets DEF OnlineBetween
    <3> QED  BY <2>1, <3>1 DEF BillsAreBounded, NoRows, NoTotals
  <2> QED  BY <2>1, <2>4, <2>5 DEF Good, Unopened, Covered
<1> QED  BY <1>1, <1>2 DEF ShiftInv

\* No success is taken back and time does not either.
OnlineGrows == clock <= clock' /\ \A b \in Bills : online[b] \subseteq online'[b]

LEMMA WindowGrows ==
  ASSUME TypeOK, OnlineGrows, NEW from \in Nat, NEW t \in Nat, NEW u \in Nat, t <= u
  PROVE  OnlineBetween(from, t) \subseteq
           {b \in Bills : \E x \in online'[b] : from <= x /\ x <= u}
  BY DEF OnlineBetween, OnlineGrows, TypeOK

\* Online payments may only bring the bills of a shift more room.
LEMMA BoundStays ==
  ASSUME TypeOK, TypeOK', OnlineGrows, NEW s \in Shifts, BillsAreBounded(s),
         rows'[s] = rows[s], cached'[s] = cached[s], openedAt'[s] = openedAt[s],
         status'[s] = status[s], closedAt'[s] = closedAt[s]
  PROVE  BillsAreBounded(s)'
<1> DEFINE t == WindowEnd(s)
           u == WindowEnd(s)'
           before == OnlineBetween(openedAt[s], t)
           now == OnlineBetween(openedAt[s], WindowEnd(s))'
<1>1. openedAt[s] \in Nat /\ t \in Nat /\ u \in Nat /\ t <= u
  BY DEF WindowEnd, TypeOK, OnlineGrows
<1>2. now = {b \in Bills : \E x \in online'[b] : openedAt[s] <= x /\ x <= u}
  BY DEF OnlineBetween
<1>3. before \subseteq now  BY <1>1, <1>2, WindowGrows
<1>4. /\ Cardinality(now) \in Nat /\ Cardinality(before) \in Nat
      /\ Cardinality(before) <= Cardinality(now)
  BY <1>2, <1>3, BillSets
<1>5. /\ rows[s].count <= cached[s].bills
      /\ cached[s].bills <= rows[s].count + Cardinality(before)
  BY DEF BillsAreBounded
<1>6. rows[s].count \in Nat /\ cached[s].bills \in Nat  BY DEF TypeOK, Rows, TotalsType
<1>7. rows[s].count + Cardinality(before) <= rows[s].count + Cardinality(now)
  BY <1>4, <1>6
<1>8. cached[s].bills <= rows[s].count + Cardinality(now)  BY <1>4, <1>5, <1>6, <1>7
<1> HIDE DEF now
<1>9. /\ rows'[s].count <= cached'[s].bills
      /\ cached'[s].bills <= rows'[s].count + Cardinality(now)
  BY <1>5, <1>8
<1> QED  BY <1>9 DEF BillsAreBounded, now

\* A step that leaves a shift alone.
LEMMA GoodStays ==
  ASSUME TypeOK, TypeOK', OnlineGrows, NEW s \in Shifts, Good(s), BillsOn(s)' = BillsOn(s),
         rows'[s] = rows[s], cached'[s] = cached[s], float'[s] = float[s], z'[s] = z[s],
         openedAt'[s] = openedAt[s], status'[s] = status[s], closedAt'[s] = closedAt[s]
  PROVE  Good(s)'
<1>1. BillsAreBounded(s)'  BY BoundStays DEF Good
<1>2. MoneyIsRows(s)' /\ Unopened(s)'  BY DEF Good, MoneyIsRows, Unopened
<1>3. Covered(s)'
  <2> SUFFICES ASSUME status'[s] = "closed" PROVE Covered(s)'  BY DEF Covered
  <2>1. openedAt[s] \in Nat /\ closedAt[s] \in Nat /\ closedAt[s] <= closedAt[s]
    BY DEF TypeOK
  <2>2. OnlineBetween(openedAt[s], closedAt[s]) \subseteq
          {b \in Bills : \E x \in online'[b] : openedAt[s] <= x /\ x <= closedAt[s]}
    BY <2>1, WindowGrows
  <2>3. z'[s].online \subseteq OnlineBetween(openedAt[s], closedAt[s])'
    BY <2>2 DEF Good, Covered, OnlineBetween
  <2> QED  BY <2>3 DEF Good, Covered
<1> QED  BY <1>1, <1>2, <1>3 DEF Good

LEMMA ReadStays ==
  ASSUME TypeInv, TypeInv', OnlineGrows, NEW v \in Workers, ReadHolds(v), op'[v] = op[v],
         UNCHANGED <<status, float, openedAt, rows>>,
         \A s \in Shifts : BillsOn(s)' = BillsOn(s)
  PROVE  ReadHolds(v)'
<1> SUFFICES ASSUME op[v].step = "write" PROVE ReadHolds(v)'  BY DEF ReadHolds
<1>1. CASE op[v].cmd \in {"none", "open", "pay"}  BY <1>1 DEF ReadHolds, OpenShifts
<1>2. CASE op[v].cmd = "adjust"
  <2>1. PICK s \in Shifts : s = op[v].shift  BY <1>2 DEF TypeInv, Inputs
  <2>2. PICK on \in SUBSET OnlineBetween(openedAt[s], clock) :
          op[v].totals = Totals(s, Adjusted(rows[s], op[v].amount), on)
    BY <1>2, <2>1 DEF ReadHolds
  <2>3. openedAt[s] \in Nat /\ clock \in Nat /\ clock' \in Nat /\ clock <= clock'
    BY DEF TypeInv, TypeOK, OnlineGrows
  <2>4. on \in SUBSET OnlineBetween(openedAt[s], clock)'
    BY <2>2, <2>3, WindowGrows DEF TypeInv, OnlineBetween
  <2>5. op'[v].totals = Totals(s, Adjusted(rows[s], op[v].amount), on)'
    BY <2>2 DEF Totals, Adjusted
  <2> QED  BY <1>2, <2>1, <2>4, <2>5 DEF ReadHolds
<1>3. CASE op[v].cmd = "close"
  <2>1. PICK s \in Shifts : s = op[v].shift  BY <1>3 DEF TypeInv, Inputs
  <2>2. /\ op[v].totals = Totals(s, rows[s], op[v].online)
        /\ op[v].online \subseteq OnlineBetween(openedAt[s], op[v].at)
    BY <1>3, <2>1 DEF ReadHolds
  <2>3. openedAt[s] \in Nat /\ op[v].at \in Nat /\ op[v].at <= op[v].at
    BY DEF TypeInv, TypeOK, Ops
  <2>4. op'[v].online \subseteq OnlineBetween(openedAt[s], op[v].at)'
    BY <2>2, <2>3, WindowGrows DEF TypeInv, OnlineBetween
  <2>5. op'[v].totals = Totals(s, rows[s], op[v].online)'  BY <2>2 DEF Totals
  <2> QED  BY <1>3, <2>1, <2>4, <2>5 DEF ReadHolds
<1> QED  BY <1>1, <1>2, <1>3 DEF TypeInv, Ops

\* A step that leaves the shifts alone, and after which whoever writes next has read
\* what is so.
LEMMA QuietStep ==
  ASSUME TypeInv, TypeInv', ShiftInv, OnlineGrows,
         UNCHANGED <<status, float, openedAt, closedAt, rows, cached, z>>,
         \A s \in Shifts : BillsOn(s)' = BillsOn(s),
         \A v \in Workers : op'[v] = op[v] \/ ReadHolds(v)'
  PROVE  ShiftInv'
<1>1. \A v \in Workers : ReadHolds(v)'  BY ReadStays DEF ShiftInv
<1>2. \A s \in Shifts : Good(s)'  BY GoodStays DEF ShiftInv, TypeInv
<1> QED  BY <1>1, <1>2 DEF ShiftInv

\* When the command that holds the lock commits, nobody else is about to write.
LEMMA AloneAtCommit ==
  ASSUME TypeInv, Mutex, NEW w \in Workers, op[w].step = "write", Done(w)
  PROVE  \A v \in Workers : ReadHolds(v)'
  BY DEF TypeInv, Mutex, Locked, Done, Idle, ReadHolds

\* A commit that changes one shift.
LEMMA OneShift ==
  ASSUME TypeInv, TypeInv', ShiftInv, NEW s \in Shifts, Good(s)',
         UNCHANGED <<clock, online>>, \A v \in Workers : ReadHolds(v)',
         \A t \in Shifts \ {s} :
           /\ rows'[t] = rows[t] /\ cached'[t] = cached[t] /\ float'[t] = float[t]
           /\ z'[t] = z[t] /\ openedAt'[t] = openedAt[t] /\ status'[t] = status[t]
           /\ closedAt'[t] = closedAt[t] /\ BillsOn(t)' = BillsOn(t)
  PROVE  ShiftInv'
<1>1. OnlineGrows  BY DEF OnlineGrows, TypeInv, TypeOK
<1>2. \A t \in Shifts \ {s} : Good(t)'  BY <1>1, GoodStays DEF ShiftInv, TypeInv
<1> QED  BY <1>2 DEF ShiftInv

LEMMA OpenKeeps ==
  ASSUME TypeInv, TypeInv', Mutex, ShiftInv, NEW w \in Workers, NEW s \in Shifts, Open(w, s)
  PROVE  ShiftInv'
<1> USE CashierShiftsAssumption
<1> DEFINE n == Cardinality(OnlineBetween(clock, clock))
<1>1. \A v \in Workers : ReadHolds(v)'  BY AloneAtCommit DEF Open, Writes
<1>2. op[w].amount \in Nat  BY DEF Open, Writes, TypeInv, Inputs
<1>3. n \in Nat  BY BillSets DEF OnlineBetween
<1>4. /\ status'[s] = "open" /\ float'[s] = op[w].amount /\ openedAt'[s] = clock
      /\ rows'[s] = [NoRows EXCEPT !.drawer = op[w].amount]
      /\ cached'[s] = [cash |-> 0, other |-> 0, count |-> 0, bills |-> n,
                       expected |-> op[w].amount]
      /\ status[s] = None
  BY DEF Open, TypeInv, TypeOK
<1>5. UNCHANGED <<clock, closedAt, z, paidOn, online>>  BY DEF Open
<1>6. \A t \in Shifts \ {s} :
        /\ rows'[t] = rows[t] /\ cached'[t] = cached[t] /\ float'[t] = float[t]
        /\ openedAt'[t] = openedAt[t] /\ status'[t] = status[t]
  BY DEF Open, TypeInv, TypeOK
<1>7. \A t \in Shifts : BillsOn(t)' = BillsOn(t)  BY <1>5 DEF BillsOn
<1>8. n = Cardinality(OnlineBetween(openedAt[s], WindowEnd(s))')
  BY <1>4, <1>5 DEF WindowEnd, OnlineBetween
<1> HIDE DEF n
<1>9. /\ rows'[s].cash = 0 /\ rows'[s].other = 0 /\ rows'[s].count = 0
      /\ rows'[s].adjusted = 0 /\ rows'[s].drawer = op[w].amount
      /\ cached'[s].cash = 0 /\ cached'[s].other = 0 /\ cached'[s].count = 0
      /\ cached'[s].bills = n /\ cached'[s].expected = op[w].amount
  BY <1>4 DEF NoRows
<1>10. Cardinality(BillsOn(s)') = 0
  BY <1>4, <1>7 DEF ShiftInv, Good, Unopened, MoneyIsRows, NoRows
<1>11. MoneyIsRows(s)'  BY <1>2, <1>4, <1>9, <1>10 DEF MoneyIsRows
<1>12. BillsAreBounded(s)'  BY <1>3, <1>8, <1>9 DEF BillsAreBounded
<1>13. Good(s)'  BY <1>4, <1>11, <1>12 DEF Good, Unopened, Covered
<1> QED  BY <1>1, <1>5, <1>6, <1>7, <1>13, OneShift

LEMMA AdjustKeeps ==
  ASSUME TypeInv, TypeInv', Mutex, ShiftInv, NEW w \in Workers, CreateCashAdjustment(w)
  PROVE  ShiftInv'
<1> USE CashierShiftsAssumption
<1>1. PICK s \in Shifts : s = op[w].shift
  BY DEF CreateCashAdjustment, Writes, TypeInv, Inputs
<1>2. op[w].amount \in Int  BY DEF TypeInv, Ops
<1> DEFINE r == Adjusted(rows[s], op[w].amount)
           b == BillsOn(s)
           e == OnlineBetween(openedAt[s], clock)
<1>3. status[s] = "open"
  BY <1>1 DEF CreateCashAdjustment, Writes, ShiftInv, ReadHolds
<1>4. PICK on \in SUBSET e : op[w].totals = Totals(s, r, on)
  BY <1>1 DEF CreateCashAdjustment, Writes, ShiftInv, ReadHolds
<1>5. /\ rows'[s] = r /\ cached'[s] = Totals(s, r, on)
      /\ UNCHANGED <<clock, status, float, openedAt, closedAt, z, paidOn, online>>
      /\ \A t \in Shifts \ {s} : rows'[t] = rows[t] /\ cached'[t] = cached[t]
  BY <1>1, <1>4 DEF CreateCashAdjustment, TypeInv, TypeOK
<1>6. \A v \in Workers : ReadHolds(v)'  BY AloneAtCommit DEF CreateCashAdjustment, Writes
<1>7. \A t \in Shifts : BillsOn(t)' = BillsOn(t)  BY <1>5 DEF BillsOn
<1>8. b \in SUBSET Bills /\ e \in SUBSET Bills /\ on \in SUBSET Bills
  BY <1>4 DEF BillsOn, OnlineBetween
<1>9. e = OnlineBetween(openedAt[s], WindowEnd(s))'
  BY <1>3, <1>5 DEF WindowEnd, OnlineBetween
<1>10. rows[s] \in Rows /\ float[s] \in Nat  BY DEF TypeInv, TypeOK
<1>11. /\ rows[s].drawer = float[s] + rows[s].cash + rows[s].adjusted
       /\ rows[s].count = Cardinality(b)
  BY DEF ShiftInv, Good, MoneyIsRows
<1> HIDE DEF b, e
<1>12. /\ r.drawer = float[s] + r.cash + r.adjusted /\ r.count = Cardinality(b)
       /\ Totals(s, r, on).cash = r.cash /\ Totals(s, r, on).other = r.other
       /\ Totals(s, r, on).count = r.count /\ Totals(s, r, on).expected = r.drawer
       /\ Totals(s, r, on).bills = Cardinality(b \cup on)
  BY <1>2, <1>10, <1>11 DEF Adjusted, Totals, Rows, b
<1>13. /\ Cardinality(b \cup on) \in Nat /\ Cardinality(b) <= Cardinality(b \cup on)
       /\ Cardinality(b \cup on) <= Cardinality(b) + Cardinality(on)
       /\ Cardinality(on) <= Cardinality(e)
       /\ Cardinality(b) \in Nat /\ Cardinality(on) \in Nat /\ Cardinality(e) \in Nat
  BY <1>4, <1>8, BillUnion, BillSets
<1>14. Cardinality(b \cup on) <= Cardinality(b) + Cardinality(e)  BY <1>13
<1> HIDE DEF r
<1>15. MoneyIsRows(s)'  BY <1>5, <1>7, <1>12 DEF MoneyIsRows, b
<1>16. BillsAreBounded(s)'  BY <1>5, <1>9, <1>12, <1>13, <1>14 DEF BillsAreBounded
<1>17. Good(s)'  BY <1>3, <1>5, <1>15, <1>16 DEF Good, Unopened, Covered
<1> QED  BY <1>5, <1>6, <1>7, <1>17, OneShift

LEMMA PayKeeps ==
  ASSUME TypeInv, TypeInv', Mutex, ShiftInv, NEW w \in Workers, RecordManualPayment(w)
  PROVE  ShiftInv'
<1> USE CashierShiftsAssumption
<1>1. PICK s \in Shifts : s = op[w].shift
  BY DEF RecordManualPayment, Writes, TypeInv, Inputs
<1>2. PICK b \in Bills : b = op[w].bill
  BY DEF RecordManualPayment, Writes, TypeInv, Inputs
<1> DEFINE cash == CashPart(op[w])
           other == OtherPart(op[w])
<1>3. cash \in Nat /\ other \in Nat
  BY DEF RecordManualPayment, Writes, TypeInv, Inputs, CashPart, OtherPart
<1>4. status[s] = "open"  BY <1>1 DEF RecordManualPayment, Writes, ShiftInv, ReadHolds
<1> HIDE DEF cash, other
<1>5. /\ rows'[s] = Paid(rows[s], cash, other)
      /\ cached'[s] = PaidTotals(cached[s], cash, other)
      /\ paidOn[b] = None /\ paidOn' = [paidOn EXCEPT ![b] = s]
      /\ UNCHANGED <<clock, status, float, openedAt, closedAt, z, online>>
      /\ \A t \in Shifts \ {s} : rows'[t] = rows[t] /\ cached'[t] = cached[t]
  BY <1>1, <1>2 DEF RecordManualPayment, Payable, TypeInv, TypeOK, cash, other
<1>6. \A v \in Workers : ReadHolds(v)'  BY AloneAtCommit DEF RecordManualPayment, Writes
<1>7. /\ BillsOn(s)' = BillsOn(s) \cup {b} /\ b \notin BillsOn(s)
      /\ \A t \in Shifts \ {s} : BillsOn(t)' = BillsOn(t)
  BY <1>5 DEF BillsOn, TypeInv, TypeOK
<1>8. /\ Cardinality(BillsOn(s)') = Cardinality(BillsOn(s)) + 1
  <2>1. IsFiniteSet(BillsOn(s))  BY BillSets DEF BillsOn
  <2> QED  BY <1>7, <2>1, FS_AddElement
<1>9. OnlineBetween(openedAt[s], WindowEnd(s))' = OnlineBetween(openedAt[s], WindowEnd(s))
  BY <1>5 DEF WindowEnd, OnlineBetween
<1>10. rows[s] \in Rows /\ float[s] \in Nat /\ cached[s] \in TotalsType
  BY DEF TypeInv, TypeOK
<1>11. MoneyIsRows(s) /\ BillsAreBounded(s)  BY DEF ShiftInv, Good
<1>12. MoneyIsRows(s)'
  BY <1>3, <1>5, <1>8, <1>10, <1>11 DEF MoneyIsRows, Paid, PaidTotals, Rows, TotalsType
<1>13. BillsAreBounded(s)'
  <2> DEFINE n == Cardinality(OnlineBetween(openedAt[s], WindowEnd(s)))
  <2>1. n \in Nat  BY BillSets DEF OnlineBetween
  <2>2. rows[s].count <= cached[s].bills /\ cached[s].bills <= rows[s].count + n
    BY <1>11 DEF BillsAreBounded
  <2>3. n = Cardinality(OnlineBetween(openedAt[s], WindowEnd(s))')  BY <1>9
  <2> HIDE DEF n
  <2>4. rows'[s].count = rows[s].count + 1 /\ cached'[s].bills = cached[s].bills + 1
    BY <1>5 DEF Paid, PaidTotals
  <2>5. rows'[s].count <= cached'[s].bills /\ cached'[s].bills <= rows'[s].count + n
    BY <1>10, <2>1, <2>2, <2>4 DEF Rows, TotalsType
  <2> QED  BY <2>3, <2>5 DEF BillsAreBounded
<1>14. Good(s)'  BY <1>4, <1>5, <1>12, <1>13 DEF Good, Unopened, Covered
<1> QED  BY <1>5, <1>6, <1>7, <1>14, OneShift

LEMMA CloseKeeps ==
  ASSUME TypeInv, TypeInv', Mutex, ShiftInv, NEW w \in Workers, Close(w)
  PROVE  ShiftInv'
<1> USE CashierShiftsAssumption
<1>1. PICK s \in Shifts : s = op[w].shift  BY DEF Close, Writes, TypeInv, Inputs
<1> DEFINE n == op[w].totals
           b == BillsOn(s)
           on == op[w].online
           e == OnlineBetween(openedAt[s], op[w].at)
<1>2. status[s] = "open" /\ n = Totals(s, rows[s], on) /\ on \subseteq e
  BY <1>1 DEF Close, Writes, ShiftInv, ReadHolds
<1>3. /\ status'[s] = "closed" /\ closedAt'[s] = op[w].at
      /\ z'[s].totals = n /\ z'[s].online = on /\ cached'[s] = n
      /\ UNCHANGED <<clock, float, openedAt, rows, paidOn, online>>
      /\ \A t \in Shifts \ {s} : /\ cached'[t] = cached[t] /\ z'[t] = z[t]
                                 /\ closedAt'[t] = closedAt[t] /\ status'[t] = status[t]
  BY <1>1 DEF Close, TypeInv, TypeOK
<1>4. \A v \in Workers : ReadHolds(v)'  BY AloneAtCommit DEF Close, Writes
<1>5. \A t \in Shifts : BillsOn(t)' = BillsOn(t)  BY <1>3 DEF BillsOn
<1>6. /\ e = OnlineBetween(openedAt[s], WindowEnd(s))'
      /\ e = OnlineBetween(openedAt[s], closedAt[s])'
  BY <1>3 DEF WindowEnd, OnlineBetween
<1>7. b \in SUBSET Bills /\ e \in SUBSET Bills /\ on \in SUBSET Bills
  BY <1>2 DEF BillsOn, OnlineBetween
<1>8. rows[s] \in Rows /\ float[s] \in Nat  BY DEF TypeInv, TypeOK
<1>9. /\ rows[s].drawer = float[s] + rows[s].cash + rows[s].adjusted
      /\ rows[s].count = Cardinality(b)
  BY DEF ShiftInv, Good, MoneyIsRows
<1> HIDE DEF b, e
<1>10. /\ n.cash = rows[s].cash /\ n.other = rows[s].other
       /\ n.count = rows[s].count /\ n.expected = rows[s].drawer
       /\ n.bills = Cardinality(b \cup on)
  BY <1>2, <1>8, <1>9 DEF Totals, Rows, b
<1>11. /\ Cardinality(b \cup on) \in Nat /\ Cardinality(b) <= Cardinality(b \cup on)
       /\ Cardinality(b \cup on) <= Cardinality(b) + Cardinality(on)
       /\ Cardinality(on) <= Cardinality(e)
       /\ Cardinality(b) \in Nat /\ Cardinality(on) \in Nat /\ Cardinality(e) \in Nat
  BY <1>2, <1>7, BillUnion, BillSets
<1>12. Cardinality(b \cup on) <= Cardinality(b) + Cardinality(e)  BY <1>11
<1> HIDE DEF n, on
<1>13. MoneyIsRows(s)'  BY <1>3, <1>5, <1>9, <1>10 DEF MoneyIsRows, b
<1>14. BillsAreBounded(s)'
  BY <1>3, <1>6, <1>9, <1>10, <1>11, <1>12 DEF BillsAreBounded
<1>15. Covered(s)'  BY <1>2, <1>3, <1>5, <1>6, <1>10 DEF Covered, b
<1>16. Good(s)'  BY <1>3, <1>13, <1>14, <1>15 DEF Good, Unopened
<1> QED  BY <1>3, <1>4, <1>5, <1>16, OneShift

\* An online payment only adds to what a report may count.
LEMMA OnlineKeeps ==
  ASSUME TypeInv, TypeInv', ShiftInv, NEW b \in Bills, NEW t \in 0 .. clock,
         SettleOnlinePayment(b, t)
  PROVE  ShiftInv'
<1>1. UNCHANGED <<clock, status, float, openedAt, closedAt, rows, cached, z, op>>
  BY DEF SettleOnlinePayment
<1>2. OnlineGrows  BY <1>1 DEF SettleOnlinePayment, OnlineGrows, TypeInv, TypeOK
<1>3. \A s \in Shifts : BillsOn(s)' = BillsOn(s)
  <2>1. \/ UNCHANGED paidOn
        \/ paidOn[b] = None /\ paidOn' = [paidOn EXCEPT ![b] = "online"]
    BY DEF SettleOnlinePayment, Payable
  <2> QED  BY <2>1, CashierShiftsAssumption DEF BillsOn, TypeInv, TypeOK
<1> QED  BY <1>1, <1>2, <1>3, QuietStep

\* A command that reads finds what it will rely on when it writes.
LEMMA ReadKeeps ==
  ASSUME TypeInv, TypeInv', ShiftInv, NEW w \in Workers,
         \/ FindNoOpenShift(w) \/ RefreshCachedShiftTotals(w) \/ BuildReportSnapshot(w)
         \/ \E s \in Shifts : GetOpenShiftForPayment(w, s)
  PROVE  ShiftInv'
<1>1. /\ UNCHANGED <<clock, status, float, openedAt, closedAt, rows, cached, z, paidOn, online>>
      /\ \A v \in Workers \ {w} : op'[v] = op[v]
  BY DEF FindNoOpenShift, RefreshCachedShiftTotals, BuildReportSnapshot,
         GetOpenShiftForPayment, TypeInv
<1>2. ReadHolds(w)'
  <2>1. CASE FindNoOpenShift(w)
    BY <2>1 DEF FindNoOpenShift, Reads, ReadHolds, OpenShifts, TypeInv, Ops
  <2>2. CASE RefreshCachedShiftTotals(w)
    <3>1. PICK s \in Shifts : s = op[w].shift
      BY <2>2 DEF RefreshCachedShiftTotals, Reads, TypeInv, Inputs
    <3> DEFINE on == OnlineBetween(openedAt[s], clock)
    <3>2. /\ op'[w].cmd = "adjust" /\ op'[w].shift = s /\ op'[w].amount = op[w].amount
          /\ op'[w].totals = Totals(s, Adjusted(rows[s], op[w].amount), on)
          /\ status[s] = "open"
      BY <2>2, <3>1 DEF RefreshCachedShiftTotals, Reads, TypeInv, Ops
    <3>3. on' = on  BY <1>1 DEF OnlineBetween
    <3>4. op'[w].totals = Totals(s, Adjusted(rows[s], op[w].amount), on)'
      BY <1>1, <3>2, <3>3 DEF Totals, Adjusted, BillsOn
    <3> QED  BY <1>1, <3>2, <3>3, <3>4 DEF ReadHolds
  <2>3. CASE BuildReportSnapshot(w)
    <3>1. PICK s \in Shifts : s = op[w].shift
      BY <2>3 DEF BuildReportSnapshot, Reads, TypeInv, Inputs
    <3> DEFINE on == OnlineBetween(openedAt[s], clock)
    <3>2. /\ op'[w].cmd = "close" /\ op'[w].shift = s /\ op'[w].totals = Totals(s, rows[s], on)
          /\ op'[w].online = on /\ op'[w].at = clock /\ status[s] = "open"
      BY <2>3, <3>1 DEF BuildReportSnapshot, Reads, TypeInv, Ops
    <3>3. on' = on  BY <1>1 DEF OnlineBetween
    <3>4. op'[w].totals = Totals(s, rows[s], on)'  BY <1>1, <3>2, <3>3 DEF Totals, BillsOn
    <3> QED  BY <1>1, <3>2, <3>3, <3>4 DEF ReadHolds
  <2>4. ASSUME NEW s \in Shifts, GetOpenShiftForPayment(w, s)  PROVE ReadHolds(w)'
    <3>1. op'[w].cmd = op[w].cmd /\ op'[w].shift = s
      <4>1. op \in [Workers -> Ops]  BY DEF TypeInv
      <4>2. op[w] \in Ops /\ op'[w] = [op[w] EXCEPT !.step = "write", !.shift = s]
        BY <2>4, <4>1 DEF GetOpenShiftForPayment
      <4> QED  BY <4>2 DEF Ops
    <3>2. op[w].cmd = "pay" /\ status[s] = "open"
      BY <2>4 DEF GetOpenShiftForPayment, Reads, OpenShifts
    <3> QED  BY <1>1, <3>1, <3>2 DEF ReadHolds
  <2> QED  BY <2>1, <2>2, <2>3, <2>4
<1>3. OnlineGrows  BY <1>1 DEF OnlineGrows, TypeInv, TypeOK
<1>4. \A s \in Shifts : BillsOn(s)' = BillsOn(s)  BY <1>1 DEF BillsOn
<1> QED  BY <1>1, <1>2, <1>3, <1>4, QuietStep

\* A request that begins or gives up, or takes the lock, is not about to write.
LEMMA OtherKeeps ==
  ASSUME TypeInv, TypeInv', ShiftInv, NEW w \in Workers,
         UNCHANGED <<clock, status, float, openedAt, closedAt, rows, cached, z, paidOn, online>>,
         \A v \in Workers \ {w} : op'[v] = op[v], op'[w].step # "write"
  PROVE  ShiftInv'
<1>1. ReadHolds(w)'  BY DEF ReadHolds
<1>2. OnlineGrows  BY DEF OnlineGrows, TypeInv, TypeOK
<1>3. \A s \in Shifts : BillsOn(s)' = BillsOn(s)  BY DEF BillsOn
<1> QED  BY <1>1, <1>2, <1>3, QuietStep

LEMMA ShiftNext == TypeInv /\ TypeInv' /\ Mutex /\ ShiftInv /\ [Next]_vars => ShiftInv'
<1> SUFFICES ASSUME TypeInv, TypeInv', Mutex, ShiftInv, [Next]_vars PROVE ShiftInv'
  OBVIOUS
<1>0. CASE UNCHANGED <<status, float, openedAt, closedAt, rows, cached, z, paidOn, online, op>>
           /\ clock' \in {clock, clock + 1}
  <2>1. OnlineGrows  BY <1>0 DEF OnlineGrows, TypeInv, TypeOK
  <2>2. \A s \in Shifts : BillsOn(s)' = BillsOn(s)  BY <1>0 DEF BillsOn
  <2> QED  BY <1>0, <2>1, <2>2, QuietStep
<1>1. CASE UNCHANGED vars \/ Tick  BY <1>0, <1>1 DEF Tick, vars
<1>2. ASSUME NEW w \in Workers,
             \/ \E f \in Floats : StartOpen(w, f)
             \/ \E s \in Shifts, a \in Adjustments : StartAdjust(w, s, a)
             \/ \E s \in Shifts, c \in Counts : StartClose(w, s, c)
             \/ \E b \in Bills, m \in {"cash", "other"} : StartPayment(w, b, m)
             \/ LockBranchShift(w) \/ RollBack(w)
      PROVE  ShiftInv'
  <2>1. UNCHANGED <<clock, status, float, openedAt, closedAt, rows, cached, z, paidOn, online>>
    BY <1>2 DEF StartOpen, StartAdjust, StartClose, StartPayment, LockBranchShift, TakeLock,
                RollBack
  <2>2. /\ \A v \in Workers \ {w} : op'[v] = op[v]
        /\ op'[w].step # "write"
    <3>1. CASE LockBranchShift(w)  BY <3>1 DEF LockBranchShift, TakeLock, TypeInv
    <3>2. CASE RollBack(w)  BY <3>2 DEF RollBack, Done, Idle, TypeInv
    <3>3. CASE \E f \in Floats : StartOpen(w, f)
      BY <3>3 DEF StartOpen, Begin, Idle, TypeInv
    <3>4. CASE \E s \in Shifts, a \in Adjustments : StartAdjust(w, s, a)
      BY <3>4 DEF StartAdjust, Begin, Idle, TypeInv
    <3>5. CASE \E s \in Shifts, c \in Counts : StartClose(w, s, c)
      BY <3>5 DEF StartClose, Begin, Idle, TypeInv
    <3>6. CASE \E b \in Bills, m \in {"cash", "other"} : StartPayment(w, b, m)
      BY <3>6 DEF StartPayment, Begin, Idle, TypeInv
    <3> QED  BY <1>2, <3>1, <3>2, <3>3, <3>4, <3>5, <3>6
  <2> QED  BY <2>1, <2>2, OtherKeeps
<1>3. ASSUME NEW w \in Workers,
             \/ FindNoOpenShift(w) \/ RefreshCachedShiftTotals(w) \/ BuildReportSnapshot(w)
             \/ \E s \in Shifts : GetOpenShiftForPayment(w, s)
      PROVE  ShiftInv'
  BY <1>3, ReadKeeps
<1>4. ASSUME NEW w \in Workers, \E s \in Shifts : Open(w, s)  PROVE ShiftInv'
  BY <1>4, OpenKeeps
<1> QED
  BY <1>1, <1>2, <1>3, <1>4, AdjustKeeps, PayKeeps, CloseKeeps, OnlineKeeps DEF Next

LEMMA Invariant == Spec => []Inv
<1>1. Init => Mutex  BY DEF Init, Mutex, Locked, Idle
<1>2. Init => Inv  BY <1>1, TypeInit, ShiftInit DEF Inv
<1>3. Inv /\ [Next]_vars => Inv'  BY TypeNext, MutexNext, ShiftNext DEF Inv
<1> QED  BY <1>2, <1>3, PTL DEF Spec

-----------------------------------------------------------------------------
(* What the shifts promise.                                                *)

\* Of cashiers who open shifts at once, none is stopped by the index only.
THEOREM OpenNeverCollidesHolds == Spec => []OpenNeverCollides
<1>1. Inv => OpenNeverCollides
  BY DEF Inv, ShiftInv, OpenNeverCollides, Writes, ReadHolds
<1> QED  BY <1>1, Invariant, PTL

\* The totals kept on a shift are those of its rows, whatever runs at the same time.
THEOREM TotalsAreRowsHolds == Spec => []TotalsAreRows
<1>1. Inv => TotalsAreRows  BY DEF Inv, ShiftInv, Good, TotalsAreRows
<1> QED  BY <1>1, Invariant, PTL

\* A Z report covers all that was ever attached to its shift.
THEOREM ZReportCoversHolds == Spec => []ZReportCovers
<1>1. Inv => ZReportCovers  BY DEF Inv, ShiftInv, Good, Covered, ZReportCovers
<1> QED  BY <1>1, Invariant, PTL

\* No step changes a closed shift: whoever is about to write has read, under the lock,
\* that the shift is still open.
LEMMA ClosedStep ==
  ASSUME Inv, [Next]_vars, NEW s \in Shifts, status[s] = "closed"
  PROVE  /\ status'[s] = "closed" /\ rows'[s] = rows[s] /\ z'[s] = z[s]
         /\ cached'[s] = cached[s] /\ closedAt'[s] = closedAt[s]
         /\ BillsOn(s)' = BillsOn(s)
<1> USE CashierShiftsAssumption
<1> DEFINE Frozen == /\ status'[s] = "closed" /\ rows'[s] = rows[s] /\ z'[s] = z[s]
                     /\ cached'[s] = cached[s] /\ closedAt'[s] = closedAt[s]
                     /\ BillsOn(s)' = BillsOn(s)
<1>0. CASE UNCHANGED <<status, closedAt, rows, cached, z, paidOn>>  BY <1>0 DEF BillsOn
<1>1. ASSUME NEW w \in Workers, NEW t \in Shifts, Open(w, t)  PROVE Frozen
  <2>1. t # s  BY <1>1 DEF Open
  <2> QED  BY <1>1, <2>1 DEF Open, Inv, TypeInv, TypeOK, BillsOn
<1>2. ASSUME NEW w \in Workers, CreateCashAdjustment(w)  PROVE Frozen
  <2>1. op[w].shift # s  BY <1>2 DEF CreateCashAdjustment, Writes, Inv, ShiftInv, ReadHolds
  <2> QED  BY <1>2, <2>1 DEF CreateCashAdjustment, Inv, TypeInv, TypeOK, BillsOn
<1>3. ASSUME NEW w \in Workers, RecordManualPayment(w)  PROVE Frozen
  <2>1. op[w].shift # s  BY <1>3 DEF RecordManualPayment, Writes, Inv, ShiftInv, ReadHolds
  <2>2. /\ UNCHANGED <<status, closedAt, z>>
        /\ rows'[s] = rows[s] /\ cached'[s] = cached[s]
    BY <1>3, <2>1 DEF RecordManualPayment, Inv, TypeInv, TypeOK
  <2>3. /\ paidOn[op[w].bill] = None /\ None # s
        /\ paidOn' = [paidOn EXCEPT ![op[w].bill] = op[w].shift]
    BY <1>3 DEF RecordManualPayment, Payable
  <2>4. \A b \in Bills : paidOn'[b] = s <=> paidOn[b] = s
    BY <2>1, <2>3 DEF Inv, TypeInv, TypeOK
  <2> QED  BY <2>2, <2>4 DEF BillsOn
<1>4. ASSUME NEW w \in Workers, Close(w)  PROVE Frozen
  <2>1. op[w].shift # s  BY <1>4 DEF Close, Writes, Inv, ShiftInv, ReadHolds
  <2> QED  BY <1>4, <2>1 DEF Close, Inv, TypeInv, TypeOK, BillsOn
<1>5. CASE Next
  <2>1. CASE Tick  BY <2>1, <1>0 DEF Tick
  <2>2. ASSUME NEW w \in Workers,
               \/ \E f \in Floats : StartOpen(w, f)
               \/ \E t \in Shifts, a \in Adjustments : StartAdjust(w, t, a)
               \/ \E t \in Shifts, c \in Counts : StartClose(w, t, c)
               \/ \E b \in Bills, m \in {"cash", "other"} : StartPayment(w, b, m)
               \/ LockBranchShift(w) \/ RollBack(w)
               \/ FindNoOpenShift(w) \/ RefreshCachedShiftTotals(w)
               \/ BuildReportSnapshot(w) \/ \E t \in Shifts : GetOpenShiftForPayment(w, t)
        PROVE  Frozen
    <3>1. UNCHANGED <<status, closedAt, rows, cached, z, paidOn>>
      BY <2>2 DEF StartOpen, StartAdjust, StartClose, StartPayment,
                  LockBranchShift, TakeLock, RollBack, FindNoOpenShift,
                  RefreshCachedShiftTotals, BuildReportSnapshot, GetOpenShiftForPayment
    <3> QED  BY <3>1, <1>0
  <2>3. ASSUME NEW b \in Bills, NEW t \in 0 .. clock, SettleOnlinePayment(b, t)  PROVE Frozen
    <3>1. UNCHANGED <<status, closedAt, rows, cached, z>>  BY <2>3 DEF SettleOnlinePayment
    <3>2. \/ UNCHANGED paidOn
          \/ paidOn[b] = None /\ paidOn' = [paidOn EXCEPT ![b] = "online"]
      BY <2>3 DEF SettleOnlinePayment, Payable
    <3>3. BillsOn(s)' = BillsOn(s)  BY <3>2 DEF BillsOn, Inv, TypeInv, TypeOK
    <3> QED  BY <3>1, <3>3
  <2> QED  BY <1>1, <1>2, <1>3, <1>4, <1>5, <2>1, <2>2, <2>3 DEF Next
<1> QED  BY <1>0, <1>5 DEF vars

\* A closed shift, its rows and its report never change.
THEOREM ClosedShiftIsFrozenHolds == Spec => ClosedShiftIsFrozen
<1> DEFINE Frozen ==
      \A s \in Shifts : status[s] = "closed" =>
        /\ status'[s] = "closed" /\ rows'[s] = rows[s] /\ z'[s] = z[s]
        /\ cached'[s] = cached[s] /\ closedAt'[s] = closedAt[s]
        /\ BillsOn(s)' = BillsOn(s)
<1>1. Inv /\ [Next]_vars => [Frozen]_vars  BY ClosedStep
<1> QED  BY <1>1, Invariant, PTL DEF Spec, ClosedShiftIsFrozen
=============================================================================
