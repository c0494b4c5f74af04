# Balcona: a verification development in TLA+

Balcona is a restaurant system. Customers at a table order, call a waiter, ask
for the bill and pay it from their phones; staff take orders, prepare and print
them, collect at the counter, run cashier shifts and give refunds. The API is a
NestJS application over PostgreSQL (Prisma), with Redis for timers' locks and
rate limits, and talks to two payment providers, Paymob and Fawry. Several API
processes may run at once; every HTTP request, webhook and timer tick is an
asynchronous function that interleaves with the others at every `await`.

This directory models the parts of the API whose correctness depends on those
interleavings: money, orders, stock and the drawer. `PROJECT.json` maps every definition to
the lines it translates and lists the runs, the theorems, the hazards and the
disagreements found between the code and what its documents and messages say.

## Inventory

| component (under `apps/api/src`) | state | operations | what is hard | what makes it correct |
|---|---|---|---|---|
| bills (`bills`) | Bill: status, amounts, BillEvents, receipt | create from a bill request, present, cancel, close, manual payment, settlement by an online payment | status checks that are separate statements from the writes; two ways to pay | a bill is paid once, its balance matches its payments, final statuses are final |
| online payment intents (`online-payments`) | OnlinePaymentIntent: status, provider ids, expiry; OnlinePaymentEvent | create, initialize at the provider, webhook, inquiry, expiry, revival, retry preflight | provider calls outside transactions, duplicate, late and reordered answers, crashes, lock-free revival | one active intent per bill, a success is real and final, every charge is booked, every active intent ends |
| online payment operations | OnlinePaymentOperation: type, amount, status | refund, void, capture, recovery, child webhooks | ambiguous provider answers, confirmation from cumulative state | refunds never exceed the payment, a success is an executed operation, none is executed twice |
| provider clients | none | create, inquire, verify a webhook, refund, void, capture | timeouts that hide what was done | mapping of the provider's states |
| reconciliation timers | Redis lock, batch cursors | ask about stale intents and operations, import settlements | a lock that expires during a tick, starvation within a batch | every stale row is asked about in the end |
| settlement reconciliation | runs, lines, mismatches | import, match, resolve | repeated imports, lines matched to two payments | every line is matched once |
| cashier shifts | shift, cash movements, totals | open, move cash, collect, close, X/Z report | a payment committing during a close | expected cash equals the payments of the shift |
| bill requests, table sessions | request, session, participants | request a bill, handle, cancel; join, close | closing while an order is submitted | one open session per table, one open request per session |
| cart, orders, smart cashier, preparation | cart version, order and item statuses, tasks | submit, accept, prepare, serve, cancel | roll-up of item statuses, automatic acceptance racing staff | an order's status agrees with its items; one order per submission |
| kitchen tickets, print jobs | ticket numbers, job status, claims | create, print, claim, complete, fail, retry, reprint | claims that expire while the printer prints | unique numbers; each job finished once |
| waiter calls, presence, attention | calls, triggers, scores | call, acknowledge, escalate, resolve | duplicates within a cooldown | one open call of a kind per table |
| inventory | stock, movements, purchase orders | consume, adjust, receive | read-modify-write of a quantity | stock is the sum of its movements |
| SaaS billing and plans | subscription, invoices, payments | issue, pay (Paymob), renew, enforce limits | the same as online payments, and period boundaries | an invoice is paid once |
| realtime events | outbox, cursors | publish, poll | commit order against id order | a reader misses no event |
| staff authentication, invites, platform | invitations, sessions | invite, accept, revoke | accepting twice | an invitation is used once |
| terminals, merchant integrations, rate limits | registration rows, counters | activate, count | windows and limits | limits hold |
| AI waiter | conversations, proposed tool calls | propose, confirm, execute | confirming twice | a proposal is executed once |
| menu, branches, tables, zones, content, media, analytics, audit, onboarding, smoke, web | configuration, reports, user interface | create, read, update, delete | little | field validation |

The components interact through tables in one database, within one transaction
when one service calls another (a webhook of `online-payments` calls
`bills.settleBillWithOnlinePayment` with its own transaction, which in turn
closes the bill request, the orders and the table session), and through events
that other requests read. Nothing is shared in memory that matters. What
orders the interleavings is: row locks taken by updates, advisory locks keyed by
a bill or an intent, conditional updates (`updateMany ... where status = ...`),
unique indexes, and nothing else.

## Modules

| module | what it is |
|---|---|
| `BillPayments` | bills and online payment intents |
| `BillLedger` | abstract: what the payment of bills promises to the books |
| `BillPaymentsInductive`, `BillPaymentsProofs`, `BillLedgerProofs` | the inductive invariant of `BillPayments`, the safety theorems, and that it implements `BillLedger` |
| `PaymentOperations` | refunds, voids and captures |
| `OperationBook` | abstract: what these operations promise to the books |
| `PaymentOperationsProofs` | one pending operation, final results, results that agree with the provider, refunds within the payment, and that it implements `OperationBook` |
| `TableOrdering`, `TableOrderingProofs` | the session of a table, its cart, submitting it, and the closing of the session by a payment |
| `Preparation` | a submitted order: acceptance, tasks, kitchen tickets, print jobs, serving, cancellation |
| `OrderLifecycle` | abstract: the lifecycle of an order and the one moment at which its stock is taken |
| `PreparationProofs` | the invariants of `Preparation`, and that it implements `OrderLifecycle` |
| `Inventory`, `InventoryProofs` | levels and movements: sales, adjustments, purchase orders and their receipts |
| `CashierShifts`, `CashierShiftsProofs` | opening, payments, drawer and closing of the shifts of a branch |
| `FiniteSums` | lemmas about sums over finite sets, for the two modules whose properties are sums |
| `MC...` | the instances for TLC |

The parts meet in these ways. `TableOrdering` creates the orders that `Preparation`
starts from; it sees of their later life only whether they are open, served or
ended (`OrderMoves`). `Preparation`'s `Accept` takes the stock in the same transaction, as one
step (`stock`); how that step is made of locks and reads is in `Inventory`, whose
`TakeOrder` is the conditional update of the same order. A payment (`BillPayments`) takes
money on a shift (`CashierShifts`, whose `Payable` is the bill's status) and completes
orders and session (`TableOrdering`, `PayBill`). `PaymentOperations` starts where an
intent has succeeded.

### BillPayments and the code

State: `bill` is the table Bill (status, balance due, number of "paid" events);
`intent` the table OnlinePaymentIntent; `overdue` the intents whose
`checkoutExpiresAt` has passed; `seen` the rows of OnlinePaymentEvent with a
`providerEventId`; `psp` is the provider's own record of each order, external to
the repository; `op[w]` holds the local variables of the request that worker `w`
serves.

| actions | code |
|---|---|
| `StartManualPayment`, `CommitManualPayment` | `BillsService.recordManualPayment` |
| `StartStatusChange`, `CommitStatusChange` | `presentInternal` / `presentBillCompact`, `cancelInternal` and `cancelLinkedUnpaidBillForBillRequest`, `closePaidBillForBillRequest` |
| `StartPayment`, `ReadBill`, `LockBill`, `InsertIntent`, `CallProvider`, `StoreCheckout`, `FailInitialization` | `createPaymobIntentForCustomer`, `createFawryIntentForCustomer`, `recoverBefore...Retry`, `mark...InitializationFailed` |
| `StartWebhook` | `processFawryWebhook`, `processPaymobWebhook` |
| `StartRecovery`, `InquiryFinds`, `InquiryFindsNothing`, `InquiryUnavailable`, `ExpireIntent` | `recoverFawryIntent`, `recoverPaymobIntent`, `reconcilePendingPaymobIntents`, `handle...InquiryNotFound` |
| `ReadIntent`, `ApplySuccess`, `ApplyStatus`, `ReviveIntent` | `processFawryState`, `processPaymobInquiryState`, `processVerifiedPaymobWebhook`, `apply...Success`, `apply...StatusUpdate`, `settleBillWithOnlinePayment` |
| `GiveUp`, `RestoreBill` | the end of every handler that makes an intent inactive: `restoreBillPresentedIfNoActiveOnlinePayment` |
| `CustomerPays`, `ProviderDecides`, `CheckoutExpires`, `Crash` | the environment |

Granularity. No transaction of these services sets an isolation level, so they
run at PostgreSQL's READ COMMITTED, and none reads with a row lock. A
transaction is therefore cut between two statements whenever another request
could commit in between and be noticed: the read that a decision is taken on is
a step, the conditional update that follows is another. Inside a
step are the statements that nobody can tell apart: a conditional update, the
writes that follow it and the commit, because the updated row stays locked until
then. Where a transaction reads other rows after its first update (the count of
active intents in `GiveUp`), it is two steps and the updated row is locked in
between (`RowFree`). The advisory lock of a bill is held while a request is at
step `insert`. The unique index on provider events makes the second of two
transactions with the same event wait for the first (`EventFree`), and the
partial unique index of the migration
`20260827225500_payments_one_active_intent_per_bill` rejects a second active
intent (`IndexAllows`).

Abstractions. `pending` and `requires_action` are one status, as are `failed`
and `cancelled` of an intent: no statement of this component treats the members
of a pair differently. Money is one number per bill: there are no partial
payments in the code. Whether a provider's record matches the intent's amount,
currency and reference is one Boolean (`ok`). The provider's state of an order
is numbered by the customer's attempt, so that an old answer differs from a new
one, as the digest in `providerEventId` does. The provider has no transaction of
an order until the customer proceeds at its checkout; an inquiry before that
finds nothing. Webhooks that say "pending" are left out: they keep an active
intent active and revive none.

Bounds. Two workers are enough for every race between two requests; the
properties relate at most two requests and two intents. One bill suffices because no
statement relates two bills (the proofs hold for any number). Each intent's
customer makes at most `MaxAttempts` payment attempts; `MaxCrashes` requests die.

### PaymentOperations and the code

The two models meet at the payment: `PaymentOperations` starts from intents that
`BillPayments` has brought to `succeeded`, or to an authorization the provider
holds (`Authorized`, still `requires_action`), and its `payment` is the intent's
status from then on.

State: `operation` is the table OnlinePaymentOperation, by idempotency key;
`made` the child transaction the provider has made for each operation, external
to the repository; `op[w]` the local variables of a request.

| actions | code |
|---|---|
| `StartOperation`, `Prepare` | the transaction at the head of `executePaymobOperation` and `refundFawryIntent`: the intent is read before the advisory lock is waited for, everything else after it |
| `Preflight` | `assertPaymobOperationParentEligible` on an inquiry of the target |
| `CallProvider`, `Reject`, `StoreChild` | the provider's call: answered, done but not answered, not done and not answered, refused (`failPaymobOperationBeforeMutation`, `failFawryRefundOperation`); then the child's id |
| `StartRecovery`, `Verify`, `VerifyUnavailable` | `recoverProviderOperation`, `verifyAndFinalizePaymobOperation` |
| `StartChildWebhook`, `MatchChild` | `processPaymobChildWebhook` |
| `Finalize`, `CommitRecord` | `finalizePaymobOperationFromState`, `finalizeFawryRefundOperation` |
| `LearnVoided` | the recovery of the intent, `applyPaymobStatusUpdate` |
| `ProviderDecides`, `Crash` | the environment |

A transaction that finalizes is cut where BillPayments' are, between its read
of the operation and its conditional update; when it has linked the child just
before, the row is already locked and the two are one step (`Record`). A child
is named by the key of the operation that asked for it, a sale by its payment, so
`providerTransactionId` is a member of `Payments \cup Keys`, and its unique index
is `Taken`.

What the provider does is external and as free as the code allows: it accepts
what fits what it has already done (`Accepts`), a Paymob child is decided later
and a Fawry refund at once. An authorization keeps its status until
it is voided (`StatusOf`). A child's webhook comes at any moment, once, often or never.
Two constants are assumptions about the provider that
the code does not settle: whether a partial refund already sets `is_refunded`
(`PartialFlag`), and whether an answer may leave out the child's id, for
which the code takes the parent's (`Nameless`). The events, receipts and audit rows an operation writes are
left out: no decision reads them.

Bounds. A payment of 2 units and two keys allow two partial refunds or a full one and
another that must be refused, a void against a refund and a capture followed by
a refund; operations of different payments meet only where they use the same key. Keys
run out, so deadlock is not checked.

### TableOrdering and the code

State: `session`, `cartOf`, `cart`, `items` are TableSession, Cart and CartItem of one
table, `order` the orders by idempotency key (key, cart, the cart's rows when
they were copied); `revived` is history. `op[w]` holds what a request has read, as in
all the modules.

| actions | code |
|---|---|
| `StartScan`, `LockTable`, `CreateSession` | `TableSessionsService.start`: under the table's advisory lock an open session is looked for and resumed; without one it is created |
| `CloseSession` | `close`, by staff |
| `StartAdd`, `AddItem` | `addItemMutationWithTransaction`: the draft cart is found or created, the row inserted |
| `StartRemove`, `RemoveItem`, `StartClear`, `DeleteItems`, `ClearCart` | `removeItem`, `clearCart` |
| `StartSubmit`, `LockSubmitForSession`, `FindByIdempotencyKey`, `ReadDraftCart`, `SubmitCart` | `OrdersService.submitCart` and what it calls |
| `OrderMoves` | the life of an order until it is served or over |
| `StartPayment`, `PayBill` | `completeServedOrdersForPaidBill`, `closeTableSessionIfSettled` |

Only scans and submits take a lock. The cart's own requests read the
draft cart in one statement and write it in a later one without asking again, so
`AddItem` may write to a cart that has been converted, and `ClearCart` makes a
draft of it again. The order copies the rows that were read, the cart is converted
whatever rows it has by then. A submit that finds the
cart empty is a step of its own (`step = "empty"`), so that the answer can be
spoken of (`RetryFindsOrder`). Quantities, options and prices, order
numbers and access tokens are left out. A payment is any payment of a bill of the
session; that the bill was still due is `BillPayments`'s matter.

Bounds. One table with two sessions, one after the other, two carts, one
item, two keys of one session: the second session is there for the scan that
creates one after a close, the second cart for the request that comes after a
submit, two keys for a double tap.

### Preparation and the code

State: `order`, `task`, `line`, `ticket` are the statuses of Order,
PreparationTask, KitchenTicketItem and KitchenTicket, `printed` the rows of PrintJob,
`stock` how often an order's stock has been taken; `after` is what a committed
request still has to do, which only the memory of its process knows. `lost` is history:
the print jobs that were left so and then dropped.

| actions | code |
|---|---|
| `StartOrderCommand` | the reads and checks of `accept` (for the cashier and for `attemptAutoAcceptOrder`), `reject`, `serve`, `complete`, `cancel` in `OrdersService` and `SmartCashierService` |
| `Accept`, `Reject`, `Serve`, `Complete`, `CancelOrder` | the conditional update of the order and all that follows in its transaction: tasks, tickets, stock, `cancelActiveTasksForOrderCancellation`, the tickets' cancellation |
| `StartTaskCommand`, `UpdateTask`, `SyncTicket`, `CommitTask` | `start`, `markReady`, `cancel` of `PreparationTasksService`: the read, the task's update with the order's, the ticket's status from its lines, the commit |
| `CreatePrintJob`, `DropPrintJob` | the print jobs made after a commit, each in a transaction of its own; one that fails is logged and dropped |
| `RollBack`, `Crash` | a transaction that does not commit; the death of a process |

A task's update has no condition on its status, so a start that read a pending task
may bring a finished or cancelled one back to life. The order's update has
one; the request that moves an order locks its row to the commit (`OrderFree`). What a
request reads of other tasks and lines (`OthersReady`, `TicketMove`) is what is
committed at that moment. A whole-order command is one step from its
conditional update on: that step reads the tasks and writes them after the order's row
is locked, and every command that could notice the difference needs that row or is
represented by its own later commit. Numbers of tickets are left out but for
their one effect, a roll back.

Bounds. Two requests, any number of failures and crashes; an order with two items on one ticket, and an order with
nothing to prepare. With two stations instead the same run passes too, in
4 million states and some four minutes, which is why the smaller one is kept.

### Inventory and the code

State: `level` is BranchInventoryLevel, `ledger` what InventoryMovement adds up to by source with the
latest `quantityAfter`, `purchase`, `received` and `receipts` PurchaseOrder, its
lines and InventoryReceipt; `order` the orders as far as stock is concerned.

| actions | code |
|---|---|
| `StartAdjustment`, `StartCorrection`, `LockForAdjustment`, `CommitAdjustment` | `adjustBranchInventoryLevel`, `resolveManualMovement` |
| `StartAccept`, `TakeOrder`, `LockNeededItem`, `CommitAccept` | the acceptance of an order and `consumeStockForOrderItems` |
| `StartPurchaseChange`, `CommitPurchaseChange` | `submitPurchaseOrder`, `cancelPurchaseOrder` |
| `StartReceive`, `CountReceipts`, `InsertReceipt`, `ReceiveLine`, `AssessPurchase`, `CommitReceive` | `receivePurchaseOrder` |

`ItemFree` is the advisory lock of an item's level, held to the commit; a request
reads the level under it. Nothing locks a purchase order: `NumberFree` is the
unique index on the receipts' numbers, which are the count of receipts plus one.
A level is an integer; units and costs are left out.

Bounds. Two items and two orders that need both give the crossed locks; one
purchase order with lines of two and one, received in any parts, gives partial and
overlapping deliveries. `MaxStock` bounds what adjustments may bring.

### CashierShifts and the code

State: `status`, `float`, `openedAt`, `closedAt`, `cached` and `z` are CashierShift with
its cached totals and its Z report, `rows` the sums of the payments and drawer rows
attached to it, `paidOn` what settled each bill, a shift's manual payment or an online one,
`online` the times at which online payments of a bill succeeded, settled or not; `clock`
is the time the processes read.

| actions | code |
|---|---|
| `StartOpen`, `FindNoOpenShift`, `Open` | `open` |
| `StartAdjust`, `RefreshCachedShiftTotals`, `CreateCashAdjustment` | `createCashAdjustment`, `refreshCachedShiftTotals` |
| `StartPayment`, `GetOpenShiftForPayment`, `RecordManualPayment` | `recordManualPayment` of the bills, `getOpenShiftForPayment` |
| `StartClose`, `BuildReportSnapshot`, `Close` | `close`, `buildReportSnapshot` |
| `LockBranchShift` | the advisory lock of the branch, to the commit |
| `SettleOnlinePayment` | `applyPaymobSuccess`: a success whose time was taken at any earlier moment is recorded, without the branch's lock, and settles the bill or not |

The totals are kept in two ways. Payments increment them; opening, adjustments and closing
compute them from the rows (`Totals`), and then the number of bills includes those paid
online since the shift was opened (`OnlineBetween`), which payments do not add. The
cached number of bills therefore is not that of a report in between, and a bill with an
online success that did not settle it can be counted twice.

Bounds. Two shifts, two bills, one online success (`MaxSuccesses`), one tick of the clock,
adjustments that leave the drawer within one unit: a closing can overlap a payment, an
adjustment, another closing and the opening of the next shift.

### Runs

Passing runs:

- `bills_two_intents`: two requests race over one bill with two Paymob intents.
  One settlement (`SettledOnce`), one active intent (`OneActiveIntent`), no bill
  that waits without one (`PendingHasIntent`), and every step is one of
  `BillLedger` (`LedgerSpec`).
- `bills_all_commands`: one Fawry intent, every command of the cashier
  including presenting again, a crash, provider records that do not match.
  `BooksBalance`, `SuccessIsReal`, `SuccessIsFinal`, `NoMoneySkipped`, and the
  inductive invariant `IInv` itself, and `TypeOK`.
- `bills_reconcile`: `ActiveIntentEnds` when requests do not overlap and none dies.
  With either it fails: an intent whose request dies before its
  checkout is stored has no expiry and stays active, and so does one that the older of two
  overlapping inquiries revives after its failure has been recorded.
- `bills_delivery`: `ChargeReachesBooks` when the provider repeats its webhook
  until it is answered; `EveryRequestEnds` (no deadlock among row locks and unique
  indexes), with two workers and a crash.
- `ops_refunds`: operations of any kind on an authorized Paymob payment and a Fawry
  payment, answers that are lost or leave out the child, child webhooks, recoveries and a crash. No
  more than the payment is given back (`RefundsWithinPayment`), a success is an executed
  operation (`SuccessIsDone`), a failure is one that was not executed
  (`FailureIsNotDone`), one operation is pending (`OnePending`), results are final
  (`ResultIsFinal`), only a capture collects (`CollectedIfCaptured`) and every step is
  one of `OperationBook` (`BookSpec`). Two exceptions are part of the
  properties. `Confusable`: a webhook finds the operation of a child by its type and its
  parent only, so a refund whose answer is lost and which is confirmed through the sale
  leaves a child that no row names, and that child's webhook then completes (or fails) the
  next refund of the same amount, whatever has become of that one. `FlagOfAnother`: when a
  partial refund sets `is_refunded`, it confirms the next one too. The run takes the flag
  to mean the whole payment, so that only the first exception applies to it; the theorems
  are about both.
- `ops_recovery`: what the provider did reaches the books (`DoneIsRecorded`), for one
  operation whose request dies, whose answer is lost, or whose webhook is early. For
  two it fails: two refunds confirmed through the sale both want its id as their
  own, and the unique index refuses the second for ever.
- `table_orders`: customers scan, fill, clear and submit, with double taps and retries,
  while orders are served, a bill is paid and staff close the session. A scan never runs
  into the index on open sessions (`ScanNeverCollides`), a retry finds its order
  (`RetryFindsOrder`), one cart becomes one order, unless a clear that found it a
  draft writes after the submit (`OneOrderPerCart`).
- `prep_orders`: two requests of any kind about orders and tasks, print jobs that fail and
  processes that die. However
  the commands overlap, every step of an order is one of `OrderLifecycle`
  (`LifecycleSpec`): one acceptance, stock taken in it, no step back. No task is left
  untouched by an order that is ready or over (`NothingLeftPending`), and the
  kitchen has, or will have, paper that voids each ticket of a cancelled order, unless
  that very print job was dropped after the commit (`VoidReachesKitchen`). What does not hold, and is listed
  among the hazards: that an order becomes ready when its last task does (two requests
  that finish the last two tasks do not see each other; cancelling the last
  unfinished task does not look), and that a finished task stays finished.
- `stock_movements`: sales, adjustments and deliveries two at a time. A level is the sum
  of its movements (`LevelIsLedger`), the movements are those of the accepted orders
  and the received lines (`LedgerMatchesOrders`), nothing is received twice
  (`NothingOverReceived`), a purchase order that says partial is not complete
  (`PartialIsIncomplete`).
- `shifts_day`: the money and the number of payments on a shift are those of its rows, its
  number of bills is at least that and exceeds it by no more than the bills paid online
  in its window (`TotalsAreRows`), the Z report covers the shift, with the bills of the
  payments it lists (`ZReportCovers`), a closed shift is frozen
  (`ClosedShiftIsFrozen`), two openings do not collide (`OpenNeverCollides`).

Runs that show a disagreement (each checks one statement of a document or an
error message, and TLC finds it violated; see `findings`):

- `bills_final_status`: the status is checked on a read and written unconditionally
  later; "Paid bills cannot be cancelled" and "Cancelled bills cannot be presented" can
  both fail. The books still balance (`BooksBalance` holds in the run with the same
  commands): the balance stays zero, so nothing is collected twice.
- `table_settled`: a payment counts the open orders of the session and then closes it
  by its own status; a submit between the two leaves an open order in a session that is
  closed as settled.

`PendingHasIntent` is checked without the command `represent`, with which
a stale presentation writes `payment_pending` back after the intent has been
given up, and for Paymob without `cancel`. It holds for Paymob with `cancel` as
well, and for Fawry without (checked with three workers; the theorem states both); for
Fawry with `cancel` it fails. There a bill is cancelled, its intent
succeeds and is skipped, and a presentation that has read the bill before the
cancellation makes it `presented` again; a recovery that holds the provider's
earlier answer, "pending", then finds that the intent has succeeded, does
not update it, and still moves the bill to `payment_pending` (Fawry's handler,
`online-payments.service.ts:1142`, does not ask whether the update found a
row; Paymob's, line 4285, does). Deadlock is not checked in these runs because the systems may
really stop: when the bill is paid, closed or cancelled, the orders are over or the
shifts are closed, nothing is left to do. Every run but
`bills_reconcile` has two workers, which every race between two requests needs; `SYMMETRY` is
used in runs of safety properties only, over workers and whatever else an instance
does not tell apart.

Fairness. `Proceed(w)` is weakly fair: the event loop and the database let each
open request go on, and a lock is released by a holder that goes on itself.
Starting a recovery is strongly fair for each intent, because the timer selects
stale intents on every tick although workers are not always free (that its batch
has a fixed size is not modelled yet). Inquiries that answer are strongly fair:
the provider is not unreachable for ever. The provider decides each payment and
time passes. `DeliverySpec` adds that a webhook is repeated until answered,
which the providers document but the code cannot enforce; without it a charge on an
intent that has ended locally is never asked about again, and `ChargeReachesBooks` fails. In
`PaymentOperations` the same is assumed of requests,
of the timer's questions about each pending operation and of the provider's decisions.
The other models state no fairness: what their requests do eventually depends on
people, and the two statements about progress one would want of them (the
order that becomes ready, the void that is printed in spite of a failure) do not hold.

### Proofs

For every value of the constants that satisfies `InstanceAssumption`
(any sets of bills, workers; finitely many intents; any totals and bounds):

- `InvariantHolds`: `Spec => []IInv`. The safety properties are not inductive:
  they fail from states where a worker's stale reads contradict the tables.
  `IInv` adds what a request's local variables say at each step
  (`RefersToRows`, `BillReadsHold`, `IntentReadsHold`), that two requests never
  create nor give up the same intent (`NoTwoOwners`), and that an intent is for
  the whole of its bill and has a result exactly when it succeeded (`IntentOK`).
  The proof has one lemma per action. Three auxiliary lemmas carry most of them:
  a step only advances rows (a paid bill stays collected, a success stays one),
  a step of one worker spares what the others have read, and workers' ownership of
  intents stays apart.
- `TypeCorrect`, `BillsAreSettledOnce`, `TheBooksBalance`,
  `AtMostOneActiveIntent`, `SuccessesAreReal`: the invariants of the runs.
- `PendingBillsHaveIntents`, when staff do not present a bill again, and Fawry is not
  used together with cancelling (the run's section says why). `WaitInv` adds to `IInv`
  that a waiting bill is unpaid, and, when no bill is cancelled, that a success has
  paid its bill (`SuccessPays`), so that Fawry's handler cannot find a success on a bill
  that is `presented`. That an intent ends and its
  bill is restored in one commit (`RestoreBill`) is what makes it hold at every moment.
- `SuccessesAreFinal`, `NoMoneyIsSkipped`: the action properties, from `IInv`.
- `ImplementsLedger`: `Spec => LedgerSpec`, with `collected` the bills that have
  a payment and `result` the outcomes of the intents.

In `PaymentOperations`, under `OperationAssumption`:

- `OneOperationPending`, `ResultsAreFinal`: from `TableOK`, the shape of the rows, and
  `StepKeepsOrAdds`: a step either adds one pending row to a payment that has none,
  or keeps every row's request and changes only the status of a pending one.
- `TypesAreCorrect`: `Typed` adds to the type invariant that a row in use has a payment
  and a parent, and that its child is a transaction made for a key or the parent
  (`RowTyped`), and what a request may be about at each step (`Serves`).
- `FailuresAreNotDone`. `FailureIsNotDone` is not inductive: a
  request about to reject an operation must know that the provider was not asked. `Careful`
  adds that one request at most is at the steps that ask or reject for a key (`Alone`),
  that nothing is made while it is there, and that an answer kept for later concerns
  the operation's own child, its parent, or, when it may be confused with an earlier
  operation, another child of the payment (`Knows`), and says "failed" of its own child only
  when that has failed (`Fits`). A webhook finds another operation than that of its child
  only when the latter is over and not named (`MatchIsKnown`): were it pending, two
  operations of a payment would be. What may be confused once stays so
  (`ConfusableStays`), because a row that is over is not written again.
- `RefundsStayWithin`: `Booked` says what `Prepare` has found under the lock and that it
  remains so while the operation is pending (`Reserved`: the expected total of the
  refunds is the present one and this amount; nothing is voided; a void finds no
  refund). One operation is pending at a time, so nothing else can succeed meanwhile. That
  a success adds just its own amount is a lemma of `FiniteSums`.
- `OperationsImplementBook`: `Spec => BookSpec`, from `Booked` before and after each step.
- `SuccessesAreDone`, `CollectedOnlyIfCaptured`, for any answer to what `PartialFlag` and
  `Nameless` ask. An answer may be about the parent
  and stand for the child. `Genuine` says that an operation's parent is the sale, the
  authorization or its capture (`Parented`), that a success has been done or is one of the
  exceptions (`Real`), and that the answer a request is about to record was true when it was
  given, unless another request has recorded a result since (`Backed`). While an operation
  that cannot be confused is pending, whatever is done of its kind on its parent
  is in the books (`ChildrenRecorded`), so a sum, a void or a capture that confirms it is
  its own. For voids and captures it is also known that one is done on the parent, be it
  another's (`Shown`): that is why an authorization is never collected without a capture
  at the provider, though the row of that capture may say that it has failed.

In `TableOrdering`, under `TableOrderingAssumption` (any sessions, carts, items, keys,
requests): `ScanNeverCollidesHolds`, `RetryFindsOrderHolds` and `OneOrderPerCartHolds`. The
invariant says who is past a lock (`OneCreates`, `OneSubmits`), that a submit
past the lookup has no order yet (`Unfound`), that the cart it is about to convert
is still a draft of its session (`FromDraft`; nobody but a submit ends a draft), and
that the cart of an order is converted or revived by such a clear (`Converted`). The
unique indexes are not used: the locks suffice.

In `Preparation`, under `PreparationAssumption`: `NothingLeftPendingHolds`,
`VoidReachesKitchenHolds`, and `LifecycleImplemented`. Nothing
that a task's request has read can be relied on; what holds is about the order's row: one
request moves it at a time (`RowLock`), it is where that request has found it, and if it
is about to be ready no other task is pending (`MoveHolds`, from `OthersReady`: a task
that is ready or cancelled is never pending again). For the paper: work has a
ticket, a served ticket's order is served, and every cancelled ticket is voided
(`TicketInv`).

In `Inventory`, under `InventoryAssumption`: `LevelIsLedgerHolds`,
`NothingOverReceivedHolds`, `PartialIsIncompleteHolds`, `LedgerMatchesOrdersHolds`. `LockInv` is the item's lock and
what was read under it. That two deliveries of one purchase order cannot both be past
the insertion of their receipts (`OneReceives`) follows from the numbers alone:
receipts are `1 .. n`, so all who are past it have inserted `n + 1` (`Numbered`). The uniqueness
of a number that means nothing protects the status of the purchase order; a numbering that
left gaps, or one per purchase order, would need a lock. `LedgerMatchesOrders` relates sums over
the tables of orders and purchase orders, which are finite sets; it needs that one request
at a time accepts an order, which is submitted until that request commits
(`OrderLocked`), and that a delivery changes one table entry by what it writes to the
movements.

`FiniteSums` proves of `SumFunctionOnSet` that it is an integer, does not depend on values
outside the set, grows by `f[x]` with a new `x` and by the difference with a changed one, and, for natural
numbers, is monotone in the set and at least each of its terms. No induction theorem is used (they
are about operators): of the subsets that would be counterexamples there is a smallest
one, because strict inclusion is well-founded on finite subsets, and taking an element
from it gives a smaller one.

In `CashierShifts`, under `CashierShiftsAssumption` (finitely many bills):
`OpenNeverCollidesHolds`, `TotalsAreRowsHolds`, `ZReportCoversHolds`,
`ClosedShiftIsFrozenHolds`, from `Mutex` (the branch's lock), `ReadHolds` (what was read
under it is still so) and `Good`, which says of one shift what the properties say of all.

Only model-checked: the liveness properties `ActiveIntentEnds`, `ChargeReachesBooks` and
`DoneIsRecorded`, and `EveryRequestEnds` (fairness and ENABLED are out of the prover's
reach). Every invariant, every action property and every refinement that a passing run
checks is also a theorem.

## Not modelled, and the plan

In this order:

1. Bill requests with the lines of a bill: two requests at once, acknowledging and
   presenting against paying, the orders served after the bill was drawn up that its
   payment completes; composed with `TableOrdering` and `BillPayments`.
2. Settlement reconciliation: import, matching, resolution, and the timer's lock and batches.
3. Waiter calls and presence: open calls, cooldowns, escalation.
4. SaaS billing: invoices and their payments, which repeat the shape of `BillPayments`.
5. The realtime outbox: commit order against id order.
6. Staff invites, rate limits, AI waiter confirmations: a single row each.

Of the components that are modelled in part these are left out: the mock provider
(refused in production) and the receipts of payments; the update of a cart item's
quantity or notes, order numbers; reprints, and what a printer does with a print job;
the line edits of purchase orders and reversals of sales; X reports, which only
read but for their own row.

The web application, menu and branch administration, content, analytics, audit,
onboarding and smoke fixtures are left out: they create, read, update and delete
rows without a protocol, or only read. The web application is by far the larger part
of the repository; it keeps no state that the API does not check again.
