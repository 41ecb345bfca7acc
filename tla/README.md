# VietTicket: a TLA+ model of the booking backend

VietTicket sells tickets for attractions: a customer holds seats for a product,
a day and perhaps a time slot, checks out (at some venues the partner has to
approve first), pays through VNPay or by bank transfer, and visits. The backend
is an Express process over PostgreSQL (Prisma); several processes of it may run
against one database, each with its own interval workers. The web client only
presents what the server decided, so everything here is about
`src/vietticket-travel/backend/src` (paths below are relative to it).

What is hard in it is not any single handler. It is that seat counters are
cached beside the reservations they count and nothing ever recomputes them;
that money is taken by a gateway that reports late, repeatedly and out of order;
that six different flows can end the same booking; that deadlines of the hold,
the payment page, the approval and the visit overlap; and that workers read
candidates first and act on them later, in processes that may die. Once the visit is
sold the same holds for giving money back (a worker, the staff and an administrator on one
request, beside a gateway that may never answer) and for the gate on the day (scans, calls,
pauses and cancellations on one queue).

## 1. Inventory

| Component | State | Operations | Interacts with | Hard behaviour | Correct when | Model |
|---|---|---|---|---|---|---|
| Seat stock (`utils/ticketCapacity`, `utils/refundService`, `services/availabilityService`, `controllers/ticketController`) | `DailyStock`, `AttractionDailyStock`, `TimeSlotStock` counters, `Reservation.status` | reserve, confirm, give back a hold, give back a booking, book a replacement | called by every flow below inside its transaction | up to three counter rows a reservation, `gte` guards, units are quantity × admissions | counters are exact, no guard can fail, no row beyond capacity | `Stock`, `Inventory` |
| Revision and publication (`services/attractionWorkflowService`, `attractionController`, `adminController`) | published schedule, `submittedData`, status | submit, review, capacity checks, apply, reject | reads and writes the capacity the stock is compared with | default isolation, checks without row locks, beside Serializable reservations | sales never exceed the schedule in force | `Inventory` (archiving, images, prices left out) |
| Checkout and approval (`bookingController`, `partnerController`, `utils/activityTime`, `utils/pendingPartnerWorker`, `services/pendingPartnerCancellationService`, `utils/cleanupWorker`) | `Booking.status`, hold and payment deadlines, approval deadline, tickets | checkout, approve, reject, cancel, expire, sweep | stock, vouchers, refunds, VNPay | two workers and two people deciding about the same row, stale candidates | status, seats, tickets and money agree; nobody waits for ever | `Booking` |
| VNPay (`paymentController`, `utils/vnpay`, `utils/paymentGateway`) | `Payment` rows, `paidAt`, `isDuplicate` | open an attempt, reconcile IPN and return, customer refund request | booking, stock, refunds | late, repeated, reordered callbacks; several attempts a booking | a charge serves the order or is owed back, exactly once | `Booking`, `PaymentContract` |
| Vouchers (`services/voucherRedemptionService`, `bookingController`) | `VoucherRedemption.status`, `Voucher.usedCount` | claim, release | every way out of a booking | cached count | the count is the number of live uses, below both limits | `Booking` |
| Operational suspension (`services/operationalSuspensionService`, `existingBookingFulfillmentPolicy`) | candidates in memory | suspend, remediate, resume | cancels bookings, opens recovery or refunds | loop of transactions over stale candidates, no restart | each booking settled once | `Booking`; for a transferred booking `BankTransfer` |
| Job locks (`utils/jobLease`, `cleanupWorker`, `refundWorker`, `notificationOutboxWorker`) | `ScheduledJobLock` row, `isRunning` of a process | acquire, sweep, release | guard every worker | overlapping ticks, expired leases, failed releases, crashes | two sweeps never overlap within their time | `JobLock` |
| Bank transfer and SePay (`services/bankTransferService`, `bankTransferController`, `sepayWebhookController`) | `Payment` `BT-<id>`, `BankTransferWebhookEvent`, statement matches | webhook (store, claim, confirm, finish), match and approve by two administrators | stock, vouchers, refunds | repeated deliveries, stale claims, errors after the confirmation, bookings that ended meanwhile | recorded money serves the booking or is asked back, never more than it cost | `BankTransfer` |
| Refund lifecycle (`services/refundLifecycleService`, `mandatoryRefundService`, `utils/refundWorker`, `staffController`) | `RefundRequest.status`, `RefundTransaction`, what VNPay did | queue, claim, submit, release, process, reconcile, adjudicate, finalize | payments, bookings, outbox | lost answers, stale reads, worker beside staff, crashes | money leaves once a request, requests close once and end | `Refund`, `RefundContract`; by hand in `BankTransfer`; queueing also in `Booking` |
| Notification outbox (`utils/notificationOutboxWorker`, `services/refundNotificationService`) | outbox rows | claim, send, retry | every flow | claims that expire under a slow sender | at least once, in the end | in `Refund` |
| Check-in and completion (`staffController`, `utils/completionWorker`) | ticket status, booking status | scan, complete, nightly sweep | refunds, cancellation, queue | unlocked reads in the worker | who was let in is not paid back | in `SmartQueue` |
| Smart queue (`services/smartQueueService`, `smartQueueOperationsService`) | queue entries, policy of the partner | join, call, leave, no-show, expire, pause, resume | bookings, check-in | six operations on one entry, deadlines moved by pauses | gate never promised twice, nobody waits for ever or loses the turn early | `SmartQueue` |
| Recovery cases (`services/recoveryService`, `utils/recoveryWorker`) | case status, chosen alternative | open, offer, select, expire | stock, refunds, vouchers | expiry beside a choice | one remedy a cancelled booking | the case of a transferred booking in `BankTransfer`, a replacement's seats in `Inventory`, its two refunds in `Refund`; offers not modelled |
| Loyalty, settlement | points ledger, payout status | award, reverse; close, pay | bookings, payments | none of their own | balance equals ledger | not modelled (section 7) |
| Party rooms | members, votes | join, vote, decide | checkout | concurrent votes | one decision | not modelled (section 7) |
| Accounts and sessions | refresh tokens | rotate, revoke, clean up | – | reuse of a token | one live token a session | not modelled (section 7) |
| Live trips, pricing, forecasts, onboarding, reviews, support, AI assistant, web client | predictions, single rows, text | – | – | – | – | not modelled (section 7) |

`PROJECT.json` lists the same components with the reason for each that is left out,
and every hazard found so far at the line where it bites.

## 2. Modules

    PaymentContract <------------+     Stock              JobLock    RefundContract
          ^ refines              |      ^  ^ extends         ^             ^ refines
          +----------- Booking --|------+  +-- Inventory     |          Refund
                       ^  ^  ^   |               ^           |             ^
             MCBooking |  |  |   |         MCInventory   MCJobLock      MCRefund
               MCShared --+  |   |
                   MCLive ---+   +-- BankTransfer <-- MCTransfer
                                     SmartQueue   <-- MCSmartQueue

* **Stock** is the seat ledger. Its operators are the moves the handlers are made
  of (`HoldSeats`, `ConfirmSeats`, `ReleaseHeld`, `ReleaseBooked`, `BookSeats`);
  `StockSpec` is the abstract ledger that any user must implement: it never confirms
  a reservation whose hold was given back, and never gives one back twice. A decrement
  whose `gte` guard fails throws in the code, which rolls the transaction back, so the
  enclosing action is not enabled. `confirmReservationAndStock` does not look for HELD
  itself; `ConfirmSeats` does not either, and `StockSpec` is where a caller that
  forgot would show.
* **Inventory** is one day of one attraction: customers and recovery on one side, the
  revision of its schedule on the other. Reservation handlers are Serializable, one
  step each. `reviewAttraction` is two (`CheckCapacity`, `Publish`), because it runs at
  PostgreSQL's default isolation and reads the stock without locking it. A rejection
  waits for the lock of a running approval, so it needs `~checked`.
* **Booking** is the life of an order. Handlers with one transaction are one action.
  A handler that decides on a read outside its transaction is two: `AskUrl` and
  `OpenAttempt` (`createVNPayUrl`), `SweepRead` and `SweepOne` (cleanup worker),
  `Suspend` and `RemedyOne` (remediation). VNPay is an environment that takes a payment
  until `vnp_ExpireDate` and reports it at any later time, any number of times, with
  `vnp_PayDate` or without (then the code uses the time of the callback).
* **PaymentContract** is what a customer is promised about money, without clocks or
  callbacks. `Booking` refines it by `ordered` and `kept`, `BankTransfer` by its statuses and
  `payment`.
* **BankTransfer** is the life of a booking paid by transfer. The bank account is the
  environment. A webhook is four steps with an error or a death possible after each of them
  (`FindOrCreateWebhookEvent`, `ClaimWebhookEvent`, `ConfirmFromWebhook`,
  `FinishWebhookEvent`), the administrators' request is two transactions (`ConfirmMatch`,
  `ApproveMatch`), and every confirmation is the one serializable transaction
  `ConfirmBankTransfer`. The other actors on the booking are the end of the hold and the sweep
  (`RunLate`, `SweepExpired`), the partner (`PartnerApproves`, `PartnerRejects`, and
  `PartnerCancels` for a paid booking), the customer (`CreateRefundRequest`), the suspension of
  the venue (`CancelAffected`), completion (`SweepCompleted`) and refunds by hand. A paid booking that
  partner or suspension cancels gets a recovery case or a full refund (`RescueOrRefund`);
  the customer takes another visit (`AcceptOption`), or declines or lets the case run out
  (`RefundCase`).
* **Refund** is the refunds of one VNPay payment. A process carries what it has read in
  `proc[p]`; each transaction of the worker, the staff desk, the reconciliation and the
  adjudication is a step, so is each call to the gateway, and `gateway[t]` is what VNPay
  did, which the program only learns from an answer or a query. The reconciliation loads its
  candidates before it works on them: a recorded 00/00 is seen in one step (`FindRecorded`) and the
  refund closed in another (`FinalizeRecorded`), which looks at the statuses again but not at the
  codes; staff may replace them in between. The outbox is in the
  same module, since its rows are created by the transaction that closes a request.
  **RefundContract** is what it refines: pay a request once, close it once, tell after that.
* **SmartQueue** is one gate on one day with a clock. Handlers of the queue and of tickets are
  serializable, one step each; the completion sweep is three (`FindCompleted`, `FindNoShows`,
  `UpdateFound`), because it reads twice and then writes one batch. `open` is a history
  variable: how long a called party could have come while the queue was open.
* **JobLock** is one lock row, the ticks of several processes, and both protocols that
  use it: `FlagFirst` with an owner a tick (`jobLease.js` and the workers on it), and
  the flag after the row with an owner a process (`cleanupWorker.js`).
* Proof modules stand on the module they are about: `StockProofs`, `InventoryProofs` and
  `BookingProofs` (both on `StockProofs`), `JobLockProofs`, `PaymentContractProofs`,
  `BankTransferProofs`, `RefundProofs`, `SmartQueueProofs`.

| Model | Code |
|---|---|
| `held`, `booked`, `hold` | `heldQuantity`/`heldQty`, `bookedQuantity`/`bookedQty`, `Reservation.status` |
| `schedule`, `submitted`, `checked` | published schedule, `submittedData`, how far the reviewing transaction is |
| `expiresAt`, `payBy`, `approveBy` | `Reservation.expiresAt`, `.paymentDeadline`, `Booking.partnerApprovalDeadline` |
| `pay`, `payExp`, `dup`, `paidAt` | columns of `Payment` |
| `refunds`, `rescues` | `RefundRequest.requestKey`, recovery cases opened at a cancellation |
| `askedAt`, `swept`, `affected` | the local variables a handler keeps between its read and its write |
| `charged`, `declined` | what happened at VNPay |
| `event`, `acked`, `early` | `BankTransferWebhookEvent.status`; what SePay was told, and whether by a repetition beside a delivery at work |
| `matched`, `approved`, `approving` | the statement's match, its approval, the administrator between confirming and approving |
| `BankTransfer.request`, `paidBack` | `RefundRequest` by its key (below), the money of successful refund transactions |
| `BankTransfer.rescue` | `RecoveryCase.status` of the booking opened at its cancellation, `NONE` before |
| `tx`, `byStaff`, `Refund.request` | `RefundTransaction` (status, `submittedAt` set, stored response), `processedById` set, `RefundRequest.status` |
| `proc`, `sending` | the place and the local variables of a worker, a member of staff, a sender |
| `entry`, `line`, `deadline`, `pausedAt` | `SmartQueueEntry.status`, order of `joinedAt`, `readyExpiresAt`, `queuePausedAt` |
| `valid`, `used` | tickets in status VALID and USED of a booking |
| `lockedBy`, `lockedUntil`, `pc`, `asked`, `isRunning` | `ScheduledJobLock`, the place of a tick, its `now`, the flag of the process |

The keys of `BankTransfer`: `customer` is the customer's own request; `system` is
`mandatory:SYSTEM_CANCELLATION:<id>`, queued for a late payment and by a suspension; `partner` is
`recovery-full-booking:<id>`; `recovery` is `recovery-full:<case>`; `difference` is
`recovery-difference:<case>`.

`PROJECT.json` maps each definition to its lines.

Operators commented "Bug:" are plausible mistakes (a lost guard, the wrong list of
statuses, the wrong order); nothing uses them. Each is the counterpart of one
definition, and stands before it to document which property notices the mistake
(the pairs are listed under "mutants").

## 3. Runs

| Run | States | Question |
|---|---|---|
| `inventory` | 18,888 | Do the counters stay exact through sales, publications, rejections and rolled back reviews, do sales respect the schedule in force, and is an overtaken publication the only way to oversell? |
| `inventory_oversell` | counterexample | Is the venue ever oversold? Yes (finding 1). |
| `booking` | 652,184 | Do status, seats, tickets and money of one order agree through every order of two attempts, callbacks, decisions, deadlines, sweeps, suspensions and crashes? |
| `booking_shared` | 814,618 | Do limits on holds, vouchers and seats hold when four reservations compete? |
| `booking_live` | 14,096 | Does every hold, approval and charge come to an end? |
| `refund` | 40,917 | Do a queued and a requested refund that together ask for more than the payment stay paid once, within it, closed once and told, and does every claim of a dead worker come back? |
| `refund_unpaid` | counterexample | Is a closed refund always paid? No (finding 3). |
| `transfer` | 1,226,424 | Does recorded money serve the booking or come back by exactly one remedy, through repeated webhooks, failures, two administrators, deadlines, cancellations by everyone who may cancel, a recovery case and refunds by hand? |
| `transfer_idempotent` | counterexample | Is confirming a transfer idempotent? No (finding 4). |
| `queue` | 738,398 | Is the gate never promised twice, does every scan stand, does nobody lose the turn early or wait for ever? |
| `job_lease` | 124,599 | Does the lease protocol keep sweeps and ticks apart? |
| `job_lock` | counterexample | Does the lock of the cleanup worker? No (finding 2). |

The properties, by what they are for:

* *Seats.* `Conservation`: every counter is the number of seats of the reservations in
  its status. `NoDrift`: no decrement can fail, so the HELD_STOCK_DRIFT quarantine is out
  of reach of the code's own operations. `StockSpec` (a refinement).
  `AdmissionWithinSchedule`: a row grows only within the schedule in force.
  `OversellOnlyByOvertaking`; `WithinCapacity` when the schedule is fixed.
* *Orders.* `BookingBacked`: nobody waits or pays without a hold, a confirmed customer
  has seats, tickets and one captured payment, a cancelled booking keeps none of them.
  `SweepOnlyExpired`: the sweep decides on a stale read and still takes only expired
  holds, the administrator's retry (`RetryDrift`, which skips the grace period) included.
  `HoldsLimited`: no handler revives a hold that the limits had stopped counting.
* *Money.* `KeepsContract` (a refinement), `RefundedOnce`, `PaidInTimeIsServed`,
  `VoucherLedger` (in the shared run, where bookings compete for the voucher).
* *Progress.* `HoldEventuallyReleased`, `ApprovalEventuallyDecided`,
  `ChargeEventuallySettled`.
* *Workers.* `OneSweeper`, `OneTickPerProcess`.
* *Refunds.* `FailedIsUnpaid`: what is recorded as failed, and so may be tried again, moved no
  money and never will, however late the gateway is. `RefundContractHolds` (a refinement).
  `PaidBackWithinCaptured`: what VNPay pays back on one payment fits into what it brought in, though
  worker and desk check the balance apart from the answers that are still under way.
  `UnpaidApprovalsAreEchoes`: finding 3 is the only way to close a refund that was not paid. It is
  about the step that closes, since the codes that misled the worker may be gone by then.
  `OnlyStaffStrandsRequests`: a request in PROCESSING without an open transaction, which no
  timer looks at, was left so by the staff desk (its stale read or its death), never by
  a worker or a reconciliation. `ClaimIsReleased`, `ApprovedIsTold`: liveness over crashes.
* *Transfers.* `OwedIsRequested`: status, payment, refund requests and recovery case agree, and
  a cancelled booking has exactly one remedy, whoever cancelled it. `PaidBackWithinPayment`: the
  requests a booking may have together. `AcknowledgedIsRecorded`:
  what SePay forgets is in the books; the exception, an acknowledgement to a
  repetition while the first delivery is still at work, is what the code does (`early`),
  and if that delivery then fails nobody tells the platform again. `TransferContract`.
* *The gate.* `GateWithinCapacity` speaks of the parties that may come now or, in a pause, when it
  ends. `CheckInsStick`: a scan is never overtaken by a cancellation, refund, call or no-show; the
  one exception is a scan that committed after the end of the visit, which the completion sweep
  may have read as unused. `NoShowHadItsTime` uses the history `open`, not the deadline the
  code computes. `EveryEntryCloses`: liveness.

### Bounds, and why they are enough

* `MCInventory`: two products sharing the day and a slot, a second slot, a family ticket
  of two, and four schedules (wide, without the afternoon, halved, closed). This is the
  smallest setting in which each layer is the tightest for some reservation and each of
  the two capacity checks refuses something.
* `MCBooking`: two payment attempts of one order, which is what duplicate, late and
  overlapping attempts need. `HoldTime` 2, `PayWindow` 2, `ApprovedWindow` 2,
  `ApprovalTime` 2, `Start` 4, `Grace` 1, `RefundBy` 2: pages are opened early and late in
  the hold, the hold, the page, the approval and the visit can end in
  every order the code allows, holds can be re-opened by approval, and the clock runs past
  the last deadline plus the grace (`Horizon` = `Start` + `HoldTime`, which the assumption
  asks for). One time unit stands for whatever separates two deadlines; the code only
  compares times.
* `MCShared`: three reservations of one customer (two for one offer) and one of another,
  two products of one venue with three seats a layer, one voucher with one use, a venue
  with or without manual approval. It neither changes its mode nor is suspended here
  (`SharedSpec`), which `booking` covers.
* `MCLive`: one order, one attempt, every administrator action.
* `MCJobLock`: two processes with two ticks each, time to live 2, horizon 5. A tick is
  used once, so the run ends when all are done and deadlock is not checked. In the
  runs of `Inventory` and `Booking` it is, and there is none.
* `MCRefund`: the two refunds that in the code compete for one payment, the difference of
  an accepted recovery (queued, mandatory) and the refund of the replacement (asked for, and
  held back while the other is open); one worker, one member of staff, one sender, one death.
  Two transactions are enough for the retry after a refusal and for both requests; with
  two processes of the desk every pair of worker, staff, reconciliation and adjudication occurs.
  The payment brought in 2, the requests ask for 1 and 2, so that the balance refuses the second
  whichever is first; two payments on one capture are then for the proofs, and for larger
  instances on which the safety properties were model-checked once: three requests of 1 on a
  capture of 2 (6,034,230 states), and a third transaction (181,034 states).
  `refund_unpaid` needs neither staff nor deaths. The proofs are for any requests, amounts and
  numbers of each.
* `MCTransfer`: two transfers of the total (the second is what idempotence is about) and one of
  another amount, two deliveries at a time, maker and checker, one death. The booking needs
  approval, so all statuses occur. It costs 2, a cancellation by the customer and a cheaper
  replacement pay back 1, so full and partial refunds compete. Deliveries, exact transfers and
  administrators are symmetric; the properties are of safety only, so the symmetry is sound.
* `MCSmartQueue`: parties of two and of one at a gate for one party or two guests, a
  call of two units, a pause, and a clock with room for a call that ends before, at and after the
  end of the visit and for the sweep after midnight. `Slack` 1 lets a scan end after the visit.
  `MaxTime` is past every deadline.
  With these numbers the bound on parties implies the one on guests; `GateHolds` proves both for any.
* The `refund`, `transfer` and `queue` runs may stop (everything is settled, a person is needed,
  the day is over), so deadlock is not checked there.
* `Horizon` stops the clock. `FairSpec` keeps it running until then, and no deadline lies
  later, so nothing is excused by the bound.

### Fairness (`FairSpec`)

`WF(Tick)`: time passes. `WF(SweepRead)` and `WF(ExpireApproval(r))`: `setInterval` fires
them for as long as any process runs. `SF(SweepOne(r))` rather than `WF`: a process may
die in one pass after another (`SweepCrash`), and this assumes only that not every pass dies
before it reaches `r`. `WF(Callback(p))`: VNPay repeats an IPN until it is answered.
Nothing is assumed of customers, partners and administrators. `OpenAttempt` has no
fairness either: a request may die between its read and its write.

`Refund`: `WF(Step(p))` of a worker: a call ends, by its timeout at the latest.
`SF(ReleaseClaim)`: the reconciliation runs as often as its timer fires, and not every run finds
the worker busy. `SF(ClaimOutboxRow)`, `SF(Deliver)`: the outbox sweep visits every due row, and the
mail server does not refuse for ever. Nothing is assumed of staff, administrators or VNPay.
`SmartQueue`: `WF(Tick)`, and `WF(CloseInvalidated)`, `WF(Expire)` because `sweepSmartQueues` pages
through every active entry at each run. `BankTransfer` states no fairness: a webhook that
is never repeated, and a person who never acts, are part of its environment.

## 4. Proofs

Checked by TLAPS for every value of the constants that satisfies the named assumptions
(`StockAssumption`, `InventoryAssumption`, `BookingAssumption`, `JobLockAssumption`,
`RefundAssumption`, `TransferAssumption`, `QueueAssumption`).
`BookingAssumption` gives the constants their types and says that a customer may no longer
cancel once the visit starts and that the clock outruns every deadline; customers, offers,
attempts, seats and windows are arbitrary.

* **StockProofs.** `StockConservation` and `StockNeverDrifts`, by the inductive
  invariant `StockInv`: types, finiteness of the seats on each row, and `Conservation`.
  `Conservation` is not inductive alone, since `Cardinality` says nothing of a set that may
  be infinite. Seats are a set (one element a seat), so that a sum over reservations is a
  cardinality: `SeatsAdd` and `SeatsRemove` are the two facts about it, `Enter`,
  `Leave` and `Stay` lift them to a status change, and there is one lemma for each ledger
  move. No finiteness of `Reservations` is needed. `NoDrift` follows: the seats of one
  member are among those of the set.
* **InventoryProofs.** `InventoryImplementsStock`: each action is a ledger move or leaves
  the ledger alone (this is where `Confirm`'s claim of a HELD row is used), so
  `InventoryConservation` and `InventoryNeverDrifts` follow from the abstract ledger.
  `InventoryTypeOK`; `SalesWithinSchedule` (`AdmissionWithinSchedule`): what a row owes
  grows only under a reservation or a replacement, which both look at each of their rows
  first; the others need `Covers` or move seats from one counter to the other.
  `OversoldByOvertaking` (`OversellOnlyByOvertaking`): a step that publishes nothing keeps
  within the schedule by the above; a publication the stock still accommodates does, because a
  slot never owes more than its day (`SlotsWithinDay`, from `Conservation`: every reservation
  counts in the day), so that the day's check covers the slots' smaller-of-both capacity.
* **JobLockProofs.** `JobLockTypeOK` for both protocols. `RowExcludes`: sweeps do not overlap within
  their time as long as no two ticks are at the row under one name (`NamesApart`). The
  invariant is `LeaseInv`: a sweep in its time is named by the row, until just
  that time, and no tick asked in the future. The protocols differ in how they keep names
  apart. `LeaseExcludes`: if every tick names an owner of its own (`FreshOwners`, what
  `randomUUID` is for), they are apart by themselves. `InstanceExcludes`: with one name a
  process (`InstanceOwners`) they are if the ticks of a process do not overlap.
  `FlagExcludes`: if the flag comes first (`FlagFirst`), ticks of one process do not
  overlap, by `FlagInv`: whoever is past the flag has it raised. `FlagRepairsInstance`
  combines the two: with the flag first the name of the process would do.
* **PaymentContractProofs.** `ContractHolds`: the contract that `Booking` and `BankTransfer`
  refine implies that a served order keeps exactly one charge and no other order keeps any, by
  `ContractInvariant`. `DebtsRemain`: what is owed stays owed, a closed order is never served
  again, and a charge stops being kept only when its order closes (`DebtsStand`).
* **BookingProofs.** `BookingTypeOK`. `BookingsBacked` (`BookingBacked`), by `OrdersInv`.
  `BookingBacked` is not inductive: it does not exclude a callback for a booking that waits
  for its partner unpaid, which would close an order nobody could pay. `OrdersInv` adds
  that such a booking, like one not yet checked out, is `Untouched`: no page was asked for
  and nothing charged. It also says that captured payments of a booking are equal, which
  is `Cardinality` 1 without finiteness. `OnlyOne` reduces each step to the booking it is
  about. `BookingImplementsStock`: this is where `confirmReservationAndStock`, which does not
  look for HELD, is shown to be called on HELD reservations only.
  `BookingWithinCapacity`: only `Reserve` raises held plus booked. `SweepsTakeExpired`
  (`SweepOnlyExpired`), by `WindowInv`: whatever a sweep has read as expired is still expired
  or no longer held, and a request for approval ends no later than its hold, so that no
  approval revives one. The same two facts give `HoldsStayLimited` (`HoldsLimited`): only
  `Reserve`, which checks the limits, makes a hold live. `VouchersCounted`
  (`VoucherLedger`), by `VoucherInv`, which adds that the uses are a finite set.
  To the money each step is one of five kinds (`MoneyKinds`):
  quiet, closing an order, or a charge that is served, refused or doubled. By `DupInv` and
  `DebtInv`, which say when a debt is due and that it is asked for exactly then, each
  kind keeps the debts in order: `RefundsOnce` (`RefundedOnce`). With the same invariants
  the refinement mapping can be read off the booking alone (`DebtsMap`), and each kind is
  an action of the contract or a stutter: `BookingKeepsContract` (`KeepsContract`), so that
  the theorems about the contract hold of the program's bookings: `BookingsChargedOnce` and
  `BookingsDebtsStand`, which take them from an instance of `PaymentContractProofs`. In the same
  way `BookingConservation` and `BookingNeverDrifts` follow from the abstract seat ledger.
  `PaidInTimeServed` (`PaidInTimeIsServed`), by
  `LinkInv`: pages lie within the windows of their booking, charges within their page, and
  no window moves once a page was asked for, because `OrdersInv` leaves the bookings whose
  windows move untouched.
* **BankTransferProofs.** `TypeCorrect`, and one invariant a question. Every step confirms a
  booking, moves one booking otherwise, or leaves the books alone (`BooksKinds`), so `OwedInv`
  and `PaidInv` are shown for the one booking a step is about (`OthersAlone`). `OwedInv` adds to
  `OwedIsRequested` that only recorded money is asked back or rescued, and that a booking which
  waits or is served has no case and no request but the customer's: this is why whoever
  cancels it finds the place of the remedy free. `QueueEffect`, `RescueEffect`, `CancelEffect` and
  `FinalEffect` say what the four kinds of steps do to requests and case. With `OwedInv`
  the refinement mapping can
  be read off the row (`DebtsMap`), and each kind is a step of the contract or a stutter:
  `TransferKeepsContract`, and from it `TransferDebtsStand`: another confirmation never serves
  again what was closed. `PaidInv` behind `PaidBackBounded` adds that
  one refund of a booking runs at a time and fits into what is left. `AcknowledgedRecorded` by
  `AckInv`: a finished event, and a delivery past its confirmation, have their payment in the books.
  `RecordedIsReal` (`PaymentsAreReal`) by `RealInv`, which adds that deliveries carry transfers that
  arrived and that a match is of one: nothing is recorded that is not in the account, and
  nobody approves alone. `RepeatsAreIdempotent` (`RepeatsChangeEndedOnly`) bounds finding 4:
  a repeated confirmation leaves booking, seats, requests and case as they are, but for the two
  statuses named there.
* **RefundProofs.** `TypeCorrect` by `TypeInv`, which ties the place of a process to its
  local variables. Steps are sorted into a few kinds by what they do to rows and processes
  (`NextKinds`: quiet, written, released, taken, ...), so that each invariant is shown once a
  kind. `HoldInv`: a transaction that may still be sent is in one pair of hands at most, the
  gateway is not asked before the row says so, and what the response column says happened
  did, unless it is an echo, and the same of what a worker has seen there (`RecordPart`), which
  outlives the column. From it `FailedUnpaid` and, with `Closing` (which steps close a
  transaction, and on what), `UnpaidEchoes`. `DeskInv` is `TxPart` (a
  request has at most one live transaction, and an unsubmitted one is the first of a
  queued request) and `StaffPart` (what a member of staff has read as clear is still clear when
  it matters, and a claim has one claimer); from both `PaidOnceHolds`: at most one
  transaction of a request ever moves money. `FailedIsUnpaid` alone does not give this, because
  staff retry by a read that may be stale. `OnlyStaffStrands`. `MailInv` says that rows,
  senders and staff letters are about approved requests. `RefundKeepsContract` maps the
  count of payments to 0 or 1 by `PaidOnce` (`PaymentsMap`) and each kind to a step or a stutter.
  `PaidBackBounded` (`PaidBackWithinCaptured`): money that left is not what the desk reads, and an
  answer may be lost for ever, so `MoneyInv` bounds the transactions `AtRisk`, those that succeeded
  or are still under way. `OneRefundInFlight` (`OneInFlight`) is what makes it inductive: a
  transaction comes to them only when no other is under way, and then the balance the desk read is
  what is left. Money is a set of units (`Coins`), so that the bound is again a cardinality (`CoinsGrow`).
  `EndedIsFinal` (`EndedStays`): no late answer, query or release revives what ended.
* **SmartQueueProofs.** `QueueTypeOK` by `TypeInv`. Steps are calls, ticks, the two ends of a
  pause, or calm (`Kinds`), and `QueueTime` is the clock that stands still in a pause.
  `GateHolds`: only a call enlarges the set of called parties (`CalledShrinks`; for the end of a pause
  this is the arithmetic of the moved deadlines), and a call looks at the set first. Guests are
  counted as a set of people, so no induction over a sum is needed (`GuestsAdd`). `ScansStick`
  by `SweepInv`: what the completion sweep has read as served is served, and what it has read as
  unused and was scanned since, was scanned after the visit. `TurnsAreKept` by `TurnInv`: the
  time a party had and the time its call still has make up what was promised, unless the
  visit ends first. `TurnsInOrder` (`NobodyIsOvertaken`): first come, first called, which is
  inductive as it stands.

Only model-checked: the liveness properties, which with fairness and ENABLED are outside the
prover's reach. Every safety property a passing run checks is a theorem. Some theorems are about
properties that no run lists, because another property of the run stands for them or follows from
them: `PaidOnce`, `OneInFlight`, `EndedStays`, `PaymentsAreReal`, `RepeatsChangeEndedOnly`,
`NobodyIsOvertaken`, and `DebtsStand`. TLC found them to hold on the instances of the runs before
they were proved.

## 5. Findings

1. **A publication can oversell** (`inventory_oversell`). `planFutureAttractionStockSync` and
   `assertFutureTimeSlotCapacity` read the stock without a lock at READ COMMITTED. A
   reservation that commits after that read and before the write leaves a day or a slot
   owing more than it has. The check's own error message
   (`attractionWorkflowService.js:467`) says that this is what it refuses.
   `OversellOnlyByOvertaking` shows that this race is the only way.
2. **The cleanup lock lets two processes in** (`job_lock`). The ticks of a process share
   `INSTANCE_ID`, and a tick drops `isRunning` before it releases the row. The next tick can
   take the row in between, under the same name; the late release then clears it, and
   another process gets in while the first is still sweeping. The sweep itself survives this:
   each `SweepOne` claims its reservation, and `SweepRead` in `Booking` may read while another
   sweep is at work, so the harm is double work, not lost seats. `InstanceExcludes` shows that the
   overlap of two ticks of one process is the only way in, and `FlagRepairsInstance` that
   raising the flag before asking for the row, and dropping it after its release, closes it.

3. **A refund is closed that was never paid** (`refund_unpaid`). The worker's query asks VNPay about
   the original payment. If the report does not name the refund, its codes, 00/00 for any
   captured payment, are stored in the columns of the refund's own answer
   (`refundWorker.js:557`); the next sweep (`refundWorker.js:476`) takes them for it and closes
   the request, and the customer is told. It takes an answer that was lost and two sweeps, no
   race and no crash. The worker acts on candidates it loaded before, so a reconciliation by
   staff that replaces the codes meanwhile does not stop it. `UnpaidApprovalsAreEchoes`, which is
   proved, says that a worker that read such codes is the only way.
4. **Confirming a transfer is not idempotent** (`transfer_idempotent`). A booking that is paid and is
   REFUND_REQUESTED or NO_SHOW is not among the states `confirmBankTransfer` returns early for
   (`bankTransferService.js:153` to 171). The second administrator, or a second SePay event,
   cancels it and queues a full refund beside the customer's own request, or for a visit that
   was missed. The reservation stays CONFIRMED, so the seats stay sold until a refund ends.
   `RepeatsAreIdempotent`: every other booking is left alone by a repetition.
   `PaidBackWithinPayment` still holds: not more than the price is paid back, but more than the
   policy grants.

Things the models show that no comment contradicts:

* *A second real transfer* for a booking that is CONFIRMED ends as PROCESSED: its money is
  neither recorded nor paid back. `AcknowledgedIsRecorded` speaks of the booking's payment
  for this reason.
* *A webhook acknowledged too early* (`early`): SePay repeats an event while the first delivery is at
  work, the repetition is acknowledged, and the first delivery fails. The event stays FAILED, and only a
  person finds it.
* *A request left in PROCESSING* by the staff desk: its stale read says that a transaction is
  uncertain which has ended meanwhile, or its process dies. No timer looks at such a request.
* *A visitor marked as a no-show*: the completion sweep reads unused bookings, a scan that began
  before the end of the visit commits after it, the batch marks the booking NO_SHOW.
  `completionWorker.js:19` says that one used ticket is enough for COMPLETED; `CheckInsStick`
  admits the exception only for such scans.
* `RemedyCrash`. When the request
  that suspends a venue dies in its loop, the bookings it had not reached stay active at a
  suspended venue, and nothing takes them up again except their own deadlines or a person.

## 6. Abstractions

* Amounts, signatures, currencies, e-mail, notifications, audit rows, support tickets: left
  out; no property is about them. A callback whose `vnp_PayDate` is malformed is not modelled.
* A Serializable transaction is one step. `rejectBooking` runs at READ COMMITTED; it is one
  step too, because its first write is a conditional claim of the row that every
  competitor also claims.
* Creation of a missing stock row is part of the reservation. The product's row is not
  compared by a publication (`Accommodates` is about the day and the slots), as in the code.
* The sweep's batch size is left out: a pass reads all candidates.
* The candidates of a suspension are read in the step that sets the flag; between the
  two in the code a checkout may still be refused or accepted, as it may before `Suspend`.
  Remediation in the code uses the `now` of the request; the model uses the current time.
* `Booking` ends an order at `REFUND_REQUESTED`, and its refunds at their queueing; what follows is
  in `Refund` and, for tickets and completion, in `SmartQueue`. Bookings paid by bank transfer
  are in `BankTransfer`.
* The heartbeat by which `liveTripWorker` extends its lease is not in `JobLock`.
* `BankTransfer`: tickets, points and the voucher follow the booking's status in the same transaction.
  The flag `refundRequired` and the two guards of a rejection that only a VNPay payment can reach are in
  `Booking`. A refund by hand
  is condensed to claimed, created and finished. An outgoing transfer, a wrong amount and an
  unreadable reference all end in review. When partner or suspension cancels, whether another visit
  can be offered is left open, and so are the time of the visit and used tickets, which the code
  also asks about; whether an accepted offer is cheaper is left open too. An offer accepted after the
  case ran out is refunded by the same transaction (`RefundCase`). The replacement booking
  is a booking of its own, paid by the first one's payment: its refunds
  (`recovery-customer:<id>`), its cancellation and a further case are outside, and they may
  set the first booking to `REFUNDED`, which is why `OwedIsRequested` says nothing about that status
  once the value went to a replacement. `PaidBackWithinPayment` is about the requests of the model;
  the competition of a difference with the replacement's refund for one payment is in
  `Refund`.
* `Refund`: a live worker writes `submittedAt` within the five minutes after which its claim may be
  released (nothing else protects that step: the write does not look at the status).
  Reconciliation runs at any time, without its age limits. VNPay decides a request id once; an
  administrator's evidence is true and final. Left out: rejection by staff (requests here are mandatory
  or approved), a transaction without a request, the manual gateway (in `BankTransfer`), the
  repair of an open request that has a SUCCESS transaction (out of reach, by the proved
  invariant `TxPart`), and the check that a booking is already REFUNDED (the requests
  pay back different bookings of one customer). The worker's own delivery of a notification
  is a sender's step.
* `SmartQueue`: requests read the clock when they commit, except scans (`Slack`). The pressure
  score, the suspension check and the AUTO or STAFF mode only decide when a call is tried, and
  `Call` may be tried at any time the gate allows. All parties have the same slot, so there is one
  `Close`. The sweep's branch that admits a scanned party is out of reach, because a scan
  admits in its own transaction. The cancellation by `synchronizeLiveTrip` has the
  effect of `CloseInvalidated`. The policy's limits do not change during the day. `Expire` asks for no
  booking status, as the update in the code asks for none. The lock of the completion sweep is in `JobLock`.

## 7. Not modelled

* *Recovery cases*: the search for offers and their ranking, which are data, and the later life of a
  replacement booking beside its case. Opening, choice, refusal and expiry of a case are in
  `BankTransfer`, what they do to seats and to a VNPay payment in `Inventory` and `Refund`.
* *Loyalty*: points are written in the transactions of the modelled handlers, under unique keys; no
  step of its own could interleave with them. *Settlement*: sums over recorded payments and
  a status a person sets.
* *Party rooms*: drafts whose result is a checkout like any other; votes touch neither money nor seats.
* *Accounts and sessions*: share no state with bookings, seats or money.
* *Live trips, pricing, forecasts*: estimation on recorded data, outside what a finite model tells
  apart; their only effect on modelled state is the cancellation of a queue entry.
* *Onboarding, reviews, support, AI assistant*: updates of single rows and generated text.
* *Web client, seed data, scripts*: presentation and data; the server decides every transition. They
  are most of the repository's lines.

Hazards without a property are listed with the reason in `PROJECT.json`: the remediation that dies, the
second real transfer, the worker that stalls past the release age, and the customer who may
hear twice of one refund.
