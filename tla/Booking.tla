------------------------------- MODULE Booking -------------------------------
(***************************************************************************)
(* A booking from the seat hold to the served or cancelled order, paid     *)
(* through VNPay: the customer's requests, the gateway's callbacks (late,  *)
(* repeated, out of order), the partner's decisions, the two workers that  *)
(* enforce deadlines, and the suspension of the venue.                     *)
(*                                                                         *)
(* Handlers that run one transaction are one step.  A handler that reads   *)
(* outside the transaction it writes in is two: createVNPayUrl (AskUrl,    *)
(* OpenAttempt), the sweep of expired holds (SweepRead, SweepOne) and the  *)
(* remediation after a suspension (Suspend, RemedyOne).                    *)
(*                                                                         *)
(* Times are integers.  Start is when the visit starts; no deadline of the *)
(* code lies after Start + HoldTime, and the clock stops at Horizon.       *)
(***************************************************************************)
EXTENDS Stock

CONSTANTS
    Owner,          \* the customer of a reservation
    Offer,          \* the product, date and slot a reservation is for
    Attempts,       \* payment attempts (Payment rows)
    BookingOf,      \* the reservation, hence booking, an attempt pays for
    WithVoucher,    \* reservations whose checkout names the voucher
    Capacity,       \* seats of each layer
    MaxHolds,       \* MAX_ACTIVE_HOLDS_PER_USER
    VoucherLimit,   \* Voucher.usageLimit
    VoucherPerUser, \* Voucher.maxUsesPerUser
    HoldTime,       \* HOLD_DURATION_MS
    PayWindow,      \* PAYMENT_WINDOW_MS
    ApprovalTime,   \* MANUAL_APPROVAL_TIMEOUT_MS
    ApprovedWindow, \* getApprovedVnpayWindowMs
    MinLead,        \* getManualApprovalMinLeadMs
    Grace,          \* graceMs of the sweep
    Start,          \* startsAt of the visit
    RefundBy,       \* getRefundDeadline, before which a customer may cancel
    Horizon         \* the clock stops here (a bound of the model)

ASSUME BookingAssumption ==
    /\ DOMAIN Owner = Reservations /\ DOMAIN Offer = Reservations
    /\ BookingOf \in [Attempts -> Reservations]
    /\ WithVoucher \subseteq Reservations
    /\ Capacity \in [Layers -> Nat]
    /\ {MaxHolds, VoucherLimit, VoucherPerUser} \subseteq Nat \ {0}
    /\ {HoldTime, PayWindow, ApprovalTime, ApprovedWindow, MinLead, Grace} \subseteq Nat
    /\ {Start, RefundBy, Horizon} \subseteq Nat
    /\ RefundBy <= Start /\ Start + HoldTime <= Horizon

NoTime == -1

Earlier(s, t) == IF s <= t THEN s ELSE t

VARIABLES
    now,            \* new Date()
    expiresAt,      \* Reservation.expiresAt
    payBy,          \* Reservation.paymentDeadline, NoTime for null
    booking,        \* Booking.status, "NONE" before checkout
    approveBy,      \* Booking.partnerApprovalDeadline, set with partnerApprovalRequestedAt
    approved,       \* Booking.partnerApprovedAt is set
    refundRequired, \* Booking.refundRequired
    tickets,        \* TicketInstance.status of the booking's tickets
    redemption,     \* VoucherRedemption.status
    usedCount,      \* Voucher.usedCount
    pay,            \* Payment.status, "NONE" before the row exists
    payExp,         \* Payment.expiresAt (vnp_ExpireDate)
    dup,            \* Payment.isDuplicate
    paidAt,         \* Payment.paidAt
    refunds,        \* RefundRequest.requestKey: <<type, booking or payment>>
    rescues,        \* bookings with a recovery case opened at their cancellation
    manual,         \* Attraction.requiresManualApproval
    suspended,      \* the attraction or its partner is not operational
    askedAt,        \* the `now` of a createVNPayUrl between its read and its write
    swept,          \* candidates the running sweep has read and not yet visited
    affected,       \* candidates the running remediation has not yet visited
    charged,        \* when the customer paid at the gateway (vnp_PayDate)
    declined        \* attempts the gateway reports as failed

windowVars == <<expiresAt, payBy>>
orderVars == <<booking, approveBy, approved, refundRequired, tickets>>
voucherVars == <<redemption, usedCount>>
payVars == <<pay, payExp, dup, paidAt>>
debtVars == <<refunds, rescues>>
venueVars == <<manual, suspended>>
jobVars == <<swept, affected>>
gatewayVars == <<charged, declined>>
vars == <<stockVars, now, windowVars, orderVars, voucherVars, payVars, debtVars,
          venueVars, askedAt, jobVars, gatewayVars>>

-----------------------------------------------------------------------------
(* What the handlers read *)

AttemptsOf(r) == {p \in Attempts : BookingOf[p] = r}

\* getCapturedPayment: the successful payment that is not a duplicate.
Captured(r) == {p \in AttemptsOf(r) : pay[p] = "SUCCESS" /\ ~dup[p]}

\* Bug: a booking whose customer asked for a refund counts as active.
ActiveOrRefunding == {"PENDING_PAYMENT", "PENDING_PARTNER", "CONFIRMED", "REFUND_REQUESTED"}

\* ACTIVE_STATUSES of a suspension
Active == {"PENDING_PAYMENT", "PENDING_PARTNER", "CONFIRMED"}

\* Bug: the sweep predates manual approval.
SweptOnlyPayable == {"PENDING_PAYMENT"}

\* The bookings the sweep cancels with their hold.
SweptStatuses == {"PENDING_PAYMENT", "PENDING_PARTNER"}

\* Bug: a hold past its time is still good for a checkout.
AnyHold(r) == hold[r] = "HELD"

LiveHold(r) == hold[r] = "HELD" /\ expiresAt[r] > now

LiveHolds(u) ==
    {r \in Reservations : Owner[r] = u /\ hold[r] = "HELD" /\ expiresAt[r] > now}

\* The customer is below the limit and holds nothing for the same offer.
MayHold(r) ==
    /\ Cardinality(LiveHolds(Owner[r])) < MaxHolds
    /\ \A q \in LiveHolds(Owner[r]) : Offer[q] # Offer[r]

\* Bug: the sweep goes by the payment deadline, which approval clears.
OverdueToPay(r) == hold[r] = "HELD" /\ payBy[r] # NoTime /\ payBy[r] < now - Grace

\* A hold the sweep may take.
Overdue(r) == hold[r] = "HELD" /\ expiresAt[r] < now - Grace

\* The time until which a booking may be paid, as createVNPayUrl reads it.
PayableUntil(r) == IF payBy[r] # NoTime THEN payBy[r] ELSE expiresAt[r]

\* Bug: the payment page outlives the hold.
LinkWindow(r) == now + PayWindow

\* When the payment page of an attempt opened now expires.
LinkExpiry(r) == Earlier(now + PayWindow, PayableUntil(r))

\* resolvePaymentDeadline: the earliest of all deadlines known for an attempt.
PaymentDeadline(p) == Earlier(payExp[p], Earlier(PayableUntil(BookingOf[p]), expiresAt[BookingOf[p]]))

\* Bug: the partner may take longer than the visit is away.
ApprovalWindow(t) == t + ApprovalTime

\* calculateManualApprovalDeadline
ApprovalCutoff(t) == Earlier(t + ApprovalTime, Start)

\* getManualApprovalDeadline: the stored one, else counted from the payment.
ApprovalDeadline(r) ==
    IF approveBy[r] # NoTime THEN approveBy[r]
    ELSE LET first == CHOOSE p \in Captured(r) : \A q \in Captured(r) : paidAt[p] <= paidAt[q]
         IN  ApprovalCutoff(paidAt[first])

NeedsApproval(r) == manual /\ ~approved[r]

\* Bug: a request stays open until the sweep finds its hold.
AskedForApproval(r) == approveBy[r] # NoTime

\* A request for approval before payment is open until its deadline.
OpenRequest(r) == approveBy[r] # NoTime /\ now < approveBy[r]

-----------------------------------------------------------------------------
(* Steps shared by the handlers *)

\* releaseHeldInventory or releaseInventory, by the status of the reservation.
GiveBack(r) == IF hold[r] = "HELD" THEN ReleaseHeld(r, "CANCELLED") ELSE ReleaseBooked(r)

\* Bug: a booking that never used the voucher gives a use back.
ReleaseBlindly(r) ==
    /\ redemption' = [redemption EXCEPT ![r] = "RELEASED"]
    /\ usedCount' = IF usedCount > 0 THEN usedCount - 1 ELSE usedCount

\* releaseVoucherRedemption: only an ACTIVE redemption gives its use back.
ReleaseVoucher(r) ==
    IF redemption[r] = "ACTIVE"
    THEN /\ redemption' = [redemption EXCEPT ![r] = "RELEASED"]
         /\ usedCount' = IF usedCount > 0 THEN usedCount - 1 ELSE usedCount
    ELSE UNCHANGED voucherVars

Cancel(r, owed) ==
    /\ booking' = [booking EXCEPT ![r] = "CANCELLED"]
    /\ refundRequired' = [refundRequired EXCEPT ![r] = owed]
    /\ UNCHANGED <<approveBy, approved>>

ExpireTickets(r) == tickets' = [tickets EXCEPT ![r] = IF @ = "VALID" THEN "EXPIRED" ELSE @]

\* queueMandatoryRefund: an upsert on the key, so a second call adds nothing.
QueueRefund(type, id) ==
    /\ refunds' = refunds \cup {<<type, id>>}
    /\ UNCHANGED rescues

\* The cancellation of a paid booking opens a recovery case when there is an
\* alternative to offer, and queues the mandatory refund otherwise.
RescueOrRefund(r, type) ==
    \/ rescues' = rescues \cup {r} /\ UNCHANGED refunds
    \/ QueueRefund(type, r)

\* Payments of r still open when one is captured or the booking is swept.
FailOpen(r, status) ==
    [p \in Attempts |-> IF BookingOf[p] = r /\ status[p] = "PENDING" THEN "FAILED" ELSE status[p]]

-----------------------------------------------------------------------------
(* The customer *)

\* reserveTickets
Reserve(r) ==
    /\ ~suspended /\ now < Start
    /\ MayHold(r)
    /\ Fits(r, Capacity)
    /\ HoldSeats(r)
    /\ expiresAt' = [expiresAt EXCEPT ![r] = now + HoldTime]
    /\ payBy' = [payBy EXCEPT ![r] = now + HoldTime]
    /\ UNCHANGED <<now, orderVars, voucherVars, payVars, debtVars, venueVars, askedAt,
                   jobVars, gatewayVars>>

\* The voucher part of createBooking: the conditional increment of usedCount
\* and the customer's own limit.
ClaimVoucher(r) ==
    IF r \in WithVoucher
    THEN /\ usedCount < VoucherLimit
         /\ Cardinality({q \in WithVoucher : Owner[q] = Owner[r] /\ redemption[q] = "ACTIVE"})
              < VoucherPerUser
         /\ redemption' = [redemption EXCEPT ![r] = "ACTIVE"]
         /\ usedCount' = usedCount + 1
    ELSE UNCHANGED voucherVars

\* createBooking at a venue that confirms at once.
Checkout(r) ==
    /\ booking[r] = "NONE" /\ ~suspended /\ ~manual
    /\ LiveHold(r)
    /\ ClaimVoucher(r)
    /\ booking' = [booking EXCEPT ![r] = "PENDING_PAYMENT"]
    /\ UNCHANGED <<stockVars, now, windowVars, approveBy, approved, refundRequired, tickets,
                   payVars, debtVars, venueVars, askedAt, jobVars, gatewayVars>>

\* createBooking at a venue whose partner approves first: the hold is kept
\* until the approval deadline, and nothing can be paid before.
CheckoutForApproval(r) ==
    LET deadline == ApprovalCutoff(now) IN
    /\ booking[r] = "NONE" /\ ~suspended /\ manual
    /\ LiveHold(r)
    /\ Start - now >= MinLead /\ deadline > now
    /\ ClaimVoucher(r)
    /\ booking' = [booking EXCEPT ![r] = "PENDING_PARTNER"]
    /\ approveBy' = [approveBy EXCEPT ![r] = deadline]
    /\ IF deadline > expiresAt[r]
       THEN /\ expiresAt' = [expiresAt EXCEPT ![r] = deadline]
            /\ payBy' = [payBy EXCEPT ![r] = NoTime]
       ELSE UNCHANGED windowVars
    /\ UNCHANGED <<stockVars, now, approved, refundRequired, tickets, payVars, debtVars,
                   venueVars, askedAt, jobVars, gatewayVars>>

\* createVNPayUrl up to its transaction: everything is read and decided here.
AskUrl(p) ==
    LET r == BookingOf[p] IN
    /\ pay[p] = "NONE" /\ askedAt[p] = NoTime
    /\ booking[r] = "PENDING_PAYMENT" /\ ~suspended
    /\ Captured(r) = {}
    /\ PayableUntil(r) > now
    /\ askedAt' = [askedAt EXCEPT ![p] = now]
    /\ payExp' = [payExp EXCEPT ![p] = LinkExpiry(r)]
    /\ UNCHANGED <<stockVars, now, windowVars, orderVars, voucherVars, pay, dup, paidAt,
                   debtVars, venueVars, jobVars, gatewayVars>>

\* The transaction of createVNPayUrl: it claims the reservation, not the
\* booking, by the time of the request.
OpenAttempt(p) ==
    /\ askedAt[p] # NoTime
    /\ IF hold[BookingOf[p]] = "HELD" /\ expiresAt[BookingOf[p]] > askedAt[p]
       THEN pay' = [pay EXCEPT ![p] = "PENDING"]
       ELSE UNCHANGED pay
    /\ askedAt' = [askedAt EXCEPT ![p] = NoTime]
    /\ UNCHANGED <<stockVars, now, windowVars, orderVars, voucherVars, payExp, dup, paidAt,
                   debtVars, venueVars, jobVars, gatewayVars>>

\* createRefundRequest: the seats and the tickets stay until staff complete it.
RequestRefund(r) ==
    /\ booking[r] = "CONFIRMED" /\ Captured(r) # {}
    /\ now < RefundBy
    /\ booking' = [booking EXCEPT ![r] = "REFUND_REQUESTED"]
    /\ QueueRefund("customer", r)
    /\ UNCHANGED <<stockVars, now, windowVars, approveBy, approved, refundRequired, tickets,
                   voucherVars, payVars, venueVars, askedAt, jobVars, gatewayVars>>

-----------------------------------------------------------------------------
(* The gateway: VNPay takes a payment until vnp_ExpireDate, once, and calls  *)
(* back (IPN, and the customer's browser) at any later time, repeatedly.     *)

GatewayPay(p) ==
    /\ pay[p] # "NONE" /\ charged[p] = NoTime /\ p \notin declined
    /\ now <= payExp[p]
    /\ charged' = [charged EXCEPT ![p] = now]
    /\ UNCHANGED <<stockVars, now, windowVars, orderVars, voucherVars, payVars, debtVars,
                   venueVars, askedAt, jobVars, declined>>

GatewayDecline(p) ==
    /\ pay[p] # "NONE" /\ charged[p] = NoTime /\ p \notin declined
    /\ declined' = declined \cup {p}
    /\ UNCHANGED <<stockVars, now, windowVars, orderVars, voucherVars, payVars, debtVars,
                   venueVars, askedAt, jobVars, charged>>

-----------------------------------------------------------------------------
(* reconcileVnpayPayment, one transaction a callback                         *)

\* Bug: a second payment is captured like the first.
CaptureUnflagged(p, t, duplicate) ==
    /\ pay' = FailOpen(BookingOf[p], [pay EXCEPT ![p] = "SUCCESS"])
    /\ paidAt' = [paidAt EXCEPT ![p] = t]
    /\ UNCHANGED <<dup, payExp>>

\* The payment succeeded at time t: vnp_PayDate, or the time of the callback
\* when the gateway leaves it out.  Every other open attempt is failed.
Capture(p, t, duplicate) ==
    /\ pay' = FailOpen(BookingOf[p], [pay EXCEPT ![p] = "SUCCESS"])
    /\ dup' = [dup EXCEPT ![p] = duplicate]
    /\ paidAt' = [paidAt EXCEPT ![p] = t]
    /\ UNCHANGED payExp

\* Bug: an attempt that was failed no longer takes a callback.
ReportedOpen(p, t) ==
    charged[p] # NoTime /\ pay[p] = "PENDING" /\ t \in {charged[p], now}

Reported(p, t) ==
    charged[p] # NoTime /\ pay[p] # "SUCCESS" /\ t \in {charged[p], now}

\* Bug: a payment made in time is served whatever became of its hold.
PaidInTime(p, t) == ~suspended /\ t <= PaymentDeadline(p)

InTime(p, t) ==
    /\ booking[BookingOf[p]] = "PENDING_PAYMENT" /\ hold[BookingOf[p]] = "HELD"
    /\ ~suspended
    /\ t <= PaymentDeadline(p)

CallbackServe(p, t) ==
    LET r == BookingOf[p] IN
    /\ Reported(p, t) /\ Captured(r) = {}
    /\ InTime(p, t)
    /\ Capture(p, t, FALSE)
    /\ ConfirmSeats(r)
    /\ IF NeedsApproval(r)
       THEN /\ booking' = [booking EXCEPT ![r] = "PENDING_PARTNER"]
            /\ UNCHANGED tickets
       ELSE /\ booking' = [booking EXCEPT ![r] = "CONFIRMED"]
            /\ tickets' = [tickets EXCEPT ![r] = "VALID"]
    /\ UNCHANGED <<now, windowVars, approveBy, approved, refundRequired, voucherVars, debtVars,
                   venueVars, askedAt, jobVars, gatewayVars>>

CallbackRefuse(p, t) ==
    LET r == BookingOf[p] IN
    /\ Reported(p, t) /\ Captured(r) = {}
    /\ ~InTime(p, t)
    /\ Capture(p, t, FALSE)
    /\ IF booking[r] = "PENDING_PAYMENT"
       THEN GiveBack(r) /\ ReleaseVoucher(r)
       ELSE UNCHANGED <<stockVars, voucherVars>>
    /\ Cancel(r, TRUE)
    /\ QueueRefund("system", r)
    /\ UNCHANGED <<now, windowVars, tickets, venueVars, askedAt, jobVars, gatewayVars>>

CallbackDuplicate(p, t) ==
    LET r == BookingOf[p] IN
    /\ Reported(p, t) /\ Captured(r) # {}
    /\ Capture(p, t, TRUE)
    /\ refundRequired' = [refundRequired EXCEPT ![r] = TRUE]
    /\ QueueRefund("duplicate", p)
    /\ UNCHANGED <<stockVars, now, windowVars, booking, approveBy, approved, tickets, voucherVars,
                   venueVars, askedAt, jobVars, gatewayVars>>

\* A failure only fails the attempt; the booking stays payable.
CallbackFailure(p) ==
    /\ p \in declined /\ pay[p] = "PENDING"
    /\ pay' = [pay EXCEPT ![p] = "FAILED"]
    /\ UNCHANGED <<stockVars, now, windowVars, orderVars, voucherVars, payExp, dup, paidAt,
                   debtVars, venueVars, askedAt, jobVars, gatewayVars>>

-----------------------------------------------------------------------------
(* The partner *)

\* cancelPendingPartnerBooking, of a paid booking only.
CancelPending(r) ==
    /\ booking[r] = "PENDING_PARTNER" /\ Captured(r) # {}
    /\ hold[r] \in {"HELD", "CONFIRMED"}
    /\ GiveBack(r)
    /\ ReleaseVoucher(r)
    /\ Cancel(r, TRUE)
    /\ QueueRefund("system", r)
    /\ UNCHANGED <<now, windowVars, tickets, payVars, venueVars, askedAt, jobVars, gatewayVars>>

\* approveBooking before payment opens a payment window of its own.
ApproveUnpaid(r) ==
    LET deadline == Earlier(now + ApprovedWindow, Start) IN
    /\ booking[r] = "PENDING_PARTNER" /\ Captured(r) = {}
    /\ OpenRequest(r)
    /\ ~suspended /\ hold[r] = "HELD" /\ deadline > now
    /\ booking' = [booking EXCEPT ![r] = "PENDING_PAYMENT"]
    /\ approved' = [approved EXCEPT ![r] = TRUE]
    /\ expiresAt' = [expiresAt EXCEPT ![r] = deadline]
    /\ payBy' = [payBy EXCEPT ![r] = deadline]
    /\ UNCHANGED <<stockVars, now, approveBy, refundRequired, tickets, voucherVars, payVars,
                   debtVars, venueVars, askedAt, jobVars, gatewayVars>>

\* approveBooking after payment (the venue began to approve while it was paid).
ApprovePaid(r) ==
    /\ booking[r] = "PENDING_PARTNER" /\ Captured(r) # {}
    /\ now < ApprovalDeadline(r) /\ ~suspended
    /\ ConfirmSeats(r)
    /\ booking' = [booking EXCEPT ![r] = "CONFIRMED"]
    /\ tickets' = [tickets EXCEPT ![r] = IF @ = "NONE" THEN "VALID" ELSE @]
    /\ UNCHANGED <<now, windowVars, approveBy, approved, refundRequired, voucherVars, payVars,
                   debtVars, venueVars, askedAt, jobVars, gatewayVars>>

\* approveBooking of a paid booking too late, or while the venue is suspended.
ApproveBlocked(r) ==
    /\ booking[r] = "PENDING_PARTNER" /\ Captured(r) # {}
    /\ now >= ApprovalDeadline(r) \/ suspended
    /\ CancelPending(r)

\* rejectBooking
Reject(r) ==
    /\ booking[r] = "PENDING_PARTNER"
    /\ GiveBack(r)
    /\ ReleaseVoucher(r)
    /\ Cancel(r, Captured(r) # {})
    /\ IF Captured(r) # {} THEN QueueRefund("partner", r) ELSE UNCHANGED debtVars
    /\ UNCHANGED <<now, windowVars, tickets, payVars, venueVars, askedAt, jobVars, gatewayVars>>

\* cancelConfirmedBooking
PartnerCancel(r) ==
    /\ booking[r] = "CONFIRMED" /\ now < Start
    /\ ReleaseBooked(r)
    /\ ReleaseVoucher(r)
    /\ Cancel(r, Captured(r) # {})
    /\ ExpireTickets(r)
    /\ IF Captured(r) # {} THEN RescueOrRefund(r, "partner") ELSE UNCHANGED debtVars
    /\ UNCHANGED <<now, windowVars, payVars, venueVars, askedAt, jobVars, gatewayVars>>

-----------------------------------------------------------------------------
(* The workers *)

\* Bug: only bookings that were checked out for approval expire.
ExpireRequested(r) ==
    /\ booking[r] = "PENDING_PARTNER" /\ Captured(r) # {}
    /\ approveBy[r] # NoTime /\ now >= approveBy[r]
    /\ CancelPending(r)

\* expirePendingPartnerBooking: re-reads everything in its transaction.
ExpireApproval(r) ==
    /\ booking[r] = "PENDING_PARTNER" /\ Captured(r) # {}
    /\ now >= ApprovalDeadline(r)
    /\ CancelPending(r)

\* sweepExpiredReservations reads its candidates outside any transaction; a
\* second sweep may read while one is at work (JobLock.tla) ...
SweepRead ==
    /\ swept' = swept \cup {r \in Reservations : Overdue(r)}
    /\ UNCHANGED <<stockVars, now, windowVars, orderVars, voucherVars, payVars, debtVars,
                   venueVars, askedAt, affected, gatewayVars>>

\* An administrator sweeps one reservation by hand, without the grace period.
RetryDrift(r) ==
    /\ hold[r] = "HELD" /\ expiresAt[r] < now
    /\ swept' = swept \cup {r}
    /\ UNCHANGED <<stockVars, now, windowVars, orderVars, voucherVars, payVars, debtVars,
                   venueVars, askedAt, affected, gatewayVars>>

\* ... and re-checks only that the reservation is still HELD.
SweepOne(r) ==
    /\ r \in swept
    /\ swept' = swept \ {r}
    /\ IF hold[r] = "HELD" THEN ReleaseHeld(r, "EXPIRED") ELSE UNCHANGED stockVars
    /\ IF hold[r] = "HELD" /\ booking[r] \in SweptStatuses
       THEN /\ Cancel(r, refundRequired[r])
            /\ ReleaseVoucher(r)
            /\ pay' = FailOpen(r, pay)
       ELSE UNCHANGED <<booking, approveBy, approved, refundRequired, voucherVars, pay>>
    /\ UNCHANGED <<now, windowVars, tickets, payExp, dup, paidAt, debtVars, venueVars, askedAt, affected,
                   gatewayVars>>

\* The process dies between two reservations: the candidates are forgotten.
SweepCrash ==
    /\ swept # {}
    /\ swept' = {}
    /\ UNCHANGED <<stockVars, now, windowVars, orderVars, voucherVars, payVars, debtVars,
                   venueVars, askedAt, affected, gatewayVars>>

-----------------------------------------------------------------------------
(* The administrator *)

\* A published revision turns manual approval on or off.
FlipManual ==
    /\ manual' = ~manual
    /\ UNCHANGED <<stockVars, now, windowVars, orderVars, voucherVars, payVars, debtVars,
                   suspended, askedAt, jobVars, gatewayVars>>

Suspend ==
    /\ ~suspended /\ affected = {}
    /\ suspended' = TRUE
    /\ affected' = {r \in Reservations : booking[r] \in Active}
    /\ UNCHANGED <<stockVars, now, windowVars, orderVars, voucherVars, payVars, debtVars,
                   manual, askedAt, swept, gatewayVars>>

Resume ==
    /\ suspended
    /\ suspended' = FALSE
    /\ UNCHANGED <<stockVars, now, windowVars, orderVars, voucherVars, payVars, debtVars,
                   manual, askedAt, jobVars, gatewayVars>>

\* cancelAffectedBooking skips what is no longer active and leaves what it
\* cannot settle safely (a visit that started) to a support ticket.
RemedyOne(r) ==
    /\ r \in affected
    /\ affected' = affected \ {r}
    /\ IF /\ booking[r] \in Active /\ now < Start
          /\ hold[r] \in {"HELD", "CONFIRMED"}
          /\ booking[r] = "CONFIRMED" => Captured(r) # {}
       THEN /\ GiveBack(r)
            /\ ReleaseVoucher(r)
            /\ Cancel(r, Captured(r) # {})
            /\ ExpireTickets(r)
            /\ IF Captured(r) # {} THEN RescueOrRefund(r, "system") ELSE UNCHANGED debtVars
       ELSE UNCHANGED <<stockVars, voucherVars, orderVars, debtVars>>
    /\ UNCHANGED <<now, windowVars, payVars, venueVars, askedAt, swept, gatewayVars>>

\* The request dies in the loop: nothing takes the remaining bookings up again.
RemedyCrash ==
    /\ affected # {}
    /\ affected' = {}
    /\ UNCHANGED <<stockVars, now, windowVars, orderVars, voucherVars, payVars, debtVars,
                   venueVars, askedAt, swept, gatewayVars>>

-----------------------------------------------------------------------------

Tick ==
    /\ now < Horizon
    /\ now' = now + 1
    /\ UNCHANGED <<stockVars, windowVars, orderVars, voucherVars, payVars, debtVars, venueVars,
                   askedAt, jobVars, gatewayVars>>

Init ==
    /\ StockInit
    /\ now = 0
    /\ expiresAt = [r \in Reservations |-> NoTime]
    /\ payBy = [r \in Reservations |-> NoTime]
    /\ booking = [r \in Reservations |-> "NONE"]
    /\ approveBy = [r \in Reservations |-> NoTime]
    /\ approved = [r \in Reservations |-> FALSE]
    /\ refundRequired = [r \in Reservations |-> FALSE]
    /\ tickets = [r \in Reservations |-> "NONE"]
    /\ redemption = [r \in Reservations |-> "NONE"]
    /\ usedCount = 0
    /\ pay = [p \in Attempts |-> "NONE"]
    /\ payExp = [p \in Attempts |-> NoTime]
    /\ dup = [p \in Attempts |-> FALSE]
    /\ paidAt = [p \in Attempts |-> NoTime]
    /\ refunds = {} /\ rescues = {}
    /\ manual \in BOOLEAN /\ suspended = FALSE
    /\ askedAt = [p \in Attempts |-> NoTime]
    /\ swept = {} /\ affected = {}
    /\ charged = [p \in Attempts |-> NoTime]
    /\ declined = {}

CustomerStep(r) == Reserve(r) \/ Checkout(r) \/ CheckoutForApproval(r) \/ RequestRefund(r)

PartnerStep(r) ==
    ApproveUnpaid(r) \/ ApprovePaid(r) \/ ApproveBlocked(r) \/ Reject(r) \/ PartnerCancel(r)

Callback(p) ==
    \/ \E t \in 0 .. Horizon : CallbackServe(p, t) \/ CallbackRefuse(p, t) \/ CallbackDuplicate(p, t)
    \/ CallbackFailure(p)

Next ==
    \/ \E r \in Reservations :
        CustomerStep(r) \/ PartnerStep(r) \/ ExpireApproval(r) \/ RetryDrift(r) \/ SweepOne(r)
          \/ RemedyOne(r)
    \/ \E p \in Attempts :
        AskUrl(p) \/ OpenAttempt(p) \/ GatewayPay(p) \/ GatewayDecline(p) \/ Callback(p)
    \/ SweepRead \/ SweepCrash \/ FlipManual \/ Suspend \/ Resume \/ RemedyCrash \/ Tick

Spec == Init /\ [][Next]_vars

\* Time passes, the workers run (the sweep is not killed in every pass before
\* it reaches a reservation) and VNPay repeats a callback until it is answered.
FairSpec ==
    /\ Spec
    /\ WF_vars(Tick) /\ WF_vars(SweepRead)
    /\ \A r \in Reservations : SF_vars(SweepOne(r)) /\ WF_vars(ExpireApproval(r))
    /\ \A p \in Attempts : WF_vars(Callback(p))

-----------------------------------------------------------------------------
(* Properties *)

Times == 0 .. Horizon

TypeOK ==
    /\ StockTypeOK
    /\ now \in Times
    /\ expiresAt \in [Reservations -> Times \cup {NoTime}]
    /\ payBy \in [Reservations -> Times \cup {NoTime}]
    /\ booking \in [Reservations -> Active \cup {"NONE", "CANCELLED", "REFUND_REQUESTED"}]
    /\ approveBy \in [Reservations -> (0 .. Start) \cup {NoTime}]
    /\ approved \in [Reservations -> BOOLEAN]
    /\ refundRequired \in [Reservations -> BOOLEAN]
    /\ tickets \in [Reservations -> {"NONE", "VALID", "EXPIRED"}]
    /\ redemption \in [Reservations -> {"NONE", "ACTIVE", "RELEASED"}]
    /\ usedCount \in 0 .. VoucherLimit
    /\ pay \in [Attempts -> {"NONE", "PENDING", "SUCCESS", "FAILED"}]
    /\ payExp \in [Attempts -> Times \cup {NoTime}]
    /\ dup \in [Attempts -> BOOLEAN]
    /\ paidAt \in [Attempts -> Times \cup {NoTime}]
    /\ refunds \subseteq ({"system", "partner", "customer"} \X Reservations)
                            \cup ({"duplicate"} \X Attempts)
    /\ rescues \subseteq Reservations
    /\ manual \in BOOLEAN /\ suspended \in BOOLEAN
    /\ askedAt \in [Attempts -> Times \cup {NoTime}]
    /\ swept \subseteq Reservations /\ affected \subseteq Reservations
    /\ charged \in [Attempts -> Times \cup {NoTime}]
    /\ declined \subseteq Attempts

\* The status of a booking, its seats, its tickets and its money always agree:
\* nobody is asked to pay or to wait without a hold, a confirmed customer has
\* seats, tickets and exactly one captured payment, and a cancelled booking
\* keeps neither seats nor usable tickets.
BookingBacked ==
    \A r \in Reservations :
        /\ booking[r] = "PENDING_PAYMENT" =>
            hold[r] = "HELD" /\ Captured(r) = {} /\ tickets[r] = "NONE"
        /\ booking[r] = "PENDING_PARTNER" =>
            /\ \/ hold[r] = "HELD" /\ Captured(r) = {} /\ approveBy[r] # NoTime
               \/ hold[r] = "CONFIRMED" /\ Captured(r) # {}
            /\ tickets[r] = "NONE"
        /\ booking[r] \in {"CONFIRMED", "REFUND_REQUESTED"} =>
            hold[r] = "CONFIRMED" /\ Cardinality(Captured(r)) = 1 /\ tickets[r] = "VALID"
        /\ booking[r] = "CANCELLED" =>
            hold[r] \in {"EXPIRED", "CANCELLED"} /\ tickets[r] # "VALID"

\* Settled at most once: a booking's own payment is given back by one refund
\* request or one recovery case, never by two, and only after the booking
\* stopped being served; whatever the system or the partner owes is flagged
\* refundRequired, which is how staff find it.
RefundedOnce ==
    /\ \A r \in Reservations :
        LET own == {k \in refunds : k[1] # "duplicate" /\ k[2] = r} IN
        /\ Cardinality(own) + (IF r \in rescues THEN 1 ELSE 0) <= 1
        /\ own # {} \/ r \in rescues =>
            booking[r] \in {"CANCELLED", "REFUND_REQUESTED"} /\ Captured(r) # {}
        /\ r \in rescues \/ <<"system", r>> \in refunds \/ <<"partner", r>> \in refunds =>
            refundRequired[r]
    /\ \A p \in Attempts : <<"duplicate", p>> \in refunds => refundRequired[BookingOf[p]]

\* Voucher.usedCount is the number of bookings that use it: every way out of a
\* booking gives its use back exactly once, and only there.
VoucherLedger ==
    /\ usedCount <= VoucherLimit
    /\ usedCount = Cardinality({r \in Reservations : redemption[r] = "ACTIVE"})
    /\ \A r \in Reservations :
        redemption[r] = "ACTIVE" <=> r \in WithVoucher /\ booking[r] \notin {"NONE", "CANCELLED"}

\* A customer never has more than MaxHolds live holds, nor two for one offer:
\* no handler brings a hold back to life that the limits stopped counting.
HoldsLimited ==
    \A r \in Reservations :
        /\ Cardinality(LiveHolds(Owner[r])) <= MaxHolds
        /\ \A q \in LiveHolds(Owner[r]) \ {r} : r \in LiveHolds(Owner[r]) => Offer[q] # Offer[r]

\* No layer is ever sold or held beyond its capacity: a seat given back by an
\* expiry, a refusal, a rejection or a suspension is sold again at most once.
WithinCapacity == \A l \in Layers : held[l] + booked[l] <= Capacity[l]

\* The sweep, which decides on a stale read and re-checks only HELD, never
\* takes a hold that is alive: no handler extends a hold that a sweep, the
\* worker's or an administrator's, may already have read as expired.
SweepOnlyExpired ==
    [][\A r \in Reservations :
        hold[r] = "HELD" /\ hold'[r] = "EXPIRED" => now > expiresAt[r]]_vars

\* A customer who paid inside the window of the payment page, and whose
\* payment is reported with its vnp_PayDate while the seats are still held
\* and the venue operates, is served, whatever happened to the deadlines.
PaidInTimeIsServed ==
    [][\A p \in Attempts :
        LET r == BookingOf[p] IN
        pay[p] # "SUCCESS" /\ pay'[p] = "SUCCESS" /\ paidAt'[p] = charged[p]
            /\ hold[r] = "HELD" /\ ~suspended
        => booking'[r] \in {"CONFIRMED", "PENDING_PARTNER"}]_vars

\* The payment contract, seen in a booking: what the customer was promised.
ordered ==
    [r \in Reservations |->
        IF booking[r] \in {"CANCELLED", "REFUND_REQUESTED"} THEN "closed"
        ELSE IF Captured(r) # {} THEN "served" ELSE "open"]

kept ==
    [p \in Attempts |->
        IF pay[p] # "SUCCESS" THEN "none"
        ELSE IF dup[p] /\ <<"duplicate", p>> \in refunds THEN "owed"
        ELSE IF \/ BookingOf[p] \in rescues
                \/ \E k \in refunds : k[1] # "duplicate" /\ k[2] = BookingOf[p]
             THEN "owed" ELSE "kept"]

Contract == INSTANCE PaymentContract
    WITH Orders <- Reservations, OrderOf <- BookingOf, order <- ordered, money <- kept

\* Booking implements the payment contract: no sequence of callbacks, retries,
\* decisions, deadlines and crashes keeps a charge for an order that is not
\* served, keeps two, or closes an order without turning its charge into a debt.
KeepsContract == Contract!ContractSpec

\* Under FairSpec no seat stays on hold for ever: a reservation nobody pays
\* or decides is given back, even when processes die in the middle of sweeps.
HoldEventuallyReleased == \A r \in Reservations : hold[r] = "HELD" ~> hold[r] # "HELD"

\* Under FairSpec no customer waits for a partner for ever, also when the
\* venue began to require approval after the checkout.
ApprovalEventuallyDecided ==
    \A r \in Reservations : booking[r] = "PENDING_PARTNER" ~> booking[r] # "PENDING_PARTNER"

\* Under FairSpec every charge at the gateway ends as a confirmed booking or
\* as a debt to the customer, whenever the callback comes.
ChargeEventuallySettled ==
    \A p \in Attempts :
        charged[p] # NoTime ~>
            \/ pay[p] = "SUCCESS" /\ booking[BookingOf[p]] = "CONFIRMED"
            \/ kept[p] = "owed"
=============================================================================
