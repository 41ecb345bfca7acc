---------------------------- MODULE BankTransfer ----------------------------
(***************************************************************************)
(* Bookings paid by bank transfer.  The money reaches the bank account on  *)
(* its own; the platform learns of it from SePay, which repeats a webhook  *)
(* until it is acknowledged, or from two administrators who match the bank *)
(* statement, while the hold runs out, the customer or the partner         *)
(* cancels, the venue is suspended, the visit ends, a recovery case offers *)
(* another visit and staff pay refunds back by hand.  Every confirmation   *)
(* is the one serializable transaction confirmBankTransfer.                *)
(***************************************************************************)
EXTENDS Naturals, FiniteSets

CONSTANTS
    Bookings,
    Manual,         \* bookings a partner has to approve before payment
    Events,         \* transfers SePay reports
    EventBooking,   \* the booking named by a transfer
    Exact,          \* the transfers of exactly the booking's total
    Handlers,       \* deliveries of webhooks running at a time
    Admins,
    Total, CustomerAmount,  \* what a booking costs, what a cancellation pays back
    Difference,     \* what a cheaper replacement leaves to pay back
    MaxCrash,       \* bound: handlers that die
    None

ASSUME TransferAssumption ==
    /\ Manual \subseteq Bookings /\ Exact \subseteq Events
    /\ EventBooking \in [Events -> Bookings]
    /\ Total \in Nat /\ CustomerAmount \in 0..Total /\ Difference \in 0..Total
    /\ MaxCrash \in Nat
    /\ None \notin Bookings \union Events \union Admins

VARIABLES
    booking,    \* status of each booking
    seats,      \* status of its reservation
    late,       \* the hold is over, or the ticket is no longer sold
    payment,    \* bookings whose payment BT-<id> is recorded
    request,    \* status of its refund requests, by their key
    rescue,     \* status of the recovery case opened at its cancellation
    paidBack,   \* the money of successful refund transactions
    arrived,    \* transfers that reached the bank account
    event,      \* status of the webhook event of a transfer
    acked,      \* transfers SePay got its acknowledgement for
    early,      \* those acknowledged while another delivery was at work
    handler,    \* what each delivery is doing
    matched,    \* the administrator who matched the statement of a booking
    approved,   \* bookings whose match a second administrator approved
    approving,  \* the booking an administrator has confirmed and not yet approved
    crashes

books == <<booking, seats, payment, request, rescue>>
webhook == <<event, acked, early, handler>>
desk == <<matched, approved, approving>>
vars == <<booking, seats, late, payment, request, rescue, paidBack, arrived,
          event, acked, early, handler, matched, approved, approving, crashes>>

Unpaid == {"PENDING_PARTNER", "PENDING_PAYMENT"}
Kept == {"CONFIRMED", "COMPLETED", "NO_SHOW", "REFUND_REQUESTED"}
Closed == {"CANCELLED", "REFUNDED"}
Keys == {"customer", "system", "partner", "recovery", "difference"}
AmountOf(k) == IF k = "customer" THEN CustomerAmount
               ELSE IF k = "difference" THEN Difference ELSE Total
Terminal == {"PROCESSED", "REVIEW_REQUIRED"}
Rest == [pc |-> "idle", event |-> None]

Init ==
    /\ booking = [b \in Bookings |->
                    IF b \in Manual THEN "PENDING_PARTNER" ELSE "PENDING_PAYMENT"]
    /\ seats = [b \in Bookings |-> "HELD"]
    /\ late = {} /\ payment = {}
    /\ request = [b \in Bookings |-> [k \in Keys |-> "NONE"]]
    /\ rescue = [b \in Bookings |-> "NONE"]
    /\ paidBack = [b \in Bookings |-> 0]
    /\ arrived = {} /\ acked = {} /\ early = {}
    /\ event = [e \in Events |-> "NONE"]
    /\ handler = [h \in Handlers |-> Rest]
    /\ matched = [b \in Bookings |-> None]
    /\ approved = {}
    /\ approving = [a \in Admins |-> None]
    /\ crashes = 0

\* A request is written once, whoever asks for it again.
Queue(b, k) == request' = [request EXCEPT ![b][k] = IF @ = "NONE" THEN "PENDING" ELSE @]

-----------------------------------------------------------------------------
(* confirmBankTransfer                                                     *)

\* Bug: a payment recorded for a closed booking is not looked for.
KnownWhileOpen(b) ==
    \/ booking[b] \in {"CONFIRMED", "COMPLETED"}
    \/ booking[b] = "PENDING_PARTNER" /\ b \in payment

\* The states the code takes as "recorded before".
AlreadyConfirmed(b) ==
    \/ booking[b] \in {"CONFIRMED", "COMPLETED"}
    \/ booking[b] \in Closed \union {"PENDING_PARTNER"} /\ b \in payment

CanFulfil(b) == booking[b] = "PENDING_PAYMENT" /\ seats[b] = "HELD" /\ b \notin late

\* Tickets and points come with the confirmation.
Fulfil(b) ==
    /\ ~AlreadyConfirmed(b) /\ CanFulfil(b)
    /\ booking' = [booking EXCEPT ![b] = "CONFIRMED"]
    /\ seats' = [seats EXCEPT ![b] = "CONFIRMED"]
    /\ payment' = payment \union {b}
    /\ UNCHANGED <<request, rescue>>

\* Bug: the money is recorded and the refund is left to someone else.
RefuseUnqueued(b) ==
    /\ ~AlreadyConfirmed(b) /\ ~CanFulfil(b)
    /\ booking' = [booking EXCEPT ![b] = "CANCELLED"]
    /\ seats' = [seats EXCEPT ![b] =
                    IF booking[b] \in Unpaid /\ @ \in {"HELD", "CONFIRMED"}
                    THEN "CANCELLED" ELSE @]
    /\ payment' = payment \union {b}
    /\ UNCHANGED <<request, rescue>>

\* Everything else is money that came too late: the booking is cancelled, what it
\* still held is released, and a full refund is queued for staff.
Refuse(b) ==
    /\ ~AlreadyConfirmed(b) /\ ~CanFulfil(b)
    /\ booking' = [booking EXCEPT ![b] = "CANCELLED"]
    /\ seats' = [seats EXCEPT ![b] =
                    IF booking[b] \in Unpaid /\ @ \in {"HELD", "CONFIRMED"}
                    THEN "CANCELLED" ELSE @]
    /\ payment' = payment \union {b}
    /\ Queue(b, "system")
    /\ UNCHANGED rescue

ConfirmBankTransfer(b) ==
    \/ Fulfil(b)
    \/ Refuse(b)
    \/ AlreadyConfirmed(b) /\ UNCHANGED books

-----------------------------------------------------------------------------
(* SePay                                                                   *)

\* The customer transfers the money, whatever has become of the booking.
Transfer(e) ==
    /\ e \notin arrived
    /\ arrived' = arrived \union {e}
    /\ UNCHANGED <<books, late, paidBack, webhook, desk, crashes>>

Acknowledge(h, e) ==
    /\ acked' = acked \union {e}
    /\ handler' = [handler EXCEPT ![h] = Rest]

\* A delivery, first or repeated, stores the event or finds it.
FindOrCreateWebhookEvent(h, e) ==
    /\ handler[h] = Rest
    /\ e \in arrived \ acked
    /\ event' = [event EXCEPT ![e] = IF @ = "NONE" THEN "RECEIVED" ELSE @]
    /\ handler' = [handler EXCEPT ![h] = [pc |-> "found", event |-> e]]
    /\ UNCHANGED <<books, late, paidBack, arrived, acked, early, desk, crashes>>

\* An event is claimed if it is new, failed, or its claim is old.
ClaimWebhookEvent(h) ==
    LET e == handler[h].event IN
    /\ handler[h].pc = "found"
    /\ event[e] \notin Terminal
    /\ event' = [event EXCEPT ![e] = "PROCESSING"]
    /\ handler' = [handler EXCEPT ![h].pc = "claimed"]
    /\ UNCHANGED <<books, late, paidBack, arrived, acked, early, desk, crashes>>

\* A finished event is acknowledged again, and so is one whose claim is young.
AcknowledgeKnown(h) ==
    LET e == handler[h].event IN
    /\ handler[h].pc = "found"
    /\ event[e] \in Terminal \union {"PROCESSING"}
    /\ early' = IF event[e] = "PROCESSING" THEN early \union {e} ELSE early
    /\ Acknowledge(h, e)
    /\ UNCHANGED <<books, late, paidBack, arrived, event, desk, crashes>>

\* Another amount than the booking's total is left to a person.
RequireReview(h) ==
    LET e == handler[h].event IN
    /\ handler[h].pc = "claimed" /\ e \notin Exact
    /\ event' = [event EXCEPT ![e] = "REVIEW_REQUIRED"]
    /\ Acknowledge(h, e)
    /\ UNCHANGED <<books, late, paidBack, arrived, early, desk, crashes>>

ConfirmFromWebhook(h) ==
    /\ handler[h].pc = "claimed" /\ handler[h].event \in Exact
    /\ ConfirmBankTransfer(EventBooking[handler[h].event])
    /\ handler' = [handler EXCEPT ![h].pc = "confirmed"]
    /\ UNCHANGED <<late, paidBack, arrived, event, acked, early, desk, crashes>>

\* The event is finished, whoever else is working on it.
FinishWebhookEvent(h) ==
    LET e == handler[h].event IN
    /\ handler[h].pc = "confirmed"
    /\ event' = [event EXCEPT ![e] = "PROCESSED"]
    /\ Acknowledge(h, e)
    /\ UNCHANGED <<books, late, paidBack, arrived, early, desk, crashes>>

\* Bug: the error is swallowed and SePay is told that all is well.
FailQuietly(h) ==
    LET e == handler[h].event IN
    /\ handler[h].pc \in {"claimed", "confirmed"}
    /\ event' = [event EXCEPT ![e] = "FAILED"]
    /\ Acknowledge(h, e)
    /\ UNCHANGED <<books, late, paidBack, arrived, early, desk, crashes>>

\* A conflict of transactions or a lost database: SePay gets 500 and tries again.
FailWebhookEvent(h) ==
    /\ handler[h].pc \in {"claimed", "confirmed"}
    /\ event' = [event EXCEPT ![handler[h].event] = "FAILED"]
    /\ handler' = [handler EXCEPT ![h] = Rest]
    /\ UNCHANGED <<books, late, paidBack, arrived, acked, early, desk, crashes>>

Crash(h) ==
    /\ handler[h] # Rest /\ crashes < MaxCrash
    /\ crashes' = crashes + 1
    /\ handler' = [handler EXCEPT ![h] = Rest]
    /\ UNCHANGED <<books, late, paidBack, arrived, event, acked, early, desk>>

-----------------------------------------------------------------------------
(* The maker and the checker: confirmBankTransferPayment                   *)

\* The statement shows a transfer of the right amount; the booking is not looked at.
MatchStatement(a, b) ==
    /\ matched[b] = None
    /\ \E e \in arrived \intersect Exact : EventBooking[e] = b
    /\ matched' = [matched EXCEPT ![b] = a]
    /\ UNCHANGED <<books, late, paidBack, arrived, webhook, approved, approving, crashes>>

\* Somebody else confirms, and records the approval in a second transaction.
ConfirmMatch(a, b) ==
    /\ approving[a] = None
    /\ matched[b] \notin {None, a} /\ b \notin approved
    /\ ConfirmBankTransfer(b)
    /\ approving' = [approving EXCEPT ![a] = b]
    /\ UNCHANGED <<late, paidBack, arrived, webhook, matched, approved, crashes>>

\* The request may end before the second transaction.
ApproveMatch(a) ==
    /\ approving[a] # None
    /\ \/ approved' = approved \union {approving[a]}
       \/ UNCHANGED approved
    /\ approving' = [approving EXCEPT ![a] = None]
    /\ UNCHANGED <<books, late, paidBack, arrived, webhook, matched, crashes>>

-----------------------------------------------------------------------------
(* The booking meanwhile                                                   *)

\* The hold passes its end, or the ticket is withdrawn from sale.
RunLate(b) ==
    /\ booking[b] \in Unpaid /\ b \notin late
    /\ late' = late \union {b}
    /\ UNCHANGED <<books, paidBack, arrived, webhook, desk, crashes>>

\* The cleanup worker cancels the booking of an expired hold.
SweepExpired(b) ==
    /\ b \in late /\ seats[b] = "HELD" /\ booking[b] \in Unpaid
    /\ booking' = [booking EXCEPT ![b] = "CANCELLED"]
    /\ seats' = [seats EXCEPT ![b] = "EXPIRED"]
    /\ UNCHANGED <<late, payment, request, rescue, paidBack, arrived, webhook, desk, crashes>>

PartnerApproves(b) ==
    /\ booking[b] = "PENDING_PARTNER" /\ b \notin late
    /\ booking' = [booking EXCEPT ![b] = "PENDING_PAYMENT"]
    /\ UNCHANGED <<seats, late, payment, request, rescue, paidBack, arrived, webhook, desk, crashes>>

\* No transfer of a booking still to be approved is in the books (OwedIsRequested).
PartnerRejects(b) ==
    /\ booking[b] = "PENDING_PARTNER" /\ b \notin payment
    /\ booking' = [booking EXCEPT ![b] = "CANCELLED"]
    /\ seats' = [seats EXCEPT ![b] = "CANCELLED"]
    /\ UNCHANGED <<late, payment, request, rescue, paidBack, arrived, webhook, desk, crashes>>

CreateRefundRequest(b) ==
    /\ booking[b] = "CONFIRMED"
    /\ booking' = [booking EXCEPT ![b] = "REFUND_REQUESTED"]
    /\ request' = [request EXCEPT ![b]["customer"] = "PENDING"]
    /\ UNCHANGED <<seats, late, payment, rescue, paidBack, arrived, webhook, desk, crashes>>

SweepCompleted(b) ==
    /\ booking[b] = "CONFIRMED"
    /\ \E status \in {"COMPLETED", "NO_SHOW"} :
        booking' = [booking EXCEPT ![b] = status]
    /\ UNCHANGED <<seats, late, payment, request, rescue, paidBack, arrived, webhook, desk, crashes>>

-----------------------------------------------------------------------------
(* Cancellations the customer did not ask for, and the recovery case       *)

\* A paid booking gets a recovery case if another visit can be offered, else a full
\* refund is queued under the key of whoever cancelled it.
RescueOrRefund(b, k) ==
    \/ rescue' = [rescue EXCEPT ![b] = IF @ = "NONE" THEN "OPEN" ELSE @] /\ UNCHANGED request
    \/ Queue(b, k) /\ UNCHANGED rescue

PartnerCancels(b) ==
    /\ booking[b] = "CONFIRMED" /\ b \in payment
    /\ booking' = [booking EXCEPT ![b] = "CANCELLED"]
    /\ seats' = [seats EXCEPT ![b] = IF @ = "CONFIRMED" THEN "CANCELLED" ELSE @]
    /\ RescueOrRefund(b, "partner")
    /\ UNCHANGED <<late, payment, paidBack, arrived, webhook, desk, crashes>>

\* The venue is suspended: its active bookings are cancelled, paid or not.
CancelAffected(b) ==
    /\ booking[b] \in Unpaid \union {"CONFIRMED"} /\ seats[b] \in {"HELD", "CONFIRMED"}
    /\ booking[b] = "CONFIRMED" => b \in payment
    /\ booking' = [booking EXCEPT ![b] = "CANCELLED"]
    /\ seats' = [seats EXCEPT ![b] = "CANCELLED"]
    /\ IF b \in payment THEN RescueOrRefund(b, "system") ELSE UNCHANGED <<request, rescue>>
    /\ UNCHANGED <<late, payment, paidBack, arrived, webhook, desk, crashes>>

\* The customer takes another visit; what it costs less is paid back.
AcceptOption(b) ==
    /\ rescue[b] = "OPEN"
    /\ rescue' = [rescue EXCEPT ![b] = "REPLACED"]
    /\ Queue(b, "difference") \/ UNCHANGED request
    /\ UNCHANGED <<booking, seats, late, payment, paidBack, arrived, webhook, desk, crashes>>

\* The customer declines, or lets the case run out.
RefundCase(b) ==
    /\ rescue[b] = "OPEN"
    /\ rescue' = [rescue EXCEPT ![b] = "REFUND_PENDING"]
    /\ Queue(b, "recovery")
    /\ UNCHANGED <<booking, seats, late, payment, paidBack, arrived, webhook, desk, crashes>>

-----------------------------------------------------------------------------
(* Refunds paid back by hand: processRefundRequest in manual mode.  A claimed *)
(* request is "CLAIMED", one whose transaction exists is "PROCESSING".        *)

ClaimRefund(b, k) ==
    /\ request[b][k] = "PENDING" /\ booking[b] # "REFUNDED"
    /\ request' = [request EXCEPT ![b][k] = "CLAIMED"]
    /\ UNCHANGED <<booking, seats, late, payment, rescue, paidBack, arrived, webhook, desk, crashes>>

\* Bug: only a refund that is still running blocks another one.
NothingRunning(b, k) == \A j \in Keys \ {k} : request[b][j] # "PROCESSING"

\* assertRefundCanBeSubmitted: nothing else is running, and the money is there.
Refundable(b, k) ==
    /\ \A j \in Keys \ {k} : request[b][j] # "PROCESSING"
    /\ AmountOf(k) + paidBack[b] =< Total

CreateRefund(b, k) ==
    /\ request[b][k] = "CLAIMED"
    /\ request' = [request EXCEPT ![b][k] =
                    IF Refundable(b, k) THEN "PROCESSING" ELSE "PENDING"]
    /\ UNCHANGED <<booking, seats, late, payment, rescue, paidBack, arrived, webhook, desk, crashes>>

\* A difference leaves the booking cancelled; a recovery key ends it when everything
\* is paid back and no other request is left; every other key ends it at once.
EndsBooking(b, k) ==
    \/ k \in {"customer", "system"}
    \/ /\ k \in {"partner", "recovery"}
       /\ paidBack[b] + AmountOf(k) >= Total
       /\ \A j \in Keys \ {k} : request[b][j] \in {"NONE", "APPROVED"}

\* Bug: a refund is booked with its sign.
FinalizeNegative(b, k) ==
    /\ request[b][k] = "PROCESSING"
    /\ request' = [request EXCEPT ![b][k] = "APPROVED"]
    /\ paidBack' = [paidBack EXCEPT ![b] = @ - AmountOf(k)]
    /\ booking' = [booking EXCEPT ![b] = IF EndsBooking(b, k) THEN "REFUNDED" ELSE @]
    /\ seats' = [seats EXCEPT ![b] =
                    IF k \in {"customer", "system"} /\ @ = "CONFIRMED" THEN "CANCELLED" ELSE @]
    /\ rescue' = [rescue EXCEPT ![b] =
                    IF k \in {"customer", "system", "recovery"} /\ @ = "REFUND_PENDING"
                    THEN "REFUNDED" ELSE @]
    /\ UNCHANGED <<late, payment, arrived, webhook, desk, crashes>>

\* finalizeSuccessfulRefund, at once or when the transaction is reconciled.
FinalizeRefund(b, k) ==
    /\ request[b][k] = "PROCESSING"
    /\ request' = [request EXCEPT ![b][k] = "APPROVED"]
    /\ paidBack' = [paidBack EXCEPT ![b] = @ + AmountOf(k)]
    /\ booking' = [booking EXCEPT ![b] = IF EndsBooking(b, k) THEN "REFUNDED" ELSE @]
    /\ seats' = [seats EXCEPT ![b] =
                    IF k \in {"customer", "system"} /\ @ = "CONFIRMED" THEN "CANCELLED" ELSE @]
    /\ rescue' = [rescue EXCEPT ![b] =
                    IF k \in {"customer", "system", "recovery"} /\ @ = "REFUND_PENDING"
                    THEN "REFUNDED" ELSE @]
    /\ UNCHANGED <<late, payment, arrived, webhook, desk, crashes>>

-----------------------------------------------------------------------------

HandlerStep(h) ==
    \/ \E e \in Events : FindOrCreateWebhookEvent(h, e)
    \/ ClaimWebhookEvent(h) \/ AcknowledgeKnown(h) \/ RequireReview(h)
    \/ ConfirmFromWebhook(h) \/ FinishWebhookEvent(h) \/ FailWebhookEvent(h) \/ Crash(h)

BookingStep(b) ==
    \/ RunLate(b) \/ SweepExpired(b) \/ PartnerApproves(b) \/ PartnerRejects(b)
    \/ CreateRefundRequest(b) \/ SweepCompleted(b)
    \/ PartnerCancels(b) \/ CancelAffected(b) \/ AcceptOption(b) \/ RefundCase(b)
    \/ \E k \in Keys : ClaimRefund(b, k) \/ CreateRefund(b, k) \/ FinalizeRefund(b, k)

Next ==
    \/ \E e \in Events : Transfer(e)
    \/ \E h \in Handlers : HandlerStep(h)
    \/ \E a \in Admins, b \in Bookings : MatchStatement(a, b) \/ ConfirmMatch(a, b)
    \/ \E a \in Admins : ApproveMatch(a)
    \/ \E b \in Bookings : BookingStep(b)

Spec == Init /\ [][Next]_vars

-----------------------------------------------------------------------------
(* What must hold                                                          *)

\* Every row and every delivery has a value the schema and the handlers know.
TypeOK ==
    /\ booking \in [Bookings -> Unpaid \union Kept \union Closed]
    /\ seats \in [Bookings -> {"HELD", "EXPIRED", "CONFIRMED", "CANCELLED"}]
    /\ late \subseteq Bookings /\ payment \subseteq Bookings
    /\ request \in [Bookings -> [Keys ->
            {"NONE", "PENDING", "CLAIMED", "PROCESSING", "APPROVED"}]]
    /\ rescue \in [Bookings -> {"NONE", "OPEN", "REPLACED", "REFUND_PENDING", "REFUNDED"}]
    /\ paidBack \in [Bookings -> Nat]
    /\ arrived \subseteq Events /\ acked \subseteq Events /\ early \subseteq Events
    /\ event \in [Events -> Terminal \union {"NONE", "RECEIVED", "PROCESSING", "FAILED"}]
    /\ handler \in [Handlers -> [pc : {"idle", "found", "claimed", "confirmed"},
                                 event : Events \union {None}]]
    /\ matched \in [Bookings -> Admins \union {None}]
    /\ approved \subseteq Bookings
    /\ approving \in [Admins -> Bookings \union {None}]
    /\ crashes \in 0..MaxCrash

\* The request or the case that stands for the money of a cancelled booking.
Remedies(b) ==
    {k \in {"system", "partner"} : request[b][k] # "NONE"}
        \union (IF rescue[b] = "NONE" THEN {} ELSE {"case"})

\* Money in the books is either kept for a booking that is served or, once it is
\* cancelled, promised by exactly one remedy, whoever cancelled it: a full refund or a
\* recovery case, and a case whose offer is not taken by its refund.  A booking is served
\* only for money, and is REFUNDED exactly when one of its refunds was paid, unless its
\* value went to a replacement (confirmBankTransfer, cancelConfirmedBooking,
\* cancelAffectedBooking, queueFullRecoveryRefund, finalizeSuccessfulRefund).
OwedIsRequested ==
    \A b \in Bookings :
        /\ booking[b] \in Kept => b \in payment
        /\ b \in payment => booking[b] \notin Unpaid
        /\ booking[b] = "CANCELLED" /\ b \in payment => Remedies(b) # {}
        /\ \A k, j \in Remedies(b) : k = j
        /\ request[b]["recovery"] # "NONE" <=> rescue[b] \in {"REFUND_PENDING", "REFUNDED"}
        /\ request[b]["recovery"] = "APPROVED" <=> rescue[b] = "REFUNDED"
        /\ rescue[b] # "REPLACED" =>
            (booking[b] = "REFUNDED" <=> \E k \in Keys : request[b][k] = "APPROVED")

\* The refund requests of one booking never pay back more than it cost, in whatever
\* order staff claim, create and finish them (assertRefundCanBeSubmitted).
PaidBackWithinPayment == \A b \in Bookings : paidBack[b] =< Total

\* A transfer SePay was told to forget is in the books, unless the acknowledgement
\* was that of a repeated delivery while the first one was still at work.
AcknowledgedIsRecorded ==
    \A e \in (acked \intersect Exact) \ early : EventBooking[e] \in payment

\* A recorded payment stands on a transfer of the exact amount, whoever recorded it:
\* a delivery of its webhook or a person other than the one who matched it, and only
\* what is recorded is ever approved (sepayWebhook, confirmBankTransferPayment).
InAccount(b) == \E e \in arrived \intersect Exact : EventBooking[e] = b
PaymentsAreReal ==
    /\ \A b \in payment : InAccount(b)
    /\ approved \subseteq payment
    /\ \A a \in Admins : approving[a] # None =>
            approving[a] \in payment /\ matched[approving[a]] \notin {None, a}

\* A step in which a webhook or an administrator confirms the payment of b.
ConfirmationOf(b) ==
    \/ \E h \in Handlers : /\ handler[h].pc = "claimed" /\ handler'[h].pc = "confirmed"
                          /\ EventBooking[handler[h].event] = b
    \/ \E a \in Admins : approving[a] = None /\ approving'[a] = b

\* The header of bankTransferService: confirming is idempotent, so a booking whose
\* payment is recorded gets nothing new from another confirmation.
ConfirmIsIdempotent ==
    [][\A b \in payment :
        ConfirmationOf(b) /\ request[b]["system"] = "NONE"
            => request'[b]["system"] = "NONE"]_vars

\* Confirming is idempotent for every other booking whose payment is recorded: only
\* one whose refund was asked for or whose visit was missed is changed by another
\* confirmation (the statuses confirmBankTransfer does not return early for).
RepeatsChangeEndedOnly ==
    [][\A b \in payment :
        ConfirmationOf(b) /\ booking[b] \notin {"REFUND_REQUESTED", "NO_SHOW"}
            => UNCHANGED books]_vars

\* The promise about money of a booking that is paid at the gateway holds for bank
\* transfers: served bookings keep one charge, all other money is owed.
Contract == INSTANCE PaymentContract WITH
    Orders <- Bookings,
    Attempts <- Bookings,
    OrderOf <- [b \in Bookings |-> b],
    order <- [b \in Bookings |-> IF booking[b] \in Unpaid THEN "open"
                                 ELSE IF booking[b] \in Kept THEN "served" ELSE "closed"],
    money <- [b \in Bookings |-> IF b \notin payment THEN "none"
                                 ELSE IF booking[b] \in Kept THEN "kept"
                                 ELSE IF \/ rescue[b] # "NONE"
                                         \/ \E k \in Keys : request[b][k] # "NONE"
                                      THEN "owed" ELSE "lost"]
TransferContract == Contract!ContractSpec
=============================================================================
