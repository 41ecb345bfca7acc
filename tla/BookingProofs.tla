---------------------------- MODULE BookingProofs ----------------------------
(***************************************************************************)
(* What Booking.tla does, for any reservations, attempts, customers, units *)
(* and windows.  Each part has an inductive invariant of its own:          *)
(*                                                                         *)
(*   OrdersInv    status, seats, tickets and payment of a booking agree,   *)
(*                and nobody has touched what cannot be paid yet;          *)
(*   WindowInv    a live hold is not among the sweep's candidates, and a   *)
(*                booking waiting for approval is held until its deadline; *)
(*   LimitInv     the live holds of a customer, two by two;                *)
(*   VoucherInv   the voucher's counter counts the bookings that use it;   *)
(*   DupInv, DebtInv   a debt is asked for exactly when it is due;         *)
(*   LinkInv      pages lie within windows, charges within pages.          *)
(*                                                                         *)
(* The seats need none: every step is a step of the ledger of Stock.tla.   *)
(* To the money every step is of one of five kinds (MoneyKinds): it is     *)
(* quiet, it closes an order, or it is a charge that is served, refused or *)
(* doubled.  What is proved of the kinds is proved of every step.          *)
(***************************************************************************)
EXTENDS Booking, StockProofs

\* Every ledger move keeps the counters and the statuses well-typed.
LEMMA MoveType ==
    ASSUME StockTypeOK, NEW r \in Reservations,
           \/ HoldSeats(r) \/ ConfirmSeats(r) \/ ReleaseBooked(r) \/ GiveBack(r)
           \/ \E status \in {"EXPIRED", "CANCELLED"} : ReleaseHeld(r, status)
           \/ UNCHANGED stockVars
    PROVE  StockTypeOK'
<1>1. \A c \in [Layers -> Int], n \in Int : Shift(c, r, n) \in [Layers -> Int]
  BY ShiftType
<1>2. /\ held' \in [Layers -> Int]
      /\ booked' \in [Layers -> Int]
  BY <1>1, UnitsType DEF StockTypeOK, HoldSeats, ConfirmSeats, ReleaseBooked, ReleaseHeld,
     GiveBack, stockVars
<1>3. hold' \in [Reservations -> HoldStatus]
  BY DEF StockTypeOK, HoldSeats, ConfirmSeats, ReleaseBooked, ReleaseHeld, GiveBack,
     stockVars, HoldStatus
<1> QED
  BY <1>2, <1>3 DEF StockTypeOK

\* Every action keeps the variables well-typed: one step per action.
LEMMA TypeStep ==
    ASSUME TypeOK, [Next]_vars
    PROVE  TypeOK'
<1> USE BookingAssumption DEF TypeOK, stockVars, windowVars, orderVars, voucherVars, payVars,
        debtVars, venueVars, jobVars, gatewayVars, Times, NoTime, Active
<1>1. ASSUME NEW r \in Reservations, Reserve(r)
      PROVE  TypeOK'
  <2>1. StockTypeOK'
    BY <1>1, MoveType DEF Reserve
  <2> QED
    BY <1>1, <2>1 DEF Reserve
<1>2. ASSUME NEW r \in Reservations, Checkout(r)
      PROVE  TypeOK'
  <2>1. StockTypeOK'
    BY <1>2, MoveType DEF Checkout
  <2> QED
    <3>1. /\ redemption' \in [Reservations -> {"NONE", "ACTIVE", "RELEASED"}]
          /\ usedCount' \in 0 .. VoucherLimit
      BY <1>2 DEF Checkout, ClaimVoucher
    <3>2. booking' \in [Reservations -> Active \cup {"NONE", "CANCELLED", "REFUND_REQUESTED"}]
      BY <1>2 DEF Checkout
    <3> QED
      BY <1>2, <2>1, <3>1, <3>2 DEF Checkout
<1>3. ASSUME NEW r \in Reservations, CheckoutForApproval(r)
      PROVE  TypeOK'
  <2>1. StockTypeOK'
    BY <1>3, MoveType DEF CheckoutForApproval
  <2> QED
    <3> DEFINE deadline == ApprovalCutoff(now)
    <3>1. deadline \in 0 .. Start /\ deadline \in Times
      BY DEF ApprovalCutoff, Earlier
    <3>2. /\ booking' = [booking EXCEPT ![r] = "PENDING_PARTNER"]
          /\ approveBy' = [approveBy EXCEPT ![r] = deadline]
          /\ \/ /\ expiresAt' = [expiresAt EXCEPT ![r] = deadline]
                /\ payBy' = [payBy EXCEPT ![r] = NoTime]
             \/ UNCHANGED windowVars
      BY <1>3 DEF CheckoutForApproval
    <3> HIDE DEF deadline
    <3>3. /\ redemption' \in [Reservations -> {"NONE", "ACTIVE", "RELEASED"}]
          /\ usedCount' \in 0 .. VoucherLimit
      BY <1>3 DEF CheckoutForApproval, ClaimVoucher
    <3>4. /\ booking' \in [Reservations -> Active \cup {"NONE", "CANCELLED", "REFUND_REQUESTED"}]
          /\ approveBy' \in [Reservations -> (0 .. Start) \cup {NoTime}]
          /\ expiresAt' \in [Reservations -> Times \cup {NoTime}]
          /\ payBy' \in [Reservations -> Times \cup {NoTime}]
      BY <3>1, <3>2
    <3> QED
      BY <1>3, <2>1, <3>3, <3>4 DEF CheckoutForApproval
<1>4. ASSUME NEW r \in Reservations, RequestRefund(r)
      PROVE  TypeOK'
  <2>1. StockTypeOK'
    BY <1>4, MoveType DEF RequestRefund
  <2> QED
    BY <1>4, <2>1 DEF RequestRefund, QueueRefund
<1>5. ASSUME NEW r \in Reservations, ApproveUnpaid(r)
      PROVE  TypeOK'
  <2>1. StockTypeOK'
    BY <1>5, MoveType DEF ApproveUnpaid
  <2> QED
    BY <1>5, <2>1 DEF ApproveUnpaid, Earlier
<1>6. ASSUME NEW r \in Reservations, ApprovePaid(r)
      PROVE  TypeOK'
  <2>1. StockTypeOK'
    BY <1>6, MoveType DEF ApprovePaid
  <2> QED
    BY <1>6, <2>1 DEF ApprovePaid
<1>7. ASSUME NEW r \in Reservations, CancelPending(r)
      PROVE  TypeOK'
  <2>1. StockTypeOK'
    BY <1>7, MoveType DEF CancelPending
  <2> QED
    BY <1>7, <2>1 DEF CancelPending, ReleaseVoucher, Cancel, QueueRefund
<1>8. ASSUME NEW r \in Reservations, Reject(r)
      PROVE  TypeOK'
  <2>1. StockTypeOK'
    BY <1>8, MoveType DEF Reject
  <2> QED
    BY <1>8, <2>1 DEF Reject, ReleaseVoucher, Cancel, QueueRefund
<1>9. ASSUME NEW r \in Reservations, PartnerCancel(r)
      PROVE  TypeOK'
  <2>1. StockTypeOK'
    BY <1>9, MoveType DEF PartnerCancel
  <2> QED
    BY <1>9, <2>1 DEF PartnerCancel, ReleaseVoucher, Cancel, ExpireTickets, RescueOrRefund,
       QueueRefund
<1>10. ASSUME NEW r \in Reservations, RetryDrift(r)
      PROVE  TypeOK'
  <2>1. StockTypeOK'
    BY <1>10, MoveType DEF RetryDrift
  <2> QED
    BY <1>10, <2>1 DEF RetryDrift
<1>11. ASSUME NEW r \in Reservations, SweepOne(r)
      PROVE  TypeOK'
  <2>1. StockTypeOK'
    BY <1>11, MoveType DEF SweepOne
  <2> QED
    BY <1>11, <2>1 DEF SweepOne, Cancel, ReleaseVoucher, FailOpen
<1>12. ASSUME NEW r \in Reservations, RemedyOne(r)
      PROVE  TypeOK'
  <2>1. StockTypeOK'
    BY <1>12, MoveType DEF RemedyOne
  <2>2. /\ booking' \in [Reservations -> Active \cup {"NONE", "CANCELLED", "REFUND_REQUESTED"}]
        /\ refundRequired' \in [Reservations -> BOOLEAN]
        /\ approveBy' = approveBy /\ approved' = approved
        /\ tickets' \in [Reservations -> {"NONE", "VALID", "EXPIRED"}]
    BY <1>12 DEF RemedyOne, Cancel, ExpireTickets
  <2>3. /\ redemption' \in [Reservations -> {"NONE", "ACTIVE", "RELEASED"}]
        /\ usedCount' \in 0 .. VoucherLimit
    BY <1>12 DEF RemedyOne, ReleaseVoucher
  <2>4. /\ refunds' \subseteq ({"system", "partner", "customer"} \X Reservations)
                            \cup ({"duplicate"} \X Attempts)
        /\ rescues' \subseteq Reservations
    BY <1>12 DEF RemedyOne, RescueOrRefund, QueueRefund
  <2> QED
    BY <1>12, <2>1, <2>2, <2>3, <2>4 DEF RemedyOne
<1>13. ASSUME NEW p \in Attempts, AskUrl(p)
      PROVE  TypeOK'
  <2>1. StockTypeOK'
    BY <1>13, MoveType DEF AskUrl
  <2> QED
    BY <1>13, <2>1 DEF AskUrl, LinkExpiry, Earlier, PayableUntil
<1>14. ASSUME NEW p \in Attempts, OpenAttempt(p)
      PROVE  TypeOK'
  <2>1. StockTypeOK'
    BY <1>14, MoveType DEF OpenAttempt
  <2> QED
    BY <1>14, <2>1 DEF OpenAttempt
<1>15. ASSUME NEW p \in Attempts, GatewayPay(p)
      PROVE  TypeOK'
  <2>1. StockTypeOK'
    BY <1>15, MoveType DEF GatewayPay
  <2> QED
    BY <1>15, <2>1 DEF GatewayPay
<1>16. ASSUME NEW p \in Attempts, GatewayDecline(p)
      PROVE  TypeOK'
  <2>1. StockTypeOK'
    BY <1>16, MoveType DEF GatewayDecline
  <2> QED
    BY <1>16, <2>1 DEF GatewayDecline
<1>17. ASSUME NEW p \in Attempts, CallbackFailure(p)
      PROVE  TypeOK'
  <2>1. StockTypeOK'
    BY <1>17, MoveType DEF CallbackFailure
  <2> QED
    BY <1>17, <2>1 DEF CallbackFailure
<1>18. ASSUME NEW p \in Attempts, NEW t \in 0 .. Horizon, CallbackServe(p, t)
      PROVE  TypeOK'
  <2>1. StockTypeOK'
    BY <1>18, MoveType DEF CallbackServe
  <2> QED
    BY <1>18, <2>1 DEF CallbackServe, Reported, Capture, FailOpen
<1>19. ASSUME NEW p \in Attempts, NEW t \in 0 .. Horizon, CallbackRefuse(p, t)
      PROVE  TypeOK'
  <2>1. StockTypeOK'
    BY <1>19, MoveType DEF CallbackRefuse
  <2> QED
    BY <1>19, <2>1 DEF CallbackRefuse, Reported, Capture, FailOpen, ReleaseVoucher, Cancel,
       QueueRefund
<1>20. ASSUME NEW p \in Attempts, NEW t \in 0 .. Horizon, CallbackDuplicate(p, t)
      PROVE  TypeOK'
  <2>1. StockTypeOK'
    BY <1>20, MoveType DEF CallbackDuplicate
  <2> QED
    BY <1>20, <2>1 DEF CallbackDuplicate, Reported, Capture, FailOpen, QueueRefund
<1>21. CASE SweepRead
  <2>1. StockTypeOK'
    BY <1>21 DEF StockTypeOK, SweepRead
  <2> QED
    BY <1>21, <2>1 DEF SweepRead
<1>22. CASE SweepCrash
  <2>1. StockTypeOK'
    BY <1>22 DEF StockTypeOK, SweepCrash
  <2> QED
    BY <1>22, <2>1 DEF SweepCrash
<1>23. CASE FlipManual
  <2>1. StockTypeOK'
    BY <1>23 DEF StockTypeOK, FlipManual
  <2> QED
    BY <1>23, <2>1 DEF FlipManual
<1>24. CASE Suspend
  <2>1. StockTypeOK'
    BY <1>24 DEF StockTypeOK, Suspend
  <2> QED
    BY <1>24, <2>1 DEF Suspend
<1>25. CASE Resume
  <2>1. StockTypeOK'
    BY <1>25 DEF StockTypeOK, Resume
  <2> QED
    BY <1>25, <2>1 DEF Resume
<1>26. CASE RemedyCrash
  <2>1. StockTypeOK'
    BY <1>26 DEF StockTypeOK, RemedyCrash
  <2> QED
    BY <1>26, <2>1 DEF RemedyCrash
<1>27. CASE Tick
  <2>1. StockTypeOK'
    BY <1>27 DEF StockTypeOK, Tick
  <2> QED
    BY <1>27, <2>1 DEF Tick
<1>28. CASE UNCHANGED vars
  BY <1>28, MoveType DEF vars, StockTypeOK
<1> QED
  BY <1>1, <1>2, <1>3, <1>4, <1>5, <1>6, <1>7, <1>8, <1>9, <1>10, <1>11, <1>12, <1>13, <1>14,
     <1>15, <1>16, <1>17, <1>18, <1>19, <1>20, <1>21, <1>22, <1>23, <1>24, <1>25, <1>26, <1>27,
     <1>28 DEF Next, CustomerStep, PartnerStep, ApproveBlocked, ExpireApproval, Callback

-----------------------------------------------------------------------------
(* Orders *)

\* Nothing was asked or charged for a booking yet.
Untouched(r) ==
    \A p \in AttemptsOf(r) : pay[p] = "NONE" /\ askedAt[p] = NoTime /\ charged[p] = NoTime

\* BookingBacked of one booking, with what makes it inductive: a booking that
\* cannot be paid yet has attempts nobody has touched, so no callback comes.
OrderOK(r) ==
    /\ \A p, q \in Captured(r) : p = q
    /\ booking[r] = "NONE" => Untouched(r) /\ tickets[r] = "NONE"
    /\ booking[r] = "PENDING_PAYMENT" =>
        hold[r] = "HELD" /\ Captured(r) = {} /\ tickets[r] = "NONE"
    /\ booking[r] = "PENDING_PARTNER" =>
        /\ \/ hold[r] = "HELD" /\ Untouched(r) /\ approveBy[r] # NoTime
           \/ hold[r] = "CONFIRMED" /\ Captured(r) # {}
        /\ tickets[r] = "NONE"
    /\ booking[r] \in {"CONFIRMED", "REFUND_REQUESTED"} =>
        hold[r] = "CONFIRMED" /\ Captured(r) # {} /\ tickets[r] = "VALID"
    /\ booking[r] = "CANCELLED" =>
        hold[r] \in {"EXPIRED", "CANCELLED"} /\ tickets[r] # "VALID"

OrdersInv == \A r \in Reservations : OrderOK(r)

\* A step that has nothing to do with the booking q.
Elsewhere(q) ==
    /\ hold'[q] = hold[q] /\ booking'[q] = booking[q] /\ tickets'[q] = tickets[q]
    /\ approveBy'[q] = approveBy[q]
    /\ \A p \in AttemptsOf(q) :
        /\ pay'[p] = pay[p] /\ dup'[p] = dup[p]
        /\ askedAt'[p] = askedAt[p] /\ charged'[p] = charged[p]

\* A step about one booking disturbs no other.
LEMMA OnlyOne ==
    ASSUME OrdersInv, NEW r \in Reservations, OrderOK(r)',
           \A q \in Reservations : q # r => Elsewhere(q)
    PROVE  OrdersInv'
<1>1. ASSUME NEW q \in Reservations, Elsewhere(q)
      PROVE  OrderOK(q)'
  <2>1. Captured(q)' = Captured(q) /\ Untouched(q)' = Untouched(q)
    BY <1>1 DEF Elsewhere, Captured, Untouched, AttemptsOf
  <2> QED
    BY <1>1, <2>1 DEF OrdersInv, OrderOK, Elsewhere
<1> QED
  BY <1>1 DEF OrdersInv

\* A step about no booking disturbs none.
LEMMA NoOrder ==
    ASSUME OrdersInv, UNCHANGED <<hold, booking, tickets, approveBy, pay, dup, askedAt, charged>>
    PROVE  OrdersInv'
BY DEF OrdersInv, OrderOK, Untouched, Captured, AttemptsOf

\* A ledger move of r moves no other reservation.
LEMMA HoldElsewhere ==
    ASSUME StockTypeOK, NEW r \in Reservations,
           \/ HoldSeats(r) \/ ConfirmSeats(r) \/ ReleaseBooked(r) \/ GiveBack(r)
           \/ \E status \in {"EXPIRED", "CANCELLED"} : ReleaseHeld(r, status)
           \/ UNCHANGED stockVars
    PROVE  \A q \in Reservations : q # r => hold'[q] = hold[q]
BY DEF StockTypeOK, HoldSeats, ConfirmSeats, ReleaseBooked, ReleaseHeld, GiveBack, stockVars

\* Giving a booking's seats back leaves it with none.
LEMMA GiveBackHold ==
    ASSUME StockTypeOK, NEW r \in Reservations, GiveBack(r), hold[r] \in {"HELD", "CONFIRMED"}
    PROVE  hold'[r] = "CANCELLED"
BY DEF StockTypeOK, GiveBack, ReleaseHeld, ReleaseBooked

\* Failing the open attempts of r captures nothing and gives nothing up.
LEMMA FailedCaptures ==
    ASSUME TypeOK, NEW r \in Reservations, pay' = FailOpen(r, pay), dup' = dup
    PROVE  /\ \A q \in Reservations : Captured(q)' = Captured(q)
           /\ \A p \in Attempts : BookingOf[p] # r => pay'[p] = pay[p]
BY DEF TypeOK, FailOpen, Captured, AttemptsOf

\* What a capture does to the attempts of every booking.
LEMMA CaptureCaptures ==
    ASSUME TypeOK, NEW p \in Attempts, NEW t, NEW d \in BOOLEAN, Capture(p, t, d),
           pay[p] # "SUCCESS"
    PROVE  /\ d => Captured(BookingOf[p])' = Captured(BookingOf[p])
           /\ ~d => Captured(BookingOf[p])' = Captured(BookingOf[p]) \cup {p}
           /\ \A q \in Attempts :
                BookingOf[q] # BookingOf[p] => pay'[q] = pay[q] /\ dup'[q] = dup[q]
<1>1. /\ pay' = FailOpen(BookingOf[p], [pay EXCEPT ![p] = "SUCCESS"])
      /\ dup' = [dup EXCEPT ![p] = d]
  BY DEF Capture
<1>2. \A q \in Attempts : q # p =>
        /\ pay'[q] = IF BookingOf[q] = BookingOf[p] /\ pay[q] = "PENDING" THEN "FAILED" ELSE pay[q]
        /\ dup'[q] = dup[q]
  BY <1>1 DEF TypeOK, FailOpen
<1>3. pay'[p] = "SUCCESS" /\ dup'[p] = d
  BY <1>1 DEF TypeOK, FailOpen
<1> QED
  BY <1>2, <1>3 DEF Captured, AttemptsOf

\* Every action keeps the orders backed: one step per action.
LEMMA OrderStep ==
    ASSUME TypeOK, OrdersInv, [Next]_vars
    PROVE  OrdersInv'
<1> USE BookingAssumption DEF stockVars, windowVars, orderVars, voucherVars, payVars,
        debtVars, venueVars, jobVars, gatewayVars
<1>0. StockTypeOK /\ \A p \in Attempts : BookingOf[p] \in Reservations
  BY DEF TypeOK
<1>1. ASSUME NEW r \in Reservations, Reserve(r)
      PROVE  OrdersInv'
  <2>1. \A q \in Reservations : q # r => Elsewhere(q)
    BY <1>0, <1>1, HoldElsewhere DEF Reserve, Elsewhere, TypeOK, AttemptsOf
  <2>2. OrderOK(r)'
    BY <1>0, <1>1, HoldElsewhere DEF Reserve, HoldSeats, StockTypeOK, OrdersInv, OrderOK,
       Untouched, Captured, AttemptsOf, TypeOK
  <2> QED
    BY <1>0, <2>1, <2>2, OnlyOne
<1>2. ASSUME NEW r \in Reservations, Checkout(r)
      PROVE  OrdersInv'
  <2>1. \A q \in Reservations : q # r => Elsewhere(q)
    BY <1>0, <1>2 DEF Checkout, LiveHold, Elsewhere, TypeOK, AttemptsOf
  <2>2. OrderOK(r)'
    BY <1>0, <1>2 DEF Checkout, LiveHold, OrdersInv, OrderOK, Untouched, Captured, AttemptsOf,
       TypeOK
  <2> QED
    BY <1>0, <2>1, <2>2, OnlyOne
<1>3. ASSUME NEW r \in Reservations, CheckoutForApproval(r)
      PROVE  OrdersInv'
  <2>1. \A q \in Reservations : q # r => Elsewhere(q)
    BY <1>0, <1>3 DEF CheckoutForApproval, Elsewhere, TypeOK, AttemptsOf
  <2>2. OrderOK(r)'
    <3>1. ApprovalCutoff(now) # NoTime
      BY DEF ApprovalCutoff, Earlier, NoTime, TypeOK, Times
    <3>2. approveBy'[r] # NoTime /\ hold'[r] = "HELD" /\ booking'[r] = "PENDING_PARTNER"
      BY <1>3, <3>1 DEF CheckoutForApproval, LiveHold, TypeOK
    <3>3. Captured(r)' = Captured(r) /\ Untouched(r)' = Untouched(r)
      BY <1>3 DEF CheckoutForApproval, Captured, Untouched, AttemptsOf
    <3> QED
      BY <1>3, <3>2, <3>3 DEF CheckoutForApproval, OrdersInv, OrderOK
  <2> QED
    BY <1>0, <2>1, <2>2, OnlyOne
<1>4. ASSUME NEW r \in Reservations, RequestRefund(r)
      PROVE  OrdersInv'
  <2>1. \A q \in Reservations : q # r => Elsewhere(q)
    BY <1>0, <1>4 DEF RequestRefund, Elsewhere, TypeOK, AttemptsOf
  <2>2. OrderOK(r)'
    BY <1>0, <1>4 DEF RequestRefund, OrdersInv, OrderOK, Untouched, Captured, AttemptsOf, TypeOK
  <2> QED
    BY <1>0, <2>1, <2>2, OnlyOne
<1>5. ASSUME NEW r \in Reservations, ApproveUnpaid(r)
      PROVE  OrdersInv'
  <2>1. \A q \in Reservations : q # r => Elsewhere(q)
    BY <1>0, <1>5 DEF ApproveUnpaid, Elsewhere, TypeOK, AttemptsOf
  <2>2. OrderOK(r)'
    BY <1>0, <1>5 DEF ApproveUnpaid, OrdersInv, OrderOK, Untouched, Captured, AttemptsOf, TypeOK
  <2> QED
    BY <1>0, <2>1, <2>2, OnlyOne
<1>6. ASSUME NEW r \in Reservations, ApprovePaid(r)
      PROVE  OrdersInv'
  <2>1. \A q \in Reservations : q # r => Elsewhere(q)
    BY <1>0, <1>6, HoldElsewhere DEF ApprovePaid, Elsewhere, TypeOK, AttemptsOf
  <2>2. OrderOK(r)'
    BY <1>0, <1>6 DEF ApprovePaid, ConfirmSeats, OrdersInv, OrderOK, Untouched, Captured,
       AttemptsOf, TypeOK
  <2> QED
    BY <1>0, <2>1, <2>2, OnlyOne
<1>7. ASSUME NEW r \in Reservations, CancelPending(r)
      PROVE  OrdersInv'
  <2>1. \A q \in Reservations : q # r => Elsewhere(q)
    BY <1>0, <1>7, HoldElsewhere DEF CancelPending, Cancel, Elsewhere, TypeOK, AttemptsOf
  <2>2. OrderOK(r)'
    BY <1>0, <1>7, GiveBackHold DEF CancelPending, Cancel, OrdersInv, OrderOK, Untouched,
       Captured, AttemptsOf, TypeOK
  <2> QED
    BY <1>0, <2>1, <2>2, OnlyOne
<1>8. ASSUME NEW r \in Reservations, Reject(r)
      PROVE  OrdersInv'
  <2>1. \A q \in Reservations : q # r => Elsewhere(q)
    BY <1>0, <1>8, HoldElsewhere DEF Reject, Cancel, Elsewhere, TypeOK, AttemptsOf
  <2>2. OrderOK(r)'
    <3>1. hold[r] \in {"HELD", "CONFIRMED"}
      BY <1>8 DEF Reject, OrdersInv, OrderOK
    <3> QED
      BY <1>0, <1>8, <3>1, GiveBackHold DEF Reject, Cancel, OrdersInv, OrderOK, Untouched,
         Captured, AttemptsOf, TypeOK
  <2> QED
    BY <1>0, <2>1, <2>2, OnlyOne
<1>9. ASSUME NEW r \in Reservations, PartnerCancel(r)
      PROVE  OrdersInv'
  <2>1. \A q \in Reservations : q # r => Elsewhere(q)
    BY <1>0, <1>9, HoldElsewhere DEF PartnerCancel, Cancel, ExpireTickets, Elsewhere, TypeOK,
       AttemptsOf
  <2>2. OrderOK(r)'
    BY <1>0, <1>9 DEF PartnerCancel, Cancel, ExpireTickets, ReleaseBooked, StockTypeOK,
       OrdersInv, OrderOK, Untouched, Captured, AttemptsOf, TypeOK
  <2> QED
    BY <1>0, <2>1, <2>2, OnlyOne
<1>10. ASSUME NEW r \in Reservations, SweepOne(r)
      PROVE  OrdersInv'
  <2>1. \A q \in Reservations : q # r => Elsewhere(q)
    BY <1>0, <1>10, HoldElsewhere, FailedCaptures DEF SweepOne, Cancel, Elsewhere, TypeOK,
       AttemptsOf
  <2>2. OrderOK(r)'
    <3>1. CASE hold[r] = "HELD"
      <4>1. hold'[r] = "EXPIRED" /\ booking[r] \in SweptStatuses \cup {"NONE"}
        BY <1>0, <1>10, <3>1 DEF SweepOne, ReleaseHeld, StockTypeOK, SweptStatuses, Active,
           OrdersInv, OrderOK, Untouched, Captured, AttemptsOf, TypeOK
      <4>2. booking[r] \in SweptStatuses => booking'[r] = "CANCELLED" /\ Captured(r)' = Captured(r)
        BY <1>10, <3>1, FailedCaptures DEF SweepOne, Cancel, TypeOK
      <4>3. CASE booking[r] = "NONE"
        BY <1>10, <3>1, <4>1, <4>3 DEF SweepOne, SweptStatuses, OrdersInv, OrderOK, Untouched,
           Captured, AttemptsOf, TypeOK
      <4> QED
        BY <1>10, <4>1, <4>2, <4>3 DEF SweepOne, SweptStatuses, OrdersInv, OrderOK
    <3>2. CASE hold[r] # "HELD"
      BY <1>10, <3>2 DEF SweepOne, OrdersInv, OrderOK, Untouched, Captured, AttemptsOf, TypeOK
    <3> QED
      BY <3>1, <3>2
  <2> QED
    BY <1>0, <2>1, <2>2, OnlyOne
<1>11. ASSUME NEW r \in Reservations, RemedyOne(r)
      PROVE  OrdersInv'
  <2>1. \A q \in Reservations : q # r => Elsewhere(q)
    BY <1>0, <1>11, HoldElsewhere DEF RemedyOne, Cancel, ExpireTickets, Elsewhere, TypeOK,
       AttemptsOf
  <2>2. OrderOK(r)'
    <3>1. CASE UNCHANGED <<stockVars, voucherVars, orderVars, debtVars>>
      BY <1>11, <3>1 DEF RemedyOne, OrdersInv, OrderOK, Untouched, Captured, AttemptsOf, TypeOK
    <3>2. CASE /\ GiveBack(r) /\ hold[r] \in {"HELD", "CONFIRMED"}
               /\ Cancel(r, Captured(r) # {}) /\ ExpireTickets(r)
      <4>1. hold'[r] = "CANCELLED" /\ booking'[r] = "CANCELLED" /\ tickets'[r] # "VALID"
        BY <1>0, <3>2, GiveBackHold DEF Cancel, ExpireTickets, TypeOK
      <4>2. Captured(r)' = Captured(r)
        BY <1>11 DEF RemedyOne, Captured, AttemptsOf
      <4> QED
        BY <4>1, <4>2 DEF OrdersInv, OrderOK
    <3> QED
      BY <1>11, <3>1, <3>2 DEF RemedyOne
  <2> QED
    BY <1>0, <2>1, <2>2, OnlyOne
<1>12. ASSUME NEW p \in Attempts, AskUrl(p)
      PROVE  OrdersInv'
  <2>1. \A q \in Reservations : q # BookingOf[p] => Elsewhere(q)
    BY <1>0, <1>12 DEF AskUrl, Elsewhere, TypeOK, AttemptsOf
  <2>2. OrderOK(BookingOf[p])'
    BY <1>0, <1>12 DEF AskUrl, OrdersInv, OrderOK, Untouched, Captured, AttemptsOf, TypeOK
  <2> QED
    BY <1>0, <2>1, <2>2, OnlyOne
<1>13. ASSUME NEW p \in Attempts, OpenAttempt(p)
      PROVE  OrdersInv'
  <2>1. \A q \in Reservations : q # BookingOf[p] => Elsewhere(q)
    BY <1>0, <1>13 DEF OpenAttempt, Elsewhere, TypeOK, AttemptsOf
  <2>2. OrderOK(BookingOf[p])'
    BY <1>0, <1>13 DEF OpenAttempt, OrdersInv, OrderOK, Untouched, Captured, AttemptsOf, TypeOK
  <2> QED
    BY <1>0, <2>1, <2>2, OnlyOne
<1>14. ASSUME NEW p \in Attempts, GatewayPay(p)
      PROVE  OrdersInv'
  <2>1. \A q \in Reservations : q # BookingOf[p] => Elsewhere(q)
    BY <1>0, <1>14 DEF GatewayPay, Elsewhere, TypeOK, AttemptsOf
  <2>2. OrderOK(BookingOf[p])'
    BY <1>0, <1>14 DEF GatewayPay, OrdersInv, OrderOK, Untouched, Captured, AttemptsOf, TypeOK
  <2> QED
    BY <1>0, <2>1, <2>2, OnlyOne
<1>15. ASSUME NEW p \in Attempts, CallbackFailure(p)
      PROVE  OrdersInv'
  <2>1. \A q \in Reservations : q # BookingOf[p] => Elsewhere(q)
    BY <1>0, <1>15 DEF CallbackFailure, Elsewhere, TypeOK, AttemptsOf
  <2>2. OrderOK(BookingOf[p])'
    BY <1>0, <1>15 DEF CallbackFailure, OrdersInv, OrderOK, Untouched, Captured, AttemptsOf,
       TypeOK
  <2> QED
    BY <1>0, <2>1, <2>2, OnlyOne
<1>16. ASSUME NEW p \in Attempts, NEW t \in 0 .. Horizon, CallbackServe(p, t)
      PROVE  OrdersInv'
  <2>1. \A q \in Reservations : q # BookingOf[p] => Elsewhere(q)
    <3>1. \A q \in Attempts : BookingOf[q] # BookingOf[p] => pay'[q] = pay[q] /\ dup'[q] = dup[q]
      BY <1>0, <1>16, CaptureCaptures DEF CallbackServe, Reported
    <3>2. \A q \in Reservations : q # BookingOf[p] => hold'[q] = hold[q]
      BY <1>0, <1>16, HoldElsewhere DEF CallbackServe
    <3> QED
      BY <1>0, <1>16, <3>1, <3>2 DEF CallbackServe, Elsewhere, TypeOK, AttemptsOf
  <2>2. OrderOK(BookingOf[p])'
    <3>1. Captured(BookingOf[p])' = {p} /\ tickets[BookingOf[p]] = "NONE"
      BY <1>0, <1>16, CaptureCaptures DEF CallbackServe, Reported, InTime, OrdersInv, OrderOK
    <3>2. hold'[BookingOf[p]] = "CONFIRMED"
      BY <1>0, <1>16 DEF CallbackServe, ConfirmSeats, StockTypeOK
    <3> QED
      BY <1>0, <1>16, <3>1, <3>2 DEF CallbackServe, OrdersInv, OrderOK, TypeOK
  <2> QED
    BY <1>0, <2>1, <2>2, OnlyOne
<1>17. ASSUME NEW p \in Attempts, NEW t \in 0 .. Horizon, CallbackRefuse(p, t)
      PROVE  OrdersInv'
  <2>1. \A q \in Reservations : q # BookingOf[p] => Elsewhere(q)
    <3>1. \A q \in Attempts : BookingOf[q] # BookingOf[p] => pay'[q] = pay[q] /\ dup'[q] = dup[q]
      BY <1>0, <1>17, CaptureCaptures DEF CallbackRefuse, Reported
    <3>2. \A q \in Reservations : q # BookingOf[p] => hold'[q] = hold[q]
      BY <1>0, <1>17, HoldElsewhere DEF CallbackRefuse
    <3> QED
      BY <1>0, <1>17, <3>1, <3>2 DEF CallbackRefuse, Cancel, Elsewhere, TypeOK, AttemptsOf
  <2>2. OrderOK(BookingOf[p])'
    <3>1. Captured(BookingOf[p])' = {p}
      BY <1>0, <1>17, CaptureCaptures DEF CallbackRefuse, Reported
    <3>2. booking[BookingOf[p]] \in {"PENDING_PAYMENT", "CANCELLED"}
      BY <1>0, <1>17 DEF CallbackRefuse, Reported, Active, OrdersInv, OrderOK, Untouched,
         Captured, AttemptsOf, TypeOK
    <3>3. booking'[BookingOf[p]] = "CANCELLED" /\ tickets' = tickets
      BY <1>0, <1>17 DEF CallbackRefuse, Cancel, TypeOK
    <3>4. hold'[BookingOf[p]] \in {"EXPIRED", "CANCELLED"}
      BY <1>0, <1>17, <3>2, GiveBackHold DEF CallbackRefuse, OrdersInv, OrderOK
    <3> QED
      BY <1>0, <3>1, <3>2, <3>3, <3>4 DEF OrdersInv, OrderOK
  <2> QED
    BY <1>0, <2>1, <2>2, OnlyOne
<1>18. ASSUME NEW p \in Attempts, NEW t \in 0 .. Horizon, CallbackDuplicate(p, t)
      PROVE  OrdersInv'
  <2>1. \A q \in Reservations : q # BookingOf[p] => Elsewhere(q)
    BY <1>0, <1>18, CaptureCaptures DEF CallbackDuplicate, Reported, Elsewhere, TypeOK, AttemptsOf
  <2>2. OrderOK(BookingOf[p])'
    <3>1. Captured(BookingOf[p])' = Captured(BookingOf[p])
      BY <1>0, <1>18, CaptureCaptures DEF CallbackDuplicate, Reported
    <3>2. booking[BookingOf[p]] # "NONE" /\ ~Untouched(BookingOf[p])
      BY <1>0, <1>18 DEF CallbackDuplicate, Reported, OrdersInv, OrderOK, Untouched, Captured,
         AttemptsOf, TypeOK
    <3>3. UNCHANGED <<hold, booking, tickets, approveBy>>
      BY <1>18 DEF CallbackDuplicate
    <3> QED
      BY <1>0, <3>1, <3>2, <3>3 DEF OrdersInv, OrderOK
  <2> QED
    BY <1>0, <2>1, <2>2, OnlyOne
<1>19. ASSUME \/ SweepRead \/ SweepCrash \/ FlipManual \/ Suspend \/ Resume \/ RemedyCrash \/ Tick
             \/ UNCHANGED vars \/ \E r \in Reservations : RetryDrift(r)
             \/ \E p \in Attempts : GatewayDecline(p)
      PROVE  OrdersInv'
  BY <1>19, NoOrder DEF SweepRead, SweepCrash, FlipManual, Suspend, Resume, RemedyCrash, Tick,
     vars, RetryDrift, GatewayDecline
<1> QED
  BY <1>1, <1>2, <1>3, <1>4, <1>5, <1>6, <1>7, <1>8, <1>9, <1>10, <1>11, <1>12, <1>13, <1>14,
     <1>15, <1>16, <1>17, <1>18, <1>19
  DEF Next, CustomerStep, PartnerStep, ApproveBlocked, ExpireApproval, Callback

-----------------------------------------------------------------------------
(* Theorems *)

\* A venue without orders is well-typed and backed.
LEMMA BookingInit ==
    ASSUME Init
    PROVE  TypeOK /\ OrdersInv
<1>1. 0 \in Times /\ 0 \in 0 .. VoucherLimit
  BY BookingAssumption DEF Times
<1>2. StockTypeOK
  BY StockInitInv DEF Init, StockInv
<1>3. TypeOK
  BY <1>1, <1>2 DEF Init, TypeOK
<1>4. OrdersInv
  BY BookingAssumption DEF Init, OrdersInv, OrderOK, Untouched, Captured, AttemptsOf, StockInit
<1> QED
  BY <1>3, <1>4

\* The strengthened invariant holds of every behaviour.
LEMMA BookingInvariant == Spec => [](TypeOK /\ OrdersInv)
<1>1. Init => TypeOK /\ OrdersInv
  BY BookingInit
<1>2. TypeOK /\ OrdersInv /\ [Next]_vars => (TypeOK /\ OrdersInv)'
  BY TypeStep, OrderStep
<1> QED
  BY <1>1, <1>2, PTL DEF Spec

\* Every variable of the booking flow stays well-typed: no deadline lies after
\* the horizon, no approval deadline after the start of the visit, and the
\* voucher is never used beyond its limit.
THEOREM BookingTypeOK == Spec => []TypeOK
BY BookingInvariant, PTL

\* For any number of bookings and attempts, through every order of callbacks,
\* decisions, sweeps and remediations: status, seats, tickets and captured
\* payment of a booking agree.
THEOREM BookingsBacked == Spec => []BookingBacked
<1>1. TypeOK /\ OrdersInv => BookingBacked
  <2> SUFFICES ASSUME TypeOK, OrdersInv, NEW r \in Reservations
               PROVE  OrderOK(r) /\ (Captured(r) # {} => Cardinality(Captured(r)) = 1)
                      /\ (Untouched(r) => Captured(r) = {})
    BY DEF BookingBacked, OrderOK
  <2>1. OrderOK(r)
    BY DEF OrdersInv
  <2>2. ASSUME NEW p \in Captured(r)
        PROVE  Cardinality(Captured(r)) = 1
    <3>1. Captured(r) = {p}
      BY <2>1, <2>2 DEF OrderOK
    <3> QED
      BY <3>1, FS_Singleton
  <2>3. Untouched(r) => Captured(r) = {}
    BY DEF Untouched, Captured
  <2> QED
    BY <2>1, <2>2, <2>3
<1> QED
  BY <1>1, BookingInvariant, PTL

\* Every step of the booking flow is a ledger move or leaves the stock alone.
LEMMA BookingMoves ==
    ASSUME TypeOK, OrdersInv, [Next]_vars
    PROVE  [StockNext]_stockVars
<1>1. \A r \in Reservations : GiveBack(r) => StockStep(r)
  BY DEF GiveBack, StockStep
<1>2. ASSUME NEW r \in Reservations, ApprovePaid(r)
      PROVE  UNCHANGED stockVars
  <2>1. hold[r] = "CONFIRMED"
    BY <1>2 DEF ApprovePaid, OrdersInv, OrderOK, Untouched, Captured
  <2> QED
    BY <1>2, <2>1 DEF ApprovePaid, ConfirmSeats
<1>3. ASSUME NEW r \in Reservations,
             \/ Reserve(r) \/ CancelPending(r) \/ Reject(r) \/ PartnerCancel(r)
             \/ SweepOne(r) \/ RemedyOne(r)
      PROVE  StockStep(r) \/ UNCHANGED stockVars
  BY <1>1, <1>3 DEF Reserve, CancelPending, Reject, PartnerCancel, SweepOne, RemedyOne, StockStep
<1>4. ASSUME NEW r \in Reservations,
             \/ Checkout(r) \/ CheckoutForApproval(r) \/ RequestRefund(r) \/ ApproveUnpaid(r)
             \/ RetryDrift(r)
      PROVE  UNCHANGED stockVars
  BY <1>4 DEF Checkout, CheckoutForApproval, RequestRefund, ApproveUnpaid, RetryDrift
<1>5. ASSUME NEW p \in Attempts, NEW t \in 0 .. Horizon,
             CallbackServe(p, t) \/ CallbackRefuse(p, t)
      PROVE  StockStep(BookingOf[p]) \/ UNCHANGED stockVars
  BY <1>1, <1>5, BookingAssumption DEF CallbackServe, InTime, CallbackRefuse, StockStep
<1>6. ASSUME NEW p \in Attempts,
             \/ AskUrl(p) \/ OpenAttempt(p) \/ GatewayPay(p) \/ GatewayDecline(p)
             \/ CallbackFailure(p) \/ \E t \in 0 .. Horizon : CallbackDuplicate(p, t)
      PROVE  UNCHANGED stockVars
  BY <1>6 DEF AskUrl, OpenAttempt, GatewayPay, GatewayDecline, CallbackFailure, CallbackDuplicate
<1>7. CASE SweepRead \/ SweepCrash \/ FlipManual \/ Suspend \/ Resume \/ RemedyCrash \/ Tick
           \/ UNCHANGED vars
  BY <1>7 DEF SweepRead, SweepCrash, FlipManual, Suspend, Resume, RemedyCrash, Tick, vars
<1>8. \A p \in Attempts : BookingOf[p] \in Reservations
  BY BookingAssumption
<1> QED
  BY <1>2, <1>3, <1>4, <1>5, <1>6, <1>7, <1>8
  DEF Next, CustomerStep, PartnerStep, ApproveBlocked, ExpireApproval, Callback, StockNext

\* Refinement: callbacks, decisions, sweeps and suspensions together do nothing
\* to the seats that the abstract ledger does not allow.
THEOREM BookingImplementsStock == Spec => StockSpec
<1>1. Init => StockInit
  BY DEF Init
<1>2. TypeOK /\ OrdersInv /\ [Next]_vars => [StockNext]_stockVars
  BY BookingMoves
<1> QED
  BY <1>1, <1>2, BookingInvariant, PTL DEF Spec, StockSpec

\* The counters count the seats of the bookings exactly, through callbacks, decisions,
\* sweeps, suspensions and crashes.
THEOREM BookingConservation == Spec => []Conservation
BY BookingImplementsStock, StockConservation, PTL

\* No decrement of the handlers ever finds fewer seats than it gives back.
THEOREM BookingNeverDrifts == Spec => []NoDrift
BY BookingImplementsStock, StockNeverDrifts, PTL

\* No layer of a venue whose capacity is fixed is ever sold beyond it.
THEOREM BookingWithinCapacity == Spec => []WithinCapacity
<1>1. Init => WithinCapacity
  BY BookingAssumption DEF Init, StockInit, WithinCapacity
<1>2. ASSUME TypeOK, WithinCapacity, OrdersInv, [Next]_vars
      PROVE  WithinCapacity'
  <2>1. ASSUME NEW r \in Reservations, Fits(r, Capacity), HoldSeats(r)
        PROVE  WithinCapacity'
    <3> SUFFICES ASSUME NEW l \in Layers
                 PROVE  held'[l] + booked'[l] <= Capacity[l]
      BY DEF WithinCapacity
    <3>1. /\ held'[l] = IF l \in LayersOf[r] THEN held[l] + Units[r] ELSE held[l]
          /\ booked'[l] = booked[l]
      BY <2>1 DEF HoldSeats, Shift
    <3>2. /\ held[l] + booked[l] <= Capacity[l] /\ Capacity[l] \in Int
          /\ held[l] \in Int /\ booked[l] \in Int /\ Units[r] \in Int
          /\ l \in LayersOf[r] => booked[l] + held[l] + Units[r] <= Capacity[l]
      BY <1>2, <2>1, UnitsType, BookingAssumption DEF TypeOK, StockTypeOK, Fits, WithinCapacity
    <3> QED
      BY <3>1, <3>2
  <2>2. ASSUME NEW r \in Reservations,
               ConfirmSeats(r) \/ GiveBack(r) \/ ReleaseBooked(r) \/ ReleaseHeld(r, "EXPIRED")
        PROVE  WithinCapacity'
    <3> SUFFICES ASSUME NEW l \in Layers
                 PROVE  held'[l] + booked'[l] <= Capacity[l]
      BY DEF WithinCapacity
    <3>1. /\ held[l] + booked[l] <= Capacity[l] /\ Capacity[l] \in Int
          /\ held[l] \in Int /\ booked[l] \in Int /\ Units[r] \in Nat
      BY <1>2, StockAssumption, BookingAssumption DEF TypeOK, StockTypeOK, WithinCapacity
    <3>2. \A n : Shift(held, r, n)[l] = IF l \in LayersOf[r] THEN held[l] + n ELSE held[l]
      BY DEF Shift
    <3>3. \A n : Shift(booked, r, n)[l] = IF l \in LayersOf[r] THEN booked[l] + n ELSE booked[l]
      BY DEF Shift
    <3>4. \/ held' = Shift(held, r, -Units[r]) /\ booked' = Shift(booked, r, Units[r])
          \/ held' = Shift(held, r, -Units[r]) /\ booked' = booked
          \/ held' = held /\ booked' = Shift(booked, r, -Units[r])
          \/ held' = held /\ booked' = booked
      BY <2>2 DEF ConfirmSeats, GiveBack, ReleaseBooked, ReleaseHeld, stockVars
    <3> QED
      BY <3>1, <3>2, <3>3, <3>4
  <2>3. CASE UNCHANGED stockVars
    BY <1>2, <2>3 DEF stockVars, WithinCapacity
  <2>4. ASSUME NEW r \in Reservations,
               \/ CancelPending(r) \/ Reject(r) \/ PartnerCancel(r) \/ SweepOne(r) \/ RemedyOne(r)
               \/ ApprovePaid(r)
        PROVE  WithinCapacity'
    BY <2>2, <2>3, <2>4
    DEF CancelPending, Reject, PartnerCancel, SweepOne, RemedyOne, ApprovePaid
  <2>5. ASSUME NEW p \in Attempts, NEW t \in 0 .. Horizon,
               CallbackServe(p, t) \/ CallbackRefuse(p, t)
        PROVE  WithinCapacity'
    BY <2>2, <2>3, <2>5, BookingAssumption DEF CallbackServe, CallbackRefuse
  <2> QED
    BY <1>2, <2>1, <2>3, <2>4, <2>5
    DEF Next, CustomerStep, PartnerStep, ApproveBlocked, ExpireApproval, Callback, vars,
        Reserve, Checkout, CheckoutForApproval, RequestRefund, ApproveUnpaid, RetryDrift,
        AskUrl, OpenAttempt, GatewayPay, GatewayDecline, CallbackFailure, CallbackDuplicate,
        SweepRead, SweepCrash, FlipManual, Suspend, Resume, RemedyCrash, Tick
<1> QED
  BY <1>1, <1>2, BookingInvariant, PTL DEF Spec

-----------------------------------------------------------------------------
(* Holds and their time *)

\* No handler extends a hold that has expired: a request for approval lives no
\* longer than its hold, and what a sweep has read stays expired.
WindowInv ==
    /\ \A r \in Reservations :
        booking[r] = "PENDING_PARTNER" /\ hold[r] = "HELD" => approveBy[r] <= expiresAt[r]
    /\ \A r \in swept : hold[r] # "NONE" /\ (hold[r] = "HELD" => expiresAt[r] < now)

\* A step that makes no hold and extends none.
HoldsOn ==
    /\ now <= now' /\ expiresAt' = expiresAt /\ approveBy' = approveBy /\ swept' \subseteq swept
    /\ \A r \in Reservations :
        /\ hold'[r] = hold[r] \/ hold'[r] \notin {"NONE", "HELD"}
        /\ booking'[r] = "PENDING_PARTNER" /\ hold'[r] = "HELD" => booking[r] = "PENDING_PARTNER"

\* A ledger move other than a reservation makes no hold.
LEMMA MoveHolds ==
    ASSUME StockTypeOK, NEW r \in Reservations,
           \/ ConfirmSeats(r) \/ ReleaseBooked(r) \/ GiveBack(r)
           \/ ReleaseHeld(r, "EXPIRED") \/ UNCHANGED stockVars
    PROVE  \A q \in Reservations : hold'[q] = hold[q] \/ hold'[q] \notin {"NONE", "HELD"}
BY DEF StockTypeOK, ConfirmSeats, ReleaseBooked, ReleaseHeld, GiveBack, stockVars

\* All but six actions leave the windows of the holds alone.
LEMMA HoldsOnStep ==
    ASSUME TypeOK, [Next]_vars,
           \A r \in Reservations :
                ~Reserve(r) /\ ~CheckoutForApproval(r) /\ ~ApproveUnpaid(r) /\ ~RetryDrift(r),
           ~SweepRead
    PROVE  HoldsOn
<1> USE DEF stockVars, windowVars, orderVars, jobVars
<1>0. /\ StockTypeOK /\ now <= now
      /\ booking \in [Reservations -> Active \cup {"NONE", "CANCELLED", "REFUND_REQUESTED"}]
      /\ \A p \in Attempts : BookingOf[p] \in Reservations
  BY BookingAssumption DEF TypeOK, Times
<1>1. ASSUME NEW r \in Reservations,
             \/ CancelPending(r) \/ Reject(r) \/ PartnerCancel(r) \/ RemedyOne(r)
             \/ SweepOne(r) \/ ApprovePaid(r)
      PROVE  HoldsOn
  <2>1. \A q \in Reservations : hold'[q] = hold[q] \/ hold'[q] \notin {"NONE", "HELD"}
    BY <1>0, <1>1, MoveHolds
    DEF CancelPending, Reject, PartnerCancel, RemedyOne, SweepOne, ApprovePaid
  <2>2. \A q \in Reservations : booking'[q] = "PENDING_PARTNER" => booking[q] = "PENDING_PARTNER"
    <3>1. \/ booking' = [booking EXCEPT ![r] = "CANCELLED"]
          \/ booking' = [booking EXCEPT ![r] = "CONFIRMED"]
          \/ booking' = booking
      BY <1>1 DEF CancelPending, Reject, PartnerCancel, RemedyOne, SweepOne, ApprovePaid, Cancel
    <3> QED
      BY <1>0, <3>1
  <2>3. /\ now' = now /\ expiresAt' = expiresAt /\ approveBy' = approveBy
        /\ swept' \subseteq swept
    BY <1>1 DEF CancelPending, Reject, PartnerCancel, RemedyOne, SweepOne, ApprovePaid, Cancel
  <2> QED
    BY <1>0, <2>1, <2>2, <2>3 DEF HoldsOn
<1>2. ASSUME NEW r \in Reservations, Checkout(r) \/ RequestRefund(r)
      PROVE  HoldsOn
  <2>1. \/ booking' = [booking EXCEPT ![r] = "PENDING_PAYMENT"]
        \/ booking' = [booking EXCEPT ![r] = "REFUND_REQUESTED"]
    BY <1>2 DEF Checkout, RequestRefund
  <2>2. UNCHANGED <<now, expiresAt, approveBy, swept, hold>>
    BY <1>2 DEF Checkout, RequestRefund
  <2> QED
    BY <1>0, <2>1, <2>2 DEF HoldsOn
<1>3. ASSUME NEW p \in Attempts, NEW t \in 0 .. Horizon, CallbackServe(p, t)
      PROVE  HoldsOn
  <2>1. \A q \in Reservations : hold'[q] = hold[q] \/ hold'[q] \notin {"NONE", "HELD"}
    BY <1>0, <1>3, MoveHolds DEF CallbackServe
  <2>2. hold'[BookingOf[p]] = "CONFIRMED"
    BY <1>0, <1>3 DEF CallbackServe, InTime, ConfirmSeats, StockTypeOK
  <2> QED
    BY <1>0, <1>3, <2>1, <2>2 DEF CallbackServe, HoldsOn
<1>4. ASSUME NEW p \in Attempts, NEW t \in 0 .. Horizon, CallbackRefuse(p, t)
      PROVE  HoldsOn
  <2>1. \A q \in Reservations : hold'[q] = hold[q] \/ hold'[q] \notin {"NONE", "HELD"}
    BY <1>0, <1>4, MoveHolds DEF CallbackRefuse
  <2> QED
    BY <1>0, <1>4, <2>1 DEF CallbackRefuse, Cancel, HoldsOn
<1>5. ASSUME NEW p \in Attempts,
             \/ AskUrl(p) \/ OpenAttempt(p) \/ GatewayPay(p) \/ GatewayDecline(p)
             \/ CallbackFailure(p) \/ \E t \in 0 .. Horizon : CallbackDuplicate(p, t)
      PROVE  HoldsOn
  BY <1>0, <1>5 DEF AskUrl, OpenAttempt, GatewayPay, GatewayDecline, CallbackFailure,
     CallbackDuplicate, HoldsOn
<1>6. CASE SweepCrash \/ FlipManual \/ Suspend \/ Resume \/ RemedyCrash \/ UNCHANGED vars
  BY <1>0, <1>6 DEF SweepCrash, FlipManual, Suspend, Resume, RemedyCrash, vars, HoldsOn
<1>7. CASE Tick
  BY <1>0, <1>7, BookingAssumption DEF Tick, HoldsOn, TypeOK, Times
<1> QED
  BY <1>1, <1>2, <1>3, <1>4, <1>5, <1>6, <1>7
  DEF Next, CustomerStep, PartnerStep, ApproveBlocked, ExpireApproval, Callback

\* Every action keeps the windows: one step per action that touches one.
LEMMA WindowStep ==
    ASSUME TypeOK, OrdersInv, WindowInv, [Next]_vars
    PROVE  WindowInv'
<1> USE DEF stockVars, windowVars, orderVars, jobVars
<1>0. /\ now \in Int /\ now' \in Int /\ expiresAt \in [Reservations -> Int] /\ Grace \in Nat
      /\ approveBy \in [Reservations -> Int] /\ hold \in [Reservations -> HoldStatus]
      /\ booking \in [Reservations -> Active \cup {"NONE", "CANCELLED", "REFUND_REQUESTED"}]
      /\ swept \subseteq Reservations
      /\ expiresAt' \in [Reservations -> Int]
  BY TypeStep, BookingAssumption DEF TypeOK, StockTypeOK, Times, NoTime
<1>1. ASSUME NEW r \in Reservations, Reserve(r)
      PROVE  WindowInv'
  <2>1. /\ hold[r] = "NONE" /\ hold' = [hold EXCEPT ![r] = "HELD"]
        /\ \A q \in Reservations : q # r => expiresAt'[q] = expiresAt[q]
        /\ UNCHANGED <<now, booking, approveBy, swept>>
    BY <1>0, <1>1 DEF Reserve, HoldSeats
  <2>2. booking[r] # "PENDING_PARTNER" /\ r \notin swept
    BY <2>1 DEF OrdersInv, OrderOK, WindowInv
  <2> QED
    BY <1>0, <2>1, <2>2 DEF WindowInv
<1>2. ASSUME NEW r \in Reservations, CheckoutForApproval(r)
      PROVE  WindowInv'
  <2>1. /\ hold[r] = "HELD" /\ expiresAt[r] > now
        /\ approveBy'[r] <= expiresAt'[r]
        /\ \A q \in Reservations : q # r =>
            /\ expiresAt'[q] = expiresAt[q] /\ approveBy'[q] = approveBy[q]
            /\ booking'[q] = booking[q]
        /\ UNCHANGED <<now, hold, swept>>
    <3>1. ApprovalCutoff(now) \in Int
      BY <1>0, BookingAssumption DEF ApprovalCutoff, Earlier
    <3> QED
      BY <1>0, <1>2, <3>1 DEF CheckoutForApproval, LiveHold
  <2>2. r \notin swept
    BY <1>0, <2>1 DEF WindowInv
  <2> QED
    BY <1>0, <2>1, <2>2 DEF WindowInv
<1>3. ASSUME NEW r \in Reservations, ApproveUnpaid(r)
      PROVE  WindowInv'
  <2>1. /\ booking[r] = "PENDING_PARTNER" /\ hold[r] = "HELD" /\ now < approveBy[r]
        /\ booking' = [booking EXCEPT ![r] = "PENDING_PAYMENT"]
        /\ \A q \in Reservations : q # r => expiresAt'[q] = expiresAt[q]
        /\ UNCHANGED <<now, hold, approveBy, swept>>
    BY <1>0, <1>3 DEF ApproveUnpaid, OpenRequest
  <2>2. r \notin swept
    BY <1>0, <2>1 DEF WindowInv
  <2> QED
    BY <1>0, <2>1, <2>2 DEF WindowInv
<1>4. ASSUME SweepRead \/ \E r \in Reservations : RetryDrift(r)
      PROVE  WindowInv'
  <2>1. \A q \in swept' \ swept : q \in Reservations /\ hold[q] = "HELD" /\ expiresAt[q] < now
    BY <1>0, <1>4 DEF SweepRead, RetryDrift, Overdue
  <2>2. UNCHANGED <<now, hold, expiresAt, booking, approveBy>>
    BY <1>4 DEF SweepRead, RetryDrift
  <2> QED
    BY <1>0, <2>1, <2>2 DEF WindowInv
<1>5. CASE HoldsOn
  BY <1>0, <1>5 DEF HoldsOn, WindowInv
<1> QED
  BY <1>1, <1>2, <1>3, <1>4, <1>5, HoldsOnStep

\* The strengthened invariant, with the windows.
LEMMA WindowInvariant == Spec => [](TypeOK /\ OrdersInv /\ WindowInv)
<1>1. Init => TypeOK /\ OrdersInv /\ WindowInv
  BY BookingInit DEF Init, WindowInv
<1>2. TypeOK /\ OrdersInv /\ WindowInv /\ [Next]_vars => (TypeOK /\ OrdersInv /\ WindowInv)'
  BY TypeStep, OrderStep, WindowStep
<1> QED
  BY <1>1, <1>2, PTL DEF Spec

\* Whatever was read when, by the worker or by an administrator, and whatever
\* happened to the booking in between: a sweep never takes a hold that is alive.
THEOREM SweepsTakeExpired == Spec => SweepOnlyExpired
<1> DEFINE Taken == \A r \in Reservations :
                        hold[r] = "HELD" /\ hold'[r] = "EXPIRED" => now > expiresAt[r]
<1>1. TypeOK /\ OrdersInv /\ WindowInv /\ [Next]_vars => Taken
  <2> SUFFICES ASSUME TypeOK, WindowInv, [Next]_vars, NEW r \in Reservations,
                      hold[r] = "HELD", hold'[r] = "EXPIRED"
               PROVE  now > expiresAt[r]
    OBVIOUS
  <2>0. /\ StockTypeOK /\ now \in Int /\ expiresAt[r] \in Int
        /\ \A p \in Attempts : BookingOf[p] \in Reservations
    BY BookingAssumption DEF TypeOK, Times, NoTime
  <2>1. \A q \in Reservations :
          \/ HoldSeats(q) \/ ConfirmSeats(q) \/ GiveBack(q) \/ ReleaseBooked(q)
          \/ UNCHANGED stockVars
          => hold'[r] # "EXPIRED"
    BY <2>0 DEF StockTypeOK, HoldSeats, ConfirmSeats, GiveBack, ReleaseBooked, ReleaseHeld,
       stockVars
  <2>2. ASSUME NEW q \in Reservations, SweepOne(q)
        PROVE  now > expiresAt[r]
    <3>1. q = r
      BY <2>0, <2>2 DEF SweepOne, ReleaseHeld, StockTypeOK, stockVars
    <3> QED
      BY <2>0, <2>2, <3>1 DEF SweepOne, WindowInv
  <2>3. ASSUME NEW q \in Reservations,
               \/ Reserve(q) \/ ApprovePaid(q) \/ CancelPending(q) \/ Reject(q) \/ PartnerCancel(q)
               \/ RemedyOne(q)
        PROVE  FALSE
    BY <2>1, <2>3 DEF Reserve, ApprovePaid, CancelPending, Reject, PartnerCancel, RemedyOne
  <2>4. ASSUME NEW p \in Attempts, NEW t \in 0 .. Horizon,
               CallbackServe(p, t) \/ CallbackRefuse(p, t)
        PROVE  FALSE
    BY <2>0, <2>1, <2>4 DEF CallbackServe, CallbackRefuse
  <2>5. CASE UNCHANGED stockVars
    BY <2>5 DEF stockVars
  <2> QED
    BY <2>2, <2>3, <2>4, <2>5
    DEF Next, CustomerStep, PartnerStep, ApproveBlocked, ExpireApproval, Callback, vars,
        Checkout, CheckoutForApproval, RequestRefund, ApproveUnpaid, RetryDrift,
        AskUrl, OpenAttempt, GatewayPay, GatewayDecline, CallbackFailure, CallbackDuplicate,
        SweepRead, SweepCrash, FlipManual, Suspend, Resume, RemedyCrash, Tick
<1>2. TypeOK /\ OrdersInv /\ WindowInv /\ [Next]_vars => [Taken]_vars
  BY <1>1
<1> QED
  BY <1>2, WindowInvariant, PTL DEF Spec, SweepOnlyExpired

\* The live holds of every customer stay within the limits.
LimitInv ==
    \A u \in {Owner[r] : r \in Reservations} :
        /\ IsFiniteSet(LiveHolds(u))
        /\ Cardinality(LiveHolds(u)) <= MaxHolds
        /\ \A q, r \in LiveHolds(u) : q # r => Offer[q] # Offer[r]

\* Only a reservation makes a hold live.
LEMMA LiveStep ==
    ASSUME TypeOK, WindowInv, [Next]_vars, \A r \in Reservations : ~Reserve(r)
    PROVE  \A u : LiveHolds(u)' \subseteq LiveHolds(u)
<1> SUFFICES ASSUME NEW r \in Reservations, hold'[r] = "HELD", expiresAt'[r] > now'
             PROVE  hold[r] = "HELD" /\ expiresAt[r] > now
  BY DEF LiveHolds
<1>0. /\ now \in Int /\ now' \in Int /\ expiresAt \in [Reservations -> Int]
      /\ approveBy \in [Reservations -> Int]
  BY TypeStep, BookingAssumption DEF TypeOK, Times, NoTime
<1>1. CASE HoldsOn
  BY <1>0, <1>1 DEF HoldsOn
<1>2. ASSUME NEW q \in Reservations, CheckoutForApproval(q)
      PROVE  hold[r] = "HELD" /\ expiresAt[r] > now
  BY <1>0, <1>2 DEF CheckoutForApproval, LiveHold, stockVars, windowVars
<1>3. ASSUME NEW q \in Reservations, ApproveUnpaid(q)
      PROVE  hold[r] = "HELD" /\ expiresAt[r] > now
  BY <1>0, <1>3 DEF ApproveUnpaid, OpenRequest, WindowInv, stockVars
<1>4. CASE SweepRead \/ \E q \in Reservations : RetryDrift(q)
  BY <1>4 DEF SweepRead, RetryDrift, stockVars, windowVars
<1> QED
  BY <1>1, <1>2, <1>3, <1>4, HoldsOnStep

\* A reservation checks the limits and adds itself.
LEMMA LimitStep ==
    ASSUME TypeOK, WindowInv, LimitInv, [Next]_vars
    PROVE  LimitInv'
<1>0. MaxHolds \in Nat
  BY BookingAssumption
<1>1. ASSUME NEW r \in Reservations, Reserve(r)
      PROVE  LimitInv'
  <2>1. \A u : LiveHolds(u)' \subseteq LiveHolds(u) \cup (IF u = Owner[r] THEN {r} ELSE {})
    BY <1>1 DEF Reserve, HoldSeats, LiveHolds, TypeOK, StockTypeOK, orderVars
  <2>2. /\ Cardinality(LiveHolds(Owner[r])) < MaxHolds
        /\ \A q \in LiveHolds(Owner[r]) : Offer[q] # Offer[r]
    BY <1>1 DEF Reserve, MayHold
  <2> SUFFICES ASSUME NEW u \in {Owner[q] : q \in Reservations}
               PROVE  /\ IsFiniteSet(LiveHolds(u)') /\ Cardinality(LiveHolds(u)') <= MaxHolds
                      /\ \A q, s \in LiveHolds(u)' : q # s => Offer[q] # Offer[s]
    BY DEF LimitInv
  <2>3. /\ IsFiniteSet(LiveHolds(u)) /\ Cardinality(LiveHolds(u)) <= MaxHolds
        /\ \A q, s \in LiveHolds(u) : q # s => Offer[q] # Offer[s]
    BY DEF LimitInv
  <2>4. CASE u # Owner[r]
    <3>1. LiveHolds(u)' \subseteq LiveHolds(u)
      BY <2>1, <2>4
    <3>2. /\ IsFiniteSet(LiveHolds(u)') /\ Cardinality(LiveHolds(u)') <= Cardinality(LiveHolds(u))
          /\ Cardinality(LiveHolds(u)') \in Nat /\ Cardinality(LiveHolds(u)) \in Nat
      BY <2>3, <3>1, FS_Subset, FS_CardinalityType
    <3> QED
      BY <1>0, <2>3, <3>1, <3>2
  <2>5. CASE u = Owner[r]
    <3> DEFINE Wider == LiveHolds(u) \cup {r}
    <3>1. LiveHolds(u)' \subseteq Wider
      BY <2>1, <2>5
    <3>2. IsFiniteSet(Wider) /\ Cardinality(Wider) <= Cardinality(LiveHolds(u)) + 1
          /\ Cardinality(LiveHolds(u)) \in Nat /\ Cardinality(Wider) \in Nat
      <4>1. /\ IsFiniteSet(Wider)
            /\ \/ Cardinality(Wider) = Cardinality(LiveHolds(u))
               \/ Cardinality(Wider) = Cardinality(LiveHolds(u)) + 1
        BY <2>3, FS_AddElement, Zenon
      <4>2. Cardinality(LiveHolds(u)) \in Nat /\ Cardinality(Wider) \in Nat
        BY <2>3, <4>1, FS_CardinalityType
      <4> QED
        BY <4>1, <4>2
    <3>3. /\ IsFiniteSet(LiveHolds(u)') /\ Cardinality(LiveHolds(u)') <= Cardinality(Wider)
          /\ Cardinality(LiveHolds(u)') \in Nat
      BY <3>1, <3>2, FS_Subset, FS_CardinalityType
    <3>4. Cardinality(LiveHolds(u)') <= MaxHolds
      BY <1>0, <2>2, <2>5, <3>2, <3>3
    <3> QED
      BY <2>2, <2>3, <2>5, <3>1, <3>3, <3>4
  <2> QED
    BY <2>4, <2>5
<1>2. CASE \A r \in Reservations : ~Reserve(r)
  <2> SUFFICES ASSUME NEW u \in {Owner[q] : q \in Reservations}
               PROVE  /\ IsFiniteSet(LiveHolds(u)') /\ Cardinality(LiveHolds(u)') <= MaxHolds
                      /\ \A q, s \in LiveHolds(u)' : q # s => Offer[q] # Offer[s]
    BY DEF LimitInv
  <2>1. LiveHolds(u)' \subseteq LiveHolds(u)
    BY <1>2, LiveStep
  <2>2. /\ IsFiniteSet(LiveHolds(u)) /\ Cardinality(LiveHolds(u)) <= MaxHolds
        /\ \A q, s \in LiveHolds(u) : q # s => Offer[q] # Offer[s]
    BY DEF LimitInv
  <2>3. /\ IsFiniteSet(LiveHolds(u)') /\ Cardinality(LiveHolds(u)') <= Cardinality(LiveHolds(u))
        /\ Cardinality(LiveHolds(u)') \in Nat /\ Cardinality(LiveHolds(u)) \in Nat
    BY <2>1, <2>2, FS_Subset, FS_CardinalityType
  <2> QED
    BY <1>0, <2>1, <2>2, <2>3
<1> QED
  BY <1>1, <1>2

\* For any number of customers, holds and offers: no customer ever has more
\* live holds than the limit, nor two for the same offer.
THEOREM HoldsStayLimited == Spec => []HoldsLimited
<1>1. Init => LimitInv
  <2> SUFFICES ASSUME Init PROVE LimitInv
    OBVIOUS
  <2>1. \A u : LiveHolds(u) = {}
    BY DEF Init, StockInit, LiveHolds
  <2>2. IsFiniteSet({}) /\ Cardinality({}) <= MaxHolds
    BY FS_EmptySet, BookingAssumption
  <2> QED
    BY <2>1, <2>2, Zenon DEF LimitInv
<1>2. TypeOK /\ OrdersInv /\ WindowInv /\ LimitInv /\ [Next]_vars => LimitInv'
  BY LimitStep
<1>3. LimitInv => HoldsLimited
  BY DEF LimitInv, HoldsLimited, LiveHolds
<1> QED
  BY <1>1, <1>2, <1>3, WindowInvariant, PTL DEF Spec

-----------------------------------------------------------------------------
(* The voucher *)

\* The bookings that use the voucher.
Using == {r \in Reservations : redemption[r] = "ACTIVE"}

\* Voucher.usedCount counts the live bookings that named the voucher.
VoucherInv ==
    /\ IsFiniteSet(Using)
    /\ usedCount = Cardinality(Using)
    /\ \A r \in Reservations :
        redemption[r] = "ACTIVE" <=> r \in WithVoucher /\ booking[r] \notin {"NONE", "CANCELLED"}

\* A checkout that names the voucher adds one use.
LEMMA ClaimCounts ==
    ASSUME TypeOK, VoucherInv, NEW r \in Reservations, ClaimVoucher(r), booking[r] = "NONE",
           NEW status \in {"PENDING_PAYMENT", "PENDING_PARTNER"},
           booking' = [booking EXCEPT ![r] = status]
    PROVE  VoucherInv'
<1>0. /\ booking'[r] \notin {"NONE", "CANCELLED"}
      /\ \A q \in Reservations : q # r => booking'[q] = booking[q]
  BY DEF TypeOK
<1>1. CASE r \in WithVoucher
  <2>1. /\ redemption' = [redemption EXCEPT ![r] = "ACTIVE"] /\ usedCount' = usedCount + 1
    BY <1>1 DEF ClaimVoucher
  <2>2. Using' = Using \cup {r} /\ r \notin Using
    BY <2>1 DEF Using, VoucherInv, TypeOK
  <2>3. IsFiniteSet(Using') /\ Cardinality(Using') = Cardinality(Using) + 1
    BY <2>2, FS_AddElement DEF VoucherInv
  <2>4. \A q \in Reservations :
          redemption'[q] = "ACTIVE" <=> q \in WithVoucher /\ booking'[q] \notin {"NONE", "CANCELLED"}
    BY <1>0, <1>1, <2>1 DEF VoucherInv, TypeOK
  <2> QED
    BY <2>1, <2>3, <2>4 DEF VoucherInv
<1>2. CASE r \notin WithVoucher
  <2>1. redemption' = redemption /\ usedCount' = usedCount
    BY <1>2 DEF ClaimVoucher, voucherVars
  <2>2. Using' = Using
    BY <2>1 DEF Using
  <2> QED
    BY <1>0, <1>2, <2>1, <2>2 DEF VoucherInv
<1> QED
  BY <1>1, <1>2

\* The end of a booking gives its use back, if it had one.
LEMMA ReleaseCounts ==
    ASSUME TypeOK, VoucherInv, NEW r \in Reservations, ReleaseVoucher(r),
           booking' = [booking EXCEPT ![r] = "CANCELLED"]
    PROVE  VoucherInv'
<1>0. booking'[r] = "CANCELLED" /\ \A q \in Reservations : q # r => booking'[q] = booking[q]
  BY DEF TypeOK
<1>1. CASE redemption[r] = "ACTIVE"
  <2>1. /\ redemption' = [redemption EXCEPT ![r] = "RELEASED"]
        /\ usedCount' = IF usedCount > 0 THEN usedCount - 1 ELSE usedCount
    BY <1>1 DEF ReleaseVoucher
  <2>2. Using' = Using \ {r} /\ r \in Using
    BY <1>1, <2>1 DEF Using, TypeOK
  <2>3. IsFiniteSet(Using') /\ Cardinality(Using') = Cardinality(Using) - 1
    BY <2>2, FS_RemoveElement DEF VoucherInv
  <2>4. Cardinality(Using') \in Nat /\ Cardinality(Using) \in Nat
    BY <2>3, FS_CardinalityType DEF VoucherInv
  <2>5. usedCount' = Cardinality(Using')
    BY <2>1, <2>3, <2>4 DEF VoucherInv
  <2>6. \A q \in Reservations :
          redemption'[q] = "ACTIVE" <=> q \in WithVoucher /\ booking'[q] \notin {"NONE", "CANCELLED"}
    BY <1>0, <2>1 DEF VoucherInv, TypeOK
  <2> QED
    BY <2>3, <2>5, <2>6 DEF VoucherInv
<1>2. CASE redemption[r] # "ACTIVE"
  <2>1. redemption' = redemption /\ usedCount' = usedCount
    BY <1>2 DEF ReleaseVoucher, voucherVars
  <2>2. Using' = Using
    BY <2>1 DEF Using
  <2> QED
    BY <1>0, <1>2, <2>1, <2>2 DEF VoucherInv
<1> QED
  BY <1>1, <1>2

\* A step that neither begins nor ends a booking leaves the voucher alone.
LEMMA NoCount ==
    ASSUME VoucherInv, UNCHANGED <<redemption, usedCount>>,
           \A q \in Reservations :
                booking'[q] = booking[q] \/ {booking[q], booking'[q]} \cap {"NONE", "CANCELLED"} = {}
    PROVE  VoucherInv'
<1>1. Using' = Using
  BY DEF Using
<1> QED
  BY <1>1 DEF VoucherInv

\* Every action keeps the voucher's count.
LEMMA VoucherStep ==
    ASSUME TypeOK, OrdersInv, VoucherInv, [Next]_vars
    PROVE  VoucherInv'
<1> USE DEF voucherVars, orderVars
<1>0. /\ booking \in [Reservations -> Active \cup {"NONE", "CANCELLED", "REFUND_REQUESTED"}]
      /\ \A p \in Attempts : BookingOf[p] \in Reservations
  BY BookingAssumption DEF TypeOK
<1>1. ASSUME NEW r \in Reservations, Checkout(r) \/ CheckoutForApproval(r)
      PROVE  VoucherInv'
  BY <1>1, ClaimCounts DEF Checkout, CheckoutForApproval
<1>2. ASSUME NEW r \in Reservations, CancelPending(r) \/ Reject(r) \/ PartnerCancel(r)
      PROVE  VoucherInv'
  BY <1>2, ReleaseCounts DEF CancelPending, Reject, PartnerCancel, Cancel
<1>3. ASSUME NEW r \in Reservations, SweepOne(r) \/ RemedyOne(r)
      PROVE  VoucherInv'
  <2>1. \/ ReleaseVoucher(r) /\ booking' = [booking EXCEPT ![r] = "CANCELLED"]
        \/ UNCHANGED <<redemption, usedCount, booking>>
    BY <1>3 DEF SweepOne, RemedyOne, Cancel
  <2> QED
    BY <2>1, ReleaseCounts, NoCount
<1>4. ASSUME NEW p \in Attempts, NEW t \in 0 .. Horizon, CallbackRefuse(p, t)
      PROVE  VoucherInv'
  <2>1. booking[BookingOf[p]] \in {"PENDING_PAYMENT", "CANCELLED"}
    BY <1>0, <1>4 DEF CallbackRefuse, Reported, Active, OrdersInv, OrderOK, Untouched, AttemptsOf
  <2>2. booking' = [booking EXCEPT ![BookingOf[p]] = "CANCELLED"]
    BY <1>4 DEF CallbackRefuse, Cancel
  <2>3. CASE booking[BookingOf[p]] = "PENDING_PAYMENT"
    BY <1>0, <1>4, <2>2, <2>3, ReleaseCounts DEF CallbackRefuse
  <2>4. CASE booking[BookingOf[p]] = "CANCELLED"
    <3>1. UNCHANGED <<redemption, usedCount>>
      BY <1>4, <2>4 DEF CallbackRefuse
    <3>2. booking' = booking
      BY <1>0, <2>2, <2>4
    <3> QED
      BY <3>1, <3>2, NoCount
  <2> QED
    BY <2>1, <2>3, <2>4
<1>5. ASSUME NEW r \in Reservations, RequestRefund(r) \/ ApproveUnpaid(r) \/ ApprovePaid(r)
      PROVE  VoucherInv'
  <2>1. /\ booking[r] \notin {"NONE", "CANCELLED"} /\ UNCHANGED <<redemption, usedCount>>
        /\ \E status \in {"REFUND_REQUESTED", "PENDING_PAYMENT", "CONFIRMED"} :
              booking' = [booking EXCEPT ![r] = status]
    BY <1>5 DEF RequestRefund, ApproveUnpaid, ApprovePaid
  <2> QED
    BY <1>0, <2>1, NoCount
<1>6. ASSUME NEW p \in Attempts, NEW t \in 0 .. Horizon, CallbackServe(p, t)
      PROVE  VoucherInv'
  <2>1. /\ booking[BookingOf[p]] \notin {"NONE", "CANCELLED"} /\ UNCHANGED <<redemption, usedCount>>
        /\ \E status \in {"PENDING_PARTNER", "CONFIRMED"} :
              booking' = [booking EXCEPT ![BookingOf[p]] = status]
    BY <1>6 DEF CallbackServe, InTime
  <2> QED
    BY <1>0, <2>1, NoCount
<1>7. CASE UNCHANGED <<redemption, usedCount, booking>>
  BY <1>7, NoCount
<1> QED
  BY <1>1, <1>2, <1>3, <1>4, <1>5, <1>6, <1>7
  DEF Next, CustomerStep, PartnerStep, ApproveBlocked, ExpireApproval, Callback, vars,
      Reserve, RetryDrift, AskUrl, OpenAttempt, GatewayPay, GatewayDecline, CallbackFailure,
      CallbackDuplicate, SweepRead, SweepCrash, FlipManual, Suspend, Resume, RemedyCrash, Tick

\* For any number of bookings: the voucher's counter is exact, within its limit,
\* and every way out of a booking gives its use back exactly once.
THEOREM VouchersCounted == Spec => []VoucherLedger
<1>1. Init => VoucherInv
  <2> SUFFICES ASSUME Init PROVE VoucherInv
    OBVIOUS
  <2>1. Using = {}
    BY DEF Init, Using
  <2>2. IsFiniteSet(Using) /\ Cardinality(Using) = 0
    BY <2>1, FS_EmptySet
  <2> QED
    BY <2>2 DEF Init, VoucherInv
<1>2. TypeOK /\ OrdersInv /\ VoucherInv /\ [Next]_vars => VoucherInv'
  BY VoucherStep
<1>3. TypeOK /\ VoucherInv => VoucherLedger
  BY BookingAssumption DEF TypeOK, VoucherInv, VoucherLedger, Using
<1> QED
  BY <1>1, <1>2, <1>3, BookingInvariant, PTL DEF Spec

-----------------------------------------------------------------------------
(* Money: what is owed is queued once, the payment contract, payment pages *)

\* The statuses of a booking that is no longer served.
Done == {"CANCELLED", "REFUND_REQUESTED"}

\* The requests that give back the booking's own payment.
Own(r) == {k \in refunds : k[1] # "duplicate" /\ k[2] = r}

\* No charge moves but perhaps p's, which becomes a success.
Charges(S) ==
    /\ \A q \in Attempts : pay'[q] = "SUCCESS" <=> pay[q] = "SUCCESS" \/ q \in S
    /\ \A q \in Attempts : q \notin S /\ pay[q] = "SUCCESS" => dup'[q] = dup[q]

\* Nothing about money happens.
Quiet ==
    /\ Charges({})
    /\ UNCHANGED <<refunds, rescues, refundRequired>>
    /\ \A q \in Reservations :
        booking'[q] = booking[q] \/ {booking[q], booking'[q]} \cap Done = {}

\* The other bookings keep their status and their flag.
Alone(r) ==
    \A q \in Reservations :
        q # r => booking'[q] = booking[q] /\ refundRequired'[q] = refundRequired[q]

\* The order r is closed, and its payment, if any, becomes a debt.
Closed(r) ==
    /\ Charges({}) /\ Alone(r)
    /\ booking[r] \notin Done /\ booking'[r] \in Done
    /\ \/ Captured(r) = {} /\ UNCHANGED <<refunds, rescues>>
       \/ /\ Captured(r) # {} /\ refundRequired'[r] = TRUE
          /\ refunds' = refunds /\ rescues' = rescues \cup {r}
       \/ /\ Captured(r) # {} /\ refundRequired'[r] = TRUE
          /\ rescues' = rescues
          /\ \/ refunds' = refunds \cup {<<"system", r>>}
             \/ refunds' = refunds \cup {<<"partner", r>>}
       \/ /\ Captured(r) # {} /\ refundRequired'[r] = refundRequired[r]
          /\ refunds' = refunds \cup {<<"customer", r>>} /\ rescues' = rescues

\* The charge p is kept.
Served(p) ==
    /\ Charges({p}) /\ pay[p] # "SUCCESS" /\ dup'[p] = FALSE
    /\ Captured(BookingOf[p]) = {}
    /\ UNCHANGED <<refunds, rescues, refundRequired>> /\ Alone(BookingOf[p])
    /\ booking[BookingOf[p]] \notin Done /\ booking'[BookingOf[p]] \notin Done

\* The charge p comes too late and is owed back.
Refused(p) ==
    /\ Charges({p}) /\ pay[p] # "SUCCESS" /\ dup'[p] = FALSE
    /\ Captured(BookingOf[p]) = {}
    /\ refunds' = refunds \cup {<<"system", BookingOf[p]>>} /\ rescues' = rescues
    /\ Alone(BookingOf[p])
    /\ booking'[BookingOf[p]] = "CANCELLED" /\ refundRequired'[BookingOf[p]] = TRUE

\* The charge p comes second and is owed back.
Doubled(p) ==
    /\ Charges({p}) /\ pay[p] # "SUCCESS" /\ dup'[p] = TRUE
    /\ Captured(BookingOf[p]) # {}
    /\ refunds' = refunds \cup {<<"duplicate", p>>} /\ rescues' = rescues
    /\ Alone(BookingOf[p]) /\ booking' = booking /\ refundRequired'[BookingOf[p]] = TRUE

\* A capture changes one charge and fails open attempts only.
LEMMA CaptureCharges ==
    ASSUME TypeOK, NEW p \in Attempts, NEW t, NEW d \in BOOLEAN, Capture(p, t, d)
    PROVE  Charges({p}) /\ dup'[p] = d
<1>1. /\ pay' = FailOpen(BookingOf[p], [pay EXCEPT ![p] = "SUCCESS"])
      /\ dup' = [dup EXCEPT ![p] = d]
  BY DEF Capture
<1> QED
  BY <1>1 DEF TypeOK, FailOpen, Charges

\* Steps that leave all payments alone charge nobody.
LEMMA NoCharge ==
    ASSUME UNCHANGED <<pay, dup>>
    PROVE  Charges({})
BY DEF Charges

\* A duplicate is owed back by a request of its own, and flagged, and there is
\* a payment it duplicates.
DupInv ==
    \A p \in Attempts :
        /\ <<"duplicate", p>> \in refunds <=> pay[p] = "SUCCESS" /\ dup[p]
        /\ pay[p] = "SUCCESS" /\ dup[p] =>
            Captured(BookingOf[p]) # {} /\ refundRequired[BookingOf[p]]

\* RefundedOnce of one booking, exactly when it is due.
DebtOK(r) ==
    /\ \A k, l \in Own(r) : k = l
    /\ r \in rescues => Own(r) = {}
    /\ Own(r) # {} \/ r \in rescues <=> booking[r] \in Done /\ Captured(r) # {}
    /\ r \in rescues \/ <<"system", r>> \in refunds \/ <<"partner", r>> \in refunds =>
        refundRequired[r]

DebtInv == \A r \in Reservations : DebtOK(r)

\* Every step is of one of the five kinds.
LEMMA MoneyKinds ==
    ASSUME TypeOK, OrdersInv, DupInv, [Next]_vars
    PROVE  \/ Quiet
           \/ \E r \in Reservations : Closed(r)
           \/ \E p \in Attempts : Served(p) \/ Refused(p) \/ Doubled(p)
<1> DEFINE Kind == \/ Quiet
                   \/ \E r \in Reservations : Closed(r)
                   \/ \E p \in Attempts : Served(p) \/ Refused(p) \/ Doubled(p)
<1> USE DEF orderVars, payVars, debtVars
<1>0. /\ booking \in [Reservations -> Active \cup {"NONE", "CANCELLED", "REFUND_REQUESTED"}]
      /\ refundRequired \in [Reservations -> BOOLEAN]
      /\ \A p \in Attempts : BookingOf[p] \in Reservations
  BY BookingAssumption DEF TypeOK
<1>1. ASSUME NEW r \in Reservations, NEW owed \in BOOLEAN, Cancel(r, owed)
      PROVE  /\ booking'[r] = "CANCELLED" /\ refundRequired'[r] = owed /\ Alone(r)
  BY <1>0, <1>1 DEF Cancel, Alone
<1>2. ASSUME NEW r \in Reservations, CancelPending(r)
      PROVE  Kind
  <2>1. booking'[r] = "CANCELLED" /\ refundRequired'[r] = TRUE /\ Alone(r)
    BY <1>1, <1>2 DEF CancelPending
  <2>2. Closed(r)
    BY <1>2, <2>1, NoCharge DEF CancelPending, QueueRefund, Closed, Done
  <2> QED
    BY <2>2
<1>3. ASSUME NEW r \in Reservations, Reject(r) \/ PartnerCancel(r)
      PROVE  Kind
  <2>1. booking[r] \notin Done /\ UNCHANGED <<pay, dup>> /\ Cancel(r, Captured(r) # {})
    BY <1>3 DEF Reject, PartnerCancel, Done
  <2>2. Captured(r) = {} => UNCHANGED <<refunds, rescues>>
    BY <1>3 DEF Reject, PartnerCancel
  <2>3. Captured(r) # {} =>
          \/ refunds' = refunds /\ rescues' = rescues \cup {r}
          \/ refunds' = refunds \cup {<<"partner", r>>} /\ rescues' = rescues
    BY <1>3 DEF Reject, PartnerCancel, RescueOrRefund, QueueRefund
  <2>4. /\ booking'[r] = "CANCELLED" /\ Alone(r)
        /\ Captured(r) # {} => refundRequired'[r] = TRUE
    BY <1>1, <2>1
  <2>5. Closed(r)
    BY <2>1, <2>2, <2>3, <2>4, NoCharge DEF Closed, Done
  <2> QED
    BY <2>5
<1>4. ASSUME NEW r \in Reservations, RemedyOne(r)
      PROVE  Kind
  <2>1. CASE UNCHANGED <<stockVars, voucherVars, orderVars, debtVars>>
    BY <1>4, <2>1, NoCharge DEF RemedyOne, Quiet
  <2>2. CASE ~UNCHANGED <<stockVars, voucherVars, orderVars, debtVars>>
    <3>1. /\ booking[r] \in Active /\ UNCHANGED <<pay, dup>> /\ Cancel(r, Captured(r) # {})
          /\ Captured(r) = {} => UNCHANGED <<refunds, rescues>>
          /\ Captured(r) # {} => RescueOrRefund(r, "system")
      BY <1>4, <2>2 DEF RemedyOne
    <3>2. Captured(r) # {} =>
            \/ refunds' = refunds /\ rescues' = rescues \cup {r}
            \/ refunds' = refunds \cup {<<"system", r>>} /\ rescues' = rescues
      BY <3>1 DEF RescueOrRefund, QueueRefund
    <3>3. /\ booking'[r] = "CANCELLED" /\ Alone(r)
          /\ Captured(r) # {} => refundRequired'[r] = TRUE
      BY <1>1, <3>1
    <3>4. Closed(r)
      BY <3>1, <3>2, <3>3, NoCharge DEF Closed, Done, Active
    <3> QED
      BY <3>4
  <2> QED
    BY <2>1, <2>2
<1>5. ASSUME NEW r \in Reservations, SweepOne(r)
      PROVE  Kind
  <2>1. CASE hold[r] = "HELD" /\ booking[r] \in SweptStatuses
    <3>1. Cancel(r, refundRequired[r]) /\ pay' = FailOpen(r, pay) /\ dup' = dup
          /\ UNCHANGED <<refunds, rescues>>
      BY <1>5, <2>1 DEF SweepOne
    <3>2. Charges({})
      BY <3>1 DEF Charges, FailOpen, TypeOK
    <3>3. Captured(r) = {} /\ booking[r] \notin Done
      BY <2>1 DEF OrdersInv, OrderOK, Untouched, Captured, SweptStatuses, Done
    <3>4. booking'[r] = "CANCELLED" /\ Alone(r)
      BY <1>0, <1>1, <3>1
    <3>5. Closed(r)
      BY <3>1, <3>2, <3>3, <3>4 DEF Closed, Done
    <3> QED
      BY <3>5
  <2>2. CASE ~(hold[r] = "HELD" /\ booking[r] \in SweptStatuses)
    BY <1>5, <2>2, NoCharge DEF SweepOne, Quiet
  <2> QED
    BY <2>1, <2>2
<1>6. ASSUME NEW r \in Reservations, RequestRefund(r)
      PROVE  Kind
  <2>1. Closed(r)
    BY <1>0, <1>6, NoCharge DEF RequestRefund, QueueRefund, Closed, Alone, Done
  <2> QED
    BY <2>1
<1>7. ASSUME NEW r \in Reservations,
             Checkout(r) \/ CheckoutForApproval(r) \/ ApproveUnpaid(r) \/ ApprovePaid(r)
      PROVE  Kind
  <2>1. /\ booking[r] \notin Done /\ UNCHANGED <<pay, dup, refunds, rescues, refundRequired>>
        /\ \E status \in {"PENDING_PAYMENT", "PENDING_PARTNER", "CONFIRMED"} :
              booking' = [booking EXCEPT ![r] = status]
    BY <1>7 DEF Checkout, CheckoutForApproval, ApproveUnpaid, ApprovePaid, Done
  <2>2. Quiet
    BY <1>0, <2>1, NoCharge DEF Quiet, Done
  <2> QED
    BY <2>2
<1>8. ASSUME NEW p \in Attempts, NEW t \in 0 .. Horizon, CallbackServe(p, t)
      PROVE  Kind
  <2>1. /\ booking[BookingOf[p]] = "PENDING_PAYMENT" /\ pay[p] # "SUCCESS"
        /\ Captured(BookingOf[p]) = {} /\ Capture(p, t, FALSE)
        /\ UNCHANGED <<refunds, rescues, refundRequired>>
        /\ \E status \in {"PENDING_PARTNER", "CONFIRMED"} :
              booking' = [booking EXCEPT ![BookingOf[p]] = status]
    BY <1>8 DEF CallbackServe, Reported, InTime
  <2>2. Served(p)
    BY <1>0, <2>1, CaptureCharges DEF Served, Alone, Done
  <2> QED
    BY <2>2
<1>9. ASSUME NEW p \in Attempts, NEW t \in 0 .. Horizon, CallbackRefuse(p, t)
      PROVE  Kind
  <2>1. /\ pay[p] # "SUCCESS" /\ Captured(BookingOf[p]) = {} /\ Capture(p, t, FALSE)
        /\ Cancel(BookingOf[p], TRUE) /\ QueueRefund("system", BookingOf[p])
    BY <1>9 DEF CallbackRefuse, Reported
  <2>2. Refused(p)
    BY <1>0, <1>1, <2>1, CaptureCharges DEF Refused, QueueRefund
  <2> QED
    BY <2>2
<1>10. ASSUME NEW p \in Attempts, NEW t \in 0 .. Horizon, CallbackDuplicate(p, t)
      PROVE  Kind
  <2>1. /\ pay[p] # "SUCCESS" /\ Captured(BookingOf[p]) # {} /\ Capture(p, t, TRUE)
        /\ refundRequired' = [refundRequired EXCEPT ![BookingOf[p]] = TRUE]
        /\ booking' = booking /\ QueueRefund("duplicate", p)
    BY <1>10 DEF CallbackDuplicate, Reported
  <2>2. Doubled(p)
    BY <1>0, <2>1, CaptureCharges DEF Doubled, QueueRefund, Alone
  <2> QED
    BY <2>2
<1>11. ASSUME NEW p \in Attempts, OpenAttempt(p)
      PROVE  Kind
  <2>1. /\ UNCHANGED <<booking, dup, refunds, rescues, refundRequired>>
        /\ \/ pay' = pay
           \/ hold[BookingOf[p]] = "HELD" /\ pay' = [pay EXCEPT ![p] = "PENDING"]
    BY <1>11 DEF OpenAttempt
  <2>2. hold[BookingOf[p]] = "HELD" => pay[p] # "SUCCESS"
    <3>1. hold[BookingOf[p]] = "HELD" => Captured(BookingOf[p]) = {}
      BY <1>0 DEF OrdersInv, OrderOK, Untouched, Captured, AttemptsOf, Active
    <3> QED
      BY <3>1 DEF DupInv, Captured, AttemptsOf
  <2>3. Charges({})
    BY <2>1, <2>2 DEF Charges, TypeOK
  <2>4. Quiet
    BY <2>1, <2>3 DEF Quiet
  <2> QED
    BY <2>4
<1>12. ASSUME NEW p \in Attempts, CallbackFailure(p)
       PROVE  Kind
  <2>1. Charges({})
    BY <1>12 DEF CallbackFailure, Charges, TypeOK
  <2>2. Quiet
    BY <1>12, <2>1 DEF CallbackFailure, Quiet
  <2> QED
    BY <2>2
<1>13. ASSUME UNCHANGED <<booking, pay, dup, refunds, rescues, refundRequired>>
       PROVE  Kind
  <2>1. Quiet
    BY <1>13, NoCharge DEF Quiet
  <2> QED
    BY <2>1
<1>14. ASSUME \/ SweepRead \/ SweepCrash \/ FlipManual \/ Suspend \/ Resume \/ RemedyCrash
              \/ Tick \/ UNCHANGED vars
              \/ \E r \in Reservations : Reserve(r) \/ RetryDrift(r)
              \/ \E p \in Attempts : AskUrl(p) \/ GatewayPay(p) \/ GatewayDecline(p)
       PROVE  Kind
  BY <1>13, <1>14 DEF SweepRead, SweepCrash, FlipManual, Suspend, Resume, RemedyCrash, Tick, vars,
     Reserve, RetryDrift, AskUrl, GatewayPay, GatewayDecline
<1> QED
  BY <1>2, <1>3, <1>4, <1>5, <1>6, <1>7, <1>8, <1>9, <1>10, <1>11, <1>12, <1>14
  DEF Next, CustomerStep, PartnerStep, ApproveBlocked, ExpireApproval, Callback

-----------------------------------------------------------------------------
(* Debts *)

\* A charge that succeeds is captured, unless it is a duplicate.
LEMMA ChargedCaptures ==
    ASSUME NEW p \in Attempts, Charges({p}), pay[p] # "SUCCESS"
    PROVE  /\ \A r : r # BookingOf[p] \/ dup'[p] = TRUE => Captured(r)' = Captured(r)
           /\ dup'[p] = FALSE =>
                Captured(BookingOf[p])' = Captured(BookingOf[p]) \cup {p}
BY DEF Charges, Captured, AttemptsOf

\* When nothing is charged the same payments stay captured.
LEMMA UnchargedCaptures ==
    ASSUME Charges({})
    PROVE  \A r : Captured(r)' = Captured(r)
BY DEF Charges, Captured, AttemptsOf

\* A request for the booking r is a debt of r alone.
LEMMA OwnAdded ==
    ASSUME NEW r, NEW type, type # "duplicate", refunds' = refunds \cup {<<type, r>>}
    PROVE  /\ Own(r)' = Own(r) \cup {<<type, r>>}
           /\ \A q : q # r => Own(q)' = Own(q)
BY DEF Own

\* A request for a duplicate is no booking's own.
LEMMA OwnKept ==
    ASSUME NEW p, refunds' = refunds \/ refunds' = refunds \cup {<<"duplicate", p>>}
    PROVE  \A q : Own(q)' = Own(q)
BY DEF Own

\* A step that has nothing to do with the debts of q.
DebtAside(q) ==
    /\ Own(q)' = Own(q) /\ (q \in rescues' <=> q \in rescues)
    /\ <<"system", q>> \in refunds' <=> <<"system", q>> \in refunds
    /\ <<"partner", q>> \in refunds' <=> <<"partner", q>> \in refunds
    /\ Captured(q)' = Captured(q)
    /\ refundRequired[q] => refundRequired'[q]
    /\ booking'[q] = booking[q] \/ {booking[q], booking'[q]} \cap Done = {}

\* Such a step keeps them in order.
LEMMA AsideKeeps ==
    ASSUME DebtInv, NEW q \in Reservations, DebtAside(q)
    PROVE  DebtOK(q)'
<1>1. booking'[q] \in Done <=> booking[q] \in Done
  BY DEF DebtAside
<1> QED
  BY <1>1 DEF DebtInv, DebtOK, DebtAside

\* A duplicate becomes a debt of its own as it is charged, and only then.
LEMMA DupStep ==
    ASSUME TypeOK, DupInv,
           \/ Quiet
           \/ \E r \in Reservations : Closed(r)
           \/ \E p \in Attempts : Served(p) \/ Refused(p) \/ Doubled(p)
    PROVE  DupInv'
<1>0. \A p \in Attempts : BookingOf[p] \in Reservations
  BY BookingAssumption
<1>1. CASE Quiet
  BY <1>1, UnchargedCaptures DEF Quiet, Charges, DupInv
<1>2. ASSUME NEW r \in Reservations, Closed(r)
      PROVE  DupInv'
  <2>1. \A q : Captured(q)' = Captured(q)
    BY <1>2, UnchargedCaptures DEF Closed
  <2>2. \A p \in Attempts : <<"duplicate", p>> \in refunds' <=> <<"duplicate", p>> \in refunds
    BY <1>2 DEF Closed
  <2>3. \A q \in Reservations : Captured(q) # {} /\ refundRequired[q] => refundRequired'[q]
    BY <1>2 DEF Closed, Alone
  <2> QED
    BY <1>0, <1>2, <2>1, <2>2, <2>3 DEF Closed, Charges, DupInv
<1>3. ASSUME NEW p \in Attempts, Served(p) \/ Refused(p)
      PROVE  DupInv'
  <2>1. /\ Charges({p}) /\ pay[p] # "SUCCESS" /\ dup'[p] = FALSE
        /\ Captured(BookingOf[p]) = {} /\ Alone(BookingOf[p])
    BY <1>3 DEF Served, Refused
  <2>2. \A q \in Attempts : <<"duplicate", q>> \in refunds' <=> <<"duplicate", q>> \in refunds
    BY <1>3 DEF Served, Refused
  <2>3. \A q \in Attempts : BookingOf[q] # BookingOf[p] =>
          /\ Captured(BookingOf[q])' = Captured(BookingOf[q])
          /\ refundRequired'[BookingOf[q]] = refundRequired[BookingOf[q]]
    BY <1>0, <2>1, ChargedCaptures DEF Alone
  <2>4. \A q \in Attempts :
          pay'[q] = "SUCCESS" /\ dup'[q] => q # p /\ pay[q] = "SUCCESS" /\ dup[q]
    BY <2>1 DEF Charges
  <2>5. \A q \in Attempts : pay[q] = "SUCCESS" /\ dup[q] =>
          /\ q # p /\ pay'[q] = "SUCCESS" /\ dup'[q] /\ BookingOf[q] # BookingOf[p]
    BY <2>1 DEF Charges, DupInv
  <2> QED
    BY <2>2, <2>3, <2>4, <2>5 DEF DupInv
<1>4. ASSUME NEW p \in Attempts, Doubled(p)
      PROVE  DupInv'
  <2>1. \A q : Captured(q)' = Captured(q)
    BY <1>4, ChargedCaptures DEF Doubled
  <2>2. \A q \in Attempts : refundRequired[BookingOf[q]] => refundRequired'[BookingOf[q]]
    BY <1>0, <1>4 DEF Doubled, Alone
  <2>3. \A q \in Attempts : q # p =>
          /\ <<"duplicate", q>> \in refunds' <=> <<"duplicate", q>> \in refunds
          /\ pay'[q] = "SUCCESS" <=> pay[q] = "SUCCESS"
          /\ pay[q] = "SUCCESS" => dup'[q] = dup[q]
    BY <1>4 DEF Doubled, Charges
  <2>4. /\ <<"duplicate", p>> \in refunds' /\ pay'[p] = "SUCCESS" /\ dup'[p] = TRUE
        /\ Captured(BookingOf[p]) # {} /\ refundRequired'[BookingOf[p]] = TRUE
    BY <1>4 DEF Doubled, Charges
  <2> QED
    BY <2>1, <2>2, <2>3, <2>4 DEF DupInv
<1> QED
  BY <1>1, <1>2, <1>3, <1>4

\* The debts stay in order: one step per kind.
LEMMA DebtStep ==
    ASSUME TypeOK, DebtInv,
           \/ Quiet
           \/ \E r \in Reservations : Closed(r)
           \/ \E p \in Attempts : Served(p) \/ Refused(p) \/ Doubled(p)
    PROVE  DebtInv'
<1>0. \A p \in Attempts : BookingOf[p] \in Reservations
  BY BookingAssumption
<1>1. CASE Quiet
  <2>1. ASSUME NEW q \in Reservations
        PROVE  DebtAside(q)
    <3>1. Captured(q)' = Captured(q) /\ Own(q)' = Own(q)
      BY <1>1, UnchargedCaptures DEF Quiet, Own
    <3> QED
      BY <1>1, <3>1 DEF Quiet, DebtAside
  <2> QED
    BY <2>1, AsideKeeps DEF DebtInv
<1>2. ASSUME NEW r \in Reservations, Closed(r)
      PROVE  DebtInv'
  <2>1. \A q : Captured(q)' = Captured(q)
    BY <1>2, UnchargedCaptures DEF Closed
  <2>2. Own(r) = {} /\ r \notin rescues
    BY <1>2 DEF Closed, DebtInv, DebtOK
  <2>3. <<"system", r>> \notin refunds /\ <<"partner", r>> \notin refunds
    BY <2>2 DEF Own
  <2>4. ASSUME NEW q \in Reservations, q # r
        PROVE  DebtAside(q)
    <3>1. Own(q)' = Own(q)
      BY <1>2, <2>4, OwnKept, OwnAdded DEF Closed
    <3>2. /\ booking'[q] = booking[q] /\ refundRequired'[q] = refundRequired[q]
      BY <1>2, <2>4 DEF Closed, Alone
    <3> QED
      BY <1>2, <2>1, <2>4, <3>1, <3>2 DEF Closed, DebtAside
  <2>5. DebtOK(r)'
    <3>1. CASE Captured(r) = {}
      <4>1. UNCHANGED <<refunds, rescues>>
        BY <1>2, <3>1 DEF Closed
      <4>2. Own(r)' = {}
        BY <2>2, <4>1 DEF Own
      <4> QED
        BY <2>1, <2>2, <2>3, <3>1, <4>1, <4>2 DEF DebtOK
    <3>2. CASE Captured(r) # {} /\ refunds' = refunds /\ rescues' = rescues \cup {r}
      <4>1. Own(r)' = {}
        BY <2>2, <3>2 DEF Own
      <4>2. refundRequired'[r] = TRUE /\ booking'[r] \in Done
        BY <1>2, <2>2, <3>2 DEF Closed
      <4> QED
        BY <2>1, <3>2, <4>1, <4>2 DEF DebtOK
    <3>3. ASSUME NEW type \in {"system", "partner", "customer"}, Captured(r) # {},
                 refunds' = refunds \cup {<<type, r>>}, rescues' = rescues,
                 type # "customer" => refundRequired'[r] = TRUE
          PROVE  DebtOK(r)'
      <4>1. Own(r)' = {<<type, r>>}
        BY <2>2, <3>3, OwnAdded
      <4>2. type = "customer" =>
              <<"system", r>> \notin refunds' /\ <<"partner", r>> \notin refunds'
        BY <2>3, <3>3
      <4>3. booking'[r] \in Done
        BY <1>2 DEF Closed
      <4> QED
        BY <2>1, <2>2, <3>3, <4>1, <4>2, <4>3 DEF DebtOK
    <3> QED
      BY <1>2, <3>1, <3>2, <3>3 DEF Closed
  <2> QED
    BY <2>4, <2>5, AsideKeeps DEF DebtInv
<1>3. ASSUME NEW p \in Attempts, Served(p)
      PROVE  DebtInv'
  <2>1. ASSUME NEW q \in Reservations, q # BookingOf[p]
        PROVE  DebtAside(q)
    <3>1. Captured(q)' = Captured(q) /\ Own(q)' = Own(q)
      BY <1>3, <2>1, ChargedCaptures DEF Served, Own
    <3> QED
      BY <1>3, <2>1, <3>1 DEF Served, DebtAside, Alone
  <2>2. Own(BookingOf[p])' = Own(BookingOf[p])
    BY <1>3 DEF Served, Own
  <2>3. DebtOK(BookingOf[p])'
    BY <1>0, <1>3, <2>2 DEF Served, DebtInv, DebtOK
  <2> QED
    BY <2>1, <2>3, AsideKeeps DEF DebtInv
<1>4. ASSUME NEW p \in Attempts, Refused(p)
      PROVE  DebtInv'
  <2>0. BookingOf[p] \in Reservations
    BY <1>0
  <2>1. ASSUME NEW q \in Reservations, q # BookingOf[p]
        PROVE  DebtAside(q)
    <3>1. Captured(q)' = Captured(q) /\ Own(q)' = Own(q)
      BY <1>4, <2>1, ChargedCaptures, OwnAdded DEF Refused
    <3> QED
      BY <1>4, <2>1, <3>1 DEF Refused, DebtAside, Alone
  <2>2. Own(BookingOf[p]) = {} /\ BookingOf[p] \notin rescues
    BY <1>4, <2>0 DEF Refused, DebtInv, DebtOK
  <2>3. Own(BookingOf[p])' = {<<"system", BookingOf[p]>>}
    BY <1>4, <2>2, OwnAdded DEF Refused
  <2>4. Captured(BookingOf[p])' # {}
    BY <1>4, ChargedCaptures DEF Refused
  <2>5. DebtOK(BookingOf[p])'
    BY <1>4, <2>2, <2>3, <2>4 DEF Refused, DebtOK, Done
  <2> QED
    BY <2>1, <2>5, AsideKeeps DEF DebtInv
<1>5. ASSUME NEW p \in Attempts, Doubled(p)
      PROVE  DebtInv'
  <2>1. ASSUME NEW q \in Reservations
        PROVE  DebtAside(q)
    <3>1. Captured(q)' = Captured(q) /\ Own(q)' = Own(q)
      BY <1>5, ChargedCaptures, OwnKept DEF Doubled
    <3>2. refundRequired[q] => refundRequired'[q]
      BY <1>0, <1>5 DEF Doubled, Alone
    <3> QED
      BY <1>5, <3>1, <3>2 DEF Doubled, DebtAside
  <2> QED
    BY <2>1, AsideKeeps DEF DebtInv
<1> QED
  BY <1>1, <1>2, <1>3, <1>4, <1>5

\* The strengthened invariant, with the debts.
LEMMA DebtInvariant == Spec => [](TypeOK /\ OrdersInv /\ DupInv /\ DebtInv)
<1>1. Init => DupInv /\ DebtInv
  <2>1. ASSUME Init
        PROVE  /\ \A r \in Reservations : Own(r) = {} /\ Captured(r) = {}
               /\ refunds = {} /\ rescues = {} /\ \A p \in Attempts : pay[p] = "NONE"
    BY <2>1 DEF Init, Own, Captured, AttemptsOf
  <2>2. ASSUME Init
        PROVE  \A r \in Reservations : booking[r] = "NONE"
    BY <2>2 DEF Init
  <2> QED
    BY <2>1, <2>2 DEF DupInv, DebtInv, DebtOK, Done
<1>2. TypeOK /\ OrdersInv /\ DupInv /\ DebtInv /\ [Next]_vars => DupInv' /\ DebtInv'
  BY MoneyKinds, DupStep, DebtStep
<1> QED
  BY <1>1, <1>2, BookingInvariant, PTL DEF Spec

\* For any number of bookings and attempts, whatever is cancelled, refused,
\* rescued or asked back: a booking's payment is given back once, by a request
\* or by a rescue, only when it is no longer served, and flagged for the staff.
THEOREM RefundsOnce == Spec => []RefundedOnce
<1>1. ASSUME TypeOK, DupInv, DebtInv
      PROVE  RefundedOnce
  <2>1. ASSUME NEW r \in Reservations
        PROVE  /\ Cardinality(Own(r)) + (IF r \in rescues THEN 1 ELSE 0) <= 1
               /\ Own(r) # {} \/ r \in rescues =>
                    booking[r] \in {"CANCELLED", "REFUND_REQUESTED"} /\ Captured(r) # {}
               /\ r \in rescues \/ <<"system", r>> \in refunds \/ <<"partner", r>> \in refunds =>
                    refundRequired[r]
    <3>1. /\ \A k, l \in Own(r) : k = l
          /\ r \in rescues => Own(r) = {}
      BY <1>1 DEF DebtInv, DebtOK
    <3>2. ASSUME Own(r) = {}
          PROVE  Cardinality(Own(r)) = 0
      BY <3>2, FS_EmptySet
    <3>3. ASSUME Own(r) # {}
          PROVE  Cardinality(Own(r)) = 1 /\ r \notin rescues
      <4>1. PICK k \in Own(r) : TRUE
        BY <3>3
      <4>2. Own(r) = {k}
        BY <3>1, <4>1
      <4>3. Cardinality({k}) = 1
        BY FS_Singleton
      <4> QED
        BY <3>1, <3>3, <4>2, <4>3
    <3>4. Cardinality(Own(r)) = 0 \/ (Cardinality(Own(r)) = 1 /\ r \notin rescues)
      BY <3>2, <3>3
    <3>5. Cardinality(Own(r)) + (IF r \in rescues THEN 1 ELSE 0) <= 1
      BY <3>4
    <3> QED
      BY <1>1, <3>5 DEF DebtInv, DebtOK, Done
  <2>2. \A p \in Attempts : <<"duplicate", p>> \in refunds => refundRequired[BookingOf[p]]
    BY <1>1 DEF DupInv
  <2> QED
    BY <2>1, <2>2 DEF RefundedOnce, Own
<1> QED
  BY <1>1, DebtInvariant, PTL

-----------------------------------------------------------------------------
(* The payment contract *)

\* What the refinement mapping says of a charge, without looking at requests.
ChargesMapped ==
    \A p \in Attempts :
        kept[p] = IF pay[p] # "SUCCESS" THEN "none"
                  ELSE IF dup[p] \/ booking[BookingOf[p]] \in Done THEN "owed" ELSE "kept"

\* ... which is so because what is owed has been asked for.
LEMMA DebtsMap ==
    ASSUME DupInv, DebtInv
    PROVE  ChargesMapped
<1> SUFFICES ASSUME NEW p \in Attempts, pay[p] = "SUCCESS"
             PROVE  kept[p] = IF dup[p] \/ booking[BookingOf[p]] \in Done THEN "owed" ELSE "kept"
  BY DEF ChargesMapped, kept
<1> DEFINE r == BookingOf[p]
<1>1. r \in Reservations
  BY BookingAssumption
<1>2. CASE dup[p]
  BY <1>2 DEF kept, DupInv
<1>3. CASE ~dup[p]
  <2>1. Captured(r) # {}
    BY <1>3 DEF Captured, AttemptsOf
  <2>2. Own(r) # {} \/ r \in rescues <=> booking[r] \in Done
    BY <1>1, <2>1 DEF DebtInv, DebtOK
  <2>3. Own(r) # {} <=> \E k \in refunds : k[1] # "duplicate" /\ k[2] = r
    BY DEF Own
  <2>4. kept[p] = IF r \in rescues \/ Own(r) # {} THEN "owed" ELSE "kept"
    BY <1>3, <2>3 DEF kept
  <2> QED
    BY <1>3, <2>2, <2>4
<1> QED
  BY <1>2, <1>3

\* The refinement step: each kind of step is an action of the contract, or none.
LEMMA ContractStep ==
    ASSUME TypeOK, ChargesMapped, ChargesMapped',
           \/ Quiet
           \/ \E r \in Reservations : Closed(r)
           \/ \E p \in Attempts : Served(p) \/ Refused(p) \/ Doubled(p)
    PROVE  [Contract!ContractNext]_(Contract!contractVars)
<1>0. /\ \A p \in Attempts : BookingOf[p] \in Reservations
      /\ ordered = [r \in Reservations |-> ordered[r]]
      /\ ordered' = [r \in Reservations |-> ordered'[r]]
      /\ kept = [p \in Attempts |-> kept[p]]
      /\ kept' = [p \in Attempts |-> kept'[p]]
  BY BookingAssumption DEF ordered, kept
<1>1. \A r \in Reservations :
        /\ ordered[r] = IF booking[r] \in Done THEN "closed"
                        ELSE IF Captured(r) # {} THEN "served" ELSE "open"
        /\ ordered'[r] = IF booking'[r] \in Done THEN "closed"
                         ELSE IF Captured(r)' # {} THEN "served" ELSE "open"
  BY DEF ordered, Done
<1>2. CASE Quiet
  <2>1. \A r \in Reservations : booking'[r] \in Done <=> booking[r] \in Done
    BY <1>2 DEF Quiet
  <2>2. \A r \in Reservations : ordered'[r] = ordered[r]
    BY <1>1, <1>2, <2>1, UnchargedCaptures DEF Quiet
  <2>3. \A p \in Attempts : kept'[p] = kept[p]
    BY <1>0, <1>2, <2>1 DEF Quiet, Charges, ChargesMapped
  <2>4. ordered' = ordered
    BY <1>0, <2>2
  <2>5. kept' = kept
    BY <1>0, <2>3
  <2> QED
    BY <2>4, <2>5 DEF Contract!contractVars
<1>3. ASSUME NEW r \in Reservations, Closed(r)
      PROVE  Contract!ContractNext
  <2>1. ordered[r] # "closed" /\ ordered'[r] = "closed"
    BY <1>1, <1>3 DEF Closed
  <2>2. \A q \in Reservations : q # r => ordered'[q] = ordered[q]
    BY <1>1, <1>3, UnchargedCaptures DEF Closed, Alone
  <2>3. \A p \in Attempts :
          kept'[p] = IF BookingOf[p] = r /\ kept[p] = "kept" THEN "owed" ELSE kept[p]
    <3>1. ASSUME NEW p \in Attempts, BookingOf[p] = r
          PROVE  kept'[p] = IF kept[p] = "kept" THEN "owed" ELSE kept[p]
      BY <1>3, <3>1 DEF Closed, Charges, ChargesMapped
    <3>2. ASSUME NEW p \in Attempts, BookingOf[p] # r
          PROVE  kept'[p] = kept[p]
      BY <1>0, <1>3, <3>2 DEF Closed, Alone, Charges, ChargesMapped
    <3> QED
      BY <3>1, <3>2
  <2>4. ordered' = [ordered EXCEPT ![r] = "closed"]
    BY <1>0, <2>1, <2>2
  <2>5. kept' = [p \in Attempts |->
                    IF BookingOf[p] = r /\ kept[p] = "kept" THEN "owed" ELSE kept[p]]
    BY <1>0, <2>3
  <2> QED
    BY <2>1, <2>4, <2>5 DEF Contract!ContractNext, Contract!Close
<1>4. ASSUME NEW p \in Attempts, Served(p)
      PROVE  Contract!ContractNext
  <2>1. ordered[BookingOf[p]] = "open" /\ ordered'[BookingOf[p]] = "served"
    BY <1>0, <1>1, <1>4, ChargedCaptures DEF Served
  <2>2. \A r \in Reservations : r # BookingOf[p] => ordered'[r] = ordered[r]
    BY <1>1, <1>4, ChargedCaptures DEF Served, Alone
  <2>3. kept[p] = "none" /\ kept'[p] = "kept"
    BY <1>4 DEF Served, Charges, ChargesMapped
  <2>4. \A q \in Attempts : q # p => kept'[q] = kept[q]
    <3>1. \A r \in Reservations : booking'[r] \in Done <=> booking[r] \in Done
      BY <1>4 DEF Served, Alone
    <3> QED
      BY <1>0, <1>4, <3>1 DEF Served, Charges, ChargesMapped
  <2>5. ordered' = [ordered EXCEPT ![BookingOf[p]] = "served"]
    BY <1>0, <2>1, <2>2
  <2>6. kept' = [kept EXCEPT ![p] = "kept"]
    BY <1>0, <2>3, <2>4
  <2> QED
    BY <2>1, <2>3, <2>5, <2>6 DEF Contract!ContractNext, Contract!Serve
<1>5. ASSUME NEW p \in Attempts, Refused(p)
      PROVE  Contract!ContractNext
  <2>1. ordered[BookingOf[p]] # "served" /\ ordered'[BookingOf[p]] = "closed"
    BY <1>0, <1>1, <1>5 DEF Refused, Done
  <2>2. \A r \in Reservations : r # BookingOf[p] => ordered'[r] = ordered[r]
    <3>1. ASSUME NEW r \in Reservations, r # BookingOf[p]
          PROVE  Captured(r)' = Captured(r) /\ booking'[r] = booking[r]
      BY <1>5, <3>1, ChargedCaptures DEF Refused, Alone
    <3> QED
      BY <1>1, <3>1
  <2>3. kept[p] = "none" /\ kept'[p] = "owed"
    BY <1>5 DEF Refused, Charges, ChargesMapped, Done
  <2>4. \A q \in Attempts : q # p => kept'[q] = kept[q]
    <3>1. ASSUME NEW q \in Attempts, BookingOf[q] = BookingOf[p], q # p, pay[q] = "SUCCESS"
          PROVE  dup[q]
      BY <1>5, <3>1 DEF Refused, Captured, AttemptsOf
    <3>2. ASSUME NEW q \in Attempts, BookingOf[q] # BookingOf[p]
          PROVE  booking'[BookingOf[q]] = booking[BookingOf[q]]
      BY <1>0, <1>5, <3>2 DEF Refused, Alone
    <3> QED
      BY <1>5, <3>1, <3>2 DEF Refused, Charges, ChargesMapped
  <2>5. ordered' = [ordered EXCEPT ![BookingOf[p]] = "closed"]
    BY <1>0, <2>1, <2>2
  <2>6. kept' = [kept EXCEPT ![p] = "owed"]
    BY <1>0, <2>3, <2>4
  <2> QED
    BY <2>1, <2>3, <2>5, <2>6 DEF Contract!ContractNext, Contract!Refuse
<1>6. ASSUME NEW p \in Attempts, Doubled(p)
      PROVE  Contract!ContractNext
  <2>1. ordered[BookingOf[p]] # "open"
    BY <1>0, <1>1, <1>6 DEF Doubled
  <2>2. \A r \in Reservations : ordered'[r] = ordered[r]
    BY <1>1, <1>6, ChargedCaptures DEF Doubled
  <2>3. kept[p] = "none" /\ kept'[p] = "owed"
    BY <1>6 DEF Doubled, Charges, ChargesMapped
  <2>4. \A q \in Attempts : q # p => kept'[q] = kept[q]
    BY <1>6 DEF Doubled, Charges, ChargesMapped
  <2>5. ordered' = ordered
    BY <1>0, <2>2
  <2>6. kept' = [kept EXCEPT ![p] = "owed"]
    BY <1>0, <2>3, <2>4
  <2> QED
    BY <2>1, <2>3, <2>5, <2>6 DEF Contract!ContractNext, Contract!Return
<1> QED
  BY <1>2, <1>3, <1>4, <1>5, <1>6

\* Refinement, for any number of bookings and attempts: no sequence of
\* callbacks, decisions, deadlines, sweeps and suspensions breaks the payment
\* contract.
THEOREM BookingKeepsContract == Spec => KeepsContract
<1>1. Init => Contract!ContractInit
  <2>1. ASSUME Init
        PROVE  /\ \A p \in Attempts : pay[p] = "NONE"
               /\ \A r \in Reservations : booking[r] = "NONE" /\ Captured(r) = {}
    BY <2>1 DEF Init, Captured, AttemptsOf
  <2> QED
    BY <2>1 DEF Contract!ContractInit, ordered, kept
<1>2. /\ TypeOK /\ OrdersInv /\ DupInv /\ DebtInv
      /\ ChargesMapped /\ ChargesMapped' /\ [Next]_vars
      => [Contract!ContractNext]_(Contract!contractVars)
  BY MoneyKinds, ContractStep
<1>3. DupInv /\ DebtInv => ChargesMapped
  BY DebtsMap
<1> QED
  BY <1>1, <1>2, <1>3, DebtInvariant, PTL DEF Spec, KeepsContract, Contract!ContractSpec

\* What is proved of the contract, seen in the booking flow.
Promise == INSTANCE PaymentContractProofs
    WITH Orders <- Reservations, OrderOf <- BookingOf, order <- ordered, money <- kept

\* The two instances of the contract are the same formula.
LEMMA PromiseKept == Spec => Promise!ContractSpec
<1>1. Contract!ContractInit <=> Promise!ContractInit
  BY DEF Contract!ContractInit, Promise!ContractInit
<1>2. [Contract!ContractNext]_(Contract!contractVars)
      => [Promise!ContractNext]_(Promise!contractVars)
  BY DEF Contract!ContractNext, Contract!Serve, Contract!Refuse, Contract!Return,
         Contract!Close, Contract!contractVars,
         Promise!ContractNext, Promise!Serve, Promise!Refuse, Promise!Return,
         Promise!Close, Promise!contractVars
<1> QED
  BY <1>1, <1>2, BookingKeepsContract, PTL
  DEF KeepsContract, Contract!ContractSpec, Promise!ContractSpec

\* A booking that is served keeps exactly one captured charge, any other keeps none:
\* everything else a customer was charged is a debt with a request or a case.
THEOREM BookingsChargedOnce == Spec => []Contract!ServedIsPaidOnce
<1>1. Promise!ContractSpec => []Promise!ServedIsPaidOnce
  BY Promise!ContractHolds, BookingAssumption
<1>2. Contract!ServedIsPaidOnce <=> Promise!ServedIsPaidOnce
  BY DEF Contract!ServedIsPaidOnce, Promise!ServedIsPaidOnce
<1> QED
  BY <1>1, <1>2, PromiseKept, PTL

\* A cancelled booking is never served again, whatever callbacks, decisions and retries
\* come after it, and a debt of the platform is never taken back: no step turns a refund
\* request or a recovery case into a charge that is kept.
THEOREM BookingsDebtsStand == Spec => Contract!DebtsStand
<1>1. Promise!ContractSpec => Promise!DebtsStand
  BY Promise!DebtsRemain, BookingAssumption
<1>2. [Promise!DebtsStep]_(Promise!contractVars) => [Contract!DebtsStep]_(Contract!contractVars)
  BY DEF Promise!DebtsStep, Promise!contractVars, Contract!DebtsStep, Contract!contractVars
<1> QED
  BY <1>1, <1>2, PromiseKept, PTL DEF Promise!DebtsStand, Contract!DebtsStand

-----------------------------------------------------------------------------
(* The payment page *)

\* A payment page never outlives the time its booking may be paid, which never
\* outlives the hold; VNPay charges on pages that are open.
LinkInv ==
    /\ \A p \in Attempts :
        /\ pay[p] # "NONE" \/ askedAt[p] # NoTime => payExp[p] <= PayableUntil(BookingOf[p])
        /\ charged[p] # NoTime => pay[p] # "NONE" /\ charged[p] <= payExp[p]
    /\ \A r \in Reservations : payBy[r] <= expiresAt[r]

\* No window moves, no page is opened or charged.
PagesOn ==
    /\ UNCHANGED <<expiresAt, payBy, payExp, charged>>
    /\ \A p \in Attempts :
        /\ pay[p] # "NONE" => pay'[p] # "NONE"
        /\ pay'[p] # "NONE" \/ askedAt'[p] # NoTime => pay[p] # "NONE" \/ askedAt[p] # NoTime

\* All but five actions leave the pages alone.
LEMMA PagesOnStep ==
    ASSUME TypeOK, LinkInv, [Next]_vars,
           \A r \in Reservations : ~Reserve(r) /\ ~CheckoutForApproval(r) /\ ~ApproveUnpaid(r),
           \A p \in Attempts : ~AskUrl(p) /\ ~GatewayPay(p)
    PROVE  PagesOn
<1> USE DEF windowVars, payVars, gatewayVars
<1>0. /\ pay \in [Attempts -> {"NONE", "PENDING", "SUCCESS", "FAILED"}]
      /\ askedAt \in [Attempts -> Times \cup {NoTime}]
  BY DEF TypeOK
<1>1. ASSUME UNCHANGED <<windowVars, payExp, charged, askedAt>>,
             \A p \in Attempts : pay'[p] = "NONE" <=> pay[p] = "NONE"
      PROVE  PagesOn
  BY <1>1 DEF PagesOn
<1>2. ASSUME NEW r \in Reservations,
             \/ CancelPending(r) \/ Reject(r) \/ PartnerCancel(r) \/ RemedyOne(r)
             \/ ApprovePaid(r) \/ Checkout(r) \/ RequestRefund(r) \/ RetryDrift(r)
      PROVE  PagesOn
  BY <1>1, <1>2
  DEF CancelPending, Reject, PartnerCancel, RemedyOne, ApprovePaid, Checkout, RequestRefund,
      RetryDrift
<1>3. ASSUME NEW r \in Reservations, SweepOne(r)
      PROVE  PagesOn
  <2>1. pay' = pay \/ pay' = FailOpen(r, pay)
    BY <1>3 DEF SweepOne
  <2>2. UNCHANGED <<windowVars, payExp, charged, askedAt>>
    BY <1>3 DEF SweepOne
  <2> QED
    BY <1>0, <1>1, <2>1, <2>2 DEF FailOpen
<1>4. ASSUME NEW p \in Attempts, OpenAttempt(p)
      PROVE  PagesOn
  BY <1>0, <1>4 DEF OpenAttempt, PagesOn
<1>5. ASSUME NEW p \in Attempts, GatewayDecline(p) \/ CallbackFailure(p)
      PROVE  PagesOn
  BY <1>0, <1>5 DEF GatewayDecline, CallbackFailure, PagesOn
<1>6. ASSUME NEW p \in Attempts, NEW t \in 0 .. Horizon,
             CallbackServe(p, t) \/ CallbackRefuse(p, t) \/ CallbackDuplicate(p, t)
      PROVE  PagesOn
  <2>1. /\ pay' = FailOpen(BookingOf[p], [pay EXCEPT ![p] = "SUCCESS"])
        /\ UNCHANGED <<windowVars, payExp, charged, askedAt>> /\ charged[p] # NoTime
    BY <1>6 DEF CallbackServe, CallbackRefuse, CallbackDuplicate, Capture, Reported
  <2>2. pay[p] # "NONE"
    BY <2>1 DEF LinkInv
  <2> QED
    BY <1>0, <1>1, <2>1, <2>2 DEF FailOpen
<1>7. CASE \/ SweepRead \/ SweepCrash \/ FlipManual \/ Suspend \/ Resume \/ RemedyCrash \/ Tick
           \/ UNCHANGED vars
  BY <1>1, <1>7
  DEF SweepRead, SweepCrash, FlipManual, Suspend, Resume, RemedyCrash, Tick, vars
<1> QED
  BY <1>2, <1>3, <1>4, <1>5, <1>6, <1>7
  DEF Next, CustomerStep, PartnerStep, ApproveBlocked, ExpireApproval, Callback

\* Every action keeps the pages within the windows: one step per action that
\* touches either.
LEMMA LinkStep ==
    ASSUME TypeOK, OrdersInv, LinkInv, [Next]_vars
    PROVE  LinkInv'
<1> USE DEF windowVars, payVars, gatewayVars
<1>0. /\ now \in Nat /\ expiresAt \in [Reservations -> Int] /\ payBy \in [Reservations -> Int]
      /\ payExp \in [Attempts -> Int] /\ charged \in [Attempts -> Int]
      /\ pay \in [Attempts -> {"NONE", "PENDING", "SUCCESS", "FAILED"}]
      /\ askedAt \in [Attempts -> Times \cup {NoTime}]
      /\ \A p \in Attempts : BookingOf[p] \in Reservations
      /\ {HoldTime, PayWindow, ApprovalTime, ApprovedWindow, Start} \subseteq Nat
  BY BookingAssumption DEF TypeOK, Times, NoTime
<1>1. ASSUME NEW r \in Reservations, Untouched(r),
             UNCHANGED <<pay, askedAt, payExp, charged>>,
             payBy'[r] <= expiresAt'[r],
             \A q \in Reservations : q # r => payBy'[q] = payBy[q] /\ expiresAt'[q] = expiresAt[q]
      PROVE  LinkInv'
  <2>1. ASSUME NEW p \in Attempts, pay[p] # "NONE" \/ askedAt[p] # NoTime
        PROVE  PayableUntil(BookingOf[p])' = PayableUntil(BookingOf[p])
    BY <1>0, <1>1, <2>1 DEF Untouched, AttemptsOf, PayableUntil
  <2>2. \A q \in Reservations : payBy'[q] <= expiresAt'[q]
    BY <1>1 DEF LinkInv
  <2> QED
    BY <1>1, <2>1, <2>2 DEF LinkInv
<1>2. ASSUME NEW r \in Reservations, Reserve(r)
      PROVE  LinkInv'
  <2>1. Untouched(r)
    BY <1>2 DEF Reserve, HoldSeats, OrdersInv, OrderOK, TypeOK, Active
  <2>2. payBy'[r] <= expiresAt'[r]
    BY <1>0, <1>2 DEF Reserve
  <2> QED
    BY <1>0, <1>1, <1>2, <2>1, <2>2 DEF Reserve
<1>3. ASSUME NEW r \in Reservations, CheckoutForApproval(r)
      PROVE  LinkInv'
  <2>1. Untouched(r)
    BY <1>3 DEF CheckoutForApproval, OrdersInv, OrderOK
  <2>2. ApprovalCutoff(now) \in Nat
    BY <1>0 DEF ApprovalCutoff, Earlier
  <2>3. payBy'[r] <= expiresAt'[r]
    BY <1>0, <1>3, <2>2 DEF CheckoutForApproval, LinkInv, NoTime
  <2> QED
    BY <1>0, <1>1, <1>3, <2>1, <2>3 DEF CheckoutForApproval
<1>4. ASSUME NEW r \in Reservations, ApproveUnpaid(r)
      PROVE  LinkInv'
  <2>1. Untouched(r)
    BY <1>4 DEF ApproveUnpaid, OrdersInv, OrderOK
  <2>2. Earlier(now + ApprovedWindow, Start) \in Int
    BY <1>0 DEF Earlier
  <2>3. payBy'[r] <= expiresAt'[r]
    BY <1>0, <1>4, <2>2 DEF ApproveUnpaid
  <2> QED
    BY <1>0, <1>1, <1>4, <2>1, <2>3 DEF ApproveUnpaid
<1>5. ASSUME NEW p \in Attempts, AskUrl(p)
      PROVE  LinkInv'
  <2>1. /\ payExp' = [payExp EXCEPT ![p] = LinkExpiry(BookingOf[p])]
        /\ askedAt' = [askedAt EXCEPT ![p] = now] /\ pay[p] = "NONE"
        /\ UNCHANGED <<expiresAt, payBy, pay, charged>>
    BY <1>5 DEF AskUrl
  <2>2. LinkExpiry(BookingOf[p]) <= PayableUntil(BookingOf[p])
    BY <1>0 DEF LinkExpiry, Earlier, PayableUntil
  <2>3. \A q \in Attempts : PayableUntil(BookingOf[q])' = PayableUntil(BookingOf[q])
    BY <2>1 DEF PayableUntil
  <2> QED
    BY <1>0, <2>1, <2>2, <2>3 DEF LinkInv
<1>6. ASSUME NEW p \in Attempts, GatewayPay(p)
      PROVE  LinkInv'
  <2>1. \A q \in Attempts : PayableUntil(BookingOf[q])' = PayableUntil(BookingOf[q])
    BY <1>6 DEF GatewayPay, PayableUntil
  <2> QED
    BY <1>0, <1>6, <2>1 DEF GatewayPay, LinkInv
<1>7. CASE PagesOn
  <2>1. \A q \in Attempts : PayableUntil(BookingOf[q])' = PayableUntil(BookingOf[q])
    BY <1>7 DEF PagesOn, PayableUntil
  <2> QED
    BY <1>7, <2>1 DEF PagesOn, LinkInv
<1> QED
  BY <1>2, <1>3, <1>4, <1>5, <1>6, <1>7, PagesOnStep

\* For any windows and any number of attempts: a payment on an open page, told
\* with its time while the seats are still held, is served.
THEOREM PaidInTimeServed == Spec => PaidInTimeIsServed
<1> DEFINE Answered == \A p \in Attempts :
                LET r == BookingOf[p] IN
                pay[p] # "SUCCESS" /\ pay'[p] = "SUCCESS" /\ paidAt'[p] = charged[p]
                    /\ hold[r] = "HELD" /\ ~suspended
                => booking'[r] \in {"CONFIRMED", "PENDING_PARTNER"}
<1>1. Init => LinkInv
  BY DEF Init, LinkInv, NoTime
<1>2. TypeOK /\ OrdersInv /\ LinkInv /\ [Next]_vars => LinkInv'
  BY LinkStep
<1>3. TypeOK /\ OrdersInv /\ LinkInv /\ [Next]_vars => Answered
  <2> SUFFICES ASSUME TypeOK, OrdersInv, LinkInv, [Next]_vars, NEW p \in Attempts,
                      pay[p] # "SUCCESS", pay'[p] = "SUCCESS", paidAt'[p] = charged[p],
                      hold[BookingOf[p]] = "HELD", ~suspended
               PROVE  booking'[BookingOf[p]] \in {"CONFIRMED", "PENDING_PARTNER"}
    OBVIOUS
  <2>0. /\ BookingOf[p] \in Reservations /\ charged[p] \in Int /\ payExp[p] \in Int
        /\ payBy[BookingOf[p]] \in Int /\ expiresAt[BookingOf[p]] \in Int
        /\ booking \in [Reservations -> Active \cup {"NONE", "CANCELLED", "REFUND_REQUESTED"}]
        /\ pay \in [Attempts -> {"NONE", "PENDING", "SUCCESS", "FAILED"}]
        /\ paidAt \in [Attempts -> Times \cup {NoTime}]
    BY BookingAssumption DEF TypeOK, Times, NoTime
  <2>1. ASSUME NEW q \in Attempts, NEW t \in 0 .. Horizon, NEW d \in BOOLEAN, Reported(q, t),
               Capture(q, t, d)
        PROVE  q = p /\ t = charged[p] /\ charged[p] # NoTime
    <3>1. /\ pay' = FailOpen(BookingOf[q], [pay EXCEPT ![q] = "SUCCESS"])
          /\ paidAt' = [paidAt EXCEPT ![q] = t]
      BY <2>1 DEF Capture
    <3> QED
      BY <2>0, <2>1, <3>1 DEF FailOpen, Reported
  <2>2. ASSUME charged[p] # NoTime
        PROVE  /\ booking[BookingOf[p]] = "PENDING_PAYMENT" /\ Captured(BookingOf[p]) = {}
               /\ charged[p] <= PaymentDeadline(p)
    <3>1. booking[BookingOf[p]] = "PENDING_PAYMENT" /\ Captured(BookingOf[p]) = {}
      BY <2>0, <2>2 DEF OrdersInv, OrderOK, Untouched, AttemptsOf, Active
    <3>2. /\ charged[p] <= payExp[p] /\ payExp[p] <= PayableUntil(BookingOf[p])
          /\ payBy[BookingOf[p]] <= expiresAt[BookingOf[p]]
      BY <2>0, <2>2 DEF LinkInv
    <3>3. charged[p] <= PaymentDeadline(p)
      BY <2>0, <3>2 DEF PaymentDeadline, PayableUntil, Earlier
    <3> QED
      BY <3>1, <3>3
  <2>3. ASSUME NEW q \in Attempts, NEW t \in 0 .. Horizon, CallbackServe(q, t)
        PROVE  booking'[BookingOf[p]] \in {"CONFIRMED", "PENDING_PARTNER"}
    BY <2>0, <2>1, <2>3 DEF CallbackServe
  <2>4. ASSUME NEW q \in Attempts, NEW t \in 0 .. Horizon,
               CallbackRefuse(q, t) \/ CallbackDuplicate(q, t)
        PROVE  FALSE
    <3>1. q = p /\ t = charged[p] /\ charged[p] # NoTime
      BY <2>1, <2>4 DEF CallbackRefuse, CallbackDuplicate
    <3> QED
      BY <2>2, <2>4, <3>1 DEF CallbackRefuse, CallbackDuplicate, InTime
  <2>5. ASSUME \/ pay' = pay
               \/ \E r \in Reservations : pay' = FailOpen(r, pay)
               \/ \E q \in Attempts : pay' = [pay EXCEPT ![q] = "PENDING"]
               \/ \E q \in Attempts : pay' = [pay EXCEPT ![q] = "FAILED"]
        PROVE  FALSE
    BY <2>0, <2>5 DEF FailOpen
  <2>6. ASSUME NEW r \in Reservations, SweepOne(r)
        PROVE  FALSE
    BY <2>5, <2>6 DEF SweepOne
  <2>7. ASSUME NEW q \in Attempts, OpenAttempt(q) \/ CallbackFailure(q)
        PROVE  FALSE
    BY <2>5, <2>7 DEF OpenAttempt, CallbackFailure
  <2> QED
    BY <2>3, <2>4, <2>5, <2>6, <2>7
    DEF Next, CustomerStep, PartnerStep, ApproveBlocked, ExpireApproval, Callback, vars, payVars,
        Reserve, Checkout, CheckoutForApproval, RequestRefund, ApproveUnpaid, ApprovePaid,
        CancelPending, Reject, PartnerCancel, RemedyOne, RetryDrift, AskUrl, GatewayPay,
        GatewayDecline, SweepRead, SweepCrash, FlipManual, Suspend, Resume, RemedyCrash, Tick
<1>4. TypeOK /\ OrdersInv /\ LinkInv /\ [Next]_vars => [Answered]_vars
  BY <1>3
<1> QED
  BY <1>1, <1>2, <1>4, BookingInvariant, PTL DEF Spec, PaidInTimeIsServed
=============================================================================
