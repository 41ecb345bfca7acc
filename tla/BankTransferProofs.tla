------------------------- MODULE BankTransferProofs -------------------------
(***************************************************************************)
(* Proofs about BankTransfer, for any number of bookings, transfers,       *)
(* deliveries and administrators: the types, the books (what is paid is    *)
(* served or asked back), the money paid back, the acknowledgements SePay  *)
(* gets, and the payment contract.                                         *)
(***************************************************************************)
EXTENDS BankTransfer, TLAPS

-----------------------------------------------------------------------------
(* Types *)

\* A delivery at work has an event.
TypeInv ==
    /\ TypeOK
    /\ \A h \in Handlers : handler[h].pc # "idle" => handler[h].event \in Events

\* What a delivery does to the rows of the webhook, whatever else it does.
LEMMA HandlerType ==
    ASSUME TypeInv, NEW h \in Handlers, HandlerStep(h)
    PROVE  /\ event' \in [Events -> Terminal \union {"NONE", "RECEIVED", "PROCESSING", "FAILED"}]
           /\ handler' \in [Handlers -> [pc : {"idle", "found", "claimed", "confirmed"},
                                         event : Events \union {None}]]
           /\ \A g \in Handlers : handler'[g].pc # "idle" => handler'[g].event \in Events
           /\ acked' \subseteq Events /\ early' \subseteq Events
           /\ crashes' \in 0..MaxCrash
<1>1. /\ event \in [Events -> Terminal \union {"NONE", "RECEIVED", "PROCESSING", "FAILED"}]
      /\ handler \in [Handlers -> [pc : {"idle", "found", "claimed", "confirmed"},
                                   event : Events \union {None}]]
      /\ \A g \in Handlers : handler[g].pc # "idle" => handler[g].event \in Events
      /\ arrived \subseteq Events /\ acked \subseteq Events /\ early \subseteq Events
      /\ crashes \in 0..MaxCrash /\ MaxCrash \in Nat
  BY TransferAssumption DEF TypeInv, TypeOK
<1>2. /\ Rest \in [pc : {"idle", "found", "claimed", "confirmed"}, event : Events \union {None}]
      /\ Rest.pc = "idle"
  BY DEF Rest
<1>3. ASSUME NEW e \in Events, FindOrCreateWebhookEvent(h, e)
      PROVE  /\ event' \in [Events -> Terminal \union {"NONE", "RECEIVED", "PROCESSING", "FAILED"}]
             /\ handler' \in [Handlers -> [pc : {"idle", "found", "claimed", "confirmed"},
                                           event : Events \union {None}]]
             /\ \A g \in Handlers : handler'[g].pc # "idle" => handler'[g].event \in Events
             /\ UNCHANGED <<acked, early, crashes>>
  BY <1>1, <1>3 DEF FindOrCreateWebhookEvent
<1>4. ASSUME ClaimWebhookEvent(h)
      PROVE  /\ event' \in [Events -> Terminal \union {"NONE", "RECEIVED", "PROCESSING", "FAILED"}]
             /\ handler' = [handler EXCEPT ![h].pc = "claimed"]
             /\ handler[h].pc # "idle"
             /\ UNCHANGED <<acked, early, crashes>>
  BY <1>1, <1>4 DEF ClaimWebhookEvent
<1>5. ASSUME NEW e, e = handler[h].event, AcknowledgeKnown(h)
      PROVE  /\ handler' = [handler EXCEPT ![h] = Rest]
             /\ event' = event /\ acked' = acked \union {e}
             /\ early' \in {early, early \union {e}}
             /\ e \in Events /\ UNCHANGED crashes
  BY <1>1, <1>5 DEF AcknowledgeKnown, Acknowledge
<1>6. ASSUME NEW e, e = handler[h].event, RequireReview(h) \/ FinishWebhookEvent(h)
      PROVE  /\ handler' = [handler EXCEPT ![h] = Rest]
             /\ event' \in [Events -> Terminal \union {"NONE", "RECEIVED", "PROCESSING", "FAILED"}]
             /\ acked' = acked \union {e} /\ e \in Events
             /\ UNCHANGED <<early, crashes>>
  BY <1>1, <1>6 DEF RequireReview, FinishWebhookEvent, Acknowledge, Terminal
<1>7. ASSUME ConfirmFromWebhook(h)
      PROVE  /\ handler' = [handler EXCEPT ![h].pc = "confirmed"]
             /\ handler[h].pc # "idle"
             /\ UNCHANGED <<event, acked, early, crashes>>
  BY <1>7 DEF ConfirmFromWebhook
<1>8. ASSUME FailWebhookEvent(h)
      PROVE  /\ handler' = [handler EXCEPT ![h] = Rest]
             /\ event' \in [Events -> Terminal \union {"NONE", "RECEIVED", "PROCESSING", "FAILED"}]
             /\ UNCHANGED <<acked, early, crashes>>
  BY <1>1, <1>8 DEF FailWebhookEvent
<1>9. ASSUME Crash(h)
      PROVE  /\ handler' = [handler EXCEPT ![h] = Rest]
             /\ UNCHANGED <<event, acked, early>>
             /\ crashes' \in 0..MaxCrash
  BY <1>1, <1>9 DEF Crash
<1>10. ASSUME handler' = [handler EXCEPT ![h] = Rest]
       PROVE  /\ handler' \in [Handlers -> [pc : {"idle", "found", "claimed", "confirmed"},
                                            event : Events \union {None}]]
              /\ \A g \in Handlers : handler'[g].pc # "idle" => handler'[g].event \in Events
  BY <1>1, <1>2, <1>10
<1>11. ASSUME NEW c \in {"claimed", "confirmed"}, handler[h].pc # "idle",
              handler' = [handler EXCEPT ![h].pc = c]
       PROVE  /\ handler' \in [Handlers -> [pc : {"idle", "found", "claimed", "confirmed"},
                                            event : Events \union {None}]]
              /\ \A g \in Handlers : handler'[g].pc # "idle" => handler'[g].event \in Events
  BY <1>1, <1>11
<1>12. CASE \E e \in Events : FindOrCreateWebhookEvent(h, e)
  BY <1>1, <1>3, <1>12
<1>13. CASE ClaimWebhookEvent(h)
  BY <1>1, <1>4, <1>11, <1>13
<1>14. CASE AcknowledgeKnown(h)
  BY <1>1, <1>5, <1>10, <1>14
<1>15. CASE RequireReview(h) \/ FinishWebhookEvent(h)
  BY <1>1, <1>6, <1>10, <1>15
<1>16. CASE ConfirmFromWebhook(h)
  BY <1>1, <1>7, <1>11, <1>16
<1>17. CASE FailWebhookEvent(h)
  BY <1>1, <1>8, <1>10, <1>17
<1>18. CASE Crash(h)
  BY <1>1, <1>9, <1>10, <1>18
<1> QED
  BY <1>12, <1>13, <1>14, <1>15, <1>16, <1>17, <1>18 DEF HandlerStep

\* The rows of bookings, seats, requests and money.
BooksType ==
    /\ booking \in [Bookings -> Unpaid \union Kept \union Closed]
    /\ seats \in [Bookings -> {"HELD", "EXPIRED", "CONFIRMED", "CANCELLED"}]
    /\ payment \subseteq Bookings
    /\ request \in [Bookings -> [Keys ->
            {"NONE", "PENDING", "CLAIMED", "PROCESSING", "APPROVED"}]]
    /\ rescue \in [Bookings -> {"NONE", "OPEN", "REPLACED", "REFUND_PENDING", "REFUNDED"}]
    /\ paidBack \in [Bookings -> Nat]

\* What one confirmation does to them: everyone who confirms does one of these.
Confirmed(b) == (Fulfil(b) \/ Refuse(b)) /\ UNCHANGED paidBack

\* What happens to a booking otherwise.
Moved(b) ==
    \/ SweepExpired(b) \/ PartnerApproves(b) \/ PartnerRejects(b)
    \/ CreateRefundRequest(b) \/ SweepCompleted(b)
    \/ PartnerCancels(b) \/ CancelAffected(b) \/ AcceptOption(b) \/ RefundCase(b)
    \/ \E k \in Keys : ClaimRefund(b, k) \/ CreateRefund(b, k) \/ FinalizeRefund(b, k)

\* A step confirms a payment, moves a booking, or leaves the books alone.
LEMMA BooksKinds ==
    ASSUME TypeInv, [Next]_vars
    PROVE  \/ UNCHANGED <<books, paidBack>>
           \/ \E b \in Bookings : Confirmed(b) \/ Moved(b)
<1>1. CASE UNCHANGED vars
  BY <1>1 DEF vars, books
<1>2. ASSUME NEW e \in Events, Transfer(e)
      PROVE  UNCHANGED <<books, paidBack>>
  BY <1>2 DEF Transfer
<1>3. ASSUME NEW h \in Handlers, HandlerStep(h)
      PROVE  \/ UNCHANGED <<books, paidBack>>
             \/ \E b \in Bookings : Confirmed(b) \/ Moved(b)
  <2>1. CASE ConfirmFromWebhook(h)
    <3> DEFINE b == EventBooking[handler[h].event]
    <3>1. b \in Bookings
      BY <2>1, TransferAssumption DEF ConfirmFromWebhook
    <3>2. Confirmed(b) \/ UNCHANGED <<books, paidBack>>
      BY <2>1 DEF ConfirmFromWebhook, ConfirmBankTransfer, Confirmed
    <3> QED
      BY <3>1, <3>2
  <2>2. CASE \/ \E e \in Events : FindOrCreateWebhookEvent(h, e)
             \/ ClaimWebhookEvent(h) \/ AcknowledgeKnown(h) \/ RequireReview(h)
             \/ FinishWebhookEvent(h) \/ FailWebhookEvent(h) \/ Crash(h)
    BY <2>2 DEF FindOrCreateWebhookEvent, ClaimWebhookEvent, AcknowledgeKnown, RequireReview,
                FinishWebhookEvent, FailWebhookEvent, Crash
  <2> QED
    BY <1>3, <2>1, <2>2 DEF HandlerStep
<1>4. ASSUME NEW a \in Admins, NEW b \in Bookings, MatchStatement(a, b) \/ ConfirmMatch(a, b)
      PROVE  Confirmed(b) \/ UNCHANGED <<books, paidBack>>
  BY <1>4 DEF MatchStatement, ConfirmMatch, ConfirmBankTransfer, Confirmed
<1>5. ASSUME NEW a \in Admins, ApproveMatch(a)
      PROVE  UNCHANGED <<books, paidBack>>
  BY <1>5 DEF ApproveMatch
<1>6. ASSUME NEW b \in Bookings, BookingStep(b)
      PROVE  Moved(b) \/ UNCHANGED <<books, paidBack>>
  BY <1>6 DEF BookingStep, Moved, RunLate
<1> QED
  BY <1>1, <1>2, <1>3, <1>4, <1>5, <1>6 DEF Next

\* Asking for a refund changes one request, and only one that was not asked for.
LEMMA QueueEffect ==
    ASSUME BooksType, NEW b \in Bookings, NEW k \in Keys, Queue(b, k)
    PROVE  /\ request' \in [Bookings -> [Keys ->
                {"NONE", "PENDING", "CLAIMED", "PROCESSING", "APPROVED"}]]
           /\ request'[b][k] # "NONE"
           /\ request'[b][k] # request[b][k] => request'[b][k] = "PENDING"
           /\ \A j \in Keys : j # k => request'[b][j] = request[b][j]
           /\ \A c \in Bookings : c # b => request'[c] = request[c]
BY DEF BooksType, Queue

\* A cancelled booking gets a case or a request.
LEMMA RescueEffect ==
    ASSUME BooksType, NEW b \in Bookings, NEW k \in Keys, RescueOrRefund(b, k)
    PROVE  \/ /\ request' = request
              /\ rescue' = [rescue EXCEPT ![b] = IF @ = "NONE" THEN "OPEN" ELSE @]
           \/ Queue(b, k) /\ rescue' = rescue
BY DEF RescueOrRefund

LEMMA BooksTypeStep ==
    ASSUME BooksType, NEW b \in Bookings, Confirmed(b) \/ Moved(b)
    PROVE  BooksType'
<1> USE DEF BooksType, Unpaid, Kept, Closed
<1>0. {"system", "customer", "partner", "recovery", "difference"} \subseteq Keys
  BY DEF Keys
<1>1. CASE Confirmed(b)
  <2>1. CASE Fulfil(b)
    BY <1>1, <2>1 DEF Confirmed, Fulfil
  <2>2. CASE Refuse(b)
    BY <1>0, <1>1, <2>2, QueueEffect DEF Confirmed, Refuse
  <2> QED
    BY <1>1, <2>1, <2>2 DEF Confirmed
<1>2. CASE SweepExpired(b) \/ PartnerApproves(b) \/ SweepCompleted(b) \/ PartnerRejects(b)
  BY <1>2 DEF SweepExpired, PartnerApproves, SweepCompleted, PartnerRejects
<1>3. CASE CreateRefundRequest(b)
  BY <1>0, <1>3 DEF CreateRefundRequest
<1>4. ASSUME NEW k \in Keys, ClaimRefund(b, k) \/ CreateRefund(b, k)
      PROVE  BooksType'
  BY <1>4 DEF ClaimRefund, CreateRefund
<1>5. ASSUME NEW k \in Keys, FinalizeRefund(b, k)
      PROVE  BooksType'
  <2>1. AmountOf(k) \in Nat
    BY TransferAssumption DEF AmountOf
  <2>2. booking' \in [Bookings -> Unpaid \union Kept \union Closed]
    BY <1>5 DEF FinalizeRefund
  <2>3. seats' \in [Bookings -> {"HELD", "EXPIRED", "CONFIRMED", "CANCELLED"}]
    BY <1>5 DEF FinalizeRefund
  <2> QED
    BY <1>5, <2>1, <2>2, <2>3 DEF FinalizeRefund
<1>6. CASE PartnerCancels(b) \/ CancelAffected(b)
  <2>1. /\ booking' \in [Bookings -> Unpaid \union Kept \union Closed]
        /\ seats' \in [Bookings -> {"HELD", "EXPIRED", "CONFIRMED", "CANCELLED"}]
        /\ UNCHANGED <<payment, paidBack>>
        /\ \/ UNCHANGED <<request, rescue>>
           \/ \E k \in Keys : RescueOrRefund(b, k)
    BY <1>0, <1>6 DEF PartnerCancels, CancelAffected
  <2>2. CASE UNCHANGED <<request, rescue>>
    BY <2>1, <2>2
  <2>3. ASSUME NEW k \in Keys, RescueOrRefund(b, k)
        PROVE  BooksType'
    BY <2>1, <2>3, RescueEffect, QueueEffect
  <2> QED
    BY <2>1, <2>2, <2>3
<1>7. CASE AcceptOption(b) \/ RefundCase(b)
  <2>1. UNCHANGED request \/ \E k \in Keys : Queue(b, k)
    BY <1>0, <1>7 DEF AcceptOption, RefundCase
  <2>2. request' \in [Bookings -> [Keys ->
            {"NONE", "PENDING", "CLAIMED", "PROCESSING", "APPROVED"}]]
    BY <2>1, QueueEffect
  <2> QED
    BY <1>7, <2>2 DEF AcceptOption, RefundCase
<1> QED
  BY <1>1, <1>2, <1>3, <1>4, <1>5, <1>6, <1>7 DEF Moved

\* The clock, the bank account and the desk of the administrators.
LEMMA RestTypeStep ==
    ASSUME TypeInv, [Next]_vars
    PROVE  /\ late' \subseteq Bookings /\ arrived' \subseteq Events
           /\ matched' \in [Bookings -> Admins \union {None}]
           /\ approved' \subseteq Bookings
           /\ approving' \in [Admins -> Bookings \union {None}]
<1> USE DEF desk
<1>0. /\ late \subseteq Bookings /\ arrived \subseteq Events
      /\ matched \in [Bookings -> Admins \union {None}]
      /\ approved \subseteq Bookings
      /\ approving \in [Admins -> Bookings \union {None}]
  BY DEF TypeInv, TypeOK
<1>1. CASE UNCHANGED vars
  BY <1>0, <1>1 DEF vars
<1>2. ASSUME NEW e \in Events, Transfer(e)
      PROVE  arrived' \subseteq Events /\ UNCHANGED <<late, desk>>
  BY <1>0, <1>2 DEF Transfer
<1>3. ASSUME NEW h \in Handlers, HandlerStep(h)
      PROVE  UNCHANGED <<late, arrived, desk>>
  BY <1>3 DEF HandlerStep, FindOrCreateWebhookEvent, ClaimWebhookEvent, AcknowledgeKnown,
              RequireReview, ConfirmFromWebhook, FinishWebhookEvent, FailWebhookEvent, Crash
<1>4. ASSUME NEW a \in Admins, NEW b \in Bookings, MatchStatement(a, b) \/ ConfirmMatch(a, b)
      PROVE  /\ matched' \in [Bookings -> Admins \union {None}]
             /\ approving' \in [Admins -> Bookings \union {None}]
             /\ UNCHANGED <<late, arrived, approved>>
  BY <1>0, <1>4 DEF MatchStatement, ConfirmMatch
<1>5. ASSUME NEW a \in Admins, ApproveMatch(a)
      PROVE  /\ approved' \subseteq Bookings
             /\ approving' \in [Admins -> Bookings \union {None}]
             /\ UNCHANGED <<late, arrived, matched>>
  BY <1>0, <1>5 DEF ApproveMatch
<1>6. ASSUME NEW b \in Bookings, BookingStep(b)
      PROVE  late' \subseteq Bookings /\ UNCHANGED <<arrived, desk>>
  BY <1>0, <1>6 DEF BookingStep, RunLate, SweepExpired, PartnerApproves, CreateRefundRequest,
                    SweepCompleted, ClaimRefund, CreateRefund, FinalizeRefund,
                    PartnerRejects, PartnerCancels, CancelAffected, AcceptOption, RefundCase
<1> QED
  BY <1>0, <1>1, <1>2, <1>3, <1>4, <1>5, <1>6 DEF Next

\* Who is no delivery leaves the webhook alone.
LEMMA WebhookAlone ==
    ASSUME [Next]_vars
    PROVE  \/ UNCHANGED <<webhook, crashes>>
           \/ \E h \in Handlers : HandlerStep(h)
<1>1. CASE UNCHANGED vars
  BY <1>1 DEF vars, webhook
<1>2. CASE \/ \E e \in Events : Transfer(e)
           \/ \E a \in Admins, b \in Bookings : MatchStatement(a, b) \/ ConfirmMatch(a, b)
           \/ \E a \in Admins : ApproveMatch(a)
           \/ \E b \in Bookings : BookingStep(b)
  BY <1>2 DEF Transfer, MatchStatement, ConfirmMatch, ApproveMatch, BookingStep, RunLate,
              SweepExpired, PartnerApproves, CreateRefundRequest, SweepCompleted, ClaimRefund,
              CreateRefund, FinalizeRefund, PartnerRejects, PartnerCancels, CancelAffected,
              AcceptOption, RefundCase
<1> QED
  BY <1>1, <1>2 DEF Next

LEMMA TypeInvariant == Spec => []TypeInv
<1>1. Init => TypeInv
  BY TransferAssumption DEF Init, TypeInv, TypeOK, Unpaid, Rest, Keys
<1>2. TypeInv /\ [Next]_vars => TypeInv'
  <2> SUFFICES ASSUME TypeInv, [Next]_vars
               PROVE  TypeInv'
    OBVIOUS
  <2>1. BooksType'
    <3>1. BooksType
      BY DEF TypeInv, TypeOK, BooksType
    <3>2. CASE UNCHANGED <<books, paidBack>>
      BY <3>1, <3>2 DEF BooksType, books
    <3> QED
      BY <3>1, <3>2, BooksKinds, BooksTypeStep
  <2>2. /\ event' \in [Events -> Terminal \union {"NONE", "RECEIVED", "PROCESSING", "FAILED"}]
        /\ handler' \in [Handlers -> [pc : {"idle", "found", "claimed", "confirmed"},
                                      event : Events \union {None}]]
        /\ \A g \in Handlers : handler'[g].pc # "idle" => handler'[g].event \in Events
        /\ acked' \subseteq Events /\ early' \subseteq Events
        /\ crashes' \in 0..MaxCrash
    <3>1. CASE UNCHANGED <<webhook, crashes>>
      BY <3>1 DEF TypeInv, TypeOK, webhook
    <3> QED
      BY <3>1, WebhookAlone, HandlerType
  <2> QED
    BY <2>1, <2>2, RestTypeStep DEF TypeInv, TypeOK, BooksType
<1> QED
  BY <1>1, <1>2, PTL DEF Spec

\* Type correctness, for any number of bookings, transfers and deliveries.
THEOREM TypeCorrect == Spec => []TypeOK
<1>1. TypeInv => TypeOK
  BY DEF TypeInv
<1> QED
  BY <1>1, TypeInvariant, PTL

-----------------------------------------------------------------------------
(* The books *)

\* OwedIsRequested of one booking, strengthened: a refund is asked for and a case is
\* opened only for money in the books, by one who finds no other, and a booking that is
\* still to be served has none.
OwedOK(b) ==
    /\ booking[b] \in Kept => b \in payment
    /\ b \in payment => booking[b] \notin Unpaid
    /\ booking[b] = "CANCELLED" /\ b \in payment =>
        \/ request[b]["system"] # "NONE" \/ request[b]["partner"] # "NONE"
        \/ rescue[b] # "NONE"
    /\ booking[b] = "REFUNDED" => \E k \in Keys : request[b][k] = "APPROVED"
    /\ rescue[b] # "REPLACED" =>
        \A k \in Keys : request[b][k] = "APPROVED" => booking[b] = "REFUNDED"
    /\ request[b]["recovery"] # "NONE" <=> rescue[b] \in {"REFUND_PENDING", "REFUNDED"}
    /\ request[b]["recovery"] = "APPROVED" <=> rescue[b] = "REFUNDED"
    /\ request[b]["difference"] # "NONE" => rescue[b] = "REPLACED"
    /\ rescue[b] # "NONE" =>
        /\ request[b]["system"] = "NONE" /\ request[b]["partner"] = "NONE"
        /\ request[b]["customer"] = "NONE"
    /\ request[b]["partner"] # "NONE" =>
        request[b]["system"] = "NONE" /\ request[b]["customer"] = "NONE"
    /\ booking[b] \in Unpaid \union {"CONFIRMED", "COMPLETED", "NO_SHOW"} =>
        request[b]["customer"] = "NONE"
    /\ booking[b] \in Unpaid \union Kept =>
        /\ rescue[b] = "NONE"
        /\ request[b]["system"] = "NONE" /\ request[b]["partner"] = "NONE"
    /\ (rescue[b] # "NONE" \/ \E k \in Keys : request[b][k] # "NONE") => b \in payment

OwedInv == BooksType /\ \A b \in Bookings : OwedOK(b)

\* A step about one booking does not touch the others.
Alone(b) ==
    \A c \in Bookings \ {b} :
        /\ booking'[c] = booking[c] /\ request'[c] = request[c]
        /\ rescue'[c] = rescue[c]
        /\ c \in payment' <=> c \in payment
        /\ paidBack'[c] = paidBack[c]

LEMMA OthersAlone ==
    ASSUME BooksType, NEW b \in Bookings, Confirmed(b) \/ Moved(b)
    PROVE  Alone(b)
<1> USE DEF BooksType, Alone
<1>1. CASE Confirmed(b)
  BY <1>1 DEF Confirmed, Fulfil, Refuse, Queue
<1>2. CASE SweepExpired(b) \/ PartnerApproves(b) \/ SweepCompleted(b) \/ CreateRefundRequest(b)
           \/ PartnerRejects(b)
  BY <1>2 DEF SweepExpired, PartnerApproves, SweepCompleted, CreateRefundRequest, PartnerRejects
<1>3. ASSUME NEW k \in Keys, ClaimRefund(b, k) \/ CreateRefund(b, k)
      PROVE  Alone(b)
  BY <1>3 DEF ClaimRefund, CreateRefund
<1>4. ASSUME NEW k \in Keys, FinalizeRefund(b, k)
      PROVE  Alone(b)
  BY <1>4 DEF FinalizeRefund
<1>5. CASE PartnerCancels(b) \/ CancelAffected(b)
  BY <1>5 DEF PartnerCancels, CancelAffected, RescueOrRefund, Queue
<1>6. CASE AcceptOption(b) \/ RefundCase(b)
  BY <1>6 DEF AcceptOption, RefundCase, Queue
<1> QED
  BY <1>1, <1>2, <1>3, <1>4, <1>5, <1>6 DEF Moved

\* A confirmation: money is kept with the booking, or the booking is cancelled and
\* a full refund is requested; a booking that was paid back is not confirmed again.
LEMMA ConfirmedKeepsOwed ==
    ASSUME OwedInv, NEW b \in Bookings, Confirmed(b)
    PROVE  OwedOK(b)'
<1>0. BooksType /\ OwedOK(b)
      /\ Keys = {"customer", "system", "partner", "recovery", "difference"}
  BY DEF OwedInv, Keys
<1>1. CASE Fulfil(b)
  <2>1. /\ booking[b] = "PENDING_PAYMENT" /\ booking'[b] = "CONFIRMED"
        /\ b \in payment' /\ request' = request /\ rescue' = rescue
    BY <1>0, <1>1 DEF Fulfil, CanFulfil, BooksType
  <2> QED
    BY <1>0, <2>1 DEF OwedOK, Unpaid, Kept
<1>2. CASE Refuse(b)
  <2>1. /\ booking'[b] = "CANCELLED" /\ b \in payment' /\ rescue' = rescue
        /\ Queue(b, "system")
    BY <1>0, <1>2 DEF Refuse, BooksType
  <2>2. /\ request'[b]["system"] # "NONE"
        /\ request'[b]["system"] # request[b]["system"] => request'[b]["system"] = "PENDING"
        /\ \A j \in Keys : j # "system" => request'[b][j] = request[b][j]
    BY <1>0, <2>1, QueueEffect
  <2>3. b \in payment => booking[b] \in {"NO_SHOW", "REFUND_REQUESTED"}
    BY <1>0, <1>2 DEF Refuse, AlreadyConfirmed, OwedOK, BooksType, Unpaid, Kept, Closed
  <2>4. /\ rescue[b] = "NONE" /\ request[b]["partner"] = "NONE"
        /\ \A k \in Keys : request[b][k] # "APPROVED"
    BY <1>0, <2>3 DEF OwedOK, Unpaid, Kept
  <2> QED
    BY <1>0, <2>1, <2>2, <2>4 DEF OwedOK, Unpaid, Kept
<1> QED
  BY <1>1, <1>2 DEF Confirmed

\* What the end of a refund does, key by key.
LEMMA FinalEffect ==
    ASSUME BooksType, NEW b \in Bookings, OwedOK(b), NEW k \in Keys, FinalizeRefund(b, k)
    PROVE  /\ request[b][k] = "PROCESSING" /\ request'[b][k] = "APPROVED"
           /\ payment' = payment
           /\ \A j \in Keys : j # k => request'[b][j] = request[b][j]
           /\ \/ /\ k = "difference" /\ rescue[b] = "REPLACED"
                 /\ booking'[b] = booking[b] /\ rescue'[b] = "REPLACED"
              \/ /\ k = "recovery" /\ rescue[b] = "REFUND_PENDING"
                 /\ booking'[b] = "REFUNDED" /\ rescue'[b] = "REFUNDED"
              \/ /\ k \in {"customer", "system", "partner"} /\ rescue[b] = "NONE"
                 /\ booking'[b] = "REFUNDED" /\ rescue'[b] = "NONE"
<1>0. /\ Keys = {"customer", "system", "partner", "recovery", "difference"}
      /\ Total \in Nat /\ paidBack[b] \in Nat
  BY TransferAssumption DEF Keys, BooksType
<1>1. /\ request[b][k] = "PROCESSING" /\ request'[b][k] = "APPROVED"
      /\ payment' = payment
      /\ \A j \in Keys : j # k => request'[b][j] = request[b][j]
      /\ booking'[b] = IF EndsBooking(b, k) THEN "REFUNDED" ELSE booking[b]
      /\ rescue'[b] = IF k \in {"customer", "system", "recovery"} /\ rescue[b] = "REFUND_PENDING"
                      THEN "REFUNDED" ELSE rescue[b]
  BY DEF FinalizeRefund, BooksType
<1>2. CASE k = "difference"
  <2>1. ~EndsBooking(b, k) /\ rescue[b] = "REPLACED"
    BY <1>1, <1>2 DEF EndsBooking, OwedOK
  <2> QED
    BY <1>1, <1>2, <2>1
<1>3. CASE k = "recovery"
  <2>1. /\ rescue[b] = "REFUND_PENDING"
        /\ \A j \in Keys \ {k} : request[b][j] = "NONE"
    BY <1>0, <1>1, <1>3 DEF OwedOK
  <2>2. AmountOf(k) = Total
    BY <1>3 DEF AmountOf
  <2>3. EndsBooking(b, k)
    BY <1>0, <1>3, <2>1, <2>2 DEF EndsBooking
  <2> QED
    BY <1>1, <1>3, <2>1, <2>3
<1>4. CASE k = "partner"
  <2>1. /\ rescue[b] = "NONE"
        /\ \A j \in Keys \ {k} : request[b][j] = "NONE"
    BY <1>0, <1>1, <1>4 DEF OwedOK
  <2>2. AmountOf(k) = Total
    BY <1>4 DEF AmountOf
  <2>3. EndsBooking(b, k)
    BY <1>0, <1>4, <2>1, <2>2 DEF EndsBooking
  <2> QED
    BY <1>1, <1>4, <2>1, <2>3
<1>5. CASE k \in {"customer", "system"}
  <2>1. rescue[b] = "NONE"
    BY <1>1, <1>5 DEF OwedOK
  <2>2. EndsBooking(b, k)
    BY <1>5 DEF EndsBooking
  <2> QED
    BY <1>1, <1>5, <2>1, <2>2
<1> QED
  BY <1>0, <1>2, <1>3, <1>4, <1>5

\* A cancellation nobody confirmed: of a booking without money, or of one that is kept.
LEMMA CancelEffect ==
    ASSUME BooksType, NEW b \in Bookings, OwedOK(b),
           PartnerRejects(b) \/ SweepExpired(b) \/ PartnerCancels(b) \/ CancelAffected(b)
    PROVE  /\ booking'[b] = "CANCELLED" /\ payment' = payment
           /\ \/ /\ booking[b] \in Unpaid /\ b \notin payment
                 /\ UNCHANGED <<request, rescue>>
              \/ /\ booking[b] = "CONFIRMED" /\ b \in payment
                 /\ \E k \in {"system", "partner"} : RescueOrRefund(b, k)
BY DEF PartnerRejects, SweepExpired, PartnerCancels, CancelAffected, BooksType, OwedOK, Unpaid

LEMMA MovedKeepsOwed ==
    ASSUME OwedInv, NEW b \in Bookings, Moved(b)
    PROVE  OwedOK(b)'
<1>0. BooksType /\ OwedOK(b)
      /\ Keys = {"customer", "system", "partner", "recovery", "difference"}
  BY DEF OwedInv, Keys
<1>1. CASE PartnerRejects(b) \/ SweepExpired(b) \/ PartnerCancels(b) \/ CancelAffected(b)
  <2>1. booking'[b] = "CANCELLED" /\ payment' = payment
    BY <1>0, <1>1, CancelEffect
  <2>2. CASE booking[b] \in Unpaid /\ b \notin payment /\ UNCHANGED <<request, rescue>>
    BY <1>0, <2>1, <2>2 DEF OwedOK, Unpaid, Kept
  <2>3. ASSUME booking[b] = "CONFIRMED", b \in payment,
               NEW k \in {"system", "partner"}, RescueOrRefund(b, k)
        PROVE  OwedOK(b)'
    <3>1. rescue[b] = "NONE" /\ \A j \in Keys : request[b][j] = "NONE"
      BY <1>0, <2>3 DEF OwedOK, Kept
    <3>2. CASE request' = request /\ rescue'[b] = "OPEN"
      BY <1>0, <2>1, <2>3, <3>1, <3>2 DEF OwedOK, Unpaid, Kept
    <3>3. CASE Queue(b, k) /\ rescue' = rescue
      <4>1. /\ request'[b][k] = "PENDING"
            /\ \A j \in Keys : j # k => request'[b][j] = "NONE"
        BY <1>0, <3>1, <3>3, QueueEffect
      <4> QED
        BY <1>0, <2>1, <2>3, <3>1, <3>3, <4>1 DEF OwedOK, Unpaid, Kept
    <3>4. \/ request' = request /\ rescue'[b] = "OPEN"
          \/ Queue(b, k) /\ rescue' = rescue
      <4>1. /\ k \in Keys
            /\ rescue \in [Bookings ->
                    {"NONE", "OPEN", "REPLACED", "REFUND_PENDING", "REFUNDED"}]
        BY <1>0 DEF BooksType
      <4> QED
        BY <1>0, <2>3, <3>1, <4>1, RescueEffect
    <3> QED
      BY <3>2, <3>3, <3>4
  <2> QED
    BY <1>0, <1>1, <2>2, <2>3, CancelEffect
<1>2. CASE PartnerApproves(b)
  <2>1. /\ booking[b] = "PENDING_PARTNER" /\ booking'[b] = "PENDING_PAYMENT"
        /\ UNCHANGED <<payment, request, rescue>>
    BY <1>0, <1>2 DEF PartnerApproves, BooksType
  <2> QED
    BY <1>0, <2>1 DEF OwedOK, Unpaid, Kept
<1>3. CASE SweepCompleted(b)
  <2>1. /\ booking[b] = "CONFIRMED" /\ booking'[b] \in {"COMPLETED", "NO_SHOW"}
        /\ UNCHANGED <<payment, request, rescue>>
    BY <1>0, <1>3 DEF SweepCompleted, BooksType
  <2> QED
    BY <1>0, <2>1 DEF OwedOK, Unpaid, Kept
<1>4. CASE CreateRefundRequest(b)
  <2>1. /\ booking[b] = "CONFIRMED" /\ booking'[b] = "REFUND_REQUESTED"
        /\ UNCHANGED <<payment, rescue>>
        /\ request'[b]["customer"] = "PENDING"
        /\ \A k \in Keys : k # "customer" => request'[b][k] = request[b][k]
    BY <1>0, <1>4 DEF CreateRefundRequest, BooksType
  <2> QED
    BY <1>0, <2>1 DEF OwedOK, Unpaid, Kept
<1>5. ASSUME NEW k \in Keys, ClaimRefund(b, k) \/ CreateRefund(b, k)
      PROVE  OwedOK(b)'
  <2>1. /\ request[b][k] \in {"PENDING", "CLAIMED"}
        /\ request'[b][k] \in {"CLAIMED", "PROCESSING", "PENDING"}
        /\ UNCHANGED <<booking, payment, rescue>>
        /\ \A j \in Keys : j # k => request'[b][j] = request[b][j]
    BY <1>0, <1>5 DEF ClaimRefund, CreateRefund, BooksType
  <2> QED
    BY <1>0, <2>1 DEF OwedOK
<1>6. ASSUME NEW k \in Keys, FinalizeRefund(b, k)
      PROVE  OwedOK(b)'
  <2>1. /\ request[b][k] = "PROCESSING" /\ request'[b][k] = "APPROVED"
        /\ payment' = payment
        /\ \A j \in Keys : j # k => request'[b][j] = request[b][j]
    BY <1>0, <1>6, FinalEffect
  <2>2. CASE /\ k = "difference" /\ rescue[b] = "REPLACED"
             /\ booking'[b] = booking[b] /\ rescue'[b] = "REPLACED"
    BY <1>0, <2>1, <2>2 DEF OwedOK
  <2>3. CASE /\ k = "recovery" /\ rescue[b] = "REFUND_PENDING"
             /\ booking'[b] = "REFUNDED" /\ rescue'[b] = "REFUNDED"
    BY <1>0, <2>1, <2>3 DEF OwedOK, Unpaid, Kept
  <2>4. CASE /\ k \in {"customer", "system", "partner"} /\ rescue[b] = "NONE"
             /\ booking'[b] = "REFUNDED" /\ rescue'[b] = "NONE"
    BY <1>0, <2>1, <2>4 DEF OwedOK, Unpaid, Kept
  <2> QED
    BY <1>0, <1>6, <2>2, <2>3, <2>4, FinalEffect
<1>7. CASE AcceptOption(b) \/ RefundCase(b)
  <2>1. /\ rescue[b] = "OPEN" /\ UNCHANGED <<booking, payment>>
        /\ \/ rescue'[b] = "REPLACED" /\ (Queue(b, "difference") \/ request' = request)
           \/ rescue'[b] = "REFUND_PENDING" /\ Queue(b, "recovery")
    BY <1>0, <1>7 DEF AcceptOption, RefundCase, BooksType
  <2>2. /\ b \in payment /\ booking[b] \notin Unpaid \union Kept
        /\ \A k \in Keys : request[b][k] = "NONE"
    BY <1>0, <2>1 DEF OwedOK
  <2>3. CASE rescue'[b] = "REPLACED" /\ request' = request
    BY <1>0, <2>1, <2>2, <2>3 DEF OwedOK
  <2>4. CASE rescue'[b] = "REPLACED" /\ Queue(b, "difference")
    <3>1. /\ request'[b]["difference"] = "PENDING"
          /\ \A j \in Keys : j # "difference" => request'[b][j] = "NONE"
      BY <1>0, <2>2, <2>4, QueueEffect
    <3> QED
      BY <1>0, <2>1, <2>2, <2>4, <3>1 DEF OwedOK
  <2>5. CASE rescue'[b] = "REFUND_PENDING" /\ Queue(b, "recovery")
    <3>1. /\ request'[b]["recovery"] = "PENDING"
          /\ \A j \in Keys : j # "recovery" => request'[b][j] = "NONE"
      BY <1>0, <2>2, <2>5, QueueEffect
    <3> QED
      BY <1>0, <2>1, <2>2, <2>5, <3>1 DEF OwedOK
  <2> QED
    BY <2>1, <2>3, <2>4, <2>5
<1> QED
  BY <1>1, <1>2, <1>3, <1>4, <1>5, <1>6, <1>7 DEF Moved

LEMMA OwedInvariant == Spec => []OwedInv
<1>1. Init => OwedInv
  <2>1. Init => BooksType
    BY DEF Init, BooksType, Unpaid, Keys
  <2> QED
    BY <2>1 DEF Init, OwedInv, OwedOK, Unpaid, Kept, Keys
<1>2. TypeInv /\ OwedInv /\ [Next]_vars => OwedInv'
  <2> SUFFICES ASSUME TypeInv, OwedInv, [Next]_vars
               PROVE  OwedInv'
    OBVIOUS
  <2>1. CASE UNCHANGED <<books, paidBack>>
    BY <2>1 DEF OwedInv, OwedOK, BooksType, books
  <2>2. ASSUME NEW b \in Bookings, Confirmed(b) \/ Moved(b)
        PROVE  OwedInv'
    <3>1. BooksType'
      BY <2>2, BooksTypeStep DEF OwedInv
    <3>2. OwedOK(b)'
      BY <2>2, ConfirmedKeepsOwed, MovedKeepsOwed
    <3>3. ASSUME NEW c \in Bookings, c # b
          PROVE  OwedOK(c)'
      <4>1. OwedOK(c) /\ Alone(b)
        BY <2>2, OthersAlone DEF OwedInv
      <4> QED
        BY <3>3, <4>1 DEF OwedOK, Alone
    <3> QED
      BY <3>1, <3>2, <3>3 DEF OwedInv
  <2> QED
    BY <2>1, <2>2, BooksKinds
<1> QED
  BY <1>1, <1>2, TypeInvariant, PTL DEF Spec

\* Money in the books is kept for a booking that is served or promised by exactly one
\* remedy, for any number of bookings, confirmations, cancellations and refunds.
THEOREM OwedRequested == Spec => []OwedIsRequested
<1>1. ASSUME OwedInv, NEW b \in Bookings
      PROVE  /\ booking[b] = "CANCELLED" /\ b \in payment => Remedies(b) # {}
             /\ \A k, j \in Remedies(b) : k = j
  BY <1>1 DEF OwedInv, OwedOK, Remedies
<1>2. ASSUME OwedInv
      PROVE  OwedIsRequested
  BY <1>1, <1>2 DEF OwedInv, OwedOK, OwedIsRequested
<1> QED
  BY <1>2, OwedInvariant, PTL

\* A step that confirms the payment of b is one of the two that call confirmBankTransfer.
LEMMA ConfirmationIs ==
    ASSUME TypeInv, [Next]_vars, NEW b \in Bookings, ConfirmationOf(b)
    PROVE  ConfirmBankTransfer(b)
<1>0. /\ handler \in [Handlers -> [pc : {"idle", "found", "claimed", "confirmed"},
                                   event : Events \union {None}]]
      /\ approving \in [Admins -> Bookings \union {None}] /\ None \notin Bookings
  BY TransferAssumption DEF TypeInv, TypeOK
<1>1. ASSUME NEW h \in Handlers, handler[h].pc = "claimed", handler'[h].pc = "confirmed",
             EventBooking[handler[h].event] = b
      PROVE  ConfirmBankTransfer(b)
  <2>1. PICK g \in Handlers : HandlerStep(g)
    BY <1>1, WebhookAlone DEF webhook
  <2>2. CASE ConfirmFromWebhook(g)
    <3>1. g = h
      BY <1>0, <1>1, <2>2 DEF ConfirmFromWebhook
    <3> QED
      BY <1>1, <2>2, <3>1 DEF ConfirmFromWebhook
  <2>3. CASE ~ConfirmFromWebhook(g)
    <3>1. \/ handler' = [handler EXCEPT ![g] = Rest]
          \/ handler' = [handler EXCEPT ![g].pc = "claimed"]
          \/ \E e \in Events : handler' = [handler EXCEPT ![g] = [pc |-> "found", event |-> e]]
      BY <2>1, <2>3
      DEF HandlerStep, FindOrCreateWebhookEvent, ClaimWebhookEvent, AcknowledgeKnown,
          RequireReview, FinishWebhookEvent, FailWebhookEvent, Crash, Acknowledge
    <3>2. handler'[h].pc = "confirmed" => handler[h].pc = "confirmed"
      BY <1>0, <3>1 DEF Rest
    <3> QED
      BY <1>1, <3>2
  <2> QED
    BY <2>2, <2>3
<1>2. ASSUME NEW a \in Admins, approving[a] = None, approving'[a] = b
      PROVE  ConfirmBankTransfer(b)
  <2>1. CASE \E d \in Admins, c \in Bookings : ConfirmMatch(d, c)
    <3>1. PICK d \in Admins, c \in Bookings : ConfirmMatch(d, c)
      BY <2>1
    <3>2. ConfirmBankTransfer(c) /\ approving' = [approving EXCEPT ![d] = c]
      BY <3>1 DEF ConfirmMatch
    <3>3. c = b
      BY <1>0, <1>2, <3>2
    <3> QED
      BY <3>2, <3>3
  <2>2. CASE \E d \in Admins : ApproveMatch(d)
    BY <1>0, <1>2, <2>2 DEF ApproveMatch
  <2>3. CASE \/ UNCHANGED vars
             \/ \E e \in Events : Transfer(e)
             \/ \E h \in Handlers : HandlerStep(h)
             \/ \E d \in Admins, c \in Bookings : MatchStatement(d, c)
             \/ \E c \in Bookings : BookingStep(c)
    <3>1. approving' = approving
      BY <2>3 DEF vars, desk, Transfer, HandlerStep, FindOrCreateWebhookEvent,
                  ClaimWebhookEvent, AcknowledgeKnown, RequireReview, ConfirmFromWebhook,
                  FinishWebhookEvent, FailWebhookEvent, Crash, MatchStatement, BookingStep,
                  RunLate, SweepExpired, PartnerApproves, CreateRefundRequest, SweepCompleted,
                  ClaimRefund, CreateRefund, FinalizeRefund, PartnerRejects, PartnerCancels,
                  CancelAffected, AcceptOption, RefundCase
    <3> QED
      BY <1>0, <1>2, <3>1
  <2> QED
    BY <2>1, <2>2, <2>3 DEF Next
<1> QED
  BY <1>1, <1>2 DEF ConfirmationOf

\* A repeated confirmation changes nothing in the books of a paid booking unless its
\* refund was asked for or its visit was missed: no other order of webhooks, matches,
\* cancellations and refunds reaches finding 4.
THEOREM RepeatsAreIdempotent == Spec => RepeatsChangeEndedOnly
<1>1. TypeInv /\ OwedInv /\ [Next]_vars =>
        [\A b \in payment :
            ConfirmationOf(b) /\ booking[b] \notin {"REFUND_REQUESTED", "NO_SHOW"}
                => UNCHANGED books]_vars
  <2> SUFFICES ASSUME TypeInv, OwedInv, [Next]_vars,
                      NEW b \in payment, ConfirmationOf(b),
                      booking[b] \notin {"REFUND_REQUESTED", "NO_SHOW"}
               PROVE  UNCHANGED books
    OBVIOUS
  <2>1. b \in Bookings
    BY DEF OwedInv, BooksType
  <2>2. booking[b] \in {"CONFIRMED", "COMPLETED", "CANCELLED", "REFUNDED"}
    BY <2>1 DEF OwedInv, BooksType, OwedOK, Unpaid, Kept, Closed
  <2>3. AlreadyConfirmed(b)
    BY <2>2 DEF AlreadyConfirmed, Closed
  <2>4. ConfirmBankTransfer(b)
    BY <2>1, ConfirmationIs
  <2> QED
    BY <2>3, <2>4 DEF ConfirmBankTransfer, Fulfil, Refuse
<1> QED
  BY <1>1, TypeInvariant, OwedInvariant, PTL DEF Spec, RepeatsChangeEndedOnly

-----------------------------------------------------------------------------
(* The money paid back *)

\* Of one booking, one refund runs at a time, and it fits into what is left.
PaidOK(b) ==
    /\ paidBack[b] =< Total
    /\ \A k \in Keys : request[b][k] = "PROCESSING" => AmountOf(k) + paidBack[b] =< Total
    /\ \A j, k \in Keys :
        request[b][j] = "PROCESSING" /\ request[b][k] = "PROCESSING" => j = k

PaidInv == BooksType /\ \A b \in Bookings : PaidOK(b)

LEMMA PaidStep ==
    ASSUME PaidInv, NEW b \in Bookings, Confirmed(b) \/ Moved(b)
    PROVE  PaidOK(b)'
<1>0. /\ BooksType /\ PaidOK(b)
      /\ {"system", "customer", "partner", "recovery", "difference"} \subseteq Keys
      /\ Total \in Nat /\ paidBack[b] \in Nat
      /\ \A k \in Keys : AmountOf(k) \in Nat /\ AmountOf(k)' = AmountOf(k)
  BY TransferAssumption DEF PaidInv, Keys, BooksType, AmountOf
<1>1. ASSUME paidBack' = paidBack,
             \A k \in Keys : request'[b][k] = "PROCESSING" => request[b][k] = "PROCESSING"
      PROVE  PaidOK(b)'
  BY <1>0, <1>1 DEF PaidOK
<1>2. CASE Confirmed(b)
  <2>1. UNCHANGED <<request, paidBack>> \/ (Queue(b, "system") /\ UNCHANGED paidBack)
    BY <1>2 DEF Confirmed, Fulfil, Refuse
  <2> QED
    BY <1>0, <1>1, <2>1, QueueEffect
<1>3. CASE SweepExpired(b) \/ PartnerApproves(b) \/ SweepCompleted(b) \/ PartnerRejects(b)
  BY <1>1, <1>3 DEF SweepExpired, PartnerApproves, SweepCompleted, PartnerRejects
<1>8. CASE PartnerCancels(b) \/ CancelAffected(b) \/ AcceptOption(b) \/ RefundCase(b)
  <2>1. /\ UNCHANGED paidBack
        /\ UNCHANGED request \/ \E k \in Keys : Queue(b, k)
    BY <1>0, <1>8 DEF PartnerCancels, CancelAffected, AcceptOption, RefundCase, RescueOrRefund
  <2> QED
    BY <1>0, <1>1, <2>1, QueueEffect
<1>4. CASE CreateRefundRequest(b)
  BY <1>0, <1>1, <1>4 DEF CreateRefundRequest, BooksType
<1>5. ASSUME NEW k \in Keys, ClaimRefund(b, k)
      PROVE  PaidOK(b)'
  BY <1>0, <1>1, <1>5 DEF ClaimRefund, BooksType
<1>6. ASSUME NEW k \in Keys, CreateRefund(b, k)
      PROVE  PaidOK(b)'
  <2>1. /\ paidBack' = paidBack
        /\ \A j \in Keys : j # k => request'[b][j] = request[b][j]
        /\ request'[b][k] = IF Refundable(b, k) THEN "PROCESSING" ELSE "PENDING"
    BY <1>0, <1>6 DEF CreateRefund, BooksType
  <2>2. CASE ~Refundable(b, k)
    BY <1>1, <2>1, <2>2
  <2>3. CASE Refundable(b, k)
    <3>1. /\ \A j \in Keys : j # k => request[b][j] # "PROCESSING"
          /\ AmountOf(k) + paidBack[b] =< Total
      BY <2>3 DEF Refundable
    <3>2. \A j \in Keys : request'[b][j] = "PROCESSING" => j = k
      BY <2>1, <3>1
    <3> QED
      BY <1>0, <2>1, <3>1, <3>2 DEF PaidOK
  <2> QED
    BY <2>2, <2>3
<1>7. ASSUME NEW k \in Keys, FinalizeRefund(b, k)
      PROVE  PaidOK(b)'
  <2>1. /\ request[b][k] = "PROCESSING"
        /\ paidBack'[b] = paidBack[b] + AmountOf(k)
        /\ request'[b][k] = "APPROVED"
        /\ \A j \in Keys : j # k => request'[b][j] = request[b][j]
    BY <1>0, <1>7 DEF FinalizeRefund, BooksType
  <2>2. paidBack'[b] =< Total
    BY <1>0, <2>1 DEF PaidOK
  <2>3. \A j \in Keys : request'[b][j] # "PROCESSING"
    BY <1>0, <2>1 DEF PaidOK
  <2> QED
    BY <2>2, <2>3 DEF PaidOK
<1> QED
  BY <1>2, <1>3, <1>4, <1>5, <1>6, <1>7, <1>8 DEF Moved

LEMMA PaidInvariant == Spec => []PaidInv
<1>1. Init => PaidInv
  BY TransferAssumption DEF Init, BooksType, Unpaid, Keys, PaidInv, PaidOK
<1>2. TypeInv /\ PaidInv /\ [Next]_vars => PaidInv'
  <2> SUFFICES ASSUME TypeInv, PaidInv, [Next]_vars
               PROVE  PaidInv'
    OBVIOUS
  <2>1. CASE UNCHANGED <<books, paidBack>>
    BY <2>1 DEF PaidInv, PaidOK, BooksType, books
  <2>2. ASSUME NEW b \in Bookings, Confirmed(b) \/ Moved(b)
        PROVE  PaidInv'
    <3>1. BooksType' /\ PaidOK(b)'
      BY <2>2, BooksTypeStep, PaidStep DEF PaidInv
    <3>2. ASSUME NEW c \in Bookings, c # b
          PROVE  PaidOK(c)'
      <4>1. PaidOK(c) /\ Alone(b)
        BY <2>2, OthersAlone DEF PaidInv
      <4> QED
        BY <3>2, <4>1 DEF PaidOK, Alone, AmountOf
    <3> QED
      BY <3>1, <3>2 DEF PaidInv
  <2> QED
    BY <2>1, <2>2, BooksKinds
<1> QED
  BY <1>1, <1>2, TypeInvariant, PTL DEF Spec

\* The refund requests of a booking never pay back more than it cost, whatever the
\* amounts and the order in which staff work on them.
THEOREM PaidBackBounded == Spec => []PaidBackWithinPayment
<1>1. PaidInv => PaidBackWithinPayment
  BY DEF PaidInv, PaidOK, PaidBackWithinPayment
<1> QED
  BY <1>1, PaidInvariant, PTL

-----------------------------------------------------------------------------
(* What SePay is told *)

\* A finished event is in the books if its amount was right, and so is a confirmed
\* one that is not finished.
AckInv ==
    /\ \A e \in Events :
        /\ event[e] = "PROCESSED" => EventBooking[e] \in payment
        /\ event[e] = "REVIEW_REQUIRED" => e \notin Exact
    /\ \A h \in Handlers :
        handler[h].pc = "confirmed" => EventBooking[handler[h].event] \in payment
    /\ AcknowledgedIsRecorded

\* Whoever confirms a payment finds it in the books afterwards.
LEMMA ConfirmationRecords ==
    ASSUME OwedInv, NEW b \in Bookings, ConfirmBankTransfer(b)
    PROVE  b \in payment'
<1>1. CASE Fulfil(b) \/ Refuse(b)
  BY <1>1 DEF Fulfil, Refuse
<1>2. CASE AlreadyConfirmed(b) /\ UNCHANGED books
  BY <1>2 DEF AlreadyConfirmed, OwedInv, OwedOK, Kept, books
<1> QED
  BY <1>1, <1>2 DEF ConfirmBankTransfer

\* A payment in the books stays there.
LEMMA PaymentStays ==
    ASSUME TypeInv, [Next]_vars
    PROVE  payment \subseteq payment'
<1>1. CASE UNCHANGED <<books, paidBack>>
  BY <1>1 DEF books
<1>2. ASSUME NEW b \in Bookings, Confirmed(b) \/ Moved(b)
      PROVE  payment \subseteq payment'
  BY <1>2 DEF Confirmed, Fulfil, Refuse, Moved, SweepExpired, PartnerApproves,
              CreateRefundRequest, SweepCompleted, ClaimRefund, CreateRefund, FinalizeRefund,
              PartnerRejects, PartnerCancels, CancelAffected, AcceptOption, RefundCase
<1> QED
  BY <1>1, <1>2, BooksKinds

\* One step of a delivery.
LEMMA HandlerKeepsAck ==
    ASSUME TypeInv, OwedInv, AckInv, payment \subseteq payment',
           NEW h \in Handlers, HandlerStep(h)
    PROVE  AckInv'
<1> DEFINE e == handler[h].event
<1>0. /\ event \in [Events -> Terminal \union {"NONE", "RECEIVED", "PROCESSING", "FAILED"}]
      /\ handler \in [Handlers -> [pc : {"idle", "found", "claimed", "confirmed"},
                                   event : Events \union {None}]]
      /\ \A g \in Handlers : handler[g].pc # "idle" => handler[g].event \in Events
      /\ Rest.pc = "idle" /\ Exact \subseteq Events
  BY TransferAssumption DEF TypeInv, TypeOK, Rest
<1>1. ASSUME handler' = [handler EXCEPT ![h] = Rest]
             \/ UNCHANGED handler
             \/ handler' = [handler EXCEPT ![h].pc = "claimed"]
             \/ \E f \in Events : handler' = [handler EXCEPT ![h] = [pc |-> "found", event |-> f]]
      PROVE  \A g \in Handlers :
                handler'[g].pc = "confirmed" => EventBooking[handler'[g].event] \in payment'
  <2>1. ASSUME NEW g \in Handlers, handler'[g].pc = "confirmed"
        PROVE  handler'[g] = handler[g]
    BY <1>0, <1>1, <2>1
  <2> QED
    BY <2>1 DEF AckInv
<1>2. ASSUME UNCHANGED <<acked, early>>
      PROVE  AcknowledgedIsRecorded'
  BY <1>2 DEF AckInv, AcknowledgedIsRecorded
<1>3. ASSUME NEW f \in Events, FindOrCreateWebhookEvent(h, f)
      PROVE  AckInv'
  <2>1. \A c \in Events : event'[c] \in Terminal => event'[c] = event[c]
    BY <1>0, <1>3 DEF FindOrCreateWebhookEvent, Terminal
  <2>2. \A c \in Events :
          /\ event'[c] = "PROCESSED" => EventBooking[c] \in payment'
          /\ event'[c] = "REVIEW_REQUIRED" => c \notin Exact
    BY <2>1 DEF AckInv, Terminal
  <2> QED
    BY <1>1, <1>2, <1>3, <2>2 DEF FindOrCreateWebhookEvent, AckInv
<1>4. ASSUME ClaimWebhookEvent(h) \/ FailWebhookEvent(h) \/ Crash(h)
      PROVE  AckInv'
  <2>1. \A c \in Events : event'[c] \in Terminal => event'[c] = event[c]
    BY <1>0, <1>4 DEF ClaimWebhookEvent, FailWebhookEvent, Crash, Terminal
  <2>2. \A c \in Events :
          /\ event'[c] = "PROCESSED" => EventBooking[c] \in payment'
          /\ event'[c] = "REVIEW_REQUIRED" => c \notin Exact
    BY <2>1 DEF AckInv, Terminal
  <2> QED
    BY <1>1, <1>2, <1>4, <2>2 DEF ClaimWebhookEvent, FailWebhookEvent, Crash, AckInv
<1>5. CASE AcknowledgeKnown(h)
  <2>1. /\ event[e] \in Terminal \/ (event[e] = "PROCESSING" /\ e \in early')
        /\ acked' = acked \union {e} /\ early \subseteq early'
        /\ event' = event /\ handler' = [handler EXCEPT ![h] = Rest]
    <3>1. /\ event[e] \in Terminal \union {"PROCESSING"}
          /\ early' = IF event[e] = "PROCESSING" THEN early \union {e} ELSE early
          /\ acked' = acked \union {e}
          /\ event' = event /\ handler' = [handler EXCEPT ![h] = Rest]
      BY <1>5 DEF AcknowledgeKnown, Acknowledge
    <3>2. early \subseteq early' /\ (event[e] = "PROCESSING" => e \in early')
      BY <3>1
    <3> QED
      BY <3>1, <3>2
  <2>2. e \in Events
    BY <1>0, <1>5 DEF AcknowledgeKnown
  <2>3. e \in Exact /\ e \notin early' => EventBooking[e] \in payment'
    BY <2>1, <2>2 DEF AckInv, Terminal
  <2>4. AcknowledgedIsRecorded'
    BY <2>1, <2>3 DEF AckInv, AcknowledgedIsRecorded
  <2> QED
    BY <1>1, <2>1, <2>4 DEF AckInv
<1>6. CASE RequireReview(h)
  <2>1. /\ e \in Events /\ e \notin Exact
        /\ event' = [event EXCEPT ![e] = "REVIEW_REQUIRED"]
        /\ acked' = acked \union {e} /\ early' = early
        /\ handler' = [handler EXCEPT ![h] = Rest]
    BY <1>0, <1>6 DEF RequireReview, Acknowledge
  <2>2. \A c \in Events :
          /\ event'[c] = "PROCESSED" => EventBooking[c] \in payment'
          /\ event'[c] = "REVIEW_REQUIRED" => c \notin Exact
    BY <1>0, <2>1 DEF AckInv
  <2>3. AcknowledgedIsRecorded'
    BY <2>1 DEF AckInv, AcknowledgedIsRecorded
  <2> QED
    BY <1>1, <2>1, <2>2, <2>3 DEF AckInv
<1>7. CASE ConfirmFromWebhook(h)
  <2>1. /\ e \in Events /\ EventBooking[e] \in Bookings
        /\ ConfirmBankTransfer(EventBooking[e])
        /\ handler' = [handler EXCEPT ![h].pc = "confirmed"]
        /\ UNCHANGED <<event, acked, early>>
    BY <1>0, <1>7, TransferAssumption DEF ConfirmFromWebhook
  <2>2. EventBooking[e] \in payment'
    BY <2>1, ConfirmationRecords
  <2>3. \A g \in Handlers : handler'[g].event = handler[g].event
    BY <1>0, <2>1
  <2>4. \A g \in Handlers : g # h => handler'[g].pc = handler[g].pc
    BY <1>0, <2>1
  <2>5. \A g \in Handlers :
          handler'[g].pc = "confirmed" => EventBooking[handler'[g].event] \in payment'
    BY <2>2, <2>3, <2>4 DEF AckInv
  <2> QED
    BY <1>2, <2>1, <2>5 DEF AckInv
<1>8. CASE FinishWebhookEvent(h)
  <2>1. /\ e \in Events /\ EventBooking[e] \in payment'
        /\ event' = [event EXCEPT ![e] = "PROCESSED"]
        /\ acked' = acked \union {e} /\ early' = early
        /\ handler' = [handler EXCEPT ![h] = Rest]
    BY <1>0, <1>8 DEF FinishWebhookEvent, Acknowledge, AckInv
  <2>2. \A c \in Events :
          /\ event'[c] = "PROCESSED" => EventBooking[c] \in payment'
          /\ event'[c] = "REVIEW_REQUIRED" => c \notin Exact
    BY <1>0, <2>1 DEF AckInv
  <2>3. AcknowledgedIsRecorded'
    BY <2>1 DEF AckInv, AcknowledgedIsRecorded
  <2> QED
    BY <1>1, <2>1, <2>2, <2>3 DEF AckInv
<1> QED
  BY <1>3, <1>4, <1>5, <1>6, <1>7, <1>8 DEF HandlerStep

LEMMA AckInvariant == Spec => []AckInv
<1>1. Init => AckInv
  BY DEF Init, AckInv, AcknowledgedIsRecorded, Rest
<1>2. TypeInv /\ OwedInv /\ AckInv /\ [Next]_vars => AckInv'
  <2> SUFFICES ASSUME TypeInv, OwedInv, AckInv, [Next]_vars
               PROVE  AckInv'
    OBVIOUS
  <2>1. payment \subseteq payment'
    BY PaymentStays
  <2>2. CASE UNCHANGED <<webhook, crashes>>
    BY <2>1, <2>2 DEF webhook, AckInv, AcknowledgedIsRecorded
  <2> QED
    BY <2>1, <2>2, WebhookAlone, HandlerKeepsAck
<1> QED
  BY <1>1, <1>2, TypeInvariant, OwedInvariant, PTL DEF Spec

\* A transfer SePay is told to forget is in the books, unless it was acknowledged
\* while another delivery was at work, however often SePay repeats it.
THEOREM AcknowledgedRecorded == Spec => []AcknowledgedIsRecorded
<1>1. AckInv => AcknowledgedIsRecorded
  BY DEF AckInv
<1> QED
  BY <1>1, AckInvariant, PTL

-----------------------------------------------------------------------------
(* What a payment stands on *)

\* Deliveries carry transfers that arrived, and a match is of one.
RealInv ==
    /\ PaymentsAreReal
    /\ \A h \in Handlers : handler[h].pc # "idle" => handler[h].event \in arrived
    /\ \A b \in Bookings : matched[b] # None => InAccount(b)

\* Only a confirmation adds a payment, and only that of its booking.
LEMMA ConfirmationAdds ==
    ASSUME NEW b \in Bookings, ConfirmBankTransfer(b)
    PROVE  payment' \subseteq payment \union {b}
BY DEF ConfirmBankTransfer, Fulfil, Refuse, books

LEMMA RealStep ==
    ASSUME TypeInv, OwedInv, RealInv, [Next]_vars
    PROVE  RealInv'
<1> USE DEF RealInv, PaymentsAreReal, InAccount
<1>0. /\ handler \in [Handlers -> [pc : {"idle", "found", "claimed", "confirmed"},
                                   event : Events \union {None}]]
      /\ matched \in [Bookings -> Admins \union {None}]
      /\ approving \in [Admins -> Bookings \union {None}]
      /\ \A h \in Handlers : handler[h].pc # "idle" => handler[h].event \in Events
      /\ Rest.pc = "idle"
      /\ None \notin Bookings \union Events \union Admins
      /\ EventBooking \in [Events -> Bookings]
  BY TransferAssumption DEF TypeInv, TypeOK, Rest
<1>1. payment \subseteq payment'
  BY PaymentStays
<1>2. ASSUME NEW e \in Events, Transfer(e)
      PROVE  RealInv'
  BY <1>2 DEF Transfer, books, webhook, desk
<1>3. ASSUME NEW h \in Handlers, ConfirmFromWebhook(h)
      PROVE  RealInv'
  <2>1. PICK b \in Bookings : b = EventBooking[handler[h].event] /\ ConfirmBankTransfer(b)
    BY <1>0, <1>3 DEF ConfirmFromWebhook
  <2>2. InAccount(b) /\ payment' \subseteq payment \union {b}
    BY <1>3, <2>1, ConfirmationAdds DEF ConfirmFromWebhook
  <2>3. \A g \in Handlers : handler'[g].event = handler[g].event
                           /\ (handler'[g].pc # "idle" => handler[g].pc # "idle")
    BY <1>0, <1>3 DEF ConfirmFromWebhook
  <2> QED
    BY <1>1, <1>3, <2>2, <2>3 DEF ConfirmFromWebhook, desk
<1>4. ASSUME NEW h \in Handlers, HandlerStep(h), ~ConfirmFromWebhook(h)
      PROVE  RealInv'
  <2>1. UNCHANGED <<books, arrived, desk>>
    BY <1>4
    DEF HandlerStep, FindOrCreateWebhookEvent, ClaimWebhookEvent, AcknowledgeKnown,
        RequireReview, FinishWebhookEvent, FailWebhookEvent, Crash
  <2>2. \/ handler' = [handler EXCEPT ![h] = Rest]
        \/ handler[h].pc # "idle" /\ handler' = [handler EXCEPT ![h].pc = "claimed"]
        \/ \E e \in arrived : handler' = [handler EXCEPT ![h] = [pc |-> "found", event |-> e]]
    BY <1>4
    DEF HandlerStep, FindOrCreateWebhookEvent, ClaimWebhookEvent, AcknowledgeKnown,
        RequireReview, FinishWebhookEvent, FailWebhookEvent, Crash, Acknowledge
  <2>3. \A g \in Handlers : handler'[g].pc # "idle" => handler'[g].event \in arrived
    BY <1>0, <2>2
  <2> QED
    BY <2>1, <2>3 DEF books, desk
<1>5. ASSUME NEW a \in Admins, NEW b \in Bookings, MatchStatement(a, b)
      PROVE  RealInv'
  <2>1. /\ matched[b] = None /\ InAccount(b) /\ matched' = [matched EXCEPT ![b] = a]
        /\ UNCHANGED <<books, arrived, webhook, approved, approving>>
    BY <1>5 DEF MatchStatement
  <2> QED
    BY <1>0, <2>1 DEF books, webhook
<1>6. ASSUME NEW a \in Admins, NEW b \in Bookings, ConfirmMatch(a, b)
      PROVE  RealInv'
  <2>1. /\ matched[b] \notin {None, a} /\ ConfirmBankTransfer(b)
        /\ approving' = [approving EXCEPT ![a] = b]
        /\ UNCHANGED <<arrived, webhook, matched, approved>>
    BY <1>6 DEF ConfirmMatch
  <2>2. payment' \subseteq payment \union {b} /\ b \in payment' /\ InAccount(b)
    BY <2>1, ConfirmationAdds, ConfirmationRecords
  <2> QED
    BY <1>0, <1>1, <2>1, <2>2 DEF webhook
<1>7. ASSUME NEW a \in Admins, ApproveMatch(a)
      PROVE  RealInv'
  <2>1. /\ approving[a] # None /\ approving' = [approving EXCEPT ![a] = None]
        /\ approved' \subseteq approved \union {approving[a]}
        /\ UNCHANGED <<books, arrived, webhook, matched>>
    BY <1>7 DEF ApproveMatch
  <2> QED
    BY <1>0, <2>1 DEF books, webhook
<1>8. ASSUME NEW b \in Bookings, BookingStep(b)
      PROVE  RealInv'
  <2>1. UNCHANGED <<payment, arrived, webhook, desk>>
    BY <1>8 DEF BookingStep, RunLate, SweepExpired, PartnerApproves, CreateRefundRequest,
                SweepCompleted, ClaimRefund, CreateRefund, FinalizeRefund, PartnerRejects,
                PartnerCancels, CancelAffected, AcceptOption, RefundCase, books
  <2> QED
    BY <2>1 DEF webhook, desk
<1>9. CASE UNCHANGED vars
  BY <1>9 DEF vars
<1> QED
  BY <1>2, <1>3, <1>4, <1>5, <1>6, <1>7, <1>8, <1>9 DEF Next

\* Nothing is recorded that is not in the account, and nobody approves alone: for any
\* transfers, deliveries, administrators and crashes.
THEOREM RecordedIsReal == Spec => []PaymentsAreReal
<1>1. Init => RealInv
  BY DEF Init, RealInv, PaymentsAreReal, Rest
<1>2. TypeInv /\ OwedInv /\ RealInv /\ [Next]_vars => RealInv'
  BY RealStep
<1>3. RealInv => PaymentsAreReal
  BY DEF RealInv
<1> QED
  BY <1>1, <1>2, <1>3, TypeInvariant, OwedInvariant, PTL DEF Spec

-----------------------------------------------------------------------------
(* The payment contract *)

\* The refinement mapping, as the contract sees an order and its money.
orderOf(b) == IF booking[b] \in Unpaid THEN "open"
              ELSE IF booking[b] \in Kept THEN "served" ELSE "closed"
moneyOf(b) == IF b \notin payment THEN "none"
              ELSE IF booking[b] \in Kept THEN "kept"
              ELSE IF rescue[b] # "NONE" \/ \E k \in Keys : request[b][k] # "NONE"
              THEN "owed" ELSE "lost"

orders == [b \in Bookings |-> orderOf(b)]
moneys == [b \in Bookings |-> moneyOf(b)]

\* Nothing is ever lost, for what is owed has been asked for or has its case.
Mapped ==
    \A b \in Bookings :
        moneyOf(b) = IF b \notin payment THEN "none"
                   ELSE IF booking[b] \in Kept THEN "kept" ELSE "owed"

LEMMA DebtsMap ==
    ASSUME OwedInv
    PROVE  Mapped
<1> SUFFICES ASSUME NEW b \in Bookings, b \in payment, booking[b] \notin Kept
             PROVE  rescue[b] # "NONE" \/ \E k \in Keys : request[b][k] # "NONE"
  BY DEF Mapped, moneyOf
<1>1. booking[b] \in Closed /\ OwedOK(b) /\ "system" \in Keys /\ "partner" \in Keys
  BY DEF OwedInv, OwedOK, BooksType, Keys
<1>2. CASE booking[b] = "CANCELLED"
  BY <1>1, <1>2 DEF OwedOK
<1>3. CASE booking[b] = "REFUNDED"
  <2>1. PICK k \in Keys : request[b][k] = "APPROVED"
    BY <1>1, <1>3 DEF OwedOK
  <2> QED
    BY <2>1
<1> QED
  BY <1>1, <1>2, <1>3 DEF Closed

\* A step about b that moves its order from x to y and its money from m to n.
Maps(b, x, m, y, n) ==
    /\ orderOf(b) = x /\ moneyOf(b) = m
    /\ orders' = [orders EXCEPT ![b] = y]
    /\ moneys' = [moneys EXCEPT ![b] = n]

LEMMA MapsAlone ==
    ASSUME Mapped, Mapped', NEW b \in Bookings, Alone(b)
    PROVE  Maps(b, orderOf(b), moneyOf(b), orderOf(b)', moneyOf(b)')
<1>1. ASSUME NEW c \in Bookings, c # b
      PROVE  orderOf(c)' = orderOf(c) /\ moneyOf(c)' = moneyOf(c)
  BY <1>1 DEF orderOf, moneyOf, Mapped, Alone
<1> QED
  BY <1>1 DEF Maps, orders, moneys

\* Serving, refusing and closing are the steps of the contract of the same name.
LEMMA ContractKinds ==
    ASSUME NEW b \in Bookings,
           \/ Maps(b, "open", "none", "served", "kept")
           \/ \E x \in {"open", "closed"} : Maps(b, x, "none", "closed", "owed")
           \/ Maps(b, "served", "kept", "closed", "owed")
           \/ Maps(b, "open", "none", "closed", "none")
           \/ \E x, m : Maps(b, x, m, x, m)
    PROVE  [Contract!ContractNext]_(Contract!contractVars)
<1> DEFINE id == [c \in Bookings |-> c]
<1>0. /\ orders[b] = orderOf(b) /\ moneys[b] = moneyOf(b) /\ id[b] = b
      /\ \A c \in Bookings : orders[c] = orderOf(c) /\ moneys[c] = moneyOf(c) /\ id[c] = c
  BY DEF orders, moneys
<1>1. CASE Maps(b, "open", "none", "served", "kept")
  <2>1. Contract!Serve(b)
    BY <1>0, <1>1 DEF Contract!Serve, Maps, orders, moneys, orderOf, moneyOf
  <2> QED
    BY <2>1 DEF Contract!ContractNext
<1>2. ASSUME NEW x \in {"open", "closed"}, Maps(b, x, "none", "closed", "owed")
      PROVE  Contract!ContractNext
  <2>1. Contract!Refuse(b)
    BY <1>0, <1>2 DEF Contract!Refuse, Maps, orders, moneys, orderOf, moneyOf
  <2> QED
    BY <2>1 DEF Contract!ContractNext
<1>3. CASE \/ Maps(b, "served", "kept", "closed", "owed")
           \/ Maps(b, "open", "none", "closed", "none")
  <2>1. moneys' = [c \in Bookings |->
                    IF c = b /\ moneys[c] = "kept" THEN "owed" ELSE moneys[c]]
    BY <1>0, <1>3 DEF Maps, moneys
  <2>2. Contract!Close(b)
    BY <1>0, <1>3, <2>1 DEF Contract!Close, Maps, orders, moneys, orderOf, moneyOf
  <2> QED
    BY <2>2 DEF Contract!ContractNext
<1>4. ASSUME NEW x, NEW m, Maps(b, x, m, x, m)
      PROVE  orders' = orders /\ moneys' = moneys
  BY <1>0, <1>4 DEF Maps, orders, moneys
<1>5. orders' = orders /\ moneys' = moneys => UNCHANGED Contract!contractVars
  BY DEF Contract!contractVars, orders, moneys, orderOf, moneyOf
<1> QED
  BY <1>1, <1>2, <1>3, <1>4, <1>5

LEMMA ContractStep ==
    ASSUME OwedInv, Mapped, Mapped', NEW b \in Bookings, Confirmed(b) \/ Moved(b)
    PROVE  [Contract!ContractNext]_(Contract!contractVars)
<1>0. /\ BooksType /\ OwedOK(b) /\ Alone(b)
      /\ Maps(b, orderOf(b), moneyOf(b), orderOf(b)', moneyOf(b)')
  BY OthersAlone, MapsAlone DEF OwedInv
<1>1. /\ moneyOf(b) = IF b \notin payment THEN "none"
                    ELSE IF booking[b] \in Kept THEN "kept" ELSE "owed"
      /\ moneyOf(b)' = IF b \notin payment' THEN "none"
                     ELSE IF booking'[b] \in Kept THEN "kept" ELSE "owed"
  BY DEF Mapped
<1> USE DEF orderOf, Unpaid, Kept, Closed
<1>2. CASE Fulfil(b)
  <2>1. /\ booking[b] = "PENDING_PAYMENT" /\ booking'[b] = "CONFIRMED"
        /\ b \in payment' /\ b \notin payment
    BY <1>0, <1>2 DEF Fulfil, CanFulfil, BooksType, OwedOK
  <2>2. Maps(b, "open", "none", "served", "kept")
    BY <1>0, <1>1, <2>1
  <2> QED
    BY <2>2, ContractKinds
<1>3. CASE Refuse(b)
  <2>1. booking'[b] = "CANCELLED" /\ b \in payment'
    BY <1>0, <1>3 DEF Refuse, BooksType
  <2>2. CASE b \in payment
    <3>1. booking[b] \in {"NO_SHOW", "REFUND_REQUESTED"}
      BY <1>0, <1>3, <2>2 DEF Refuse, AlreadyConfirmed, OwedOK, BooksType
    <3>2. Maps(b, "served", "kept", "closed", "owed")
      BY <1>0, <1>1, <2>1, <2>2, <3>1
    <3> QED
      BY <3>2, ContractKinds
  <2>3. CASE b \notin payment
    <3>1. orderOf(b) \in {"open", "closed"}
      BY <1>0, <2>3 DEF OwedOK
    <3>2. Maps(b, orderOf(b), "none", "closed", "owed")
      BY <1>0, <1>1, <2>1, <2>3
    <3>3. \E x \in {"open", "closed"} : Maps(b, x, "none", "closed", "owed")
      BY <3>1, <3>2
    <3> QED
      BY <3>3, ContractKinds
  <2> QED
    BY <2>2, <2>3
<1>4. CASE PartnerRejects(b) \/ SweepExpired(b) \/ PartnerCancels(b) \/ CancelAffected(b)
  <2>1. /\ booking'[b] = "CANCELLED" /\ payment' = payment
        /\ \/ booking[b] \in Unpaid /\ b \notin payment
           \/ booking[b] = "CONFIRMED" /\ b \in payment
    BY <1>0, <1>4, CancelEffect
  <2>2. CASE booking[b] \in Unpaid /\ b \notin payment
    <3>1. Maps(b, "open", "none", "closed", "none")
      BY <1>0, <1>1, <2>1, <2>2
    <3> QED
      BY <3>1, ContractKinds
  <2>3. CASE booking[b] = "CONFIRMED" /\ b \in payment
    <3>1. Maps(b, "served", "kept", "closed", "owed")
      BY <1>0, <1>1, <2>1, <2>3
    <3> QED
      BY <3>1, ContractKinds
  <2> QED
    BY <2>1, <2>2, <2>3
<1>5. ASSUME orderOf(b)' = orderOf(b), moneyOf(b)' = moneyOf(b)
      PROVE  [Contract!ContractNext]_(Contract!contractVars)
  <2>1. \E x, m : Maps(b, x, m, x, m)
    BY <1>0, <1>5
  <2> QED
    BY <2>1, ContractKinds
<1>6. CASE PartnerApproves(b) \/ SweepCompleted(b) \/ CreateRefundRequest(b)
  <2>1. /\ payment' = payment
        /\ \/ booking[b] \in Unpaid /\ booking'[b] \in Unpaid
           \/ booking[b] \in Kept /\ booking'[b] \in Kept
    BY <1>0, <1>6 DEF PartnerApproves, SweepCompleted, CreateRefundRequest, BooksType
  <2> QED
    BY <1>1, <1>5, <2>1
<1>7. ASSUME \/ \E k \in Keys : ClaimRefund(b, k) \/ CreateRefund(b, k)
             \/ AcceptOption(b) \/ RefundCase(b)
      PROVE  [Contract!ContractNext]_(Contract!contractVars)
  <2>1. payment' = payment /\ booking' = booking
    BY <1>7 DEF ClaimRefund, CreateRefund, AcceptOption, RefundCase
  <2> QED
    BY <1>1, <1>5, <2>1
<1>8. ASSUME NEW k \in Keys, FinalizeRefund(b, k)
      PROVE  [Contract!ContractNext]_(Contract!contractVars)
  <2>1. /\ b \in payment /\ payment' = payment
        /\ booking'[b] = "REFUNDED" \/ booking'[b] = booking[b]
        /\ booking[b] \in Kept \union Closed
    BY <1>0, <1>8 DEF FinalizeRefund, BooksType, OwedOK
  <2>4. CASE booking'[b] = booking[b]
    BY <1>1, <1>5, <2>1, <2>4
  <2>2. CASE booking[b] \in Kept /\ booking'[b] = "REFUNDED"
    <3>1. Maps(b, "served", "kept", "closed", "owed")
      BY <1>0, <1>1, <2>1, <2>2
    <3> QED
      BY <3>1, ContractKinds
  <2>3. CASE booking[b] \in Closed /\ booking'[b] = "REFUNDED"
    BY <1>1, <1>5, <2>1, <2>3
  <2> QED
    BY <2>1, <2>2, <2>3, <2>4
<1> QED
  BY <1>2, <1>3, <1>4, <1>6, <1>7, <1>8 DEF Confirmed, Moved

\* Refinement, for any number of bookings and transfers: bank transfers keep the
\* payment contract that bookings paid at the gateway keep.
THEOREM TransferKeepsContract == Spec => TransferContract
<1>1. Init => Contract!ContractInit
  <2>1. ASSUME Init, NEW b \in Bookings
        PROVE  booking[b] \in Unpaid /\ b \notin payment
    BY <2>1 DEF Init, Unpaid
  <2> QED
    BY <2>1 DEF Contract!ContractInit
<1>2. TypeInv /\ OwedInv /\ Mapped /\ Mapped' /\ [Next]_vars
      => [Contract!ContractNext]_(Contract!contractVars)
  <2> SUFFICES ASSUME TypeInv, OwedInv, Mapped, Mapped', [Next]_vars
               PROVE  [Contract!ContractNext]_(Contract!contractVars)
    OBVIOUS
  <2>1. CASE UNCHANGED <<books, paidBack>>
    BY <2>1 DEF books, Contract!contractVars
  <2> QED
    BY <2>1, BooksKinds, ContractStep
<1>3. OwedInv => Mapped
  BY DebtsMap
<1> QED
  BY <1>1, <1>2, <1>3, TypeInvariant, OwedInvariant, PTL
  DEF Spec, TransferContract, Contract!ContractSpec
\* What is proved of the contract, seen in the bank transfers.
Promise == INSTANCE PaymentContractProofs WITH
    Orders <- Bookings,
    Attempts <- Bookings,
    OrderOf <- [b \in Bookings |-> b],
    order <- [b \in Bookings |-> IF booking[b] \in Unpaid THEN "open"
                                 ELSE IF booking[b] \in Kept THEN "served" ELSE "closed"],
    money <- [b \in Bookings |-> IF b \notin payment THEN "none"
                                 ELSE IF booking[b] \in Kept THEN "kept"
                                 ELSE IF \/ rescue[b] # "NONE"
                                         \/ \E k \in Keys : request[b][k] # "NONE"
                                      THEN "owed" ELSE "lost"]

\* A booking that is cancelled or paid back is never served again by a late webhook, a
\* match or a partner, and a debt stays a debt until it is paid.
THEOREM TransferDebtsStand == Spec => Contract!DebtsStand
<1>1. Promise!ContractSpec => Promise!DebtsStand
  BY Promise!DebtsRemain
<1>2. Contract!ContractInit <=> Promise!ContractInit
  BY DEF Contract!ContractInit, Promise!ContractInit
<1>3. [Contract!ContractNext]_(Contract!contractVars)
      => [Promise!ContractNext]_(Promise!contractVars)
  BY DEF Contract!ContractNext, Contract!Serve, Contract!Refuse, Contract!Return,
         Contract!Close, Contract!contractVars,
         Promise!ContractNext, Promise!Serve, Promise!Refuse, Promise!Return,
         Promise!Close, Promise!contractVars
<1>4. [Promise!DebtsStep]_(Promise!contractVars) => [Contract!DebtsStep]_(Contract!contractVars)
  BY DEF Promise!DebtsStep, Promise!contractVars, Contract!DebtsStep, Contract!contractVars
<1> QED
  BY <1>1, <1>2, <1>3, <1>4, TransferKeepsContract, PTL
  DEF TransferContract, Contract!ContractSpec, Promise!ContractSpec,
      Promise!DebtsStand, Contract!DebtsStand
=============================================================================
