------------------------------ MODULE Inventory ------------------------------
(***************************************************************************)
(* One visiting day of one attraction on sale: customers hold, confirm and *)
(* give back seats while a partner's revised schedule is reviewed and      *)
(* published by an administrator.                                          *)
(*                                                                         *)
(* A reservation handler is a Serializable transaction, so it is one step. *)
(* The publication runs at PostgreSQL's default READ COMMITTED isolation   *)
(* and its capacity check reads the stock rows without locking them, so    *)
(* the check and the write are two steps and a reservation may commit      *)
(* between them.                                                           *)
(***************************************************************************)
EXTENDS Stock, FiniteSetsExt

CONSTANTS
    Day,        \* the attraction's row for the day (AttractionDailyStock)
    Slots,      \* the attraction's time-slot rows (TimeSlotStock)
    Schedules,  \* the schedules a partner may submit
    None        \* no revision under review

\* A schedule is [day |-> seats of the day (0 when closed),
\*                slot |-> seats of each active slot].
IsSchedule(s) ==
    /\ s.day \in Nat
    /\ DOMAIN s.slot \subseteq Slots
    /\ \A t \in DOMAIN s.slot : s.slot[t] \in Nat

ASSUME InventoryAssumption ==
    /\ Day \in Layers /\ Slots \subseteq Layers /\ Day \notin Slots
    /\ \A r \in Reservations :
        Day \in LayersOf[r] /\ Cardinality(LayersOf[r] \cap Slots) <= 1
    /\ \A s \in Schedules : IsSchedule(s)
    /\ None \notin Schedules

VARIABLES
    schedule,   \* the published openDays, capacities and slots
    submitted,  \* Attraction.submittedData while status is PENDING
    checked     \* the reviewing transaction is past its capacity checks

reviewVars == <<submitted, checked>>
vars == <<stockVars, schedule, reviewVars>>

-----------------------------------------------------------------------------
(* Capacity *)

SlotTotal(s) == MapThenSumSet(LAMBDA t : s.slot[t], DOMAIN s.slot)

Smaller(m, n) == IF m <= n THEN m ELSE n

\* dayCapacity, getSlotCapacity and getProductCapacity of a schedule.
Capacity(s) ==
    [l \in Layers |->
        IF l = Day THEN s.day
        ELSE IF l \in Slots
        THEN IF l \in DOMAIN s.slot THEN Smaller(s.day, s.slot[l]) ELSE 0
        ELSE IF DOMAIN s.slot = {} THEN s.day ELSE Smaller(s.day, SlotTotal(s))]

committed == [l \in Layers |-> held[l] + booked[l]]

\* Bug: seats on hold do not stop a publication.
AccommodatesSold(s) ==
    /\ booked[Day] <= s.day
    /\ \A t \in Slots : booked[t] > 0 => t \in DOMAIN s.slot /\ booked[t] <= s.slot[t]

\* The seats already sold or held, as far as a publication looks at them: the
\* attraction's day and its slots.
Accommodates(s) ==
    /\ committed[Day] <= s.day
    /\ \A t \in Slots :
        committed[t] > 0 => t \in DOMAIN s.slot /\ committed[t] <= s.slot[t]

\* The day is open and r names a slot exactly when the product has slots.
Bookable(r) ==
    /\ schedule.day > 0
    /\ LayersOf[r] \cap Slots \subseteq DOMAIN schedule.slot
    /\ DOMAIN schedule.slot # {} => LayersOf[r] \cap Slots # {}

-----------------------------------------------------------------------------
(* Customers and the flows that act for them *)

Reserve(r) ==
    /\ Bookable(r)
    /\ Fits(r, Capacity(schedule))
    /\ HoldSeats(r)
    /\ UNCHANGED <<schedule, reviewVars>>

\* A recovery case moves a cancelled booking to another product or slot.
BookReplacement(r) ==
    /\ Bookable(r)
    /\ Fits(r, Capacity(schedule))
    /\ BookSeats(r)
    /\ UNCHANGED <<schedule, reviewVars>>

\* Bug: a payment is confirmed without claiming the hold.
ConfirmUnclaimed(r) ==
    /\ ConfirmSeats(r)
    /\ UNCHANGED <<schedule, reviewVars>>

\* Payment: every caller claims a HELD reservation first.
Confirm(r) ==
    /\ hold[r] = "HELD"
    /\ ConfirmSeats(r)
    /\ UNCHANGED <<schedule, reviewVars>>

\* Expiry, rejection, a failed payment.
GiveBackHold(r) ==
    /\ \E status \in {"EXPIRED", "CANCELLED"} : ReleaseHeld(r, status)
    /\ UNCHANGED <<schedule, reviewVars>>

\* Refund, cancellation by the partner, operational suspension.
GiveBackBooked(r) ==
    /\ hold[r] = "CONFIRMED"
    /\ ReleaseBooked(r)
    /\ UNCHANGED <<schedule, reviewVars>>

-----------------------------------------------------------------------------
(* Revision of the schedule *)

Submit(s) ==
    /\ submitted = None
    /\ submitted' = s
    /\ UNCHANGED <<stockVars, schedule, checked>>

\* The review locks the PENDING revision, then both capacity checks pass; when
\* one fails the transaction rolls back and the revision stays PENDING.
CheckCapacity ==
    /\ submitted # None /\ ~checked
    /\ Accommodates(submitted)
    /\ checked' = TRUE
    /\ UNCHANGED <<stockVars, schedule, submitted>>

Publish ==
    /\ checked
    /\ schedule' = submitted
    /\ submitted' = None
    /\ checked' = FALSE
    /\ UNCHANGED stockVars

\* Bug: a rejection does not wait for the approval that is running.
RejectUnlocked ==
    /\ submitted # None
    /\ submitted' = None
    /\ UNCHANGED <<stockVars, schedule, checked>>

\* A rejection waits for the lock a running approval holds on the revision.
RejectRevision ==
    /\ submitted # None /\ ~checked
    /\ submitted' = None
    /\ UNCHANGED <<stockVars, schedule, checked>>

\* An error after the checks, or a crash: the transaction rolls back.
AbortReview ==
    /\ checked
    /\ checked' = FALSE
    /\ UNCHANGED <<stockVars, schedule, submitted>>

Init ==
    /\ StockInit
    /\ schedule \in Schedules
    /\ submitted = None
    /\ checked = FALSE

Next ==
    \/ \E r \in Reservations :
        Reserve(r) \/ BookReplacement(r) \/ Confirm(r)
          \/ GiveBackHold(r) \/ GiveBackBooked(r)
    \/ \E s \in Schedules : Submit(s)
    \/ CheckCapacity \/ Publish \/ RejectRevision \/ AbortReview

Spec == Init /\ [][Next]_vars

-----------------------------------------------------------------------------
(* Properties *)

TypeOK ==
    /\ StockTypeOK
    /\ schedule \in Schedules
    /\ submitted \in Schedules \cup {None}
    /\ checked \in BOOLEAN
    /\ checked => submitted # None

\* No seat is admitted beyond the schedule in force: whenever the seats of a
\* row (held and booked together) grow, they end within the capacity the
\* published schedule gives that row, whatever was published in between.
AdmissionWithinSchedule ==
    [][\A l \in Layers :
        committed[l]' > committed[l] => committed[l]' <= Capacity(schedule)[l]]_vars

\* The oversell guard of the code: the day and the slots of the attraction
\* never owe more seats than the published schedule has.  reserveTickets
\* and the capacity checks of applyApprovedSnapshot each keep it alone.
NoOversell ==
    \A l \in Slots \cup {Day} : committed[l] <= Capacity(schedule)[l]

\* The only way to oversell: a publication whose checks were overtaken by a
\* reservation.  No reservation, confirmation or release does it, and neither
\* does a publication the stock still accommodates when it is written.
OversellOnlyByOvertaking ==
    [][NoOversell => NoOversell' \/ (checked /\ ~Accommodates(submitted))]_vars
=============================================================================
