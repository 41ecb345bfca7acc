--------------------------- MODULE InventoryProofs ---------------------------
(***************************************************************************)
(* The day on sale implements the seat ledger, whatever is published and   *)
(* whenever: proofs about Inventory.tla.                                   *)
(***************************************************************************)
EXTENDS Inventory, StockProofs

\* A payment is a ledger move: the hold was claimed before.
LEMMA ConfirmMoves ==
    ASSUME NEW r \in Reservations, Confirm(r)
    PROVE  StockStep(r)
BY DEF Confirm, StockStep

\* Every action of the day is a ledger move or leaves the ledger alone.
LEMMA InventoryMoves ==
    ASSUME [Next]_vars
    PROVE  [StockNext]_stockVars
<1>1. ASSUME NEW r \in Reservations,
             Reserve(r) \/ BookReplacement(r) \/ GiveBackHold(r) \/ GiveBackBooked(r)
      PROVE  StockStep(r)
  BY <1>1 DEF Reserve, BookReplacement, GiveBackHold, GiveBackBooked, StockStep
<1>2. ASSUME NEW s \in Schedules, Submit(s)
      PROVE  UNCHANGED stockVars
  BY <1>2 DEF Submit
<1>3. CASE CheckCapacity \/ Publish \/ RejectRevision \/ AbortReview
  BY <1>3 DEF CheckCapacity, Publish, RejectRevision, AbortReview
<1>4. CASE UNCHANGED vars
  BY <1>4 DEF vars
<1> QED
  BY <1>1, <1>2, <1>3, <1>4, ConfirmMoves DEF Next, StockNext

\* Refinement: the sale and the review of schedules together do nothing to the
\* stock that the abstract ledger does not allow.
THEOREM InventoryImplementsStock == Spec => StockSpec
<1>1. Init => StockInit
  BY DEF Init
<1>2. [Next]_vars => [StockNext]_stockVars
  BY InventoryMoves
<1> QED
  BY <1>1, <1>2, PTL DEF Spec, StockSpec

\* The counters of a day stay exact through every publication.
THEOREM InventoryConservation == Spec => []Conservation
BY InventoryImplementsStock, StockConservation, PTL

\* No decrement of a handler fails on a day whose schedule changes.
THEOREM InventoryNeverDrifts == Spec => []NoDrift
BY InventoryImplementsStock, StockNeverDrifts, PTL

-----------------------------------------------------------------------------
(* Type correctness *)

\* The schedules and the review stay well-typed; a review that is past its
\* checks always has a revision to publish.
THEOREM InventoryTypeOK == Spec => []TypeOK
<1> DEFINE ReviewOK == /\ schedule \in Schedules
                       /\ submitted \in Schedules \cup {None}
                       /\ checked \in BOOLEAN
                       /\ checked => submitted # None
<1>1. Init => ReviewOK
  BY DEF Init
<1>2. ReviewOK /\ [Next]_vars => ReviewOK'
  <2> SUFFICES ASSUME ReviewOK, [Next]_vars
               PROVE  ReviewOK'
    OBVIOUS
  <2>1. ASSUME NEW r \in Reservations,
               Reserve(r) \/ BookReplacement(r) \/ Confirm(r)
                 \/ GiveBackHold(r) \/ GiveBackBooked(r)
        PROVE  ReviewOK'
    BY <2>1 DEF Reserve, BookReplacement, Confirm, GiveBackHold, GiveBackBooked, reviewVars
  <2>2. ASSUME NEW s \in Schedules, Submit(s)
        PROVE  ReviewOK'
    BY <2>2, InventoryAssumption DEF Submit
  <2>3. CASE CheckCapacity
    BY <2>3 DEF CheckCapacity
  <2>4. CASE Publish
    BY <2>4 DEF Publish
  <2>5. CASE RejectRevision
    BY <2>5 DEF RejectRevision
  <2>6. CASE AbortReview
    BY <2>6 DEF AbortReview
  <2>7. CASE UNCHANGED vars
    BY <2>7 DEF vars, reviewVars
  <2> QED
    BY <2>1, <2>2, <2>3, <2>4, <2>5, <2>6, <2>7 DEF Next
<1>3. StockInv => StockTypeOK
  BY DEF StockInv
<1>4. StockTypeOK /\ ReviewOK => TypeOK
  BY DEF TypeOK
<1> QED
  BY <1>1, <1>2, <1>3, <1>4, InventoryImplementsStock, StockInvariant, PTL DEF Spec

-----------------------------------------------------------------------------
(* Admission *)

\* What a row owes grows only under a reservation or a replacement booking,
\* and both look at every row of the schedule in force first.
LEMMA GrowthFits ==
    ASSUME StockTypeOK, [Next]_vars, NEW l \in Layers, committed[l]' > committed[l]
    PROVE  committed[l]' <= Capacity(schedule)[l]
<1>1. ASSUME NEW r \in Reservations, Reserve(r) \/ BookReplacement(r)
      PROVE  committed[l]' <= Capacity(schedule)[l]
  <2>1. /\ Fits(r, Capacity(schedule))
        /\ \/ held' = Shift(held, r, Units[r]) /\ booked' = booked
           \/ booked' = Shift(booked, r, Units[r]) /\ held' = held
    BY <1>1 DEF Reserve, BookReplacement, HoldSeats, BookSeats
  <2>2. Units[r] \in Int /\ held[l] \in Int /\ booked[l] \in Int
    BY UnitsType DEF StockTypeOK
  <2>3. CASE l \in LayersOf[r]
    <3>1. committed[l]' = held[l] + booked[l] + Units[r]
      BY <2>1, <2>2, <2>3 DEF committed, Shift
    <3>2. booked[l] + held[l] + Units[r] <= Capacity(schedule)[l]
      BY <2>1, <2>3 DEF Fits
    <3>3. held[l] + booked[l] + Units[r] = booked[l] + held[l] + Units[r]
      BY <2>2
    <3> QED
      BY <3>1, <3>2, <3>3, Zenon
  <2>4. CASE l \notin LayersOf[r]
    BY <2>1, <2>2, <2>4 DEF committed, Shift
  <2> QED
    BY <2>3, <2>4
<1>2. ASSUME NEW r \in Reservations, Confirm(r) \/ GiveBackHold(r) \/ GiveBackBooked(r)
      PROVE  FALSE
  <2>1. Units[r] \in Nat /\ held[l] \in Int /\ booked[l] \in Int
    BY StockAssumption DEF StockTypeOK
  <2>2. CASE Confirm(r)
    BY <2>1, <2>2 DEF Confirm, ConfirmSeats, committed, Shift
  <2>3. CASE GiveBackHold(r)
    BY <2>1, <2>3 DEF GiveBackHold, ReleaseHeld, committed, Shift
  <2>4. CASE GiveBackBooked(r)
    BY <2>1, <2>4 DEF GiveBackBooked, ReleaseBooked, committed, Shift
  <2> QED
    BY <1>2, <2>2, <2>3, <2>4
<1>3. ASSUME UNCHANGED stockVars
      PROVE  FALSE
  BY <1>3 DEF stockVars, committed, StockTypeOK
<1>4. ASSUME NEW s \in Schedules, Submit(s)
      PROVE  FALSE
  BY <1>3, <1>4 DEF Submit
<1>5. CASE CheckCapacity \/ Publish \/ RejectRevision \/ AbortReview \/ UNCHANGED vars
  BY <1>3, <1>5 DEF CheckCapacity, Publish, RejectRevision, AbortReview, vars
<1> QED
  BY <1>1, <1>2, <1>4, <1>5 DEF Next

\* For every number of products, slots, reservations and schedules: seats are
\* only ever added within the schedule in force.
THEOREM SalesWithinSchedule == Spec => AdmissionWithinSchedule
<1>1. ASSUME StockTypeOK, [Next]_vars
      PROVE  [\A l \in Layers : committed[l]' > committed[l]
                => committed[l]' <= Capacity(schedule)[l]]_vars
  BY <1>1, GrowthFits
<1>2. StockInv => StockTypeOK
  BY DEF StockInv
<1> QED
  BY <1>1, <1>2, InventoryImplementsStock, StockInvariant, PTL
     DEF Spec, AdmissionWithinSchedule

-----------------------------------------------------------------------------
(* Overselling *)

\* A row owes a number of seats, and a slot never more than its day.
LEMMA SlotsWithinDay ==
    ASSUME StockInv, NEW l \in Layers
    PROVE  /\ committed[l] \in Nat
           /\ committed[l] <= committed[Day]
<1>1. Day \in Layers
  BY InventoryAssumption
<1>2. ASSUME NEW status \in {"HELD", "CONFIRMED"}
      PROVE  /\ Cardinality(Seats(InLayer(l, status))) \in Nat
             /\ Cardinality(Seats(InLayer(Day, status))) \in Nat
             /\ Cardinality(Seats(InLayer(l, status)))
                  <= Cardinality(Seats(InLayer(Day, status)))
  <2>1. InLayer(l, status) \subseteq InLayer(Day, status)
    BY InventoryAssumption DEF InLayer
  <2>2. Seats(InLayer(l, status)) \subseteq Seats(InLayer(Day, status))
    BY <2>1 DEF Seats
  <2>3. /\ IsFiniteSet(Seats(InLayer(l, status)))
        /\ IsFiniteSet(Seats(InLayer(Day, status)))
    BY <1>1 DEF StockInv, SeatsFinite
  <2> QED
    BY <2>2, <2>3, FS_Subset, FS_CardinalityType
<1>3. \A k \in {l, Day} : /\ held[k] = Cardinality(Seats(InLayer(k, "HELD")))
                          /\ booked[k] = Cardinality(Seats(InLayer(k, "CONFIRMED")))
  BY <1>1 DEF StockInv, Conservation
<1>4. /\ held[l] \in Nat /\ held[Day] \in Nat /\ held[l] <= held[Day]
      /\ booked[l] \in Nat /\ booked[Day] \in Nat /\ booked[l] <= booked[Day]
  BY <1>2, <1>3
<1> QED
  BY <1>1, <1>4 DEF committed

\* The capacities of a schedule are numbers.
LEMMA CapacityType ==
    ASSUME NEW s \in Schedules, NEW l \in Slots \cup {Day}
    PROVE  Capacity(s)[l] \in Nat
<1>1. IsSchedule(s) /\ l \in Layers
  BY InventoryAssumption
<1> QED
  BY <1>1 DEF IsSchedule, Capacity, Smaller

\* A publication the stock still accommodates when it is written oversells nothing:
\* the slots are compared one by one, and the day bounds them all.
LEMMA AccommodatedFits ==
    ASSUME StockInv, NEW s \in Schedules, Accommodates(s), NEW l \in Slots \cup {Day}
    PROVE  committed[l] <= Capacity(s)[l]
<1>1. /\ IsSchedule(s) /\ l \in Layers /\ Day \in Layers
      /\ Capacity(s)[l] \in Nat
  BY InventoryAssumption, CapacityType
<1>2. committed[l] \in Nat /\ committed[Day] \in Nat /\ committed[l] <= committed[Day]
  BY <1>1, SlotsWithinDay
<1>3. s.day \in Nat /\ committed[Day] <= s.day
  BY <1>1 DEF IsSchedule, Accommodates
<1>4. CASE l = Day
  BY <1>1, <1>3, <1>4 DEF Capacity
<1>5. CASE l # Day /\ committed[l] = 0
  BY <1>1, <1>5
<1>6. CASE l # Day /\ committed[l] > 0
  <2>1. l \in DOMAIN s.slot /\ committed[l] <= s.slot[l]
    BY <1>6 DEF Accommodates
  <2>2. Capacity(s)[l] = s.day \/ Capacity(s)[l] = s.slot[l]
    BY <1>1, <1>6, <2>1 DEF Capacity, Smaller
  <2>3. committed[l] <= s.day
    BY <1>2, <1>3
  <2> QED
    BY <2>1, <2>2, <2>3
<1> QED
  BY <1>2, <1>4, <1>5, <1>6

\* The only way to oversell a day or a slot is a publication that a reservation overtook
\* between its checks and its write (planFutureAttractionStockSync, finding 1).
THEOREM OversoldByOvertaking == Spec => OversellOnlyByOvertaking
<1>1. ASSUME TypeOK, StockInv, StockInv', [Next]_vars, NoOversell,
             ~(checked /\ ~Accommodates(submitted))
      PROVE  NoOversell'
  <2>1. Slots \cup {Day} \subseteq Layers
    BY InventoryAssumption
  <2>2. CASE Publish
    <3>1. checked /\ submitted \in Schedules /\ Accommodates(submitted)
      BY <1>1, <2>2 DEF Publish, TypeOK
    <3>2. \A l \in Slots \cup {Day} : committed[l] <= Capacity(submitted)[l]
      BY <1>1, <3>1, AccommodatedFits
    <3>3. schedule' = submitted /\ UNCHANGED stockVars
      BY <2>2 DEF Publish
    <3>4. committed' = committed
      BY <3>3 DEF stockVars, committed
    <3> QED
      BY <3>2, <3>3, <3>4 DEF NoOversell, Capacity
  <2>3. CASE ~Publish
    <3>1. schedule' = schedule
      BY <1>1, <2>3
      DEF Next, vars, Reserve, BookReplacement, Confirm, GiveBackHold, GiveBackBooked, Submit,
          CheckCapacity, RejectRevision, AbortReview
    <3>2. ASSUME NEW l \in Slots \cup {Day}
          PROVE  committed[l]' <= Capacity(schedule)[l]
      <4>1. /\ committed[l] \in Nat /\ committed[l] <= Capacity(schedule)[l]
            /\ Capacity(schedule)[l] \in Nat
        BY <1>1, <2>1, SlotsWithinDay, CapacityType DEF NoOversell, TypeOK
      <4>2. held'[l] \in Int /\ booked'[l] \in Int /\ committed[l]' = held'[l] + booked'[l]
        BY <1>1, <2>1 DEF StockInv, StockTypeOK, committed
      <4>3. CASE committed[l]' > committed[l]
        BY <1>1, <2>1, <4>3, GrowthFits DEF TypeOK
      <4>4. CASE committed[l]' <= committed[l]
        BY <4>1, <4>2, <4>4
      <4> QED
        BY <4>1, <4>2, <4>3, <4>4
    <3> QED
      BY <3>1, <3>2 DEF NoOversell, Capacity
  <2> QED
    BY <2>2, <2>3
<1>2. ASSUME TypeOK, StockInv, StockInv', [Next]_vars
      PROVE  [NoOversell => NoOversell' \/ (checked /\ ~Accommodates(submitted))]_vars
  BY <1>1, <1>2
<1> QED
  BY <1>2, InventoryTypeOK, InventoryImplementsStock, StockInvariant, PTL
     DEF Spec, OversellOnlyByOvertaking
=============================================================================
