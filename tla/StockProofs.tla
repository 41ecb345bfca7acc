----------------------------- MODULE StockProofs -----------------------------
(***************************************************************************)
(* The seat ledger is exact for any number of reservations, layers and     *)
(* seats: proofs about Stock.tla.                                          *)
(***************************************************************************)
EXTENDS Stock, FiniteSetTheorems, TLAPS

-----------------------------------------------------------------------------
(* Lemmas on the seats of a set of reservations *)

\* The seats of one reservation are as many as its units.
LEMMA SeatsOfOne ==
    ASSUME NEW r \in Reservations
    PROVE  /\ IsFiniteSet({r} \X (1 .. Units[r]))
           /\ Cardinality({r} \X (1 .. Units[r])) = Units[r]
<1>1. Units[r] \in Nat /\ Units[r] >= 1
  BY StockAssumption
<1>2. IsFiniteSet({r}) /\ Cardinality({r}) = 1
  BY FS_Singleton
<1>3. IsFiniteSet(1 .. Units[r]) /\ Cardinality(1 .. Units[r]) = Units[r]
  BY <1>1, FS_Interval
<1>4. /\ IsFiniteSet({r} \X (1 .. Units[r]))
      /\ Cardinality({r} \X (1 .. Units[r]))
           = Cardinality({r}) * Cardinality(1 .. Units[r])
  BY <1>2, <1>3, FS_Product, Zenon
<1>5. 1 * Units[r] = Units[r]
  BY <1>1
<1> QED
  BY <1>2, <1>3, <1>4, <1>5

\* Adding a reservation to a set adds its units to the set's seats.
LEMMA SeatsAdd ==
    ASSUME NEW S \in SUBSET Reservations, NEW r \in Reservations \ S,
           IsFiniteSet(Seats(S))
    PROVE  /\ IsFiniteSet(Seats(S \cup {r}))
           /\ Cardinality(Seats(S \cup {r})) = Cardinality(Seats(S)) + Units[r]
<1> DEFINE New == {r} \X (1 .. Units[r])
<1>1. Seats(S \cup {r}) = Seats(S) \cup New
  BY DEF Seats
<1>2. Seats(S) \cap New = {}
  BY DEF Seats
<1>3. IsFiniteSet(New) /\ Cardinality(New) = Units[r]
  BY SeatsOfOne
<1>4. Cardinality(Seats(S)) \in Nat
  BY FS_CardinalityType
<1>5. Units[r] \in Nat
  BY StockAssumption
<1> HIDE DEF New
<1>6. /\ IsFiniteSet(Seats(S) \cup New)
      /\ Cardinality(Seats(S) \cup New)
           = Cardinality(Seats(S)) + Cardinality(New) - Cardinality({})
  BY <1>2, <1>3, FS_Union
<1>7. /\ IsFiniteSet(Seats(S \cup {r}))
      /\ Cardinality(Seats(S \cup {r})) = Cardinality(Seats(S)) + Units[r] - 0
  BY <1>1, <1>3, <1>6, FS_EmptySet, Zenon
<1> QED
  BY <1>4, <1>5, <1>7

\* Taking a reservation out of a set takes its units out of the set's seats.
LEMMA SeatsRemove ==
    ASSUME NEW S \in SUBSET Reservations, NEW r \in S,
           IsFiniteSet(Seats(S))
    PROVE  /\ IsFiniteSet(Seats(S \ {r}))
           /\ Cardinality(Seats(S \ {r})) = Cardinality(Seats(S)) - Units[r]
<1>1. Seats(S \ {r}) \subseteq Seats(S)
  BY DEF Seats
<1>2. IsFiniteSet(Seats(S \ {r}))
  BY <1>1, FS_Subset
<1>3. (S \ {r}) \cup {r} = S
  OBVIOUS
<1>4. Cardinality(Seats((S \ {r}) \cup {r})) = Cardinality(Seats(S \ {r})) + Units[r]
  BY <1>2, SeatsAdd
<1>5. Cardinality(Seats(S \ {r})) \in Nat /\ Units[r] \in Nat
  BY <1>2, FS_CardinalityType, StockAssumption
<1>6. Cardinality(Seats(S)) = Cardinality(Seats(S \ {r})) + Units[r]
  BY <1>3, <1>4, Zenon
<1>7. Cardinality(Seats(S)) \in Nat
  BY FS_CardinalityType
<1> QED
  BY <1>2, <1>5, <1>6, <1>7

-----------------------------------------------------------------------------
(* How the seats of a status change when one reservation changes status *)

\* The seats of every layer and status that has a counter are finitely many.
SeatsFinite ==
    \A l \in Layers : /\ IsFiniteSet(Seats(InLayer(l, "HELD")))
                      /\ IsFiniteSet(Seats(InLayer(l, "CONFIRMED")))

StockInv == StockTypeOK /\ SeatsFinite /\ Conservation

\* A reservation that takes the status adds its units to its layers.
LEMMA Enter ==
    ASSUME NEW l \in Layers, NEW r \in Reservations, NEW status,
           hold \in [Reservations -> HoldStatus],
           IsFiniteSet(Seats(InLayer(l, status))),
           hold[r] # status,
           hold' = [hold EXCEPT ![r] = status]
    PROVE  /\ IsFiniteSet(Seats(InLayer(l, status))')
           /\ Cardinality(Seats(InLayer(l, status))')
                = Cardinality(Seats(InLayer(l, status)))
                    + (IF l \in LayersOf[r] THEN Units[r] ELSE 0)
<1>1. InLayer(l, status) \in SUBSET Reservations /\ r \notin InLayer(l, status)
  BY DEF InLayer
<1>2. CASE l \in LayersOf[r]
  <2>1. InLayer(l, status)' = InLayer(l, status) \cup {r}
    BY <1>2 DEF InLayer
  <2>2. Seats(InLayer(l, status))' = Seats(InLayer(l, status) \cup {r})
    BY <2>1 DEF Seats
  <2> QED
    BY <1>1, <1>2, <2>2, SeatsAdd, Zenon
<1>3. CASE l \notin LayersOf[r]
  <2>1. InLayer(l, status)' = InLayer(l, status)
    BY <1>3 DEF InLayer
  <2>2. Seats(InLayer(l, status))' = Seats(InLayer(l, status))
    BY <2>1 DEF Seats
  <2>3. Cardinality(Seats(InLayer(l, status))) \in Nat
    BY FS_CardinalityType
  <2>4. Cardinality(Seats(InLayer(l, status)))
          = Cardinality(Seats(InLayer(l, status))) + 0
    BY <2>3
  <2> QED
    BY <1>3, <2>2, <2>4, Zenon
<1> QED
  BY <1>2, <1>3

\* A reservation that gives up the status takes its units out of its layers.
LEMMA Leave ==
    ASSUME NEW l \in Layers, NEW r \in Reservations, NEW status, NEW new,
           hold \in [Reservations -> HoldStatus],
           IsFiniteSet(Seats(InLayer(l, status))),
           hold[r] = status, new # status,
           hold' = [hold EXCEPT ![r] = new]
    PROVE  /\ IsFiniteSet(Seats(InLayer(l, status))')
           /\ Cardinality(Seats(InLayer(l, status))')
                = Cardinality(Seats(InLayer(l, status)))
                    + (IF l \in LayersOf[r] THEN -Units[r] ELSE 0)
<1>1. InLayer(l, status) \in SUBSET Reservations
  BY DEF InLayer
<1>2. CASE l \in LayersOf[r]
  <2>1. r \in InLayer(l, status)
    BY <1>2 DEF InLayer
  <2>2. InLayer(l, status)' = InLayer(l, status) \ {r}
    BY <1>2 DEF InLayer
  <2>3. Seats(InLayer(l, status))' = Seats(InLayer(l, status) \ {r})
    BY <2>2 DEF Seats
  <2>4. /\ IsFiniteSet(Seats(InLayer(l, status))')
        /\ Cardinality(Seats(InLayer(l, status))')
             = Cardinality(Seats(InLayer(l, status))) - Units[r]
    BY <1>1, <2>1, <2>3, SeatsRemove, Zenon
  <2>5. Cardinality(Seats(InLayer(l, status))) \in Nat /\ Units[r] \in Nat
    BY FS_CardinalityType, StockAssumption
  <2>6. Cardinality(Seats(InLayer(l, status))) - Units[r]
          = Cardinality(Seats(InLayer(l, status))) + (-Units[r])
    BY <2>5
  <2> QED
    BY <1>2, <2>4, <2>6, Zenon
<1>3. CASE l \notin LayersOf[r]
  <2>1. InLayer(l, status)' = InLayer(l, status)
    BY <1>3 DEF InLayer
  <2>2. Seats(InLayer(l, status))' = Seats(InLayer(l, status))
    BY <2>1 DEF Seats
  <2>3. Cardinality(Seats(InLayer(l, status))) \in Nat
    BY FS_CardinalityType
  <2>4. Cardinality(Seats(InLayer(l, status)))
          = Cardinality(Seats(InLayer(l, status))) + 0
    BY <2>3
  <2> QED
    BY <1>3, <2>2, <2>4, Zenon
<1> QED
  BY <1>2, <1>3

\* A reservation that neither had the status nor takes it changes nothing.
LEMMA Stay ==
    ASSUME NEW l \in Layers, NEW r \in Reservations, NEW status, NEW new,
           hold \in [Reservations -> HoldStatus],
           hold[r] # status, new # status,
           hold' = [hold EXCEPT ![r] = new]
    PROVE  Seats(InLayer(l, status))' = Seats(InLayer(l, status))
<1>1. InLayer(l, status)' = InLayer(l, status)
  BY DEF InLayer
<1> QED
  BY <1>1 DEF Seats

-----------------------------------------------------------------------------
(* Every ledger move preserves the invariant *)

\* The layers of a counter after n seats of r are added to it.
LEMMA ShiftType ==
    ASSUME NEW c \in [Layers -> Int], NEW r \in Reservations, NEW n \in Int
    PROVE  /\ Shift(c, r, n) \in [Layers -> Int]
           /\ \A l \in Layers :
                Shift(c, r, n)[l] = c[l] + (IF l \in LayersOf[r] THEN n ELSE 0)
BY DEF Shift

\* Seats are taken and given back in whole units.
LEMMA UnitsType == \A r \in Reservations : Units[r] \in Int /\ -Units[r] \in Int
BY StockAssumption

\* A counter stays exact when the reservation that takes its status is added.
LEMMA CountUp ==
    ASSUME NEW l \in Layers, NEW r \in Reservations, NEW status,
           NEW c \in [Layers -> Int],
           hold \in [Reservations -> HoldStatus],
           IsFiniteSet(Seats(InLayer(l, status))),
           c[l] = Cardinality(Seats(InLayer(l, status))),
           hold[r] # status,
           hold' = [hold EXCEPT ![r] = status]
    PROVE  /\ IsFiniteSet(Seats(InLayer(l, status))')
           /\ Shift(c, r, Units[r])[l] = Cardinality(Seats(InLayer(l, status))')
<1>1. Shift(c, r, Units[r])[l] = c[l] + (IF l \in LayersOf[r] THEN Units[r] ELSE 0)
  BY ShiftType, UnitsType
<1> QED
  BY <1>1, Enter, Zenon

\* A counter stays exact when the reservation that leaves its status is taken out.
LEMMA CountDown ==
    ASSUME NEW l \in Layers, NEW r \in Reservations, NEW status, NEW new,
           NEW c \in [Layers -> Int],
           hold \in [Reservations -> HoldStatus],
           IsFiniteSet(Seats(InLayer(l, status))),
           c[l] = Cardinality(Seats(InLayer(l, status))),
           hold[r] = status, new # status,
           hold' = [hold EXCEPT ![r] = new]
    PROVE  /\ IsFiniteSet(Seats(InLayer(l, status))')
           /\ Shift(c, r, -Units[r])[l] = Cardinality(Seats(InLayer(l, status))')
<1>1. Shift(c, r, -Units[r])[l] = c[l] + (IF l \in LayersOf[r] THEN -Units[r] ELSE 0)
  BY ShiftType, UnitsType
<1> QED
  BY <1>1, Leave, Zenon

\* The parts of the invariant a ledger move starts from.
LEMMA InvParts ==
    ASSUME StockInv
    PROVE  /\ hold \in [Reservations -> HoldStatus]
           /\ held \in [Layers -> Int] /\ booked \in [Layers -> Int]
           /\ \A l \in Layers :
                /\ IsFiniteSet(Seats(InLayer(l, "HELD")))
                /\ IsFiniteSet(Seats(InLayer(l, "CONFIRMED")))
                /\ held[l] = Cardinality(Seats(InLayer(l, "HELD")))
                /\ booked[l] = Cardinality(Seats(InLayer(l, "CONFIRMED")))
BY DEF StockInv, StockTypeOK, SeatsFinite, Conservation

\* reserveTickets: a hold keeps every counter exact in every layer it covers.
LEMMA HoldSeatsInv ==
    ASSUME StockInv, NEW r \in Reservations, HoldSeats(r)
    PROVE  StockInv'
<1>1. /\ hold[r] = "NONE" /\ hold' = [hold EXCEPT ![r] = "HELD"]
      /\ held' = Shift(held, r, Units[r]) /\ booked' = booked
  BY DEF HoldSeats
<1>2. StockTypeOK'
  BY <1>1, InvParts, ShiftType, UnitsType DEF StockTypeOK, HoldStatus
<1>3. ASSUME NEW l \in Layers
      PROVE  /\ IsFiniteSet(Seats(InLayer(l, "HELD"))')
             /\ held'[l] = Cardinality(Seats(InLayer(l, "HELD"))')
  BY <1>1, InvParts, CountUp
<1>4. ASSUME NEW l \in Layers
      PROVE  /\ IsFiniteSet(Seats(InLayer(l, "CONFIRMED"))')
             /\ booked'[l] = Cardinality(Seats(InLayer(l, "CONFIRMED"))')
  <2>1. Seats(InLayer(l, "CONFIRMED"))' = Seats(InLayer(l, "CONFIRMED"))
    BY <1>1, InvParts, Stay
  <2> QED
    BY <1>1, <2>1, InvParts
<1> QED
  BY <1>2, <1>3, <1>4 DEF StockInv, SeatsFinite, Conservation

\* claimConfirmedInventory: a replacement booking adds its seats to booked only.
LEMMA BookSeatsInv ==
    ASSUME StockInv, NEW r \in Reservations, BookSeats(r)
    PROVE  StockInv'
<1>1. /\ hold[r] = "NONE" /\ hold' = [hold EXCEPT ![r] = "CONFIRMED"]
      /\ booked' = Shift(booked, r, Units[r]) /\ held' = held
  BY DEF BookSeats
<1>2. StockTypeOK'
  BY <1>1, InvParts, ShiftType, UnitsType DEF StockTypeOK, HoldStatus
<1>3. ASSUME NEW l \in Layers
      PROVE  /\ IsFiniteSet(Seats(InLayer(l, "HELD"))')
             /\ held'[l] = Cardinality(Seats(InLayer(l, "HELD"))')
  <2>1. Seats(InLayer(l, "HELD"))' = Seats(InLayer(l, "HELD"))
    BY <1>1, InvParts, Stay
  <2> QED
    BY <1>1, <2>1, InvParts
<1>4. ASSUME NEW l \in Layers
      PROVE  /\ IsFiniteSet(Seats(InLayer(l, "CONFIRMED"))')
             /\ booked'[l] = Cardinality(Seats(InLayer(l, "CONFIRMED"))')
  BY <1>1, InvParts, CountUp
<1> QED
  BY <1>2, <1>3, <1>4 DEF StockInv, SeatsFinite, Conservation

\* confirmReservationAndStock: a payment moves the seats from held to booked.
LEMMA ConfirmSeatsInv ==
    ASSUME StockInv, NEW r \in Reservations, hold[r] = "HELD", ConfirmSeats(r)
    PROVE  StockInv'
<1>1. /\ hold[r] = "HELD" /\ hold' = [hold EXCEPT ![r] = "CONFIRMED"]
      /\ held' = Shift(held, r, -Units[r]) /\ booked' = Shift(booked, r, Units[r])
  BY DEF ConfirmSeats
<1>2. StockTypeOK'
  BY <1>1, InvParts, ShiftType, UnitsType DEF StockTypeOK, HoldStatus
<1>3. ASSUME NEW l \in Layers
      PROVE  /\ IsFiniteSet(Seats(InLayer(l, "HELD"))')
             /\ held'[l] = Cardinality(Seats(InLayer(l, "HELD"))')
  <2>1. /\ hold \in [Reservations -> HoldStatus] /\ held \in [Layers -> Int]
        /\ IsFiniteSet(Seats(InLayer(l, "HELD")))
        /\ held[l] = Cardinality(Seats(InLayer(l, "HELD")))
    BY InvParts
  <2>2. "CONFIRMED" # "HELD"
    OBVIOUS
  <2> QED
    BY <1>1, <2>1, <2>2, CountDown, Zenon
<1>4. ASSUME NEW l \in Layers
      PROVE  /\ IsFiniteSet(Seats(InLayer(l, "CONFIRMED"))')
             /\ booked'[l] = Cardinality(Seats(InLayer(l, "CONFIRMED"))')
  BY <1>1, InvParts, CountUp
<1> QED
  BY <1>2, <1>3, <1>4 DEF StockInv, SeatsFinite, Conservation

\* releaseHeldInventory: a hold that ends takes its seats out of every layer.
LEMMA ReleaseHeldInv ==
    ASSUME StockInv, NEW r \in Reservations, NEW status \in {"EXPIRED", "CANCELLED"},
           ReleaseHeld(r, status)
    PROVE  StockInv'
<1>1. /\ hold[r] = "HELD" /\ hold' = [hold EXCEPT ![r] = status]
      /\ held' = Shift(held, r, -Units[r]) /\ booked' = booked
  BY DEF ReleaseHeld
<1>2. StockTypeOK'
  BY <1>1, InvParts, ShiftType, UnitsType DEF StockTypeOK, HoldStatus
<1>3. ASSUME NEW l \in Layers
      PROVE  /\ IsFiniteSet(Seats(InLayer(l, "HELD"))')
             /\ held'[l] = Cardinality(Seats(InLayer(l, "HELD"))')
  <2>1. /\ hold \in [Reservations -> HoldStatus] /\ held \in [Layers -> Int]
        /\ IsFiniteSet(Seats(InLayer(l, "HELD")))
        /\ held[l] = Cardinality(Seats(InLayer(l, "HELD")))
    BY InvParts
  <2>2. status # "HELD"
    OBVIOUS
  <2> QED
    BY <1>1, <2>1, <2>2, CountDown, Zenon
<1>4. ASSUME NEW l \in Layers
      PROVE  /\ IsFiniteSet(Seats(InLayer(l, "CONFIRMED"))')
             /\ booked'[l] = Cardinality(Seats(InLayer(l, "CONFIRMED"))')
  <2>1. Seats(InLayer(l, "CONFIRMED"))' = Seats(InLayer(l, "CONFIRMED"))
    BY <1>1, InvParts, Stay
  <2> QED
    BY <1>1, <2>1, InvParts
<1> QED
  BY <1>2, <1>3, <1>4 DEF StockInv, SeatsFinite, Conservation

\* No ledger move at all leaves every counter as it is.
LEMMA StutterInv ==
    ASSUME StockInv, UNCHANGED stockVars
    PROVE  StockInv'
BY DEF StockInv, StockTypeOK, SeatsFinite, Conservation, InLayer, Seats, stockVars

\* releaseInventory: a booking that ends takes its seats out of every layer.
LEMMA ReleaseBookedInv ==
    ASSUME StockInv, NEW r \in Reservations, ReleaseBooked(r)
    PROVE  StockInv'
<1>1. CASE hold[r] # "CONFIRMED"
  BY <1>1, StutterInv DEF ReleaseBooked
<1>2. CASE hold[r] = "CONFIRMED"
  <2>1. /\ hold[r] = "CONFIRMED" /\ hold' = [hold EXCEPT ![r] = "CANCELLED"]
        /\ booked' = Shift(booked, r, -Units[r]) /\ held' = held
    BY <1>2 DEF ReleaseBooked
  <2>2. StockTypeOK'
    BY <2>1, InvParts, ShiftType, UnitsType DEF StockTypeOK, HoldStatus
  <2>3. ASSUME NEW l \in Layers
        PROVE  /\ IsFiniteSet(Seats(InLayer(l, "HELD"))')
               /\ held'[l] = Cardinality(Seats(InLayer(l, "HELD"))')
    <3>1. Seats(InLayer(l, "HELD"))' = Seats(InLayer(l, "HELD"))
      BY <2>1, InvParts, Stay
    <3> QED
      BY <2>1, <3>1, InvParts
  <2>4. ASSUME NEW l \in Layers
        PROVE  /\ IsFiniteSet(Seats(InLayer(l, "CONFIRMED"))')
               /\ booked'[l] = Cardinality(Seats(InLayer(l, "CONFIRMED"))')
    <3>1. /\ hold \in [Reservations -> HoldStatus] /\ booked \in [Layers -> Int]
          /\ IsFiniteSet(Seats(InLayer(l, "CONFIRMED")))
          /\ booked[l] = Cardinality(Seats(InLayer(l, "CONFIRMED")))
      BY InvParts
    <3>2. "CANCELLED" # "CONFIRMED"
      OBVIOUS
    <3> QED
      BY <2>1, <3>1, <3>2, CountDown, Zenon
  <2> QED
    BY <2>2, <2>3, <2>4 DEF StockInv, SeatsFinite, Conservation
<1> QED
  BY <1>1, <1>2

-----------------------------------------------------------------------------
(* Theorems *)

\* An untouched day has empty counters and no reservation with seats.
LEMMA StockInitInv ==
    ASSUME StockInit
    PROVE  StockInv
<1>1. StockTypeOK
  BY DEF StockInit, StockTypeOK, HoldStatus
<1>2. \A l \in Layers, status \in {"HELD", "CONFIRMED"} :
        Seats(InLayer(l, status)) = {}
  BY DEF StockInit, InLayer, Seats
<1>3. ASSUME NEW l \in Layers
      PROVE  /\ IsFiniteSet(Seats(InLayer(l, "HELD")))
             /\ IsFiniteSet(Seats(InLayer(l, "CONFIRMED")))
             /\ Cardinality(Seats(InLayer(l, "HELD"))) = 0
             /\ Cardinality(Seats(InLayer(l, "CONFIRMED"))) = 0
  BY <1>2, FS_EmptySet
<1>4. \A l \in Layers : held[l] = 0 /\ booked[l] = 0
  BY DEF StockInit
<1> QED
  BY <1>1, <1>3, <1>4 DEF StockInv, SeatsFinite, Conservation

\* The strengthened invariant is inductive: one lemma per ledger move.
LEMMA StockNextInv ==
    ASSUME StockInv, [StockNext]_stockVars
    PROVE  StockInv'
<1>1. ASSUME NEW r \in Reservations, StockStep(r)
      PROVE  StockInv'
  BY <1>1, HoldSeatsInv, BookSeatsInv, ConfirmSeatsInv, ReleaseHeldInv,
     ReleaseBookedInv DEF StockStep
<1>2. CASE UNCHANGED stockVars
  BY <1>2, StutterInv
<1> QED
  BY <1>1, <1>2 DEF StockNext

\* The ledger keeps the strengthened invariant: exact, finite, well-typed.
THEOREM StockInvariant == StockSpec => []StockInv
<1>1. StockInit => StockInv
  BY StockInitInv
<1>2. StockInv /\ [StockNext]_stockVars => StockInv'
  BY StockNextInv
<1> QED
  BY <1>1, <1>2, PTL DEF StockSpec

\* Whatever the handlers do through the ledger moves, every counter of every
\* layer counts exactly the seats of the reservations in its status.
THEOREM StockConservation == StockSpec => []Conservation
<1>1. StockInv => Conservation
  BY DEF StockInv
<1> QED
  BY <1>1, StockInvariant, PTL

\* A member's seats are among the seats of the set, so they are no more.
LEMMA CounterCovers ==
    ASSUME StockInv, NEW r \in Reservations, NEW l \in LayersOf[r]
    PROVE  /\ hold[r] = "HELD" => held[l] >= Units[r]
           /\ hold[r] = "CONFIRMED" => booked[l] >= Units[r]
<1> DEFINE Own == {r} \X (1 .. Units[r])
<1>1. l \in Layers
  BY StockAssumption
<1>2. IsFiniteSet(Own) /\ Cardinality(Own) = Units[r]
  BY SeatsOfOne
<1>3. Units[r] \in Nat
  BY StockAssumption
<1>4. ASSUME NEW status \in {"HELD", "CONFIRMED"}, hold[r] = status
      PROVE  Cardinality(Seats(InLayer(l, status))) >= Units[r]
  <2>1. Own \subseteq Seats(InLayer(l, status))
    BY <1>4 DEF InLayer, Seats
  <2>2. IsFiniteSet(Seats(InLayer(l, status)))
    BY <1>1, InvParts
  <2>3. Cardinality(Own) <= Cardinality(Seats(InLayer(l, status)))
    BY <2>1, <2>2, FS_Subset
  <2>4. Cardinality(Seats(InLayer(l, status))) \in Nat
    BY <2>2, FS_CardinalityType
  <2> HIDE DEF Own
  <2> QED
    BY <1>2, <1>3, <2>3, <2>4
<1> QED
  BY <1>1, <1>4, InvParts

\* HELD_STOCK_DRIFT is out of reach of the handlers' own operations.
THEOREM StockNeverDrifts == StockSpec => []NoDrift
<1>1. StockInv => NoDrift
  BY CounterCovers DEF NoDrift, Covers
<1> QED
  BY <1>1, StockInvariant, PTL
=============================================================================
