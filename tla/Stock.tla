-------------------------------- MODULE Stock --------------------------------
(***************************************************************************)
(* The seat ledger of VietTicket: three layers of counters (the product's  *)
(* day, the attraction's day, the time slot) kept beside the reservations  *)
(* they are supposed to count.  The database never recomputes a counter    *)
(* from the reservations, so every handler that moves a reservation must   *)
(* move every layer with it, by the same number of seats, exactly once.    *)
(*                                                                         *)
(* The operators below are the ledger moves the handlers are built from;   *)
(* StockSpec is the abstract ledger: what any handler may do to the stock. *)
(* Inventory.tla and Booking.tla extend this module and are shown to       *)
(* implement StockSpec.                                                    *)
(***************************************************************************)
EXTENDS Integers, FiniteSets

CONSTANTS
    Reservations,   \* ids a reservation can be created under
    Layers,         \* the counter rows: product days, attraction days, slots
    LayersOf,       \* the rows a reservation counts in (two, three with a slot)
    Units           \* seats of a reservation: quantity * admissions a ticket

ASSUME StockAssumption ==
    /\ LayersOf \in [Reservations -> SUBSET Layers]
    /\ Units \in [Reservations -> Nat \ {0}]

VARIABLES
    held,       \* held[l]: DailyStock.heldQuantity, heldQty of the other layers
    booked,     \* booked[l]: bookedQuantity, bookedQty
    hold        \* hold[r]: Reservation.status, "NONE" before it exists

stockVars == <<held, booked, hold>>

HoldStatus == {"NONE", "HELD", "CONFIRMED", "EXPIRED", "CANCELLED"}

-----------------------------------------------------------------------------
(* Counter arithmetic *)

\* The counters c after n seats are added in every layer of r.
Shift(c, r, n) == [l \in Layers |-> IF l \in LayersOf[r] THEN c[l] + n ELSE c[l]]

\* The guard `gte: inventoryUnits` the code puts on every decrement.
Covers(c, r) == \A l \in LayersOf[r] : c[l] >= Units[r]

\* Bug: seats on hold are not counted against the capacity.
FitsBooked(r, capacity) ==
    \A l \in LayersOf[r] : booked[l] + Units[r] <= capacity[l]

\* Enough seats are left for r in every layer of the schedule capacity.
Fits(r, capacity) ==
    \A l \in LayersOf[r] : booked[l] + held[l] + Units[r] <= capacity[l]

-----------------------------------------------------------------------------
(* Ledger moves.  A move whose counter guard fails throws in the code and   *)
(* rolls the transaction back, so here the enclosing action is not enabled. *)

\* Bug: one seat a ticket, whatever the ticket admits.
HoldTicket(r) ==
    /\ hold[r] = "NONE"
    /\ hold' = [hold EXCEPT ![r] = "HELD"]
    /\ held' = Shift(held, r, 1)
    /\ UNCHANGED booked

HoldSeats(r) ==
    /\ hold[r] = "NONE"
    /\ hold' = [hold EXCEPT ![r] = "HELD"]
    /\ held' = Shift(held, r, Units[r])
    /\ UNCHANGED booked

\* A replacement booking of the recovery flow skips the hold.
BookSeats(r) ==
    /\ hold[r] = "NONE"
    /\ hold' = [hold EXCEPT ![r] = "CONFIRMED"]
    /\ booked' = Shift(booked, r, Units[r])
    /\ UNCHANGED held

\* Bug: the seats are booked and stay held.
ConfirmKeepsHold(r) ==
    /\ hold[r] # "CONFIRMED"
    /\ hold' = [hold EXCEPT ![r] = "CONFIRMED"]
    /\ booked' = Shift(booked, r, Units[r])
    /\ UNCHANGED held

\* Returns early on a CONFIRMED reservation and checks no other status: that
\* the reservation is still HELD is the caller's business.
ConfirmSeats(r) ==
    IF hold[r] = "CONFIRMED"
    THEN UNCHANGED stockVars
    ELSE /\ Covers(held, r)
         /\ hold' = [hold EXCEPT ![r] = "CONFIRMED"]
         /\ held' = Shift(held, r, -Units[r])
         /\ booked' = Shift(booked, r, Units[r])

\* The claim HELD -> status comes first: a second caller finds no HELD row.
ReleaseHeld(r, status) ==
    /\ hold[r] = "HELD"
    /\ Covers(held, r)
    /\ hold' = [hold EXCEPT ![r] = status]
    /\ held' = Shift(held, r, -Units[r])
    /\ UNCHANGED booked

\* Silently does nothing on a reservation that is not CONFIRMED.
ReleaseBooked(r) ==
    IF hold[r] # "CONFIRMED"
    THEN UNCHANGED stockVars
    ELSE /\ Covers(booked, r)
         /\ hold' = [hold EXCEPT ![r] = "CANCELLED"]
         /\ booked' = Shift(booked, r, -Units[r])
         /\ UNCHANGED held

-----------------------------------------------------------------------------
(* The abstract ledger *)

StockInit ==
    /\ held = [l \in Layers |-> 0]
    /\ booked = [l \in Layers |-> 0]
    /\ hold = [r \in Reservations |-> "NONE"]

StockStep(r) ==
    \/ HoldSeats(r)
    \/ BookSeats(r)
    \/ hold[r] = "HELD" /\ ConfirmSeats(r)
    \/ \E status \in {"EXPIRED", "CANCELLED"} : ReleaseHeld(r, status)
    \/ ReleaseBooked(r)

StockNext == \E r \in Reservations : StockStep(r)

\* What every program that uses the ledger must implement: it never confirms
\* a reservation whose hold was given back, never gives back a hold twice.
StockSpec == StockInit /\ [][StockNext]_stockVars

-----------------------------------------------------------------------------
(* Properties *)

StockTypeOK ==
    /\ held \in [Layers -> Int]
    /\ booked \in [Layers -> Int]
    /\ hold \in [Reservations -> HoldStatus]

\* The seats of a set of reservations, one element a seat.
Seats(S) == UNION {{r} \X (1 .. Units[r]) : r \in S}

\* The reservations with a status that count in a layer.
InLayer(l, status) == {r \in Reservations : l \in LayersOf[r] /\ hold[r] = status}

\* Every counter of every layer is the number of seats of the reservations in
\* that status: what all `gte` guards and the HELD_STOCK_DRIFT quarantine of
\* refundService.js and cleanupWorker.js assume and nothing recomputes.
Conservation ==
    \A l \in Layers :
        /\ held[l] = Cardinality(Seats(InLayer(l, "HELD")))
        /\ booked[l] = Cardinality(Seats(InLayer(l, "CONFIRMED")))

\* No decrement can fail: a HELD reservation is covered by the held counters of
\* all its layers and a CONFIRMED one by the booked counters, so the handlers
\* never reach HELD_STOCK_DRIFT through operations of their own.
NoDrift ==
    \A r \in Reservations :
        /\ hold[r] = "HELD" => Covers(held, r)
        /\ hold[r] = "CONFIRMED" => Covers(booked, r)
=============================================================================
