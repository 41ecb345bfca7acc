------------------------------- MODULE MCShared -------------------------------
(***************************************************************************)
(* Four reservations competing for seats, holds and one voucher: three of  *)
(* one customer for two products of a venue, one of another customer.  The *)
(* venue keeps its mode and stays open (MCBooking lets both change).       *)
(***************************************************************************)
EXTENDS Booking

MCReservations == {"r1", "r2", "r3", "r4"}
MCLayers == {"pA", "pB", "day"}
MCLayersOf == [r \in MCReservations |-> IF r = "r2" THEN {"pB", "day"} ELSE {"pA", "day"}]

\* r2 is a family ticket admitting two; r1 and r4 are for the same offer.
MCUnits == [r \in MCReservations |-> IF r = "r2" THEN 2 ELSE 1]
MCOwner == [r \in MCReservations |-> IF r = "r3" THEN "u2" ELSE "u1"]
MCOffer == [r \in MCReservations |-> IF r = "r2" THEN "oB" ELSE "oA"]
MCAttempts == {"p1"}
MCBookingOf == [p \in MCAttempts |-> "r1"]
MCWithVoucher == {"r1", "r3"}
MCCapacity == [l \in MCLayers |-> 3]

SharedSpec == Init /\ [][Next /\ UNCHANGED venueVars]_vars
=============================================================================
