------------------------------ MODULE MCBooking ------------------------------
(* One booking, two payment attempts, a venue that changes its mind. *)
EXTENDS Booking

MCReservations == {"r1"}
MCLayers == {"product", "day"}
MCLayersOf == [r \in MCReservations |-> MCLayers]
MCUnits == [r \in MCReservations |-> 1]
MCOwner == [r \in MCReservations |-> "u1"]
MCOffer == [r \in MCReservations |-> "o1"]
MCAttempts == {"p1", "p2"}
MCBookingOf == [p \in MCAttempts |-> "r1"]
MCWithVoucher == MCReservations
MCCapacity == [l \in MCLayers |-> 1]
=============================================================================
