-------------------------------- MODULE MCLive --------------------------------
(* One booking and one payment attempt under the fairness of FairSpec. *)
EXTENDS Booking

MCReservations == {"r1"}
MCLayers == {"day"}
MCLayersOf == [r \in MCReservations |-> MCLayers]
MCUnits == [r \in MCReservations |-> 1]
MCOwner == [r \in MCReservations |-> "u1"]
MCOffer == [r \in MCReservations |-> "o1"]
MCAttempts == {"p1"}
MCBookingOf == [p \in MCAttempts |-> "r1"]
MCWithVoucher == {}
MCCapacity == [l \in MCLayers |-> 1]
=============================================================================
