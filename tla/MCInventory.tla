----------------------------- MODULE MCInventory -----------------------------
(* Inventory on two products, two slots and four reservations. *)
EXTENDS Inventory

MCDay == "day"
MCSlots == {"am", "pm"}
MCLayers == {"pA", "pB", "day", "am", "pm"}
MCReservations == {"r1", "r2", "r3", "r4"}

MCLayersOf ==
    [r \in MCReservations |->
        CASE r = "r1" -> {"pA", "day", "am"}
          [] r \in {"r2", "r3"} -> {"pB", "day", "am"}
          [] r = "r4" -> {"pA", "day", "pm"}]

\* r2 is a family ticket admitting two.
MCUnits == [r \in MCReservations |-> IF r = "r2" THEN 2 ELSE 1]

\* Wide, without the afternoon, halved, and closed for the day.
MCSchedules ==
    { [day |-> 4, slot |-> [t \in {"am", "pm"} |-> IF t = "am" THEN 3 ELSE 1]],
      [day |-> 3, slot |-> [t \in {"am"} |-> 3]],
      [day |-> 2, slot |-> [t \in {"am", "pm"} |-> 1]],
      [day |-> 0, slot |-> [t \in {"am", "pm"} |-> 1]] }
=============================================================================
