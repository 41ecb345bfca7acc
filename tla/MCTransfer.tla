----------------------------- MODULE MCTransfer -----------------------------
(* A booking a partner has to approve, two transfers of its total and one of   *)
(* another amount, deliveries of webhooks at a time, a maker and a checker.    *)
EXTENDS BankTransfer, TLC

CONSTANTS trip, e1, e2, e3, h1, h2, maker, checker

MCBookings == {trip}
MCManual == {trip}
MCEvents == {e1, e2, e3}
MCEventBooking == [e \in MCEvents |-> trip]
MCExact == {e1, e2}
MCHandlers == {h1, h2}
MCAdmins == {maker, checker}
MCSymmetry ==
    Permutations(MCHandlers) \union Permutations(MCExact) \union Permutations(MCAdmins)
=============================================================================
