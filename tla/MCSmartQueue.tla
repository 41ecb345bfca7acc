---------------------------- MODULE MCSmartQueue ----------------------------
(* A couple and a single visitor at a gate that takes in one party at a time, a *)
(* clock from the opening of the queue to midnight, one pause.                  *)
EXTENDS SmartQueue, TLC

CONSTANTS couple, single

MCParties == {couple, single}
MCQuantity == [b \in MCParties |-> IF b = couple THEN 2 ELSE 1]
=============================================================================
