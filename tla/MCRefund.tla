------------------------------ MODULE MCRefund ------------------------------
(* The difference refund of an accepted recovery, which the system queues, and *)
(* the refund of the replacement ticket, which the customer asks for later.    *)
EXTENDS Refund

CONSTANTS difference, replacement, worker, staff, mailer

MCRequests == {difference, replacement}
MCQueued == {difference}
MCWaits == {replacement}
\* Together they ask for more than the payment brought in.
MCAmount == [r \in MCRequests |-> IF r = replacement THEN 2 ELSE 1]
MCWorkers == {worker}
MCStaff == {staff}
MCSenders == {mailer}
NoStaff == {}
=============================================================================
