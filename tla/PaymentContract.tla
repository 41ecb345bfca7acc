--------------------------- MODULE PaymentContract ---------------------------
(***************************************************************************)
(* What a customer is promised about money, without clocks, holds, queues  *)
(* or callbacks: every charge the gateway reports is either kept for an    *)
(* order that is served, or owed back; an order keeps one charge at most,  *)
(* and an order that is closed keeps none.                                 *)
(***************************************************************************)
CONSTANTS
    Orders,     \* bookings
    Attempts,   \* payment attempts
    OrderOf     \* the booking an attempt pays for

VARIABLES
    order,      \* "open", "served" or "closed"
    money       \* "none", "kept" or "owed" of each attempt

contractVars == <<order, money>>

ContractInit ==
    /\ order = [o \in Orders |-> "open"]
    /\ money = [p \in Attempts |-> "none"]

\* The first charge of an open order is kept, and the order is served.
Serve(p) ==
    /\ money[p] = "none" /\ order[OrderOf[p]] = "open"
    /\ money' = [money EXCEPT ![p] = "kept"]
    /\ order' = [order EXCEPT ![OrderOf[p]] = "served"]

\* A charge that comes too late closes its order and is owed back.
Refuse(p) ==
    /\ money[p] = "none" /\ order[OrderOf[p]] # "served"
    /\ money' = [money EXCEPT ![p] = "owed"]
    /\ order' = [order EXCEPT ![OrderOf[p]] = "closed"]

\* A second charge is owed back and leaves the order alone.
Return(p) ==
    /\ money[p] = "none" /\ order[OrderOf[p]] # "open"
    /\ money' = [money EXCEPT ![p] = "owed"]
    /\ UNCHANGED order

\* Cancelling an order turns the charge it kept into a debt.
Close(o) ==
    /\ order[o] # "closed"
    /\ order' = [order EXCEPT ![o] = "closed"]
    /\ money' = [p \in Attempts |->
                    IF OrderOf[p] = o /\ money[p] = "kept" THEN "owed" ELSE money[p]]

ContractNext ==
    \/ \E p \in Attempts : Serve(p) \/ Refuse(p) \/ Return(p)
    \/ \E o \in Orders : Close(o)

ContractSpec == ContractInit /\ [][ContractNext]_contractVars

-----------------------------------------------------------------------------

\* A served order keeps exactly one charge, any other order keeps none.
ServedIsPaidOnce ==
    /\ \A p \in Attempts : money[p] = "kept" => order[OrderOf[p]] = "served"
    /\ \A p, q \in Attempts :
        money[p] = "kept" /\ money[q] = "kept" /\ OrderOf[p] = OrderOf[q] => p = q
    /\ \A o \in Orders :
        order[o] = "served" => \E p \in Attempts : OrderOf[p] = o /\ money[p] = "kept"

\* What is owed stays owed, an order that was closed is never served again, and a
\* charge stops being kept only when its order is closed.
DebtsStep ==
    /\ \A p \in Attempts : money[p] = "owed" => money'[p] = "owed"
    /\ \A o \in Orders : order[o] = "closed" => order'[o] = "closed"
    /\ \A p \in Attempts :
        money[p] = "kept" /\ money'[p] # "kept" => order'[OrderOf[p]] = "closed"

DebtsStand == [][DebtsStep]_contractVars
=============================================================================
