--------------------------- MODULE RefundContract ---------------------------
(***************************************************************************)
(* What the refund desk promises, whoever executes a refund: money leaves  *)
(* at most once for a request, a request is closed once, and the customer  *)
(* hears of a refund only after its request is closed.                     *)
(***************************************************************************)
EXTENDS Naturals

CONSTANT Requests   \* refund requests

VARIABLES
    paid,       \* how often each request was paid out
    closed,     \* the requests that are approved
    told        \* the requests whose customer was told

contractVars == <<paid, closed, told>>

ContractInit ==
    /\ paid = [r \in Requests |-> 0]
    /\ closed = {}
    /\ told = {}

Pay(r) ==
    /\ paid[r] = 0
    /\ paid' = [paid EXCEPT ![r] = 1]
    /\ UNCHANGED <<closed, told>>

Close(r) ==
    /\ r \notin closed
    /\ closed' = closed \union {r}
    /\ UNCHANGED <<paid, told>>

Tell(r) ==
    /\ r \in closed \ told
    /\ told' = told \union {r}
    /\ UNCHANGED <<paid, closed>>

ContractNext == \E r \in Requests : Pay(r) \/ Close(r) \/ Tell(r)

ContractSpec == ContractInit /\ [][ContractNext]_contractVars
=============================================================================
