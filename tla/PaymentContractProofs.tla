------------------------ MODULE PaymentContractProofs ------------------------
(* What the payment contract gives a customer: proofs about PaymentContract. *)
EXTENDS PaymentContract, TLAPS

ContractTypeOK ==
    /\ order \in [Orders -> {"open", "served", "closed"}]
    /\ money \in [Attempts -> {"none", "kept", "owed"}]

ContractInv == ContractTypeOK /\ ServedIsPaidOnce

\* A charge that is not kept moves no other charge: Refuse and Return.
LEMMA OwedKeepsContract ==
    ASSUME OrderOf \in [Attempts -> Orders], ContractInv,
           NEW p \in Attempts, Refuse(p) \/ Return(p)
    PROVE  ContractInv'
<1>1. ContractTypeOK'
  BY DEF Refuse, Return, ContractInv, ContractTypeOK
<1>2. money[p] = "none" /\ money'[p] = "owed"
      /\ \A q \in Attempts : q # p => money'[q] = money[q]
  BY DEF Refuse, Return, ContractInv, ContractTypeOK
<1>3. \A o \in Orders : order'[o] = "served" <=> order[o] = "served"
  BY DEF Refuse, Return, ContractInv, ContractTypeOK
<1>4. ServedIsPaidOnce'
  BY <1>2, <1>3 DEF ContractInv, ServedIsPaidOnce
<1> QED
  BY <1>1, <1>4 DEF ContractInv

\* The first charge of an open order is the only one it keeps.
LEMMA ServeKeepsContract ==
    ASSUME OrderOf \in [Attempts -> Orders], ContractInv, NEW p \in Attempts, Serve(p)
    PROVE  ContractInv'
<1>1. ContractTypeOK'
  BY DEF Serve, ContractInv, ContractTypeOK
<1>2. /\ order[OrderOf[p]] = "open" /\ money'[p] = "kept"
      /\ \A q \in Attempts : q # p => money'[q] = money[q]
  BY DEF Serve, ContractInv, ContractTypeOK
<1>3. /\ order'[OrderOf[p]] = "served"
      /\ \A o \in Orders : o # OrderOf[p] => order'[o] = order[o]
  BY DEF Serve, ContractInv, ContractTypeOK
<1>4. \A q \in Attempts : OrderOf[q] = OrderOf[p] => money[q] # "kept"
  BY <1>2 DEF ContractInv, ServedIsPaidOnce
<1>5. \A q \in Attempts : money'[q] = "kept" => order'[OrderOf[q]] = "served"
  BY <1>2, <1>3, <1>4 DEF ContractInv, ServedIsPaidOnce
<1>6. \A q, s \in Attempts :
        money'[q] = "kept" /\ money'[s] = "kept" /\ OrderOf[q] = OrderOf[s] => q = s
  BY <1>2, <1>4 DEF ContractInv, ServedIsPaidOnce
<1>7. \A o \in Orders :
        order'[o] = "served" => \E q \in Attempts : OrderOf[q] = o /\ money'[q] = "kept"
  <2> TAKE o \in Orders
  <2>1. CASE o = OrderOf[p]
    BY <1>2, <2>1
  <2>2. CASE o # OrderOf[p]
    <3> HAVE order'[o] = "served"
    <3>1. PICK q \in Attempts : OrderOf[q] = o /\ money[q] = "kept"
      BY <1>3, <2>2 DEF ContractInv, ServedIsPaidOnce
    <3> WITNESS q \in Attempts
    <3> QED
      BY <1>2, <2>2, <3>1
  <2> QED
    BY <2>1, <2>2
<1> QED
  BY <1>1, <1>5, <1>6, <1>7 DEF ContractInv, ServedIsPaidOnce

\* Closing an order leaves it without a charge and the others as they were.
LEMMA CloseKeepsContract ==
    ASSUME OrderOf \in [Attempts -> Orders], ContractInv, NEW o \in Orders, Close(o)
    PROVE  ContractInv'
<1>1. ContractTypeOK'
  BY DEF Close, ContractInv, ContractTypeOK
<1>2. \A q \in Attempts : money'[q] = "kept" <=> money[q] = "kept" /\ OrderOf[q] # o
  BY DEF Close, ContractInv, ContractTypeOK
<1>3. order'[o] = "closed" /\ \A u \in Orders : u # o => order'[u] = order[u]
  BY DEF Close, ContractInv, ContractTypeOK
<1> QED
  BY <1>1, <1>2, <1>3 DEF ContractInv, ServedIsPaidOnce

\* The invariant behind both theorems.
LEMMA ContractInvariant ==
    ASSUME OrderOf \in [Attempts -> Orders]
    PROVE  ContractSpec => []ContractInv
<1>1. ContractInit => ContractInv
  BY DEF ContractInit, ContractInv, ContractTypeOK, ServedIsPaidOnce
<1>2. ContractInv /\ [ContractNext]_contractVars => ContractInv'
  <2> SUFFICES ASSUME ContractInv, [ContractNext]_contractVars
               PROVE  ContractInv'
    OBVIOUS
  <2>1. ASSUME NEW p \in Attempts, Serve(p) \/ Refuse(p) \/ Return(p)
        PROVE  ContractInv'
    BY <2>1, ServeKeepsContract, OwedKeepsContract
  <2>2. ASSUME NEW o \in Orders, Close(o)
        PROVE  ContractInv'
    BY <2>2, CloseKeepsContract
  <2>3. CASE UNCHANGED contractVars
    BY <2>3 DEF contractVars, ContractInv, ContractTypeOK, ServedIsPaidOnce
  <2> QED
    BY <2>1, <2>2, <2>3 DEF ContractNext
<1> QED
  BY <1>1, <1>2, PTL DEF ContractSpec

\* Whoever implements the contract keeps exactly one charge for every order it
\* serves, and none for any other: what KeepsContract means for a customer of
\* the booking flow.
THEOREM ContractHolds ==
    ASSUME OrderOf \in [Attempts -> Orders]
    PROVE  ContractSpec => []ServedIsPaidOnce
<1>1. ContractInv => ServedIsPaidOnce
  BY DEF ContractInv
<1> QED
  BY <1>1, ContractInvariant, PTL

\* Whoever implements the contract never forgets a debt and never serves an order
\* again that was closed, whatever the gateway reports afterwards.
THEOREM DebtsRemain ==
    ASSUME OrderOf \in [Attempts -> Orders]
    PROVE  ContractSpec => DebtsStand
<1>1. ASSUME ContractInv, [ContractNext]_contractVars
      PROVE  [DebtsStep]_contractVars
  <2>1. ASSUME NEW p \in Attempts, Serve(p) \/ Refuse(p) \/ Return(p)
        PROVE  /\ \A q \in Attempts : q # p => money'[q] = money[q]
               /\ money[p] = "none"
               /\ \A o \in Orders : order[o] = "closed" => order'[o] = "closed"
    BY <1>1, <2>1 DEF Serve, Refuse, Return, ContractInv, ContractTypeOK
  <2>2. ASSUME NEW o \in Orders, Close(o)
        PROVE  /\ \A q \in Attempts :
                    money'[q] = IF OrderOf[q] = o /\ money[q] = "kept"
                                THEN "owed" ELSE money[q]
               /\ order'[o] = "closed"
               /\ \A u \in Orders : u # o => order'[u] = order[u]
    BY <1>1, <2>2 DEF Close, ContractInv, ContractTypeOK
  <2>3. CASE UNCHANGED contractVars
    BY <2>3
  <2> QED
    BY <1>1, <2>1, <2>2, <2>3 DEF ContractNext, DebtsStep
<1> QED
  BY <1>1, ContractInvariant, PTL DEF ContractSpec, DebtsStand
=============================================================================
