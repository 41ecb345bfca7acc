---------------------------- MODULE RefundProofs ----------------------------
(***************************************************************************)
(* Proofs about Refund, for any number of requests, transactions, workers, *)
(* members of staff, senders and crashes.                                  *)
(***************************************************************************)
EXTENDS Refund, FiniteSetTheorems, TLAPS

-----------------------------------------------------------------------------
(* Types *)

\* A process at work on a transaction, rather than on a request.
WithTx(p) ==
    \/ proc[p].pc \in {"submitted", "calling", "recorded", "querying"}
    \/ proc[p].pc = "claimed" /\ p \in Workers

\* What a process remembers fits what it is doing.
ProcOK(p) ==
    /\ WithTx(p) =>
        /\ proc[p].tx \in Txs /\ Exists(proc[p].tx)
        /\ proc[p].req = tx[proc[p].tx].req
    /\ ~WithTx(p) => proc[p].tx = 0
    /\ proc[p].pc \in {"read", "claimed", "approved"} /\ ~WithTx(p) =>
        p \in Staff /\ proc[p].req \in Requests
    /\ proc[p].pc = "querying" => proc[p].seen \in Blocking

\* Transactions are numbered without gaps, and each is one of a request.
TxOK(t) ==
    /\ Exists(t) => tx[t].req \in Requests /\ \A u \in Txs : u < t => Exists(u)
    /\ ~Exists(t) => tx[t] = NoTx

TxType == [req : Requests \union {None}, status : Statuses \union {"NONE"},
           submitted : BOOLEAN, response : {"none", "ok", "echo"}]
ProcType == [pc : {"idle", "read", "claimed", "submitted", "calling", "recorded", "querying",
                   "approved"},
             req : Requests \union {None}, tx : Txs \union {0},
             seen : Blocking \union {"uncertain", "clear", "ok", "echo", "-"}]

DeskType ==
    /\ request \in [Requests -> Open \union {"NONE", "APPROVED"}]
    /\ byStaff \in [Requests -> BOOLEAN]
    /\ tx \in [Txs -> TxType]
    /\ \A t \in Txs : TxOK(t)

ProcsOK == proc \in [Procs -> ProcType] /\ \A p \in Procs : ProcOK(p)

MailType ==
    /\ outbox \in [Requests -> {"NONE", "PENDING", "PROCESSING", "SENT"}]
    /\ sending \in [Senders -> Requests \union {None}]
    /\ told \subseteq Requests
    /\ crashes \in 0..MaxCrash

TypeInv ==
    /\ DeskType /\ ProcsOK /\ MailType
    /\ gateway \in [Txs -> {"none", "sent", "refunded", "declined"}]

\* The row of an existing transaction is written, its request stays.
Sets(t, s, sub, resp) ==
    tx' = [tx EXCEPT ![t] = [req |-> tx[t].req, status |-> s,
                             submitted |-> sub, response |-> resp]]

LEMMA SetsType ==
    ASSUME DeskType, NEW t \in Txs, Exists(t), NEW s \in Statuses, NEW sub \in BOOLEAN,
           NEW resp \in {"none", "ok", "echo"}, Sets(t, s, sub, resp)
    PROVE  /\ tx' \in [Txs -> TxType]
           /\ tx'[t].status = s /\ tx'[t].submitted = sub /\ tx'[t].response = resp
           /\ \A u \in Txs : u # t => tx'[u] = tx[u]
           /\ \A u \in Txs : tx'[u].req = tx[u].req /\ (Exists(u)' <=> Exists(u))
           /\ \A u \in Txs : TxOK(u)'
<1>1. tx \in [Txs -> TxType] /\ tx[t].req \in Requests \union {None}
  BY DEF DeskType, TxType
<1>2. /\ tx' \in [Txs -> TxType]
      /\ tx'[t].status = s /\ tx'[t].submitted = sub /\ tx'[t].response = resp
      /\ tx'[t].req = tx[t].req
      /\ \A u \in Txs : u # t => tx'[u] = tx[u]
  BY <1>1 DEF Sets, TxType
<1>3. \A u \in Txs : tx'[u].req = tx[u].req /\ (Exists(u)' <=> Exists(u))
  BY <1>2 DEF Exists, Statuses
<1>4. \A u \in Txs : TxOK(u)'
  BY <1>2, <1>3 DEF TxOK, DeskType
<1> QED
  BY <1>2, <1>3, <1>4

\* A row that is written by field.
LEMMA FieldSets ==
    ASSUME DeskType, NEW t \in Txs
    PROVE  /\ \A s : tx' = [tx EXCEPT ![t].status = s]
                => Sets(t, s, tx[t].submitted, tx[t].response)
           /\ \A s, resp : tx' = [tx EXCEPT ![t].status = s, ![t].response = resp]
                => Sets(t, s, tx[t].submitted, resp)
           /\ \A s, resp : tx' = [tx EXCEPT ![t].response = resp, ![t].status = s]
                => Sets(t, s, tx[t].submitted, resp)
           /\ \A sub : tx' = [tx EXCEPT ![t].submitted = sub]
                => Sets(t, tx[t].status, sub, tx[t].response)
<1>1. tx \in [Txs -> TxType] /\ tx[t] \in TxType
  BY DEF DeskType
<1> QED
  BY <1>1 DEF Sets, TxType

\* No transaction disappears or changes hands.
TxKeeps ==
    \A u \in Txs : Exists(u) => Exists(u)' /\ tx'[u].req = tx[u].req

\* What a refused, a finished and a doubtful refund do to the rows of the desk.
Reopened(r) ==
    \/ request[r] \in Open /\ request' = [request EXCEPT ![r] = "PENDING"]
    \/ request[r] \notin Open /\ request' = request

LEMMA ReopenType ==
    ASSUME DeskType, NEW r \in Requests, Reopen(r)
    PROVE  /\ Reopened(r)
           /\ request' \in [Requests -> Open \union {"NONE", "APPROVED"}]
           /\ byStaff' \in [Requests -> BOOLEAN]
           /\ \A q \in Requests : byStaff'[q] = byStaff[q] \/ request'[q] = "PENDING"
<1>1. /\ request \in [Requests -> Open \union {"NONE", "APPROVED"}]
      /\ byStaff \in [Requests -> BOOLEAN]
  BY DEF DeskType
<1>2. CASE request[r] \in Open
  BY <1>1, <1>2 DEF Reopen, Reopened, Open
<1>3. CASE request[r] \notin Open
  BY <1>1, <1>3 DEF Reopen, Reopened
<1> QED
  BY <1>2, <1>3

LEMMA FailEffect ==
    ASSUME DeskType, NEW t \in Txs, Exists(t), Fail(t)
    PROVE  /\ Sets(t, "FAILED", tx[t].submitted, tx[t].response)
           /\ tx[t].req \in Requests /\ Reopened(tx[t].req)
           /\ \A q \in Requests : byStaff'[q] = byStaff[q] \/ request'[q] = "PENDING"
           /\ DeskType' /\ TxKeeps
<1>1. tx[t] \in TxType /\ tx[t].req \in Requests
  BY DEF DeskType, TxOK
<1>2. Sets(t, "FAILED", tx[t].submitted, tx[t].response)
  BY FieldSets DEF Fail
<1>3. "FAILED" \in Statuses /\ tx[t].submitted \in BOOLEAN
      /\ tx[t].response \in {"none", "ok", "echo"}
  BY <1>1 DEF TxType, Statuses
<1>4. Reopen(tx[t].req)
  BY DEF Fail
<1> QED
  BY <1>1, <1>2, <1>3, <1>4, SetsType, ReopenType DEF DeskType, TxKeeps

LEMMA FinalizeEffect ==
    ASSUME DeskType, NEW t \in Txs, NEW resp \in {"none", "ok", "echo"}, Finalize(t, resp)
    PROVE  /\ Exists(t)
           /\ Sets(t, "SUCCESS", tx[t].submitted, resp)
           /\ tx[t].req \in Requests /\ request[tx[t].req] \in Open
           /\ request' = [request EXCEPT ![tx[t].req] = "APPROVED"]
           /\ byStaff' = byStaff
           /\ DeskType' /\ TxKeeps
<1>1. Exists(t)
  BY DEF Finalize, CanFinalize, Exists, Active, Blocking
<1>2. tx[t] \in TxType /\ tx[t].req \in Requests
  BY <1>1 DEF DeskType, TxOK
<1>3. Sets(t, "SUCCESS", tx[t].submitted, resp)
  BY FieldSets DEF Finalize
<1>4. "SUCCESS" \in Statuses /\ tx[t].submitted \in BOOLEAN
  BY <1>2 DEF TxType, Statuses
<1>5. /\ request[tx[t].req] \in Open /\ byStaff' = byStaff
      /\ request' = [request EXCEPT ![tx[t].req] = "APPROVED"]
  BY DEF Finalize, CanFinalize
<1> QED
  BY <1>1, <1>2, <1>3, <1>4, <1>5, SetsType DEF DeskType, TxKeeps

LEMMA DoubtEffect ==
    ASSUME DeskType, NEW p, NEW t \in Txs, NEW resp \in {"none", "ok", "echo"},
           Exists(t), NeedsReconciliation(p, t, resp)
    PROVE  /\ Sets(t, "NEEDS_RECONCILIATION", tx[t].submitted, resp)
           /\ tx[t].req \in Requests
           /\ \/ request' = request
              \/ /\ request[tx[t].req] \in Open
                 /\ request' = [request EXCEPT ![tx[t].req] = "PROCESSING"]
           /\ byStaff' = byStaff
           /\ DeskType' /\ TxKeeps
<1>1. tx[t] \in TxType /\ tx[t].req \in Requests
  BY DEF DeskType, TxOK
<1>2. Sets(t, "NEEDS_RECONCILIATION", tx[t].submitted, resp)
  BY FieldSets DEF NeedsReconciliation
<1>3. "NEEDS_RECONCILIATION" \in Statuses /\ tx[t].submitted \in BOOLEAN
  BY <1>1 DEF TxType, Statuses
<1>4. /\ byStaff' = byStaff
      /\ \/ request' = request
         \/ /\ request[tx[t].req] \in Open
            /\ request' = [request EXCEPT ![tx[t].req] = "PROCESSING"]
  BY DEF NeedsReconciliation
<1> QED
  BY <1>1, <1>2, <1>3, <1>4, SetsType DEF DeskType, TxKeeps, Open

\* A new transaction comes after all others.
LEMMA NewEffect ==
    ASSUME DeskType, NEW t \in Txs, NewTx(t), NEW r \in Requests,
           NEW s \in {"PENDING", "PROCESSING"}, NEW sub \in BOOLEAN,
           tx' = [tx EXCEPT ![t] = Row(r, s, sub)]
    PROVE  /\ tx' \in [Txs -> TxType] /\ \A u \in Txs : TxOK(u)'
           /\ TxKeeps /\ ~Exists(t) /\ tx[t] = NoTx
           /\ tx'[t].req = r /\ tx'[t].status = s /\ tx'[t].submitted = sub
           /\ tx'[t].response = "none"
           /\ \A u \in Txs : u # t => tx'[u] = tx[u]
           /\ \A u \in Txs : Exists(u) => u < t
<1>0. tx \in [Txs -> TxType] /\ \A u \in Txs : TxOK(u)
  BY DEF DeskType
<1>1. /\ tx' \in [Txs -> TxType]
      /\ tx'[t].req = r /\ tx'[t].status = s /\ tx'[t].submitted = sub
      /\ tx'[t].response = "none"
      /\ \A u \in Txs : u # t => tx'[u] = tx[u]
  BY <1>0 DEF Row, TxType, Statuses
<1>2. ~Exists(t) /\ tx[t] = NoTx
  BY <1>0 DEF NewTx, TxOK
<1>3. \A u \in Txs : u \in Nat
  BY RefundAssumption DEF Txs
<1>4. \A u \in Txs : Exists(u) => u < t
  <2> SUFFICES ASSUME NEW u \in Txs, Exists(u), ~(u < t)
               PROVE  FALSE
    OBVIOUS
  <2>1. u # t
    BY <1>2
  <2>2. t < u
    BY <1>3, <2>1
  <2> QED
    BY <1>0, <1>2, <2>2 DEF TxOK
<1>5. \A u \in Txs : Exists(u)' <=> Exists(u) \/ u = t
  BY <1>1 DEF Exists
<1>6. ASSUME NEW u \in Txs
      PROVE  TxOK(u)'
  <2>1. CASE u = t
    <3>1. \A v \in Txs : v < t => Exists(v)'
      BY <1>5 DEF NewTx
    <3> QED
      BY <1>1, <1>5, <2>1, <3>1 DEF TxOK
  <2>2. CASE u # t
    BY <1>0, <1>1, <1>5, <2>2 DEF TxOK
  <2> QED
    BY <2>1, <2>2
<1> QED
  BY <1>1, <1>2, <1>4, <1>5, <1>6 DEF TxKeeps


\* A process with a transaction has one that exists.
LEMMA AtWork ==
    ASSUME TypeInv, NEW p \in Procs
    PROVE  /\ WithTx(p) => proc[p].tx \in Txs /\ Exists(proc[p].tx)
                           /\ tx[proc[p].tx].req \in Requests
                           /\ proc[p].req = tx[proc[p].tx].req
           /\ proc[p].pc \in {"submitted", "calling", "recorded", "querying"} => WithTx(p)
           /\ proc[p].pc = "claimed" /\ p \in Workers => WithTx(p)
           /\ proc[p].pc = "claimed" /\ p \in Staff => ~WithTx(p)
           /\ proc[p] \in ProcType
BY RefundAssumption DEF TypeInv, ProcsOK, ProcOK, WithTx, DeskType, TxOK

LEMMA DeskStays ==
    ASSUME DeskType, UNCHANGED desk
    PROVE  DeskType' /\ TxKeeps
BY DEF DeskType, TxKeeps, desk, TxOK, Exists

LEMMA StepDeskType ==
    ASSUME TypeInv, NEW p \in Procs, Step(p)
    PROVE  DeskType' /\ TxKeeps
<1> DEFINE t == proc[p].tx
<1>0. DeskType
  BY DEF TypeInv
<1>1. CASE Submit(p)
  <2>1. t \in Txs /\ Exists(t)
    BY <1>1, AtWork DEF Submit
  <2>2. Sets(t, tx[t].status, TRUE, tx[t].response)
    BY <1>0, <1>1, <2>1, FieldSets DEF Submit
  <2>3. tx[t].status \in Statuses /\ tx[t].response \in {"none", "ok", "echo"}
    BY <1>0, <2>1 DEF DeskType, TxType, Exists
  <2> QED
    BY <1>0, <1>1, <2>1, <2>2, <2>3, SetsType DEF Submit, DeskType, TxKeeps
<1>2. ASSUME WithTx(p), Fail(t) \/ UNCHANGED desk
      PROVE  DeskType' /\ TxKeeps
  BY <1>0, <1>2, AtWork, FailEffect, DeskStays
<1>3. ASSUME WithTx(p), \/ Finalize(t, "ok")
                        \/ NeedsReconciliation(p, t, "ok") \/ NeedsReconciliation(p, t, "none")
                        \/ UNCHANGED desk
      PROVE  DeskType' /\ TxKeeps
  BY <1>0, <1>3, AtWork, FinalizeEffect, DoubtEffect, DeskStays
<1>4. CASE SendRefund(p)
  BY <1>0, <1>4, DeskStays DEF SendRefund
<1>5. CASE FailBeforeSend(p)
  BY <1>2, <1>5, AtWork DEF FailBeforeSend
<1>6. CASE AnswerRefunded(p)
  BY <1>3, <1>6, AtWork DEF AnswerRefunded
<1>7. CASE AnswerUnrecorded(p) \/ AnswerUnclear(p)
  BY <1>3, <1>7, AtWork DEF AnswerUnrecorded, AnswerUnclear
<1>8. CASE AnswerDeclined(p)
  BY <1>2, <1>8, AtWork DEF AnswerDeclined
<1>9. CASE QueryRefunded(p) \/ FinalizeRecorded(p)
  <2>1. CASE QueryRefunded(p)
    BY <1>3, <2>1, AtWork DEF QueryRefunded
  <2>2. CASE FinalizeRecorded(p)
    <3>1. t \in Txs /\ tx[t].response \in {"none", "ok", "echo"}
      BY <1>0, <2>2, AtWork DEF FinalizeRecorded, DeskType, TxType
    <3> QED
      BY <1>0, <2>2, <3>1, FinalizeEffect, DeskStays DEF FinalizeRecorded
  <2> QED
    BY <1>9, <2>1, <2>2
<1>10. CASE QueryDeclined(p)
  BY <1>2, <1>10, AtWork DEF QueryDeclined
<1>11. ASSUME NEW response \in {"echo", "none"}, QueryUnclear(p, response)
       PROVE  DeskType' /\ TxKeeps
  <2>1. t \in Txs /\ Exists(t)
    BY <1>11, AtWork DEF QueryUnclear
  <2>2. tx[t].status \in Statuses /\ tx[t].submitted \in BOOLEAN
    BY <1>0, <2>1 DEF DeskType, TxType, Exists
  <2>3. CASE UNCHANGED desk
    BY <1>0, <2>3, DeskStays
  <2>4. CASE UNCHANGED <<request, byStaff>> /\ tx # tx'
    <3>1. PICK s \in {"NEEDS_RECONCILIATION", tx[t].status} :
            tx' = [tx EXCEPT ![t].response = response, ![t].status = s]
      BY <1>11, <2>4 DEF QueryUnclear, desk
    <3>2. Sets(t, s, tx[t].submitted, response) /\ s \in Statuses
      BY <1>0, <2>1, <2>2, <3>1, FieldSets DEF Statuses
    <3> QED
      BY <1>0, <2>1, <2>2, <2>4, <3>2, SetsType DEF DeskType, TxKeeps
  <2> QED
    BY <1>11, <2>3, <2>4 DEF QueryUnclear, desk
<1>12. CASE QueryFails(p)
  <2>1. t \in Txs /\ Exists(t)
    BY <1>12, AtWork DEF QueryFails
  <2>2. tx[t].response \in {"none", "ok", "echo"} /\ tx[t].submitted \in BOOLEAN
    BY <1>0, <2>1 DEF DeskType, TxType
  <2>3. CASE tx' = tx
    BY <1>0, <1>12, <2>3, DeskStays DEF QueryFails, desk
  <2>4. CASE tx' = [tx EXCEPT ![t].status = "NEEDS_RECONCILIATION"]
    <3>1. Sets(t, "NEEDS_RECONCILIATION", tx[t].submitted, tx[t].response)
      BY <1>0, <2>1, <2>4, FieldSets
    <3>2. "NEEDS_RECONCILIATION" \in Statuses
      BY DEF Statuses
    <3> QED
      BY <1>0, <1>12, <2>1, <2>2, <3>1, <3>2, SetsType DEF QueryFails, DeskType, TxKeeps
  <2> QED
    BY <1>12, <2>3, <2>4 DEF QueryFails
<1> QED
  BY <1>1, <1>4, <1>5, <1>6, <1>7, <1>8, <1>9, <1>10, <1>11, <1>12 DEF Step

LEMMA StaffDeskType ==
    ASSUME TypeInv, NEW p \in Procs, StaffStep(p)
    PROVE  DeskType' /\ TxKeeps
<1>0. /\ DeskType /\ request \in [Requests -> Open \union {"NONE", "APPROVED"}]
      /\ byStaff \in [Requests -> BOOLEAN]
  BY DEF TypeInv, DeskType
<1>1. CASE (\E r \in Requests : ReadRequest(p, r)) \/ LeaveUncertain(p) \/ TellCustomer(p)
  BY <1>0, <1>1, DeskStays DEF ReadRequest, LeaveUncertain, TellCustomer
<1>2. ASSUME request' \in [Requests -> Open \union {"NONE", "APPROVED"}],
             byStaff' \in [Requests -> BOOLEAN], tx' = tx
      PROVE  DeskType' /\ TxKeeps
  BY <1>0, <1>2 DEF DeskType, TxKeeps, TxOK, Exists
<1>3. CASE ClaimRequest(p)
  BY <1>0, <1>2, <1>3 DEF ClaimRequest, Open
<1>4. CASE CreateTransaction(p)
  <2> DEFINE r == proc[p].req
  <2>1. r \in Requests
    BY <1>4, AtWork DEF CreateTransaction, TypeInv, ProcsOK, ProcOK
  <2>2. CASE \E t \in Txs : /\ NewTx(t)
                            /\ tx' = [tx EXCEPT ![t] = Row(r, "PROCESSING", TRUE)]
                            /\ UNCHANGED <<request, byStaff>>
    BY <1>0, <2>1, <2>2, NewEffect DEF DeskType
  <2>3. CASE (Reopen(r) \/ UNCHANGED <<request, byStaff>>) /\ UNCHANGED tx
    BY <1>0, <1>2, <2>1, <2>3, ReopenType
  <2> QED
    BY <1>4, <2>2, <2>3 DEF CreateTransaction
<1> QED
  BY <1>1, <1>3, <1>4 DEF StaffStep

LEMMA OtherDeskType ==
    ASSUME TypeInv,
           \/ \E r \in Requests : QueueRefund(r) \/ CreateRefundRequest(r)
           \/ \E p \in Procs : Sweep(p) \/ Crash(p)
           \/ \E p \in Procs, t \in Txs : StartQuery(p, t)
           \/ \E t \in Txs : GatewayDecides(t) \/ Adjudicate(t)
           \/ \E s \in Senders : Send(s) \/ SenderCrash(s)
           \/ UNCHANGED vars
    PROVE  DeskType' /\ TxKeeps
<1>0. /\ DeskType /\ request \in [Requests -> Open \union {"NONE", "APPROVED"}]
      /\ byStaff \in [Requests -> BOOLEAN]
  BY DEF TypeInv, DeskType
<1>1. ASSUME NEW r \in Requests, QueueRefund(r)
      PROVE  DeskType' /\ TxKeeps
  <2>1. PICK t \in Txs : NewTx(t) /\ tx' = [tx EXCEPT ![t] = Row(r, "PENDING", FALSE)]
    BY <1>1 DEF QueueRefund
  <2>2. request' = [request EXCEPT ![r] = "PROCESSING"] /\ byStaff' = byStaff
    BY <1>1 DEF QueueRefund
  <2> QED
    BY <1>0, <2>1, <2>2, NewEffect DEF DeskType, Open
<1>2. ASSUME NEW r \in Requests, CreateRefundRequest(r)
      PROVE  DeskType' /\ TxKeeps
  BY <1>0, <1>2 DEF CreateRefundRequest, DeskType, TxKeeps, TxOK, Exists, Open
<1>3. ASSUME NEW p \in Procs, NEW t \in Txs, ClaimPending(p, t)
      PROVE  DeskType' /\ TxKeeps
  <2>1. Exists(t)
    BY <1>3 DEF ClaimPending, Exists
  <2>2. CASE Fail(t)
    BY <1>0, <2>1, <2>2, FailEffect
  <2>3. CASE tx' = [tx EXCEPT ![t].status = "PROCESSING"] /\ UNCHANGED <<request, byStaff>>
    <3>1. /\ Sets(t, "PROCESSING", tx[t].submitted, tx[t].response)
          /\ tx[t].response \in {"none", "ok", "echo"} /\ tx[t].submitted \in BOOLEAN
          /\ "PROCESSING" \in Statuses
      BY <1>0, <2>3, FieldSets DEF DeskType, TxType, Statuses
    <3> QED
      BY <1>0, <2>1, <2>3, <3>1, SetsType DEF DeskType, TxKeeps
  <2> QED
    BY <1>3, <2>2, <2>3 DEF ClaimPending
<1>4. ASSUME NEW p \in Procs, NEW t \in Txs, ReleaseClaim(p, t)
      PROVE  DeskType' /\ TxKeeps
  <2>1. Exists(t)
    BY <1>4 DEF ReleaseClaim, Exists
  <2>2. /\ Sets(t, "PENDING", tx[t].submitted, tx[t].response)
        /\ tx[t].response \in {"none", "ok", "echo"} /\ tx[t].submitted \in BOOLEAN
        /\ "PENDING" \in Statuses
    BY <1>0, <1>4, FieldSets DEF ReleaseClaim, DeskType, TxType, Statuses
  <2>3. request' \in [Requests -> Open \union {"NONE", "APPROVED"}] /\ byStaff' = byStaff
    BY <1>0, <1>4 DEF ReleaseClaim, Open
  <2> QED
    BY <1>0, <2>1, <2>2, <2>3, SetsType DEF DeskType, TxKeeps
<1>5. ASSUME NEW p \in Procs, NEW t \in Txs, FindRecorded(p, t)
      PROVE  DeskType' /\ TxKeeps
  BY <1>0, <1>5, DeskStays DEF FindRecorded
<1>6. ASSUME NEW t \in Txs, Adjudicate(t)
      PROVE  DeskType' /\ TxKeeps
  <2>1. Exists(t)
    BY <1>6 DEF Adjudicate, Exists, Blocking
  <2> QED
    BY <1>0, <1>6, <2>1, FinalizeEffect, FailEffect DEF Adjudicate
<1>7. CASE \/ \E p \in Procs : Crash(p)
           \/ \E p \in Procs, t \in Txs : StartQuery(p, t)
           \/ \E t \in Txs : GatewayDecides(t)
           \/ \E s \in Senders : Send(s) \/ SenderCrash(s)
           \/ UNCHANGED vars
  BY <1>0, <1>7, DeskStays
  DEF Crash, StartQuery, GatewayDecides, Send, ClaimOutboxRow, Deliver, DeliveryFails,
      SenderCrash, vars, desk
<1> QED
  BY <1>1, <1>2, <1>3, <1>4, <1>5, <1>6, <1>7 DEF Sweep

LEMMA DeskTypeStep ==
    ASSUME TypeInv, [Next]_vars
    PROVE  DeskType' /\ TxKeeps
BY StepDeskType, StaffDeskType, OtherDeskType DEF Next


\* One process moves on, the others remember what they did.
LEMMA ProcsKept ==
    ASSUME ProcsOK, TxKeeps, NEW p \in Procs, NEW rec,
           proc' = [proc EXCEPT ![p] = rec], rec \in ProcType, ProcOK(p)'
    PROVE  ProcsOK'
<1>1. proc' \in [Procs -> ProcType]
  BY DEF ProcsOK, ProcType
<1>2. ASSUME NEW q \in Procs, q # p
      PROVE  ProcOK(q)'
  <2>1. proc'[q] = proc[q] /\ ProcOK(q)
    BY <1>2 DEF ProcsOK
  <2> QED
    BY <2>1 DEF ProcOK, WithTx, TxKeeps
<1> QED
  BY <1>1, <1>2 DEF ProcsOK

LEMMA ProcsStay ==
    ASSUME ProcsOK, TxKeeps, proc' = proc
    PROVE  ProcsOK'
BY DEF ProcsOK, ProcOK, WithTx, TxKeeps

\* A process lets go of its transaction: it is done, or it dies.
LEMMA ProcsFreed ==
    ASSUME TypeInv, TxKeeps, NEW p \in Procs,
           Quit(p) \/ (Done(p) /\ WithTx(p))
    PROVE  ProcsOK'
<1>0. ProcsOK /\ proc \in [Procs -> ProcType]
  BY DEF TypeInv, ProcsOK
<1>1. Idle \in ProcType
  BY DEF Idle, ProcType
<1>2. ASSUME proc' = [proc EXCEPT ![p] = Idle]
      PROVE  ProcsOK'
  <2>1. proc'[p] = Idle
    BY <1>0, <1>2
  <2>2. ProcOK(p)'
    BY <2>1 DEF ProcOK, WithTx, Idle
  <2> QED
    BY <1>0, <1>1, <1>2, <2>2, ProcsKept
<1>3. ASSUME p \in Staff, WithTx(p), Done(p)
      PROVE  ProcsOK'
  <2> DEFINE rec == [Idle EXCEPT !.pc = "approved", !.req = proc[p].req]
  <2>1. /\ rec \in ProcType
        /\ rec.pc = "approved" /\ rec.tx = 0 /\ rec.req = proc[p].req
        /\ proc[p].req \in Requests
    BY <1>3, AtWork DEF Idle, ProcType
  <2>2. proc' = [proc EXCEPT ![p] = rec]
    BY <1>3 DEF Done
  <2>3. proc'[p] = rec
    BY <1>0, <2>2
  <2>4. ProcOK(p)'
    BY <1>3, <2>1, <2>3 DEF ProcOK, WithTx
  <2> QED
    BY <1>0, <2>1, <2>2, <2>4, ProcsKept
<1> QED
  BY <1>2, <1>3 DEF Quit, Done

\* A process goes on with the transaction it has.
LEMMA ProcsGoOn ==
    ASSUME TypeInv, TxKeeps, NEW p \in Procs, WithTx(p), NEW c \in {"submitted", "calling"},
           proc' = [proc EXCEPT ![p].pc = c]
    PROVE  ProcsOK'
<1> DEFINE rec == [proc[p] EXCEPT !.pc = c]
<1>1. /\ ProcsOK /\ proc[p] \in ProcType /\ proc \in [Procs -> ProcType]
      /\ proc[p].tx \in Txs /\ Exists(proc[p].tx) /\ proc[p].req = tx[proc[p].tx].req
  BY AtWork DEF TypeInv, ProcsOK
<1>2. /\ rec \in ProcType /\ rec.pc = c /\ rec.tx = proc[p].tx /\ rec.req = proc[p].req
      /\ proc' = [proc EXCEPT ![p] = rec] /\ proc'[p] = rec
  BY <1>1 DEF ProcType
<1>3. ProcOK(p)'
  BY <1>1, <1>2 DEF ProcOK, WithTx, TxKeeps
<1> QED
  BY <1>1, <1>2, <1>3, ProcsKept

LEMMA StepProcs ==
    ASSUME TypeInv, TxKeeps, NEW p \in Procs, Step(p)
    PROVE  ProcsOK'
<1>1. CASE Submit(p) \/ SendRefund(p)
  BY <1>1, AtWork, ProcsGoOn DEF Submit, SendRefund
<1>2. CASE \/ FailBeforeSend(p) \/ AnswerUnrecorded(p) \/ AnswerDeclined(p) \/ AnswerUnclear(p)
           \/ QueryDeclined(p) \/ QueryFails(p) \/ FinalizeRecorded(p)
           \/ \E response \in {"echo", "none"} : QueryUnclear(p, response)
  BY <1>2, ProcsFreed
  DEF FinalizeRecorded, FailBeforeSend, AnswerUnrecorded, AnswerDeclined, AnswerUnclear, QueryDeclined,
      QueryFails, QueryUnclear, Quit
<1>3. CASE AnswerRefunded(p) \/ QueryRefunded(p)
  BY <1>3, AtWork, ProcsFreed DEF AnswerRefunded, QueryRefunded
<1> QED
  BY <1>1, <1>2, <1>3 DEF Step

LEMMA StaffProcs ==
    ASSUME TypeInv, TxKeeps, NEW p \in Procs, StaffStep(p)
    PROVE  ProcsOK'
<1>0. /\ ProcsOK /\ proc \in [Procs -> ProcType] /\ proc[p] \in ProcType
      /\ Workers \intersect Staff = {}
  BY RefundAssumption DEF TypeInv, ProcsOK
<1>1. ASSUME NEW r \in Requests, ReadRequest(p, r)
      PROVE  ProcsOK'
  <2>1. PICK seen \in {"uncertain", "clear"} :
          proc' = [proc EXCEPT ![p] = [pc |-> "read", req |-> r, tx |-> 0, seen |-> seen]]
    BY <1>1 DEF ReadRequest
  <2> DEFINE rec == [pc |-> "read", req |-> r, tx |-> 0, seen |-> seen]
  <2>2. rec \in ProcType /\ proc'[p] = rec /\ p \in Staff
    BY <1>0, <1>1, <2>1 DEF ProcType, ReadRequest
  <2>3. ProcOK(p)'
    BY <2>2 DEF ProcOK, WithTx
  <2> QED
    BY <1>0, <2>1, <2>2, <2>3, ProcsKept
<1>2. CASE LeaveUncertain(p) \/ TellCustomer(p)
  BY <1>2, ProcsFreed DEF LeaveUncertain, TellCustomer, Quit
<1>3. CASE ClaimRequest(p)
  <2>1. CASE proc' = [proc EXCEPT ![p] = Idle]
    BY <2>1, ProcsFreed DEF Quit
  <2>2. CASE proc' = [proc EXCEPT ![p].pc = "claimed"]
    <3> DEFINE rec == [proc[p] EXCEPT !.pc = "claimed"]
    <3>1. /\ p \in Staff /\ proc[p].pc = "read"
          /\ proc[p].req \in Requests /\ proc[p].tx = 0
      BY <1>0, <1>3 DEF ClaimRequest, ProcsOK, ProcOK, WithTx
    <3>2. /\ rec \in ProcType /\ rec.pc = "claimed" /\ rec.tx = 0 /\ rec.req = proc[p].req
          /\ proc' = [proc EXCEPT ![p] = rec] /\ proc'[p] = rec
      BY <1>0, <2>2, <3>1 DEF ProcType
    <3>3. ProcOK(p)'
      BY <1>0, <3>1, <3>2 DEF ProcOK, WithTx
    <3> QED
      BY <1>0, <3>2, <3>3, ProcsKept
  <2> QED
    BY <1>3, <2>1, <2>2 DEF ClaimRequest
<1>4. CASE CreateTransaction(p)
  <2>1. CASE proc' = [proc EXCEPT ![p] = Idle]
    BY <2>1, ProcsFreed DEF Quit
  <2>2. CASE \E t \in Txs :
              /\ NewTx(t)
              /\ tx' = [tx EXCEPT ![t] = Row(proc[p].req, "PROCESSING", TRUE)]
              /\ proc' = [proc EXCEPT ![p].pc = "submitted", ![p].tx = t,
                                      ![p].seen = "PROCESSING"]
    <3>1. PICK t \in Txs :
              /\ NewTx(t)
              /\ tx' = [tx EXCEPT ![t] = Row(proc[p].req, "PROCESSING", TRUE)]
              /\ proc' = [proc EXCEPT ![p].pc = "submitted", ![p].tx = t,
                                      ![p].seen = "PROCESSING"]
      BY <2>2
    <3> DEFINE rec == [proc[p] EXCEPT !.pc = "submitted", !.tx = t, !.seen = "PROCESSING"]
    <3>2. proc[p].req \in Requests
      BY <1>0, <1>4 DEF CreateTransaction, ProcsOK, ProcOK, WithTx
    <3>3. /\ rec \in ProcType /\ rec.pc = "submitted" /\ rec.tx = t /\ rec.req = proc[p].req
          /\ proc' = [proc EXCEPT ![p] = rec] /\ proc'[p] = rec
      BY <1>0, <3>1 DEF ProcType, Blocking
    <3>4. tx'[t].req = proc[p].req /\ Exists(t)'
      BY <3>1, <3>2, NewEffect DEF TypeInv, Exists
    <3>5. ProcOK(p)'
      BY <3>3, <3>4 DEF ProcOK, WithTx
    <3> QED
      BY <1>0, <3>3, <3>5, ProcsKept
  <2> QED
    BY <1>4, <2>1, <2>2 DEF CreateTransaction
<1> QED
  BY <1>1, <1>2, <1>3, <1>4 DEF StaffStep

LEMMA OtherProcs ==
    ASSUME TypeInv, TxKeeps,
           \/ \E r \in Requests : QueueRefund(r) \/ CreateRefundRequest(r)
           \/ \E p \in Procs : Sweep(p) \/ Crash(p)
           \/ \E p \in Procs, t \in Txs : StartQuery(p, t)
           \/ \E t \in Txs : GatewayDecides(t) \/ Adjudicate(t)
           \/ \E s \in Senders : Send(s) \/ SenderCrash(s)
           \/ UNCHANGED vars
    PROVE  ProcsOK'
<1>0. ProcsOK /\ proc \in [Procs -> ProcType]
  BY DEF TypeInv, ProcsOK
<1>1. ASSUME NEW p \in Procs, NEW t \in Txs, ClaimPending(p, t)
      PROVE  ProcsOK'
  <2> DEFINE rec == [pc |-> "claimed", req |-> tx[t].req, tx |-> t, seen |-> "PROCESSING"]
  <2>1. CASE proc' = proc
    BY <1>0, <2>1, ProcsStay
  <2>2. CASE proc' = [proc EXCEPT ![p] = rec]
    <3>1. p \in Workers /\ Exists(t) /\ tx[t].req \in Requests
      BY <1>1 DEF ClaimPending, Exists, TypeInv, DeskType, TxOK
    <3>2. rec \in ProcType /\ proc'[p] = rec
      BY <1>0, <2>2, <3>1 DEF ProcType, Blocking
    <3>3. ProcOK(p)'
      BY <3>1, <3>2 DEF ProcOK, WithTx, TxKeeps
    <3> QED
      BY <1>0, <2>2, <3>2, <3>3, ProcsKept
  <2> QED
    BY <1>1, <2>1, <2>2 DEF ClaimPending
<1>2. ASSUME NEW p \in Procs, NEW t \in Txs, StartQuery(p, t)
      PROVE  ProcsOK'
  <2> DEFINE rec == [pc |-> "querying", req |-> tx[t].req, tx |-> t, seen |-> tx[t].status]
  <2>1. Exists(t) /\ tx[t].req \in Requests /\ tx[t].status \in Blocking
    BY <1>2 DEF StartQuery, Exists, TypeInv, DeskType, TxOK, Blocking
  <2>2. rec \in ProcType /\ proc'[p] = rec /\ proc' = [proc EXCEPT ![p] = rec]
    BY <1>0, <1>2, <2>1 DEF ProcType, StartQuery
  <2>3. ProcOK(p)'
    BY <2>1, <2>2 DEF ProcOK, WithTx, TxKeeps
  <2> QED
    BY <1>0, <2>2, <2>3, ProcsKept
<1>3. ASSUME NEW p \in Procs, Crash(p)
      PROVE  ProcsOK'
  BY <1>3, ProcsFreed DEF Crash
<1>5. ASSUME NEW p \in Procs, NEW t \in Txs, FindRecorded(p, t)
      PROVE  ProcsOK'
  <2> DEFINE rec == [pc |-> "recorded", req |-> tx[t].req, tx |-> t, seen |-> tx[t].response]
  <2>1. Exists(t) /\ tx[t].req \in Requests /\ tx[t].response \in {"ok", "echo"}
    BY <1>5 DEF FindRecorded, Exists, TypeInv, DeskType, TxOK, Blocking
  <2>2. rec \in ProcType /\ proc'[p] = rec /\ proc' = [proc EXCEPT ![p] = rec]
    BY <1>0, <1>5, <2>1 DEF ProcType, FindRecorded
  <2>3. ProcOK(p)'
    BY <2>1, <2>2 DEF ProcOK, WithTx, TxKeeps
  <2> QED
    BY <1>0, <2>2, <2>3, ProcsKept
<1>4. CASE \/ \E r \in Requests : QueueRefund(r) \/ CreateRefundRequest(r)
           \/ \E p \in Procs, t \in Txs : ReleaseClaim(p, t)
           \/ \E t \in Txs : GatewayDecides(t) \/ Adjudicate(t)
           \/ \E s \in Senders : Send(s) \/ SenderCrash(s)
           \/ UNCHANGED vars
  <2>1. proc' = proc
    BY <1>4
    DEF QueueRefund, CreateRefundRequest, ReleaseClaim, GatewayDecides,
        Adjudicate, Send, ClaimOutboxRow, Deliver, DeliveryFails, SenderCrash, vars
  <2> QED
    BY <1>0, <2>1, ProcsStay
<1> QED
  BY <1>1, <1>2, <1>3, <1>4, <1>5 DEF Sweep


GatewayType == gateway \in [Txs -> {"none", "sent", "refunded", "declined"}]

LEMMA GatewayTypeStep ==
    ASSUME TypeInv, [Next]_vars
    PROVE  GatewayType'
<1>0. GatewayType
  BY DEF TypeInv, GatewayType
<1>1. ASSUME NEW p \in Procs, SendRefund(p)
      PROVE  GatewayType'
  BY <1>0, <1>1 DEF SendRefund, GatewayType
<1>2. ASSUME NEW t \in Txs, GatewayDecides(t)
      PROVE  GatewayType'
  BY <1>0, <1>2 DEF GatewayDecides, GatewayType
<1>3. ASSUME NEW p \in Procs, Step(p)
      PROVE  SendRefund(p) \/ UNCHANGED gateway
  BY <1>3
  DEF Step, Submit, FailBeforeSend, AnswerRefunded, AnswerUnrecorded, AnswerDeclined,
      AnswerUnclear, FinalizeRecorded, QueryRefunded, QueryDeclined, QueryFails, QueryUnclear
<1>4. ASSUME NEW p \in Procs, StaffStep(p) \/ Sweep(p) \/ Crash(p)
      PROVE  UNCHANGED gateway
  BY <1>4
  DEF StaffStep, ReadRequest, ClaimRequest, LeaveUncertain, CreateTransaction, TellCustomer,
      Sweep, ClaimPending, ReleaseClaim, FindRecorded, Crash
<1>5. CASE \/ \E r \in Requests : QueueRefund(r) \/ CreateRefundRequest(r)
           \/ \E p \in Procs, t \in Txs : StartQuery(p, t)
           \/ \E t \in Txs : Adjudicate(t)
           \/ \E s \in Senders : Send(s) \/ SenderCrash(s)
           \/ UNCHANGED vars
  <2>1. UNCHANGED gateway
    BY <1>5
    DEF QueueRefund, CreateRefundRequest, StartQuery, Adjudicate, Send, ClaimOutboxRow,
        Deliver, DeliveryFails, SenderCrash, vars
  <2> QED
    BY <1>0, <2>1 DEF GatewayType
<1>6. UNCHANGED gateway => GatewayType'
  BY <1>0 DEF GatewayType
<1> QED
  BY <1>1, <1>2, <1>3, <1>4, <1>5, <1>6 DEF Next

\* A finished refund opens its notification.
LEMMA FinalizeMail ==
    ASSUME DeskType, MailType, NEW t \in Txs, NEW resp \in {"none", "ok", "echo"}, Finalize(t, resp)
    PROVE  /\ outbox' \in [Requests -> {"NONE", "PENDING", "PROCESSING", "SENT"}]
           /\ \A r \in Requests : r # tx[t].req => outbox'[r] = outbox[r]
           /\ UNCHANGED <<sending, told>>
<1>1. tx[t].req \in Requests
  BY FinalizeEffect
<1> QED
  BY <1>1 DEF Finalize, MailType

LEMMA MailTypeStep ==
    ASSUME TypeInv, [Next]_vars
    PROVE  MailType'
<1>0. MailType /\ DeskType /\ MaxCrash \in Nat
  BY RefundAssumption DEF TypeInv
<1>1. ASSUME UNCHANGED mail, crashes' \in 0..MaxCrash
      PROVE  MailType'
  BY <1>0, <1>1 DEF MailType, mail
<1>2. ASSUME NEW t \in Txs, NEW c \in {"none", "ok", "echo"}, Finalize(t, c), UNCHANGED crashes
      PROVE  MailType'
  BY <1>0, <1>2, FinalizeMail DEF MailType
<1>3. ASSUME NEW p \in Procs, Step(p)
      PROVE  MailType'
  <2>1. UNCHANGED crashes
    BY <1>3
    DEF Step, Submit, SendRefund, FailBeforeSend, AnswerRefunded, AnswerUnrecorded,
        AnswerDeclined, AnswerUnclear, FinalizeRecorded, QueryRefunded, QueryDeclined,
        QueryFails, QueryUnclear
  <2>2. CASE AnswerRefunded(p) \/ QueryRefunded(p)
    <3>1. UNCHANGED mail \/ (proc[p].tx \in Txs /\ Finalize(proc[p].tx, "ok"))
      BY <2>2, AtWork DEF AnswerRefunded, QueryRefunded
    <3> QED
      BY <1>0, <1>1, <1>2, <2>1, <3>1 DEF MailType
  <2>4. CASE FinalizeRecorded(p)
    <3>1. /\ proc[p].tx \in Txs
          /\ tx[proc[p].tx].response \in {"none", "ok", "echo"}
      BY <1>0, <2>4, AtWork DEF FinalizeRecorded, DeskType, TxType
    <3>2. UNCHANGED mail \/ Finalize(proc[p].tx, tx[proc[p].tx].response)
      BY <2>4 DEF FinalizeRecorded
    <3> QED
      BY <1>0, <1>1, <1>2, <2>1, <3>1, <3>2 DEF MailType
  <2>3. CASE ~AnswerRefunded(p) /\ ~QueryRefunded(p) /\ ~FinalizeRecorded(p)
    <3>1. UNCHANGED mail
      BY <1>3, <2>3
      DEF Step, Submit, SendRefund, FailBeforeSend, AnswerUnrecorded, AnswerDeclined,
          AnswerUnclear, QueryDeclined, QueryFails, QueryUnclear
    <3> QED
      BY <1>0, <1>1, <2>1, <3>1 DEF MailType
  <2> QED
    BY <2>2, <2>3, <2>4
<1>4. ASSUME NEW p \in Procs, StaffStep(p)
      PROVE  MailType'
  <2>1. CASE TellCustomer(p)
    <3>1. proc[p].req \in Requests
      BY <2>1 DEF TellCustomer, TypeInv, ProcsOK, ProcOK, WithTx
    <3> QED
      BY <1>0, <2>1, <3>1 DEF TellCustomer, MailType
  <2>2. CASE ~TellCustomer(p)
    <3>1. UNCHANGED <<mail, crashes>>
      BY <1>4, <2>2 DEF StaffStep, ReadRequest, ClaimRequest, LeaveUncertain, CreateTransaction
    <3> QED
      BY <1>0, <1>1, <3>1 DEF MailType
  <2> QED
    BY <2>1, <2>2
<1>5. ASSUME NEW p \in Procs, Crash(p)
      PROVE  MailType'
  BY <1>0, <1>1, <1>5 DEF Crash, MailType
<1>6. ASSUME NEW p \in Procs, NEW t \in Txs, FindRecorded(p, t)
      PROVE  MailType'
  BY <1>0, <1>1, <1>6 DEF FindRecorded, MailType
<1>7. ASSUME NEW t \in Txs, Adjudicate(t)
      PROVE  MailType'
  <2>1. UNCHANGED crashes /\ (Finalize(t, "ok") \/ UNCHANGED mail)
    BY <1>7 DEF Adjudicate
  <2> QED
    BY <1>0, <1>1, <1>2, <2>1 DEF MailType
<1>8. ASSUME NEW s \in Senders, Send(s) \/ SenderCrash(s)
      PROVE  MailType'
  <2>0. None \notin Requests
    BY RefundAssumption
  <2>1. CASE (\E r \in Requests : ClaimOutboxRow(s, r)) \/ DeliveryFails(s)
    BY <1>0, <2>0, <2>1 DEF ClaimOutboxRow, DeliveryFails, MailType
  <2>2. CASE Deliver(s)
    BY <1>0, <2>0, <2>2 DEF Deliver, MailType
  <2>3. CASE SenderCrash(s)
    BY <1>0, <2>0, <2>3 DEF SenderCrash, MailType
  <2> QED
    BY <1>8, <2>1, <2>2, <2>3 DEF Send
<1>9. CASE \/ \E r \in Requests : QueueRefund(r) \/ CreateRefundRequest(r)
           \/ \E p \in Procs, t \in Txs : ClaimPending(p, t) \/ ReleaseClaim(p, t)
                                          \/ StartQuery(p, t)
           \/ \E t \in Txs : GatewayDecides(t)
           \/ UNCHANGED vars
  <2>1. UNCHANGED <<mail, crashes>>
    BY <1>9
    DEF QueueRefund, CreateRefundRequest, ClaimPending, ReleaseClaim, StartQuery,
        GatewayDecides, vars, mail
  <2> QED
    BY <1>0, <1>1, <2>1 DEF MailType
<1> QED
  BY <1>3, <1>4, <1>5, <1>6, <1>7, <1>8, <1>9 DEF Next, Sweep

LEMMA TypeInvariant == Spec => []TypeInv
<1>1. Init => TypeInv
  <2>1. Init => DeskType
    BY DEF Init, DeskType, TxType, TxOK, Exists, NoTx, Open
  <2>2. Init => ProcsOK
    BY DEF Init, ProcsOK, ProcType, ProcOK, WithTx, Idle
  <2>3. Init => MailType
    BY RefundAssumption DEF Init, MailType
  <2> QED
    BY <2>1, <2>2, <2>3 DEF Init, TypeInv
<1>2. TypeInv /\ [Next]_vars => TypeInv'
  <2> SUFFICES ASSUME TypeInv, [Next]_vars
               PROVE  TypeInv'
    OBVIOUS
  <2>1. DeskType' /\ TxKeeps
    BY DeskTypeStep
  <2>2. ProcsOK'
    BY <2>1, StepProcs, StaffProcs, OtherProcs DEF Next
  <2> QED
    BY <2>1, <2>2, MailTypeStep, GatewayTypeStep DEF TypeInv, GatewayType
<1> QED
  BY <1>1, <1>2, PTL DEF Spec

\* Type correctness, for any number of requests, transactions and processes.
THEOREM TypeCorrect == Spec => []TypeOK
<1>1. TypeInv => TypeOK
  BY DEF TypeInv, DeskType, TxType, ProcsOK, ProcType, MailType, TypeOK
<1> QED
  BY <1>1, TypeInvariant, PTL

-----------------------------------------------------------------------------
(* Who may still move money *)

\* A transaction is in the hands of one process at most; the gateway is not asked
\* before the row says so; a failed one is in no hands that could still ask.
HoldPart ==
    /\ \A p, q \in Procs, t \in Txs : Holds(p, t) /\ Holds(q, t) => p = q
    /\ \A p \in Procs, t \in Txs : Holds(p, t) =>
        /\ tx[t].status # "PENDING"
        /\ proc[p].pc \in {"claimed", "submitted"} =>
            gateway[t] = "none" /\ tx[t].status # "FAILED"
        /\ proc[p].pc # "claimed" => tx[t].submitted
    /\ \A t \in Txs :
        /\ gateway[t] # "none" => tx[t].submitted /\ tx[t].status \notin {"NONE", "PENDING"}
        /\ tx[t].status = "FAILED" => gateway[t] \in {"none", "declined"}
        /\ tx[t].response = "ok" => gateway[t] = "refunded"

\* A candidate of the sweep has been submitted and is never queued again, and codes
\* that were its own when they were read stand for money that moved.
RecordOK(p, rec) ==
    rec.pc = "recorded" =>
        /\ p \in Workers /\ rec.seen \in {"ok", "echo"}
        /\ tx[rec.tx].submitted /\ tx[rec.tx].status # "PENDING"
        /\ rec.seen = "ok" => gateway[rec.tx] = "refunded"
RecordPart == \A p \in Procs : RecordOK(p, proc[p])

HoldInv == HoldPart /\ RecordPart

\* Processes go idle, tell the customer, find a recorded answer or ask the gateway
\* how things are.
Freed ==
    \A p \in Procs :
        \/ proc'[p] = proc[p]
        \/ proc'[p].pc \in {"idle", "approved", "recorded", "querying"} /\ RecordOK(p, proc'[p])

Nobody(t) == \A p \in Procs : ~Holds(p, t)

\* The mark of the staff goes only when a request goes back to the queue.
Marked == \A q \in Requests : byStaff'[q] = byStaff[q] \/ request'[q] = "PENDING"

\* What the new status of an open transaction does to its request.
Follows(t, s) ==
    LET r == tx[t].req IN
    \/ s = "FAILED" /\ Reopened(r)
    \/ s = "SUCCESS" /\ request[r] \in Open /\ request' = [request EXCEPT ![r] = "APPROVED"]
    \/ s \in Active /\ request' = request
    \/ /\ s \in Blocking /\ request[r] \in Open
       /\ request' = [request EXCEPT ![r] = "PROCESSING"]
    \/ /\ s = "PENDING" /\ ~tx[t].submitted /\ request[r] = "PROCESSING"
       /\ request' = [request EXCEPT ![r] = "PENDING"]

\* An open transaction gets another status, or the same: every way to end, flag or
\* release one. One that waits for the worker can only be refused.
Written(t, s, resp) ==
    /\ tx[t].status \in Active /\ s \in Statuses /\ resp \in {"none", "ok", "echo"}
    /\ Sets(t, s, tx[t].submitted, resp)
    /\ UNCHANGED gateway /\ Freed /\ Follows(t, s) /\ Marked
    /\ tx[t].status = "PENDING" => s = "FAILED"
    /\ s = "PENDING" => ~tx[t].submitted /\ Nobody(t)
    /\ s = "FAILED" => gateway[t] = "declined" \/ (gateway[t] = "none" /\ Nobody(t)')
    /\ resp = "ok" => gateway[t] = "refunded"

\* Nothing happens to the money.
Quiet == UNCHANGED <<desk, gateway>> /\ Freed

LEMMA FreedBy ==
    ASSUME ProcsOK, NEW p \in Procs, Quit(p) \/ Done(p) \/ proc' = proc
    PROVE  Freed
<1>1. proc \in [Procs -> ProcType]
  BY DEF ProcsOK
<1>2. Idle.pc = "idle" /\ [Idle EXCEPT !.pc = "approved", !.req = proc[p].req].pc = "approved"
  BY DEF Idle
<1> QED
  BY <1>1, <1>2 DEF Freed, RecordOK, Quit, Done

\* The ways to end, flag or release a transaction.
LEMMA FailWrites ==
    ASSUME TypeInv, NEW t \in Txs, tx[t].status \in Active, Fail(t), UNCHANGED gateway, Freed,
           gateway[t] = "declined" \/ (gateway[t] = "none" /\ Nobody(t)'),
           tx[t].response = "ok" => gateway[t] = "refunded"
    PROVE  \E s, resp : Written(t, s, resp)
<1>1. Exists(t) /\ DeskType /\ tx[t].response \in {"none", "ok", "echo"}
  BY DEF Exists, Active, Blocking, TypeInv, DeskType, TxType
<1>2. Written(t, "FAILED", tx[t].response)
  BY <1>1, FailEffect DEF Written, Follows, Statuses, Marked
<1> QED
  BY <1>2

LEMMA FinalizeWrites ==
    ASSUME TypeInv, NEW t \in Txs, NEW resp \in {"none", "ok", "echo"}, Finalize(t, resp),
           UNCHANGED gateway, Freed, tx[t].status # "PENDING",
           resp = "ok" => gateway[t] = "refunded"
    PROVE  \E s, c : Written(t, s, c)
<1>1. Exists(t) /\ DeskType /\ tx[t].status \in Active
  BY DEF Exists, Active, Blocking, TypeInv, Finalize, CanFinalize
<1>2. Written(t, "SUCCESS", resp)
  BY <1>1, FinalizeEffect DEF Written, Follows, Statuses, Marked
<1> QED
  BY <1>2

LEMMA DoubtWrites ==
    ASSUME TypeInv, NEW p, NEW t \in Txs, NEW resp \in {"none", "ok"},
           tx[t].status \in Blocking, NeedsReconciliation(p, t, resp),
           UNCHANGED gateway, Freed, resp = "ok" => gateway[t] = "refunded"
    PROVE  \E s, c : Written(t, s, c)
<1>1. Exists(t) /\ DeskType
  BY DEF Exists, Active, Blocking, TypeInv
<1>2. Written(t, "NEEDS_RECONCILIATION", resp)
  BY <1>1, DoubtEffect DEF Written, Follows, Statuses, Active, Blocking, Marked
<1> QED
  BY <1>2

\* Every step but a few writes one open transaction or leaves the money alone.
Kind ==
    \/ Quiet
    \/ \E t \in Txs : \E s, resp : Written(t, s, resp)

LEMMA StepKinds ==
    ASSUME TypeInv, HoldInv, NEW p \in Procs, Step(p)
    PROVE  Submit(p) \/ SendRefund(p) \/ Kind
<1>t. PICK t : t = proc[p].tx
  OBVIOUS
<1>0. DeskType /\ ProcsOK
  BY DEF TypeInv
<1>1. ASSUME WithTx(p), Fail(t), Quit(p), UNCHANGED gateway, tx[t].status \in Active,
             gateway[t] = "declined" \/ (gateway[t] = "none"
                                           /\ proc[p].pc \notin {"querying", "recorded"})
      PROVE  Kind
  <2>1. t \in Txs
    BY <1>1, <1>t, AtWork
  <2>2. Freed /\ ~Holds(p, t)'
    <3>1. Quit(p) /\ t # 0 /\ proc'[p] = Idle
      BY <1>0, <1>1, <2>1, RefundAssumption DEF Quit, ProcsOK, Txs
    <3>2. ~Holds(p, t)'
      BY <3>1 DEF Holds, Idle
    <3> QED
      BY <1>0, <3>1, <3>2, FreedBy
  <2>3. gateway[t] = "none" => Nobody(t)'
    <3> SUFFICES ASSUME gateway[t] = "none", NEW q \in Procs, Holds(q, t)'
                 PROVE  FALSE
      BY DEF Nobody
    <3>1. Holds(p, t)
      BY <1>1, <1>t DEF Holds
    <3>2. q # p
      BY <2>2
    <3>3. Holds(q, t)
      BY <1>0, <1>1, <3>2 DEF Quit, ProcsOK, Holds
    <3> QED
      BY <2>1, <3>1, <3>2, <3>3 DEF HoldInv, HoldPart
  <2>4. tx[t].response = "ok" => gateway[t] = "refunded"
    BY <2>1 DEF HoldInv, HoldPart
  <2> QED
    BY <1>1, <2>1, <2>2, <2>3, <2>4, FailWrites DEF Kind
<1>2. ASSUME UNCHANGED <<desk, gateway>>, Quit(p) \/ Done(p)
      PROVE  Kind
  BY <1>0, <1>2, FreedBy DEF Kind, Quiet, desk
<1>3. ASSUME WithTx(p), Finalize(t, "ok"), UNCHANGED gateway, gateway[t] = "refunded", Done(p)
      PROVE  Kind
  <2>1. t \in Txs /\ tx[t].status # "PENDING"
    BY <1>3, <1>t, AtWork DEF HoldInv, HoldPart
  <2> QED
    BY <1>0, <1>3, <2>1, FreedBy, FinalizeWrites DEF Kind
<1>4. ASSUME WithTx(p), NEW resp \in {"none", "ok"}, tx[t].status \in Blocking,
             NeedsReconciliation(p, t, resp), UNCHANGED gateway, Quit(p),
             resp = "ok" => gateway[t] = "refunded"
      PROVE  Kind
  BY <1>0, <1>4, <1>t, AtWork, FreedBy, DoubtWrites DEF Kind
<1>5. "PROCESSING" \in Active /\ "PROCESSING" \in Blocking
  BY DEF Active, Blocking
<1>6. CASE FailBeforeSend(p)
  <2>1. WithTx(p) /\ proc[p].pc \in {"claimed", "submitted"}
    BY <1>6, AtWork DEF FailBeforeSend
  <2>2. t \in Txs /\ Holds(p, t)
    BY <2>1, <1>t, AtWork DEF Holds
  <2>3. gateway[t] = "none"
    BY <2>1, <2>2 DEF HoldInv, HoldPart
  <2>4. CASE Fail(t) /\ tx[t].status = "PROCESSING"
    <3>1. Quit(p) /\ UNCHANGED gateway /\ proc[p].pc \notin {"querying", "recorded"}
      BY <1>6, <2>1 DEF FailBeforeSend, Quit
    <3> QED
      BY <1>1, <1>5, <1>t, <2>1, <2>3, <2>4, <3>1
  <2>5. CASE UNCHANGED desk
    BY <1>2, <1>6, <2>5 DEF FailBeforeSend, Quit
  <2> QED
    BY <1>6, <1>t, <2>4, <2>5 DEF FailBeforeSend
<1>7. CASE AnswerRefunded(p)
  BY <1>2, <1>3, <1>7, <1>t, AtWork DEF AnswerRefunded
<1>8. CASE AnswerUnrecorded(p)
  BY <1>2, <1>4, <1>5, <1>8, <1>t, AtWork DEF AnswerUnrecorded
<1>9. CASE AnswerUnclear(p)
  BY <1>2, <1>4, <1>5, <1>9, <1>t, AtWork DEF AnswerUnclear
<1>10. CASE AnswerDeclined(p)
  BY <1>1, <1>2, <1>5, <1>10, <1>t, AtWork DEF AnswerDeclined
<1>11. CASE QueryRefunded(p)
  BY <1>2, <1>3, <1>11, <1>t, AtWork DEF QueryRefunded
<1>16. CASE FinalizeRecorded(p)
  <2>1. CASE UNCHANGED desk
    BY <1>2, <1>16, <2>1 DEF FinalizeRecorded
  <2>2. CASE Finalize(t, tx[t].response)
    <3>1. t \in Txs /\ tx[t].status # "PENDING"
      BY <1>16, <1>t, AtWork DEF HoldInv, RecordPart, RecordOK, FinalizeRecorded
    <3>2. /\ tx[t].response \in {"none", "ok", "echo"}
          /\ tx[t].response = "ok" => gateway[t] = "refunded"
      BY <1>0, <3>1 DEF DeskType, TxType, HoldInv, HoldPart
    <3>3. UNCHANGED gateway /\ Freed
      BY <1>0, <1>16, FreedBy DEF FinalizeRecorded
    <3> QED
      BY <2>2, <3>1, <3>2, <3>3, FinalizeWrites DEF Kind
  <2> QED
    BY <1>16, <1>t, <2>1, <2>2 DEF FinalizeRecorded
<1>12. ASSUME proc[p].pc = "querying", Unchanged(p)
       PROVE  WithTx(p) /\ t \in Txs /\ Exists(t) /\ tx[t].status \in Blocking
  BY <1>0, <1>12, <1>t, AtWork DEF Unchanged, ProcsOK, ProcOK
<1>13. CASE QueryDeclined(p)
  BY <1>1, <1>2, <1>12, <1>13, <1>t DEF QueryDeclined, Active
<1>14. ASSUME NEW response \in {"echo", "none"}, QueryUnclear(p, response)
       PROVE  Kind
  <2>1. CASE ~Unchanged(p)
    BY <1>2, <1>14, <2>1 DEF QueryUnclear
  <2>2. CASE Unchanged(p)
    <3>1. PICK s \in Blocking :
            /\ tx' = [tx EXCEPT ![t].response = response, ![t].status = s]
            /\ UNCHANGED <<request, byStaff, gateway>> /\ Quit(p)
      BY <1>12, <1>14, <1>t, <2>2 DEF QueryUnclear, Blocking
    <3>2. Sets(t, s, tx[t].submitted, response) /\ t \in Txs /\ tx[t].status \in Blocking
      BY <1>0, <1>12, <1>14, <1>t, <2>2, <3>1, FieldSets DEF QueryUnclear, Active
    <3>3. Freed
      BY <1>0, <3>1, FreedBy
    <3>4. Written(t, s, response)
      BY <3>1, <3>2, <3>3 DEF Written, Follows, Active, Blocking, Statuses, Marked
    <3> QED
      BY <3>2, <3>4 DEF Kind
  <2> QED
    BY <2>1, <2>2
<1>15. CASE QueryFails(p)
  <2>1. CASE tx' = tx
    BY <1>2, <1>15, <2>1 DEF QueryFails, desk
  <2>2. CASE tx' = [tx EXCEPT ![t].status = "NEEDS_RECONCILIATION"] /\ Unchanged(p)
    <3>1. /\ Sets(t, "NEEDS_RECONCILIATION", tx[t].submitted, tx[t].response)
          /\ t \in Txs /\ tx[t].status \in Blocking
          /\ tx[t].response \in {"none", "ok", "echo"}
          /\ tx[t].response = "ok" => gateway[t] = "refunded"
      BY <1>0, <1>12, <1>15, <1>t, <2>2, FieldSets
      DEF QueryFails, Active, DeskType, TxType, HoldInv, HoldPart
    <3>2. Freed /\ UNCHANGED <<request, byStaff, gateway>>
      BY <1>0, <1>15, FreedBy DEF QueryFails
    <3>3. Written(t, "NEEDS_RECONCILIATION", tx[t].response)
      BY <3>1, <3>2 DEF Written, Follows, Active, Blocking, Statuses, Marked
    <3> QED
      BY <3>1, <3>3 DEF Kind
  <2> QED
    BY <1>15, <1>t, <2>1, <2>2 DEF QueryFails
<1> QED
  BY <1>6, <1>7, <1>8, <1>9, <1>10, <1>11, <1>13, <1>14, <1>15,
     <1>16 DEF Step


LEMMA OtherKinds ==
    ASSUME TypeInv, HoldInv,
           \/ \E p \in Procs : LeaveUncertain(p) \/ TellCustomer(p) \/ Crash(p)
           \/ \E p \in Procs, t \in Txs : StartQuery(p, t) \/ ReleaseClaim(p, t)
                                          \/ FindRecorded(p, t)
           \/ \E t \in Txs : Adjudicate(t)
           \/ \E s \in Senders : Send(s) \/ SenderCrash(s)
           \/ UNCHANGED vars
    PROVE  Kind
<1>0. DeskType /\ ProcsOK /\ proc \in [Procs -> ProcType]
  BY DEF TypeInv, ProcsOK
<1>1. ASSUME NEW p \in Procs, LeaveUncertain(p) \/ TellCustomer(p) \/ Crash(p)
      PROVE  Kind
  <2>1. Quit(p) /\ UNCHANGED <<desk, gateway>>
    BY <1>1 DEF LeaveUncertain, TellCustomer, Crash, Quit
  <2> QED
    BY <1>0, <2>1, FreedBy DEF Kind, Quiet
<1>2. ASSUME NEW p \in Procs, NEW t \in Txs, StartQuery(p, t)
      PROVE  Kind
  <2>1. proc'[p].pc = "querying" /\ \A q \in Procs : q # p => proc'[q] = proc[q]
    BY <1>0, <1>2 DEF StartQuery
  <2> QED
    BY <1>2, <2>1 DEF StartQuery, Kind, Quiet, Freed, RecordOK
<1>3. ASSUME NEW p \in Procs, NEW t \in Txs, ReleaseClaim(p, t)
      PROVE  Kind
  <2>1. /\ Sets(t, "PENDING", tx[t].submitted, tx[t].response)
        /\ tx[t].response \in {"none", "ok", "echo"}
        /\ tx[t].response = "ok" => gateway[t] = "refunded"
    BY <1>0, <1>3, FieldSets DEF ReleaseClaim, DeskType, TxType, HoldInv, HoldPart
  <2>2. /\ tx[t].status \in Active /\ tx[t].status # "PENDING"
        /\ ~tx[t].submitted /\ Nobody(t)
        /\ UNCHANGED gateway /\ Freed
    BY <1>3 DEF ReleaseClaim, Nobody, Freed, Active, Blocking
  <2>3. /\ byStaff' = byStaff
        /\ \/ request' = request
           \/ /\ request[tx[t].req] = "PROCESSING"
              /\ request' = [request EXCEPT ![tx[t].req] = "PENDING"]
    BY <1>3 DEF ReleaseClaim
  <2>4. Written(t, "PENDING", tx[t].response)
    BY <2>1, <2>2, <2>3 DEF Written, Follows, Statuses, Active, Marked
  <2> QED
    BY <2>4 DEF Kind
<1>4. ASSUME NEW p \in Procs, NEW t \in Txs, FindRecorded(p, t)
      PROVE  Kind
  <2>1. /\ proc'[p] = [pc |-> "recorded", req |-> tx[t].req, tx |-> t, seen |-> tx[t].response]
        /\ \A q \in Procs : q # p => proc'[q] = proc[q]
        /\ UNCHANGED <<desk, gateway>>
    BY <1>0, <1>4 DEF FindRecorded
  <2>2. RecordOK(p, proc'[p])
    BY <1>4, <2>1 DEF RecordOK, FindRecorded, HoldInv, HoldPart, Blocking
  <2> QED
    BY <2>1, <2>2 DEF Kind, Quiet, Freed
<1>5. ASSUME NEW t \in Txs, Adjudicate(t)
      PROVE  Kind
  <2>1. Freed /\ UNCHANGED gateway /\ tx[t].status \in Active /\ tx[t].status # "PENDING"
    BY <1>5 DEF Adjudicate, Freed, Active, Blocking
  <2>2. CASE Finalize(t, "ok") /\ gateway[t] = "refunded"
    BY <2>1, <2>2, FinalizeWrites DEF Kind
  <2>3. CASE /\ Fail(t)
             /\ \/ gateway[t] = "declined"
                \/ gateway[t] = "none" /\ \A p \in Procs : ~Holds(p, t)
    <3>1. gateway[t] = "declined" \/ (gateway[t] = "none" /\ Nobody(t)')
      BY <1>5, <2>3 DEF Nobody, Adjudicate, Holds
    <3>2. tx[t].response = "ok" => gateway[t] = "refunded"
      BY DEF HoldInv, HoldPart
    <3> QED
      BY <2>1, <2>3, <3>1, <3>2, FailWrites DEF Kind
  <2> QED
    BY <1>5, <2>2, <2>3 DEF Adjudicate
<1>6. CASE (\E s \in Senders : Send(s) \/ SenderCrash(s)) \/ UNCHANGED vars
  BY <1>6
  DEF Send, ClaimOutboxRow, Deliver, DeliveryFails, SenderCrash, vars, desk, Kind, Quiet, Freed
<1> QED
  BY <1>1, <1>2, <1>3, <1>4, <1>5, <1>6

\* The steps that are named, and the kinds the others fall into.
Takes(p, t) ==
    /\ tx[t].status = "PENDING" /\ p \in Workers /\ proc[p] = Idle
    /\ \A u \in Txs : tx[u].status \notin Blocking
    /\ Fits(tx[t].req, Txs)
    /\ tx' = [tx EXCEPT ![t].status = "PROCESSING"]
    /\ proc' = [proc EXCEPT ![p] =
            [pc |-> "claimed", req |-> tx[t].req, tx |-> t, seen |-> "PROCESSING"]]
    /\ UNCHANGED <<request, byStaff, gateway>>

AllKinds ==
    \/ Kind
    \/ \E r \in Requests : QueueRefund(r) \/ CreateRefundRequest(r)
    \/ \E p \in Procs, t \in Txs : Takes(p, t)
    \/ \E p \in Procs : \/ Submit(p) \/ SendRefund(p)
                        \/ ClaimRequest(p) \/ CreateTransaction(p)
                        \/ \E r \in Requests : ReadRequest(p, r)
    \/ \E t \in Txs : GatewayDecides(t)

LEMMA NextKinds ==
    ASSUME TypeInv, HoldInv, [Next]_vars
    PROVE  AllKinds
<1>1. ASSUME NEW p \in Procs, NEW t \in Txs, ClaimPending(p, t)
      PROVE  AllKinds
  <2>1. CASE Fail(t) /\ UNCHANGED proc
    <3>1. /\ tx[t].status \in Active /\ UNCHANGED gateway /\ Freed
          /\ gateway[t] = "none" /\ (tx[t].response = "ok" => gateway[t] = "refunded")
      BY <1>1, <2>1 DEF ClaimPending, Active, Freed, HoldInv, HoldPart
    <3>2. Nobody(t)'
      BY <1>1, <2>1 DEF ClaimPending, HoldInv, HoldPart, Nobody, Holds
    <3> QED
      BY <2>1, <3>1, <3>2, FailWrites DEF Kind, AllKinds
  <2>2. CASE ~(Fail(t) /\ UNCHANGED proc)
    <3>1. Takes(p, t)
      BY <1>1, <2>2 DEF ClaimPending, Takes
    <3> QED
      BY <3>1 DEF AllKinds
  <2> QED
    BY <2>1, <2>2
<1>2. ASSUME NEW p \in Procs, Step(p) \/ StaffStep(p) \/ Sweep(p) \/ Crash(p)
      PROVE  AllKinds
  BY <1>1, <1>2, StepKinds, OtherKinds DEF StaffStep, Sweep, AllKinds
<1>3. CASE \/ \E p \in Procs, t \in Txs : StartQuery(p, t)
           \/ \E t \in Txs : Adjudicate(t)
           \/ \E s \in Senders : Send(s) \/ SenderCrash(s)
           \/ UNCHANGED vars
  BY <1>3, OtherKinds DEF AllKinds
<1>4. CASE \/ \E r \in Requests : QueueRefund(r) \/ CreateRefundRequest(r)
           \/ \E t \in Txs : GatewayDecides(t)
  BY <1>4 DEF AllKinds
<1> QED
  BY <1>2, <1>3, <1>4 DEF Next


\* A process that lets go of its transaction holds none.
LEMMA FreedHolds ==
    ASSUME TypeInv, TypeInv', Freed, NEW p \in Procs, NEW t \in Txs, Holds(p, t)'
    PROVE  Holds(p, t) /\ proc'[p] = proc[p]
<1>1. t # 0
  BY RefundAssumption DEF Txs
<1>2. proc'[p].pc \in {"idle", "approved"} => proc'[p].tx = 0
  BY DEF TypeInv, ProcsOK, ProcOK, WithTx
<1>3. proc'[p].tx = t /\ proc'[p].pc \notin {"querying", "recorded"}
  BY DEF Holds
<1>4. proc'[p] = proc[p]
  BY <1>1, <1>2, <1>3 DEF Freed
<1> QED
  BY <1>3, <1>4 DEF Holds

\* HoldInv, for one process and one transaction.
HeldOK(p, t) ==
    Holds(p, t) =>
        /\ tx[t].status # "PENDING"
        /\ proc[p].pc \in {"claimed", "submitted"} =>
            gateway[t] = "none" /\ tx[t].status # "FAILED"
        /\ proc[p].pc # "claimed" => tx[t].submitted
PaidOK(t) ==
    /\ gateway[t] # "none" => tx[t].submitted /\ tx[t].status \notin {"NONE", "PENDING"}
    /\ tx[t].status = "FAILED" => gateway[t] \in {"none", "declined"}
    /\ tx[t].response = "ok" => gateway[t] = "refunded"

LEMMA HoldParts ==
    HoldPart <=> /\ \A p, q \in Procs, t \in Txs : Holds(p, t) /\ Holds(q, t) => p = q
                 /\ \A p \in Procs, t \in Txs : HeldOK(p, t)
                 /\ \A t \in Txs : PaidOK(t)
BY DEF HoldPart, HeldOK, PaidOK

LEMMA KindHolds ==
    ASSUME TypeInv, TypeInv', HoldPart, Kind
    PROVE  HoldPart'
<1>0. Freed
  BY DEF Kind, Quiet, Written
<1>1. \A p, q \in Procs, u \in Txs : Holds(p, u)' /\ Holds(q, u)' => p = q
  BY <1>0, FreedHolds DEF HoldPart
<1>2. CASE Quiet
  <2>1. ASSUME NEW p \in Procs, NEW u \in Txs
        PROVE  HeldOK(p, u)'
    <3>1. HeldOK(p, u)
      BY HoldParts
    <3> QED
      BY <1>0, <1>2, <3>1, FreedHolds DEF HeldOK, Quiet, desk
  <2>2. \A u \in Txs : PaidOK(u)'
    BY <1>2, HoldParts DEF PaidOK, Quiet, desk
  <2> QED
    BY <1>1, <2>1, <2>2, HoldParts DEF HoldPart, HeldOK, PaidOK
<1>3. ASSUME NEW t \in Txs, NEW s, NEW resp, Written(t, s, resp)
      PROVE  HoldPart'
  <2>0. /\ DeskType /\ Exists(t) /\ s \in Statuses /\ tx[t].submitted \in BOOLEAN
        /\ resp \in {"none", "ok", "echo"}
    BY <1>3 DEF Written, TypeInv, DeskType, TxType, Exists, Active, Blocking
  <2>1. /\ tx'[t].status = s /\ tx'[t].submitted = tx[t].submitted /\ tx'[t].response = resp
        /\ \A u \in Txs : u # t => tx'[u] = tx[u]
        /\ UNCHANGED gateway
    BY <1>3, <2>0, SetsType DEF Written
  <2>2. ASSUME NEW p \in Procs, NEW u \in Txs
        PROVE  HeldOK(p, u)'
    <3> SUFFICES ASSUME Holds(p, u)'
                 PROVE  HeldOK(p, u)'
      BY DEF HeldOK
    <3>1. HeldOK(p, u) /\ Holds(p, u) /\ proc'[p] = proc[p]
      BY <1>0, FreedHolds, HoldParts
    <3>2. CASE u # t
      BY <2>1, <3>1, <3>2 DEF HeldOK
    <3>3. CASE u = t
      <4>1. s # "PENDING"
        BY <1>3, <3>1, <3>3 DEF Written, Nobody
      <4>2. s = "FAILED" => gateway[t] = "declined"
        BY <1>3, <3>3 DEF Written, Nobody
      <4> QED
        BY <2>1, <3>1, <3>3, <4>1, <4>2 DEF HeldOK
    <3> QED
      BY <3>2, <3>3
  <2>3. ASSUME NEW u \in Txs
        PROVE  PaidOK(u)'
    <3>1. PaidOK(u)
      BY HoldParts
    <3>2. CASE u # t
      BY <2>1, <3>1, <3>2 DEF PaidOK
    <3>3. CASE u = t
      <4>1. s # "NONE"
        BY <2>0 DEF Statuses
      <4> QED
        BY <1>3, <2>1, <3>1, <3>3, <4>1 DEF PaidOK, Written
    <3> QED
      BY <3>2, <3>3
  <2> QED
    BY <1>1, <2>2, <2>3, HoldParts DEF HoldPart, HeldOK, PaidOK
<1> QED
  BY <1>2, <1>3 DEF Kind

\* The steps by which a process comes to a transaction or hands it to the gateway.
LEMMA NamedHolds ==
    ASSUME TypeInv, TypeInv', HoldPart, AllKinds, ~Kind
    PROVE  HoldPart'
<1>0. /\ DeskType /\ ProcsOK /\ proc \in [Procs -> ProcType] /\ tx \in [Txs -> TxType]
      /\ GatewayType /\ \A t \in Txs : t # 0
  BY RefundAssumption DEF TypeInv, ProcsOK, DeskType, GatewayType, Txs
<1>1. ASSUME NEW r \in Requests, QueueRefund(r)
      PROVE  HoldPart'
  <2>1. PICK t \in Txs : NewTx(t) /\ tx' = [tx EXCEPT ![t] = Row(r, "PENDING", FALSE)]
    BY <1>1 DEF QueueRefund
  <2>2. /\ ~Exists(t) /\ tx[t] = NoTx
        /\ tx'[t].status = "PENDING" /\ tx'[t].response = "none"
        /\ \A u \in Txs : u # t => tx'[u] = tx[u]
    BY <1>0, <2>1, NewEffect
  <2>3. UNCHANGED <<gateway, proc>>
    BY <1>1 DEF QueueRefund
  <2>4. gateway[t] = "none" /\ \A p \in Procs : ~Holds(p, t)
    BY <1>0, <2>2 DEF HoldPart, NoTx, Holds, ProcsOK, ProcOK, WithTx
  <2> QED
    BY <2>2, <2>3, <2>4 DEF HoldPart, Holds
<1>2. ASSUME NEW r \in Requests, CreateRefundRequest(r)
      PROVE  HoldPart'
  BY <1>2 DEF CreateRefundRequest, HoldPart, Holds
<1>3. ASSUME NEW p \in Procs, NEW t \in Txs, Takes(p, t)
      PROVE  HoldPart'
  <2>1. /\ tx'[t].status = "PROCESSING" /\ tx'[t].response = tx[t].response
        /\ tx'[t].submitted = tx[t].submitted
        /\ \A u \in Txs : u # t => tx'[u] = tx[u]
        /\ UNCHANGED gateway
    BY <1>0, <1>3 DEF Takes, TxType
  <2>2. /\ proc'[p].pc = "claimed" /\ proc'[p].tx = t
        /\ \A q \in Procs : q # p => proc'[q] = proc[q]
    BY <1>0, <1>3 DEF Takes
  <2>3. gateway[t] = "none" /\ \A q \in Procs : ~Holds(q, t)
    BY <1>3 DEF HoldPart, Takes
  <2> QED
    BY <2>1, <2>2, <2>3 DEF HoldPart, Holds
<1>4. ASSUME NEW p \in Procs, Submit(p)
      PROVE  HoldPart'
  <2>0. PICK t : t = proc[p].tx
    OBVIOUS
  <2>1. t \in Txs /\ Holds(p, t)
    BY <1>4, <2>0, AtWork DEF Submit, Holds
  <2>2. /\ tx'[t].status = tx[t].status /\ tx'[t].response = tx[t].response
        /\ tx'[t].submitted = TRUE
        /\ \A u \in Txs : u # t => tx'[u] = tx[u]
        /\ UNCHANGED gateway
    BY <1>0, <1>4, <2>0, <2>1 DEF Submit, TxType
  <2>3. /\ proc[p].pc = "claimed" /\ proc'[p].pc = "submitted" /\ proc'[p].tx = t
        /\ \A q \in Procs : q # p => proc'[q] = proc[q]
    BY <1>0, <1>4, <2>0 DEF Submit, ProcType
  <2> QED
    BY <2>1, <2>2, <2>3 DEF HoldPart, Holds
<1>5. ASSUME NEW p \in Procs, SendRefund(p)
      PROVE  HoldPart'
  <2>0. PICK t : t = proc[p].tx
    OBVIOUS
  <2>1. t \in Txs /\ Holds(p, t) /\ Exists(t)
    BY <1>5, <2>0, AtWork DEF SendRefund, Holds
  <2>2. gateway[t] = "none" /\ tx[t].status \notin {"FAILED", "PENDING", "NONE"}
        /\ tx[t].submitted
    BY <1>5, <2>1 DEF HoldPart, SendRefund, Exists
  <2>3. /\ gateway'[t] = "sent" /\ \A u \in Txs : u # t => gateway'[u] = gateway[u]
        /\ tx' = tx
    BY <1>0, <1>5, <2>0, <2>1, <2>2 DEF SendRefund, desk, GatewayType
  <2>4. /\ proc'[p].pc = "calling" /\ proc'[p].tx = t
        /\ \A q \in Procs : q # p => proc'[q] = proc[q]
    BY <1>0, <1>5, <2>0 DEF SendRefund, ProcType
  <2> QED
    BY <2>1, <2>2, <2>3, <2>4 DEF HoldPart, Holds
<1>6. ASSUME NEW t \in Txs, GatewayDecides(t)
      PROVE  HoldPart'
  <2>1. /\ gateway[t] = "sent" /\ gateway'[t] \in {"refunded", "declined"}
        /\ \A u \in Txs : u # t => gateway'[u] = gateway[u]
        /\ UNCHANGED <<tx, proc>>
    BY <1>0, <1>6 DEF GatewayDecides, desk, GatewayType
  <2> QED
    BY <2>1 DEF HoldPart, Holds
<1>7. ASSUME NEW p \in Procs, UNCHANGED <<tx, gateway>>, proc'[p].tx = 0,
             \A q \in Procs : q # p => proc'[q] = proc[q]
      PROVE  HoldPart'
  BY <1>0, <1>7 DEF HoldPart, Holds
<1>8. ASSUME NEW p \in Procs, NEW r \in Requests, ReadRequest(p, r)
      PROVE  HoldPart'
  <2>1. UNCHANGED <<tx, gateway>> /\ proc'[p].tx = 0 /\ \A q \in Procs : q # p => proc'[q] = proc[q]
    BY <1>0, <1>8 DEF ReadRequest, desk
  <2> QED
    BY <1>7, <2>1
<1>9. ASSUME NEW p \in Procs, ClaimRequest(p)
      PROVE  HoldPart'
  <2>1. proc[p].tx = 0
    BY <1>0, <1>9 DEF ClaimRequest, ProcsOK, ProcOK, WithTx
  <2>2. UNCHANGED <<tx, gateway>> /\ proc'[p].tx = 0 /\ \A q \in Procs : q # p => proc'[q] = proc[q]
    BY <1>0, <1>9, <2>1 DEF ClaimRequest, ProcType, Idle
  <2> QED
    BY <1>7, <2>2
<1>10. ASSUME NEW p \in Procs, CreateTransaction(p)
       PROVE  HoldPart'
  <2>1. CASE UNCHANGED tx /\ proc' = [proc EXCEPT ![p] = Idle]
    <3>1. UNCHANGED <<tx, gateway>> /\ proc'[p].tx = 0
          /\ \A q \in Procs : q # p => proc'[q] = proc[q]
      BY <1>0, <1>10, <2>1 DEF CreateTransaction, Idle
    <3> QED
      BY <1>7, <3>1
  <2>2. CASE \E t \in Txs :
              /\ NewTx(t)
              /\ tx' = [tx EXCEPT ![t] = Row(proc[p].req, "PROCESSING", TRUE)]
              /\ proc' = [proc EXCEPT ![p].pc = "submitted", ![p].tx = t,
                                      ![p].seen = "PROCESSING"]
    <3>1. PICK t \in Txs :
              /\ NewTx(t)
              /\ tx' = [tx EXCEPT ![t] = Row(proc[p].req, "PROCESSING", TRUE)]
              /\ proc' = [proc EXCEPT ![p].pc = "submitted", ![p].tx = t,
                                      ![p].seen = "PROCESSING"]
      BY <2>2
    <3>2. proc[p].req \in Requests
      BY <1>0, <1>10, RefundAssumption DEF CreateTransaction, ProcsOK, ProcOK, WithTx
    <3>3. /\ ~Exists(t) /\ tx[t] = NoTx
          /\ tx'[t].status = "PROCESSING" /\ tx'[t].response = "none" /\ tx'[t].submitted = TRUE
          /\ \A u \in Txs : u # t => tx'[u] = tx[u]
      BY <1>0, <3>1, <3>2, NewEffect
    <3>4. /\ proc'[p].pc = "submitted" /\ proc'[p].tx = t
          /\ \A q \in Procs : q # p => proc'[q] = proc[q]
          /\ UNCHANGED gateway
      BY <1>0, <1>10, <3>1 DEF CreateTransaction, ProcType
    <3>5. gateway[t] = "none" /\ \A q \in Procs : ~Holds(q, t)
      BY <1>0, <3>3 DEF HoldPart, NoTx, Holds, ProcsOK, ProcOK, WithTx
    <3> QED
      BY <3>3, <3>4, <3>5 DEF HoldPart, Holds
  <2> QED
    BY <1>10, <2>1, <2>2 DEF CreateTransaction
<1> QED
  BY <1>1, <1>2, <1>3, <1>4, <1>5, <1>6, <1>8, <1>9, <1>10 DEF AllKinds

\* What a worker read of a candidate stays good enough.
LEMMA RecordStays ==
    ASSUME TypeInv, TypeInv', RecordPart,
           \A p \in Procs : proc'[p].pc = "recorded" =>
                proc'[p] = proc[p] \/ (RecordOK(p, proc'[p]) /\ \A u \in Txs : Exists(u)' => Exists(u)),
           \A u \in Txs : Exists(u) /\ tx[u].submitted /\ tx[u].status # "PENDING"
                => tx'[u].submitted /\ tx'[u].status # "PENDING",
           \A u \in Txs : gateway[u] = "refunded" => gateway'[u] = "refunded"
    PROVE  RecordPart'
<1> SUFFICES ASSUME NEW p \in Procs, proc'[p].pc = "recorded"
             PROVE  RecordOK(p, proc[p])'
  BY DEF RecordPart, RecordOK
<1>1. RecordOK(p, proc'[p])
  BY DEF RecordPart
<1>2. proc'[p].tx \in Txs /\ Exists(proc'[p].tx)
  <2>1. (proc[p].tx \in Txs /\ Exists(proc[p].tx))'
    BY DEF TypeInv, ProcsOK, ProcOK, WithTx
  <2>2. CASE proc'[p] = proc[p]
    BY <2>2 DEF TypeInv, ProcsOK, ProcOK, WithTx
  <2>3. CASE \A u \in Txs : Exists(u)' => Exists(u)
    BY <2>1, <2>3
  <2> QED
    BY <2>1, <2>2, <2>3
<1> QED
  BY <1>1, <1>2 DEF RecordOK

LEMMA RecordStep ==
    ASSUME TypeInv, TypeInv', HoldInv, AllKinds
    PROVE  RecordPart'
<1>0. /\ DeskType /\ ProcsOK /\ proc \in [Procs -> ProcType] /\ tx \in [Txs -> TxType]
      /\ GatewayType /\ RecordPart
  BY DEF TypeInv, ProcsOK, DeskType, GatewayType, HoldInv, HoldPart
<1>1. CASE Quiet
  BY <1>0, <1>1, RecordStays DEF Quiet, Freed, desk, Exists
<1>2. ASSUME NEW t \in Txs, NEW s, NEW resp, Written(t, s, resp)
      PROVE  RecordPart'
  <2>0. /\ Exists(t) /\ s \in Statuses /\ tx[t].submitted \in BOOLEAN
        /\ resp \in {"none", "ok", "echo"}
    BY <1>0, <1>2 DEF Written, TxType, Exists, Active, Blocking
  <2>1. /\ tx'[t].status = s /\ tx'[t].submitted = tx[t].submitted
        /\ \A u \in Txs : u # t => tx'[u] = tx[u]
        /\ \A u \in Txs : Exists(u)' <=> Exists(u)
    BY <1>0, <1>2, <2>0, SetsType DEF Written
  <2>2. tx[t].submitted => s # "PENDING"
    BY <1>2 DEF Written
  <2>3. UNCHANGED gateway /\ Freed
    BY <1>2 DEF Written
  <2> QED
    BY <1>0, <2>1, <2>2, <2>3, RecordStays DEF Freed
\* Nobody finds a candidate in the other steps.
<1>3. ASSUME \A p \in Procs : proc'[p].pc = "recorded" => proc'[p] = proc[p],
             \A u \in Txs : Exists(u) /\ tx[u].submitted /\ tx[u].status # "PENDING"
                => tx'[u].submitted /\ tx'[u].status # "PENDING",
             \A u \in Txs : gateway[u] = "refunded" => gateway'[u] = "refunded"
      PROVE  RecordPart'
  BY <1>0, <1>3, RecordStays
<1>4. ASSUME NEW r \in Requests, QueueRefund(r) \/ CreateRefundRequest(r)
      PROVE  RecordPart'
  <2>1. CASE QueueRefund(r)
    <3>1. PICK t \in Txs : NewTx(t) /\ tx' = [tx EXCEPT ![t] = Row(r, "PENDING", FALSE)]
      BY <2>1 DEF QueueRefund
    <3>2. ~Exists(t) /\ \A u \in Txs : u # t => tx'[u] = tx[u]
      BY <1>0, <3>1, NewEffect
    <3> QED
      BY <1>3, <2>1, <3>2 DEF QueueRefund
  <2>2. CASE CreateRefundRequest(r)
    BY <1>3, <2>2 DEF CreateRefundRequest
  <2> QED
    BY <1>4, <2>1, <2>2
<1>5. ASSUME NEW p \in Procs, NEW t \in Txs, Takes(p, t)
      PROVE  RecordPart'
  <2>1. /\ proc'[p].pc = "claimed" /\ \A q \in Procs : q # p => proc'[q] = proc[q]
        /\ tx[t].status = "PENDING" /\ \A u \in Txs : u # t => tx'[u] = tx[u]
        /\ UNCHANGED gateway
    BY <1>0, <1>5 DEF Takes
  <2> QED
    BY <1>3, <2>1
<1>6. ASSUME NEW p \in Procs, Submit(p) \/ SendRefund(p)
      PROVE  RecordPart'
  <2>1. PICK c \in {"submitted", "calling"} : proc' = [proc EXCEPT ![p].pc = c]
    BY <1>6 DEF Submit, SendRefund
  <2>2. proc'[p].pc # "recorded" /\ \A q \in Procs : q # p => proc'[q] = proc[q]
    BY <1>0, <2>1 DEF ProcType
  <2>3. \A u \in Txs : tx[u].submitted => tx'[u].submitted
    <3>1. CASE Submit(p)
      BY <1>0, <3>1 DEF Submit, TxType
    <3>2. CASE SendRefund(p)
      BY <3>2 DEF SendRefund, desk
    <3> QED
      BY <1>6, <3>1, <3>2
  <2>4. \A u \in Txs : tx'[u].status = tx[u].status
    BY <1>0, <1>6 DEF Submit, SendRefund, desk, TxType
  <2>5. \A u \in Txs : gateway[u] = "refunded" => gateway'[u] = "refunded"
    BY <1>0, <1>6 DEF Submit, SendRefund, GatewayType
  <2> QED
    BY <1>3, <2>2, <2>3, <2>4, <2>5
<1>7. ASSUME NEW p \in Procs, ClaimRequest(p) \/ \E r \in Requests : ReadRequest(p, r)
      PROVE  RecordPart'
  <2>1. UNCHANGED <<tx, gateway>> /\ proc'[p].pc # "recorded"
        /\ \A q \in Procs : q # p => proc'[q] = proc[q]
    BY <1>0, <1>7 DEF ClaimRequest, ReadRequest, desk, Idle, ProcType
  <2> QED
    BY <1>3, <2>1
<1>8. ASSUME NEW p \in Procs, CreateTransaction(p)
      PROVE  RecordPart'
  <2>1. proc'[p].pc # "recorded" /\ \A q \in Procs : q # p => proc'[q] = proc[q]
    <3>1. CASE proc' = [proc EXCEPT ![p] = Idle]
      BY <1>0, <3>1 DEF Idle
    <3>2. CASE \E t \in Txs : proc' = [proc EXCEPT ![p].pc = "submitted", ![p].tx = t,
                                                  ![p].seen = "PROCESSING"]
      BY <1>0, <3>2 DEF ProcType
    <3> QED
      BY <1>8, <3>1, <3>2 DEF CreateTransaction
  <2>2. \A u \in Txs : Exists(u) => tx'[u] = tx[u]
    BY <1>0, <1>8 DEF CreateTransaction, NewTx
  <2>3. UNCHANGED gateway
    BY <1>8 DEF CreateTransaction
  <2> QED
    BY <1>3, <2>1, <2>2, <2>3
<1>9. ASSUME NEW t \in Txs, GatewayDecides(t)
      PROVE  RecordPart'
  BY <1>0, <1>3, <1>9 DEF GatewayDecides, GatewayType, desk
<1> QED
  BY <1>1, <1>2, <1>4, <1>5, <1>6, <1>7, <1>8, <1>9 DEF AllKinds, Kind

LEMMA HoldInvariant == Spec => []HoldInv
<1>1. Init => HoldInv
  <2>1. Init => \A p \in Procs, t \in Txs : ~Holds(p, t)
    BY RefundAssumption DEF Init, Holds, Idle, Txs
  <2>2. Init => RecordPart
    BY DEF Init, Idle, RecordPart, RecordOK
  <2> QED
    BY <2>1, <2>2 DEF Init, HoldInv, HoldPart, NoTx
<1>2. TypeInv /\ TypeInv' /\ HoldInv /\ [Next]_vars => HoldInv'
  BY NextKinds, KindHolds, NamedHolds, RecordStep DEF HoldInv
<1> QED
  BY <1>1, <1>2, TypeInvariant, PTL DEF Spec

\* A refund recorded as failed moved no money and never will, for any number of
\* workers, staff and crashes: its request may be tried again.
THEOREM FailedUnpaid == Spec => []FailedIsUnpaid
<1>1. HoldInv => FailedIsUnpaid
  BY DEF HoldInv, HoldPart, FailedIsUnpaid
<1> QED
  BY <1>1, HoldInvariant, PTL

\* The steps that close a transaction: VNPay's money has moved, or a candidate of the
\* sweep is closed.
LEMMA Closing ==
    ASSUME TypeInv, [Next]_vars, NEW t \in Txs,
           tx[t].status # "SUCCESS", tx'[t].status = "SUCCESS"
    PROVE  \/ gateway[t] = "refunded"
           \/ \E p \in Procs : FinalizeRecorded(p) /\ proc[p].tx = t
<1>0. DeskType /\ tx \in [Txs -> TxType]
  BY DEF TypeInv, DeskType
<1>1. ASSUME NEW u \in Txs, NEW c \in {"none", "ok", "echo"}, Finalize(u, c)
      PROVE  u = t
  BY <1>0, <1>1 DEF Finalize
<1>2. ASSUME NEW u, Fail(u)
      PROVE  FALSE
  BY <1>0, <1>2 DEF Fail, TxType
<1>3. ASSUME NEW p, NEW u, NEW c \in {"none", "ok", "echo"}, NeedsReconciliation(p, u, c)
      PROVE  FALSE
  BY <1>0, <1>3 DEF NeedsReconciliation, TxType
<1>4. ASSUME UNCHANGED tx \/ UNCHANGED desk
      PROVE  FALSE
  BY <1>4 DEF desk
<1>5. ASSUME NEW u \in Txs, NewTx(u), NEW r, NEW c \in {"PENDING", "PROCESSING"}, NEW b,
             tx' = [tx EXCEPT ![u] = Row(r, c, b)]
      PROVE  FALSE
  BY <1>0, <1>5 DEF Row
<1>6. ASSUME NEW p \in Procs, Step(p)
      PROVE  \/ gateway[t] = "refunded"
             \/ FinalizeRecorded(p) /\ proc[p].tx = t
  <2>1. CASE FinalizeRecorded(p)
    <3>1. proc[p].tx \in Txs /\ tx[proc[p].tx].response \in {"none", "ok", "echo"}
      BY <1>0, <2>1, AtWork DEF FinalizeRecorded, TxType
    <3> QED
      BY <1>1, <1>4, <2>1, <3>1 DEF FinalizeRecorded
  <2>2. CASE AnswerRefunded(p) \/ QueryRefunded(p)
    <3>1. /\ proc[p].tx \in Txs /\ gateway[proc[p].tx] = "refunded"
          /\ Finalize(proc[p].tx, "ok") \/ UNCHANGED desk
      BY <2>2, AtWork DEF AnswerRefunded, QueryRefunded
    <3> QED
      BY <1>1, <1>4, <3>1
  <2>3. CASE Submit(p)
    BY <1>0, <2>3 DEF Submit, TxType
  <2>4. CASE SendRefund(p) \/ FailBeforeSend(p) \/ AnswerDeclined(p) \/ QueryDeclined(p)
    BY <1>2, <1>4, <2>4 DEF SendRefund, FailBeforeSend, AnswerDeclined, QueryDeclined
  <2>5. CASE AnswerUnrecorded(p) \/ AnswerUnclear(p)
    BY <1>3, <1>4, <2>5 DEF AnswerUnrecorded, AnswerUnclear
  <2>6. ASSUME NEW c \in {"echo", "none"}, QueryUnclear(p, c)
        PROVE  FALSE
    <3>1. proc[p].tx \in Txs
      BY <2>6, AtWork DEF QueryUnclear
    <3> QED
      BY <1>0, <1>4, <2>6, <3>1 DEF QueryUnclear, TxType
  <2>7. CASE QueryFails(p)
    BY <1>0, <2>7 DEF QueryFails, TxType
  <2> QED
    BY <1>6, <2>1, <2>2, <2>3, <2>4, <2>5, <2>6, <2>7 DEF Step
<1>7. ASSUME NEW p \in Procs, StaffStep(p)
      PROVE  FALSE
  <2>1. CASE CreateTransaction(p)
    <3>1. CASE \E u \in Txs : NewTx(u) /\ tx' = [tx EXCEPT ![u] = Row(proc[p].req, "PROCESSING", TRUE)]
      <4>1. PICK u \in Txs : NewTx(u) /\ tx' = [tx EXCEPT ![u] = Row(proc[p].req, "PROCESSING", TRUE)]
        BY <3>1
      <4> QED
        BY <1>5, <4>1
    <3> QED
      BY <1>4, <2>1, <3>1 DEF CreateTransaction
  <2>2. CASE ~CreateTransaction(p)
    BY <1>4, <1>7, <2>2
    DEF StaffStep, ReadRequest, ClaimRequest, LeaveUncertain, TellCustomer
  <2> QED
    BY <2>1, <2>2
<1>8. ASSUME NEW p \in Procs, NEW u \in Txs, ClaimPending(p, u) \/ ReleaseClaim(p, u)
      PROVE  FALSE
  <2>1. \/ Fail(u) \/ tx' = [tx EXCEPT ![u].status = "PROCESSING"]
        \/ tx' = [tx EXCEPT ![u].status = "PENDING"]
    BY <1>8 DEF ClaimPending, ReleaseClaim
  <2> QED
    BY <1>0, <1>2, <2>1 DEF TxType
<1>9. ASSUME NEW u \in Txs, Adjudicate(u)
      PROVE  gateway[t] = "refunded"
  BY <1>1, <1>2, <1>9 DEF Adjudicate
<1>10. ASSUME NEW r \in Requests, QueueRefund(r)
       PROVE  FALSE
  <2>1. PICK u \in Txs : NewTx(u) /\ tx' = [tx EXCEPT ![u] = Row(r, "PENDING", FALSE)]
    BY <1>10 DEF QueueRefund
  <2> QED
    BY <1>5, <2>1
<1>11. CASE \/ \E r \in Requests : CreateRefundRequest(r)
            \/ \E p \in Procs : Crash(p)
            \/ \E p \in Procs, u \in Txs : FindRecorded(p, u) \/ StartQuery(p, u)
            \/ \E u \in Txs : GatewayDecides(u)
            \/ \E s \in Senders : Send(s) \/ SenderCrash(s)
            \/ UNCHANGED vars
  BY <1>4, <1>11
  DEF CreateRefundRequest, Crash, FindRecorded, StartQuery, GatewayDecides, Send,
      ClaimOutboxRow, Deliver, DeliveryFails, SenderCrash, vars
<1> QED
  BY <1>6, <1>7, <1>8, <1>9, <1>10, <1>11 DEF Next, Sweep

\* A refund for which VNPay moved no money is closed only by a worker that had read the
\* codes of the original payment in its row, whoever replaced them since.
THEOREM UnpaidEchoes == Spec => UnpaidApprovalsAreEchoes
<1>1. ASSUME TypeInv, HoldInv, [Next]_vars, NEW t \in Txs,
             tx[t].status # "SUCCESS", tx'[t].status = "SUCCESS", gateway[t] # "refunded"
      PROVE  \E p \in Workers : ReadAsEcho(p, t) /\ proc'[p] = Idle
  <2>1. PICK p \in Procs : FinalizeRecorded(p) /\ proc[p].tx = t
    BY <1>1, Closing
  <2>2. p \in Workers /\ proc[p].pc = "recorded" /\ proc[p].seen = "echo"
    BY <1>1, <2>1 DEF FinalizeRecorded, HoldInv, RecordPart, RecordOK
  <2>3. proc'[p] = Idle
    BY <1>1, <2>1 DEF FinalizeRecorded, Quit, TypeInv, ProcsOK
  <2> QED
    BY <2>1, <2>2, <2>3 DEF ReadAsEcho
<1>2. TypeInv /\ HoldInv /\ [Next]_vars =>
        [\A t \in Txs :
            tx[t].status # "SUCCESS" /\ tx'[t].status = "SUCCESS" /\ gateway[t] # "refunded"
            => \E p \in Workers : ReadAsEcho(p, t) /\ proc'[p] = Idle]_vars
  BY <1>1
<1> QED
  BY <1>2, TypeInvariant, HoldInvariant, PTL DEF Spec, UnpaidApprovalsAreEchoes

-----------------------------------------------------------------------------
(* One refund at a time *)

\* A transaction that may have moved money, or may yet.
Live(t) == tx[t].status \in Active \union {"SUCCESS"}

\* The transaction the system queued with an automatic request.
First(t) == tx[t].req \in Queued /\ \A u \in Txs : tx[u].req = tx[t].req => t =< u

\* A member of staff who saw no open transaction, and has not made one yet.
Clear(p) == p \in Staff /\ proc[p].pc \in {"read", "claimed"} /\ proc[p].seen = "clear"
Claimer(p) == Clear(p) /\ proc[p].pc = "claimed"

TxPart ==
    /\ \A t, u \in Txs : Live(t) /\ Live(u) /\ tx[t].req = tx[u].req => t = u
    /\ \A t \in Txs :
        /\ Exists(t) => request[tx[t].req] # "NONE"
        /\ tx[t].status = "SUCCESS" => request[tx[t].req] = "APPROVED"
        /\ Live(t) /\ request[tx[t].req] = "PENDING" => First(t)
        /\ Exists(t) /\ ~tx[t].submitted => First(t)
    /\ \A r \in Queued : request[r] # "NONE" => \E t \in Txs : tx[t].req = r

\* What staff saw may be old, but a request they may still pay is never paid by
\* anybody else: its queued transaction has failed, and so have all others once
\* they hold the claim, which they hold alone.
ClearOK(p) ==
    Clear(p) =>
        /\ request[proc[p].req] # "NONE"
        /\ \A t \in Txs : tx[t].req = proc[p].req /\ First(t) => tx[t].status = "FAILED"
ClaimerOK(p) ==
    Claimer(p) =>
        /\ request[proc[p].req] = "PROCESSING"
        /\ \A t \in Txs : tx[t].req = proc[p].req => tx[t].status = "FAILED"
StaffPart ==
    /\ \A p \in Procs : ClearOK(p) /\ ClaimerOK(p)
    /\ \A p, q \in Procs : Claimer(p) /\ Claimer(q) /\ proc[p].req = proc[q].req => p = q

DeskInv == TxPart /\ StaffPart

\* Nobody comes to a request.
StaffCalm ==
    \A p \in Procs : p \in Staff =>
        proc'[p] = proc[p] \/ proc'[p].pc \notin {"read", "claimed"}

\* A transaction of a request exists, and one that does not exist has none.
LEMMA TxsExist ==
    ASSUME TypeInv, NEW t \in Txs, tx[t].req \in Requests
    PROVE  Exists(t) /\ (Live(t) \/ tx[t].status = "FAILED")
<1>1. tx[t] \in TxType
  BY DEF TypeInv, DeskType
<1>2. Exists(t)
  BY <1>1, RefundAssumption DEF TypeInv, DeskType, TxOK, NoTx
<1> QED
  BY <1>1, <1>2 DEF Exists, Live, Active, Blocking, TxType, Statuses

\* Steps that change neither a request nor how a transaction stands.
LEMMA CalmDesk ==
    ASSUME TypeInv, DeskInv, StaffCalm, request' = request,
           \A t \in Txs :
            /\ tx'[t].req = tx[t].req /\ (tx[t].submitted => tx'[t].submitted)
            /\ (Exists(t)' <=> Exists(t)) /\ (Live(t)' <=> Live(t))
            /\ (tx'[t].status = "SUCCESS" <=> tx[t].status = "SUCCESS")
            /\ (tx'[t].status = "FAILED" <=> tx[t].status = "FAILED")
    PROVE  DeskInv'
<1>1. \A t \in Txs : First(t)' <=> First(t)
  BY DEF First
<1>2. TxPart'
  BY <1>1 DEF DeskInv, TxPart
<1>3. \A p \in Procs : Clear(p)' => Clear(p) /\ proc'[p] = proc[p]
  BY DEF StaffCalm, Clear
<1>4. \A p \in Procs : Claimer(p)' => Claimer(p) /\ proc'[p] = proc[p]
  BY <1>3 DEF Claimer
<1>5. ASSUME NEW p \in Procs
      PROVE  ClearOK(p)'
  BY <1>1, <1>3 DEF DeskInv, StaffPart, ClearOK
<1>6. ASSUME NEW p \in Procs
      PROVE  ClaimerOK(p)'
  BY <1>4 DEF DeskInv, StaffPart, ClaimerOK
<1>7. \A p, q \in Procs : Claimer(p)' /\ Claimer(q)' /\ proc'[p].req = proc'[q].req => p = q
  BY <1>4 DEF DeskInv, StaffPart
<1> QED
  BY <1>2, <1>5, <1>6, <1>7 DEF DeskInv, StaffPart

\* An open transaction changes: it was the only live one of its request, so it is
\* of no request that staff could still pay.
LEMMA WrittenDesk ==
    ASSUME TypeInv, TypeInv', DeskInv, NEW t \in Txs, NEW s, NEW resp, Written(t, s, resp)
    PROVE  DeskInv'
<1> DEFINE r == tx[t].req
<1>0. /\ DeskType /\ Exists(t) /\ Live(t) /\ r \in Requests
      /\ tx[t].status # "SUCCESS" /\ tx[t].status # "FAILED"
      /\ s \in Statuses /\ tx[t].submitted \in BOOLEAN /\ resp \in {"none", "ok", "echo"}
      /\ request \in [Requests -> Open \union {"NONE", "APPROVED"}]
  BY DEF Written, TypeInv, DeskType, TxType, TxOK, Exists, Live, Active, Blocking
<1>1. /\ tx'[t].status = s /\ tx'[t].submitted = tx[t].submitted
      /\ \A u \in Txs : u # t => tx'[u] = tx[u]
      /\ \A u \in Txs : tx'[u].req = tx[u].req /\ (Exists(u)' <=> Exists(u))
  BY <1>0, SetsType DEF Written
<1>2. /\ \A q \in Requests : q # r => request'[q] = request[q]
      /\ request[r] # "NONE" /\ request'[r] # "NONE"
  <2>1. request[r] # "NONE"
    BY <1>0 DEF DeskInv, TxPart
  <2> QED
    BY <1>0, <2>1 DEF Written, Follows, Reopened
<1>3. /\ s = "SUCCESS" => request'[r] = "APPROVED"
      /\ s = "FAILED" => ~Live(t)'
      /\ Live(t)' /\ request'[r] = "PENDING" => First(t)
  <2>1. s = "SUCCESS" => request'[r] = "APPROVED"
    BY <1>0 DEF Written, Follows, Active, Blocking
  <2>2. s = "FAILED" => ~Live(t)'
    BY <1>1 DEF Live, Active, Blocking
  <2>3. ASSUME s \in Active, request'[r] = "PENDING"
        PROVE  First(t)
    <3>1. request[r] = "PENDING" \/ ~tx[t].submitted
      BY <1>0, <2>3 DEF Written, Follows, Active, Blocking
    <3> QED
      BY <1>0, <3>1 DEF DeskInv, TxPart
  <2>4. Live(t)' => s \in Active \union {"SUCCESS"}
    BY <1>1 DEF Live
  <2> QED
    BY <2>1, <2>2, <2>3, <2>4
<1>4. \A u \in Txs : (First(u)' <=> First(u)) /\ (Live(u)' => Live(u))
  BY <1>0, <1>1 DEF First, Live
<1>5. \A u \in Txs : Live(u) /\ tx[u].req = r => u = t
  BY <1>0 DEF DeskInv, TxPart
<1>6. TxPart'
  <2>1. \A u, v \in Txs : Live(u)' /\ Live(v)' /\ tx'[u].req = tx'[v].req => u = v
    BY <1>1, <1>4 DEF DeskInv, TxPart
  <2>2. ASSUME NEW u \in Txs
        PROVE  /\ Exists(u)' => request'[tx'[u].req] # "NONE"
               /\ tx'[u].status = "SUCCESS" => request'[tx'[u].req] = "APPROVED"
               /\ Live(u)' /\ request'[tx'[u].req] = "PENDING" => First(u)'
               /\ Exists(u)' /\ ~tx'[u].submitted => First(u)'
    <3>0. Exists(u) => tx[u].req \in Requests
      BY <1>0 DEF DeskType, TxOK
    <3>1. CASE u = t
      BY <1>0, <1>1, <1>2, <1>3, <1>4, <3>1 DEF DeskInv, TxPart
    <3>2. CASE u # t
      <4>1. Live(u) => tx[u].req # r /\ Exists(u)
        BY <1>5, <3>2 DEF Live, Exists, Active, Blocking
      <4>2. tx[u].status = "SUCCESS" => Live(u)
        BY DEF Live
      <4>3. tx'[u] = tx[u] /\ (Live(u)' <=> Live(u))
        BY <1>1, <3>2 DEF Live
      <4> QED
        BY <1>1, <1>2, <1>4, <3>0, <4>1, <4>2, <4>3 DEF DeskInv, TxPart
    <3> QED
      BY <3>1, <3>2
  <2>3. \A q \in Queued : request'[q] # "NONE" => \E u \in Txs : tx'[u].req = q
    <3>1. \A q \in Queued : request'[q] # "NONE" => request[q] # "NONE"
      BY <1>2, RefundAssumption
    <3> QED
      BY <1>1, <3>1 DEF DeskInv, TxPart
  <2> QED
    BY <2>1, <2>2, <2>3 DEF TxPart
<1>7. \A p \in Procs : Clear(p)' => Clear(p) /\ proc'[p] = proc[p]
  BY DEF Written, Freed, Clear
<1>8. \A p \in Procs : Claimer(p)' => Claimer(p) /\ proc'[p] = proc[p]
  BY <1>7 DEF Claimer
<1>9. \A p \in Procs : Clear(p) => proc[p].req \in Requests
  BY RefundAssumption DEF TypeInv, ProcsOK, ProcOK, WithTx, Clear
<1>10. ASSUME NEW p \in Procs
       PROVE  ClearOK(p)'
  <2> SUFFICES ASSUME Clear(p)'
               PROVE  ClearOK(p)'
    BY DEF ClearOK
  <2>1. Clear(p) /\ ClearOK(p) /\ proc'[p] = proc[p] /\ proc[p].req \in Requests
    BY <1>7, <1>9 DEF DeskInv, StaffPart
  <2>2. request'[proc[p].req] # "NONE"
    BY <1>2, <2>1 DEF ClearOK
  <2>3. \A u \in Txs : tx'[u].req = proc[p].req /\ First(u)' => tx'[u].status = "FAILED"
    BY <1>0, <1>1, <1>4, <2>1 DEF ClearOK
  <2> QED
    BY <2>1, <2>2, <2>3 DEF ClearOK
<1>11. ASSUME NEW p \in Procs
       PROVE  ClaimerOK(p)'
  <2> SUFFICES ASSUME Claimer(p)'
               PROVE  ClaimerOK(p)'
    BY DEF ClaimerOK
  <2>1. /\ Claimer(p) /\ ClaimerOK(p) /\ proc'[p] = proc[p] /\ proc[p].req \in Requests
    BY <1>8, <1>9 DEF DeskInv, StaffPart, Claimer
  <2>2. proc[p].req # r
    BY <1>0, <2>1 DEF ClaimerOK
  <2> QED
    BY <1>1, <1>2, <2>1, <2>2 DEF ClaimerOK
<1>12. \A p, q \in Procs : Claimer(p)' /\ Claimer(q)' /\ proc'[p].req = proc'[q].req => p = q
  BY <1>8 DEF DeskInv, StaffPart
<1> QED
  BY <1>6, <1>10, <1>11, <1>12 DEF DeskInv, StaffPart


\* A transaction is added to a request that has no live one.
LEMMA AddedDesk ==
    ASSUME TypeInv, DeskInv, NEW r \in Requests, NEW t \in Txs, NEW s \in {"PENDING", "PROCESSING"},
           ~Exists(t), tx[t] = NoTx, tx'[t].req = r, tx'[t].status = s,
           s = "PROCESSING" => tx'[t].submitted,
           \A u \in Txs : u # t => tx'[u] = tx[u],
           \A u \in Txs : Exists(u) => u < t,
           request'[r] = "PROCESSING", \A q \in Requests : q # r => request'[q] = request[q],
           \A u \in Txs : tx[u].req = r => tx[u].status = "FAILED",
           s = "PENDING" => r \in Queued /\ request[r] = "NONE",
           s = "PROCESSING" => request[r] = "PROCESSING",
           StaffCalm, \A p \in Procs : ~(Claimer(p)' /\ proc'[p].req = r)
    PROVE  DeskInv'
<1>1. /\ tx'[t].req = r /\ tx[t] = NoTx
      /\ \A u \in Txs : u # t => tx'[u] = tx[u]
      /\ \A u \in Txs : Exists(u) => u < t
  OBVIOUS
<1>2. \A u \in Txs : tx[u].req \in Requests => Exists(u) /\ u \in Nat /\ t \in Nat
  BY TxsExist, RefundAssumption DEF Txs
<1>3. \A u \in Txs : u # t => (Live(u)' <=> Live(u)) /\ (Exists(u)' <=> Exists(u))
  BY <1>1 DEF Live, Exists
<1>4. \A u \in Txs : u # t /\ Exists(u) => (First(u)' <=> First(u))
  <2> SUFFICES ASSUME NEW u \in Txs, u # t, Exists(u)
               PROVE  First(u)' <=> First(u)
    OBVIOUS
  <2>1. tx[u].req \in Requests /\ u < t /\ u \in Nat /\ t \in Nat
    BY <1>1, <1>2 DEF TypeInv, DeskType, TxOK
  <2>2. tx[t].req \notin Requests
    BY <1>1, RefundAssumption DEF NoTx
  <2> QED
    BY <1>1, <2>1, <2>2 DEF First
<1>5. s = "PENDING" => First(t)'
  <2> SUFFICES ASSUME s = "PENDING"
               PROVE  First(t)'
    OBVIOUS
  <2>1. \A u \in Txs : tx[u].req # r
    BY <1>2 DEF DeskInv, TxPart
  <2>2. t \in Nat
    BY RefundAssumption DEF Txs
  <2> QED
    BY <1>1, <2>1, <2>2 DEF First
<1>6. s = "PROCESSING" => ~First(t)'
  <2> SUFFICES ASSUME s = "PROCESSING", r \in Queued
               PROVE  ~First(t)'
    BY <1>1 DEF First
  <2>1. PICK u \in Txs : tx[u].req = r
    BY DEF DeskInv, TxPart
  <2>2. u < t /\ tx'[u].req = r /\ u \in Nat /\ t \in Nat
    BY <1>1, <1>2, <2>1
  <2>3. ~(t =< u)
    BY <2>2
  <2>4. tx'[u].req = tx'[t].req
    BY <1>1, <2>2
  <2> QED
    BY <2>3, <2>4 DEF First
<1>7. TxPart'
  <2>1. ASSUME NEW u \in Txs, NEW v \in Txs, Live(u)', Live(v)', tx'[u].req = tx'[v].req
        PROVE  u = v
    <3>1. \A w \in Txs : Live(w) => tx[w].req # r
      BY DEF Live, Active, Blocking
    <3> QED
      BY <1>1, <1>3, <2>1, <3>1 DEF DeskInv, TxPart
  <2>2. ASSUME NEW u \in Txs
        PROVE  /\ Exists(u)' => request'[tx'[u].req] # "NONE"
               /\ tx'[u].status = "SUCCESS" => request'[tx'[u].req] = "APPROVED"
               /\ Live(u)' /\ request'[tx'[u].req] = "PENDING" => First(u)'
               /\ Exists(u)' /\ ~tx'[u].submitted => First(u)'
    <3>1. CASE u = t
      BY <1>1, <1>5, <3>1
    <3>2. CASE u # t
      <4>1. tx'[u] = tx[u] /\ (Exists(u) => tx[u].req \in Requests)
        BY <1>1, <3>2 DEF TypeInv, DeskType, TxOK
      <4>2. Live(u) => Exists(u) /\ tx[u].req # r
        BY DEF Live, Exists, Active, Blocking
      <4>3. tx[u].status = "SUCCESS" => Live(u)
        BY DEF Live
      <4> QED
        BY <1>3, <1>4, <3>2, <4>1, <4>2, <4>3 DEF DeskInv, TxPart
    <3> QED
      BY <3>1, <3>2
  <2>3. ASSUME NEW q \in Queued, request'[q] # "NONE"
        PROVE  \E u \in Txs : tx'[u].req = q
    <3>1. CASE q = r
      BY <1>1, <3>1
    <3>2. CASE q # r
      <4>1. PICK u \in Txs : tx[u].req = q
        BY <2>3, <3>2, RefundAssumption DEF DeskInv, TxPart
      <4>2. u # t
        BY <1>1, <4>1, RefundAssumption DEF NoTx
      <4> QED
        BY <1>1, <4>1, <4>2
    <3> QED
      BY <3>1, <3>2
  <2> QED
    BY <2>1, <2>2, <2>3 DEF TxPart
<1>8. \A p \in Procs : Clear(p)' => Clear(p) /\ proc'[p] = proc[p] /\ proc[p].req \in Requests
  BY RefundAssumption DEF StaffCalm, Clear, TypeInv, ProcsOK, ProcOK, WithTx
<1>9. \A p \in Procs : Claimer(p)' => Claimer(p) /\ proc'[p] = proc[p]
  BY <1>8 DEF Claimer
<1>10. ASSUME NEW p \in Procs
       PROVE  ClearOK(p)'
  <2> SUFFICES ASSUME Clear(p)'
               PROVE  ClearOK(p)'
    BY DEF ClearOK
  <2>1. Clear(p) /\ ClearOK(p) /\ proc'[p] = proc[p] /\ proc[p].req \in Requests
    BY <1>8 DEF DeskInv, StaffPart
  <2>2. proc[p].req = r => s = "PROCESSING"
    BY <2>1 DEF ClearOK
  <2>3. ASSUME NEW u \in Txs, tx'[u].req = proc[p].req, First(u)'
        PROVE  tx'[u].status = "FAILED"
    <3>1. u # t
      BY <1>1, <1>6, <2>2, <2>3
    <3>2. Exists(u) /\ tx'[u] = tx[u]
      BY <1>1, <1>2, <2>1, <2>3, <3>1
    <3> QED
      BY <1>4, <2>1, <2>3, <3>1, <3>2 DEF ClearOK
  <2>4. request'[proc[p].req] # "NONE"
    BY <2>1 DEF ClearOK
  <2> QED
    BY <2>1, <2>3, <2>4 DEF ClearOK
<1>11. ASSUME NEW p \in Procs
       PROVE  ClaimerOK(p)'
  <2> SUFFICES ASSUME Claimer(p)'
               PROVE  ClaimerOK(p)'
    BY DEF ClaimerOK
  <2>1. /\ Claimer(p) /\ ClaimerOK(p) /\ proc'[p] = proc[p] /\ proc[p].req \in Requests
        /\ proc[p].req # r
    BY <1>8, <1>9 DEF DeskInv, StaffPart, Claimer
  <2> QED
    BY <1>1, <2>1 DEF ClaimerOK
<1>12. \A p, q \in Procs : Claimer(p)' /\ Claimer(q)' /\ proc'[p].req = proc'[q].req => p = q
  BY <1>9 DEF DeskInv, StaffPart
<1> QED
  BY <1>7, <1>10, <1>11, <1>12 DEF DeskInv, StaffPart

\* Only a request changes, and nobody holds it.
LEMMA RequestDesk ==
    ASSUME TypeInv, TypeInv', DeskInv, tx' = tx, NEW r \in Requests,
           \A q \in Requests : q # r => request'[q] = request[q],
           request[r] # "APPROVED", request'[r] # "NONE",
           r \in Queued => request[r] # "NONE",
           request'[r] = "PENDING" => \A t \in Txs : Live(t) => tx[t].req # r,
           \A p \in Procs : Clear(p)' => ClearOK(p)',
           \A p \in Procs : Claimer(p)' =>
                \/ proc'[p].req # r /\ Claimer(p) /\ proc'[p].req = proc[p].req
                \/ proc'[p].req = r /\ request'[r] = "PROCESSING"
                   /\ \A t \in Txs : tx[t].req = r => tx[t].status = "FAILED",
           \A p, q \in Procs :
                Claimer(p)' /\ Claimer(q)' /\ proc'[p].req = r /\ proc'[q].req = r => p = q
    PROVE  DeskInv'
<1>1. \A u \in Txs : /\ Exists(u)' <=> Exists(u)
                     /\ First(u)' <=> First(u)
                     /\ Live(u)' <=> Live(u)
  BY DEF Exists, First, Live
<1>2. \A u \in Txs : Live(u) => Exists(u) /\ tx[u].req \in Requests
  BY DEF TypeInv, DeskType, TxOK, Live, Exists, Active, Blocking
<1>3. \A u \in Txs : tx[u].status = "SUCCESS" => Live(u) /\ tx[u].req # r
  BY DEF Live, DeskInv, TxPart
<1>4. TxPart'
  <2>1. ASSUME NEW u \in Txs
        PROVE  /\ Exists(u)' => request'[tx'[u].req] # "NONE"
               /\ tx'[u].status = "SUCCESS" => request'[tx'[u].req] = "APPROVED"
               /\ Live(u)' /\ request'[tx'[u].req] = "PENDING" => First(u)'
               /\ Exists(u)' /\ ~tx'[u].submitted => First(u)'
    <3>1. Exists(u) => tx[u].req \in Requests
      BY DEF TypeInv, DeskType, TxOK
    <3> QED
      BY <1>1, <1>2, <1>3, <3>1 DEF DeskInv, TxPart
  <2>2. \A q \in Queued : request'[q] # "NONE" => \E u \in Txs : tx'[u].req = q
    BY RefundAssumption DEF DeskInv, TxPart
  <2> QED
    BY <1>1, <2>1, <2>2 DEF DeskInv, TxPart
<1>5. ASSUME NEW p \in Procs
      PROVE  ClaimerOK(p)'
  <2> SUFFICES ASSUME Claimer(p)'
               PROVE  ClaimerOK(p)'
    BY DEF ClaimerOK
  <2>1. CASE proc'[p].req # r /\ Claimer(p) /\ proc'[p].req = proc[p].req
    <3>1. proc[p].req \in Requests
      BY <2>1, RefundAssumption DEF Claimer, Clear, TypeInv, ProcsOK, ProcOK, WithTx
    <3> QED
      BY <2>1, <3>1 DEF ClaimerOK, DeskInv, StaffPart
  <2>2. CASE ~(proc'[p].req # r /\ Claimer(p) /\ proc'[p].req = proc[p].req)
    BY <2>2 DEF ClaimerOK
  <2> QED
    BY <2>1, <2>2
<1>6. \A p \in Procs : ClearOK(p)'
  BY DEF ClearOK
<1>7. \A p, q \in Procs : Claimer(p)' /\ Claimer(q)' /\ proc'[p].req = proc'[q].req => p = q
  BY DEF DeskInv, StaffPart
<1> QED
  BY <1>4, <1>5, <1>6, <1>7 DEF DeskInv, StaffPart

LEMMA NamedDesk ==
    ASSUME TypeInv, TypeInv', HoldInv, DeskInv, AllKinds, ~Kind
    PROVE  DeskInv'
<1>0. /\ DeskType /\ ProcsOK /\ proc \in [Procs -> ProcType] /\ tx \in [Txs -> TxType]
      /\ request \in [Requests -> Open \union {"NONE", "APPROVED"}]
  BY DEF TypeInv, ProcsOK, DeskType
<1>1. \A p \in Procs : Clear(p) => proc[p].req \in Requests
  BY RefundAssumption DEF TypeInv, ProcsOK, ProcOK, WithTx, Clear
<1>2. \A u \in Txs : tx[u].req \in Requests => Exists(u) /\ (Live(u) \/ tx[u].status = "FAILED")
  BY TxsExist
<1>3. ASSUME NEW r \in Requests, QueueRefund(r)
      PROVE  DeskInv'
  <2>1. PICK t \in Txs : NewTx(t) /\ tx' = [tx EXCEPT ![t] = Row(r, "PENDING", FALSE)]
    BY <1>3 DEF QueueRefund
  <2>2. /\ ~Exists(t) /\ tx[t] = NoTx /\ tx'[t].req = r /\ tx'[t].status = "PENDING"
        /\ \A u \in Txs : u # t => tx'[u] = tx[u]
        /\ \A u \in Txs : Exists(u) => u < t
    BY <1>0, <2>1, NewEffect
  <2>3. /\ request[r] = "NONE" /\ r \in Queued /\ proc' = proc
        /\ request'[r] = "PROCESSING" /\ \A q \in Requests : q # r => request'[q] = request[q]
    BY <1>0, <1>3 DEF QueueRefund
  <2>4. \A u \in Txs : tx[u].req # r
    BY <1>2, <2>3 DEF DeskInv, TxPart
  <2>5. StaffCalm
    BY <2>3 DEF StaffCalm
  <2>6. ASSUME NEW p \in Procs
        PROVE  ~(Claimer(p)' /\ proc'[p].req = r)
    BY <2>3 DEF Claimer, Clear, DeskInv, StaffPart, ClaimerOK
  <2> QED
    BY <2>2, <2>3, <2>4, <2>5, <2>6, AddedDesk
<1>4. ASSUME NEW r \in Requests, CreateRefundRequest(r)
      PROVE  DeskInv'
  <2>1. /\ request[r] = "NONE" /\ r \notin Queued /\ tx' = tx /\ proc' = proc
        /\ request'[r] = "PENDING" /\ \A q \in Requests : q # r => request'[q] = request[q]
    BY <1>0, <1>4 DEF CreateRefundRequest
  <2>2. \A t \in Txs : Live(t) => tx[t].req # r
    BY <1>2, <2>1 DEF DeskInv, TxPart
  <2>3. ASSUME NEW p \in Procs, Clear(p)'
        PROVE  ClearOK(p)' /\ proc'[p].req # r
    <3>1. Clear(p) /\ ClearOK(p) /\ proc[p].req \in Requests /\ proc[p].req # r
      BY <1>1, <2>1, <2>3 DEF Clear, DeskInv, StaffPart, ClearOK
    <3>2. \A t \in Txs : First(t)' <=> First(t)
      BY <2>1 DEF First
    <3> QED
      BY <2>1, <3>1, <3>2 DEF ClearOK
  <2>4. \A p \in Procs : Claimer(p)' => Claimer(p) /\ proc'[p].req # r /\ proc'[p].req = proc[p].req
    BY <2>1, <2>3 DEF Claimer, Clear
  <2> QED
    BY <2>1, <2>2, <2>3, <2>4, RequestDesk
<1>5. ASSUME NEW p \in Procs, NEW r \in Requests, ReadRequest(p, r)
      PROVE  DeskInv'
  <2>1. /\ request[r] = "PENDING" /\ UNCHANGED <<tx, request>>
        /\ proc'[p].req = r /\ proc'[p].pc = "read"
        /\ \A q \in Procs : q # p => proc'[q] = proc[q]
        /\ proc'[p].seen = "clear" => \A t \in TxsOf(r) : tx[t].status \notin Active
    BY <1>0, <1>5 DEF ReadRequest, desk
  <2>2. \A t \in Txs : First(t)' <=> First(t)
    BY <2>1 DEF First
  <2>3. ASSUME NEW q \in Procs
        PROVE  ClearOK(q)'
    <3>1. CASE q # p
      BY <2>1, <2>2, <3>1 DEF Clear, ClearOK, DeskInv, StaffPart
    <3>2. CASE q = p /\ Clear(q)'
      <4>1. \A t \in Txs : tx[t].req = r => tx[t].status \notin Active
        BY <2>1, <3>2 DEF Clear, TxsOf
      <4>2. \A t \in Txs : tx[t].req = r => tx[t].status = "FAILED"
        BY <1>2, <2>1, <4>1 DEF DeskInv, TxPart, Live
      <4> QED
        BY <2>1, <2>2, <3>2, <4>2 DEF ClearOK
    <3> QED
      BY <3>1, <3>2 DEF ClearOK
  <2>4. \A q \in Procs : Claimer(q)' => Claimer(q) /\ proc'[q] = proc[q]
    BY <2>1 DEF Claimer, Clear
  <2>5. ASSUME NEW q \in Procs
        PROVE  ClaimerOK(q)'
    BY <2>1, <2>4 DEF ClaimerOK, DeskInv, StaffPart
  <2>6. TxPart'
    BY <2>1, <2>2 DEF DeskInv, TxPart, Live, Exists
  <2>7. \A q, z \in Procs : Claimer(q)' /\ Claimer(z)' /\ proc'[q].req = proc'[z].req => q = z
    BY <2>4 DEF DeskInv, StaffPart
  <2> QED
    BY <2>3, <2>5, <2>6, <2>7 DEF DeskInv, StaffPart
<1>6. ASSUME NEW p \in Procs, ClaimRequest(p)
      PROVE  DeskInv'
  <2>0. PICK r : r = proc[p].req
    OBVIOUS
  <2>1. CASE request[r] # "PENDING"
    <3>1. /\ UNCHANGED <<request, tx>> /\ proc'[p] = Idle
          /\ \A q \in Procs : q # p => proc'[q] = proc[q]
      BY <1>0, <1>6, <2>0, <2>1 DEF ClaimRequest
    <3>2. StaffCalm
      BY <3>1 DEF StaffCalm, Idle
    <3> QED
      BY <3>1, <3>2, CalmDesk DEF Exists, Live
  <2>2. CASE request[r] = "PENDING"
    <3>1. /\ r \in Requests /\ proc[p].pc = "read" /\ p \in Staff /\ tx' = tx
          /\ request'[r] = "PROCESSING" /\ \A q \in Requests : q # r => request'[q] = request[q]
          /\ proc'[p].pc = "claimed" /\ proc'[p].req = r /\ proc'[p].seen = proc[p].seen
          /\ \A q \in Procs : q # p => proc'[q] = proc[q]
      <4>1. r \in Requests
        BY <1>0, <1>6, <2>0, RefundAssumption DEF ClaimRequest, ProcsOK, ProcOK, WithTx
      <4> QED
        BY <1>0, <1>6, <2>0, <2>2, <4>1 DEF ClaimRequest, ProcType
    <3>2. \A t \in Txs : First(t)' <=> First(t)
      BY <3>1 DEF First
    <3>3. \A q \in Procs : Clear(q)' => Clear(q) /\ proc'[q].req = proc[q].req
      BY <2>0, <3>1 DEF Clear
    <3>4. ASSUME NEW q \in Procs, Clear(q)'
          PROVE  ClearOK(q)'
      <4>1. ClearOK(q) /\ proc[q].req \in Requests /\ Clear(q)
        BY <1>1, <3>3, <3>4 DEF DeskInv, StaffPart
      <4>2. request'[proc[q].req] # "NONE"
        BY <3>1, <4>1 DEF ClearOK
      <4> QED
        BY <3>1, <3>2, <3>3, <3>4, <4>1, <4>2 DEF ClearOK
    <3>5. ASSUME Clear(p)
          PROVE  \A t \in Txs : tx[t].req = r => tx[t].status = "FAILED"
      <4>1. \A t \in Txs : tx[t].req = r /\ First(t) => tx[t].status = "FAILED"
        BY <2>0, <3>5 DEF DeskInv, StaffPart, ClearOK
      <4>2. \A t \in Txs : tx[t].req = r /\ Live(t) => First(t)
        BY <2>2 DEF DeskInv, TxPart
      <4> QED
        BY <1>2, <3>1, <4>1, <4>2 DEF Live, Active, Blocking
    <3>6. \A q \in Procs : Claimer(q)' /\ q # p => Claimer(q) /\ proc'[q].req = proc[q].req
      BY <3>1 DEF Claimer, Clear
    <3>7. \A q \in Procs : Claimer(q) => proc[q].req # r
      BY <2>2 DEF DeskInv, StaffPart, ClaimerOK
    <3>8. Claimer(p)' => Clear(p)
      BY <3>3 DEF Claimer
    <3> QED
      BY <2>2, <3>1, <3>4, <3>5, <3>6, <3>7, <3>8, RequestDesk
  <2> QED
    BY <2>1, <2>2
<1>7. ASSUME NEW p \in Procs, CreateTransaction(p)
      PROVE  DeskInv'
  <2>0. PICK r : r = proc[p].req
    OBVIOUS
  <2>1. /\ Claimer(p) /\ r \in Requests /\ request[r] = "PROCESSING"
        /\ \A t \in Txs : tx[t].req = r => tx[t].status = "FAILED"
        /\ \A q \in Procs : Claimer(q) /\ proc[q].req = r => q = p
    <3>1. Claimer(p) /\ Clear(p)
      BY <1>7 DEF CreateTransaction, Claimer, Clear
    <3> QED
      BY <1>1, <2>0, <3>1 DEF DeskInv, StaffPart, ClaimerOK
  <2>2. CASE \E t \in Txs :
              /\ NewTx(t)
              /\ tx' = [tx EXCEPT ![t] = Row(r, "PROCESSING", TRUE)]
              /\ proc' = [proc EXCEPT ![p].pc = "submitted", ![p].tx = t,
                                      ![p].seen = "PROCESSING"]
              /\ UNCHANGED <<request, byStaff>>
    <3>1. PICK t \in Txs :
              /\ NewTx(t)
              /\ tx' = [tx EXCEPT ![t] = Row(r, "PROCESSING", TRUE)]
              /\ proc' = [proc EXCEPT ![p].pc = "submitted", ![p].tx = t,
                                      ![p].seen = "PROCESSING"]
              /\ UNCHANGED <<request, byStaff>>
      BY <2>2
    <3>2. /\ ~Exists(t) /\ tx[t] = NoTx /\ tx'[t].req = r /\ tx'[t].status = "PROCESSING"
          /\ tx'[t].submitted = TRUE
          /\ \A u \in Txs : u # t => tx'[u] = tx[u]
          /\ \A u \in Txs : Exists(u) => u < t
      BY <1>0, <2>1, <3>1, NewEffect
    <3>3. proc'[p].pc = "submitted" /\ \A q \in Procs : q # p => proc'[q] = proc[q]
      BY <1>0, <3>1 DEF ProcType
    <3>4. StaffCalm
      BY <3>3 DEF StaffCalm
    <3>5. \A q \in Procs : ~(Claimer(q)' /\ proc'[q].req = r)
      BY <2>1, <3>3 DEF Claimer, Clear
    <3> QED
      BY <2>1, <3>1, <3>2, <3>4, <3>5, AddedDesk
  <2>3. CASE Reopen(r) /\ proc' = [proc EXCEPT ![p] = Idle] /\ tx' = tx
    <3>1. /\ request'[r] = "PENDING" /\ \A q \in Requests : q # r => request'[q] = request[q]
          /\ proc'[p] = Idle /\ \A q \in Procs : q # p => proc'[q] = proc[q]
      BY <1>0, <2>1, <2>3 DEF Reopen, Open
    <3>2. \A t \in Txs : First(t)' <=> First(t)
      BY <2>3 DEF First
    <3>3. \A q \in Procs : Clear(q)' => Clear(q) /\ proc'[q] = proc[q] /\ q # p
      BY <3>1 DEF Clear, Idle
    <3>4. \A q \in Procs : Claimer(q)' => Claimer(q) /\ proc'[q].req = proc[q].req /\ proc'[q].req # r
      BY <2>1, <3>3 DEF Claimer
    <3>5. ASSUME NEW q \in Procs, Clear(q)'
          PROVE  ClearOK(q)'
      <4>1. ClearOK(q) /\ proc[q].req \in Requests /\ Clear(q)
        BY <1>1, <3>3, <3>5 DEF DeskInv, StaffPart
      <4>2. request'[proc[q].req] # "NONE"
        BY <3>1, <4>1 DEF ClearOK
      <4> QED
        BY <2>3, <3>2, <3>3, <3>5, <4>1, <4>2 DEF ClearOK
    <3>6. \A t \in Txs : Live(t) => tx[t].req # r
      BY <2>1 DEF Live, Active, Blocking
    <3> QED
      BY <2>1, <2>3, <3>1, <3>4, <3>5, <3>6, RequestDesk
  <2> QED
    BY <1>7, <2>0, <2>1, <2>2, <2>3 DEF CreateTransaction
<1>8. ASSUME NEW p \in Procs, NEW t \in Txs, Takes(p, t)
      PROVE  DeskInv'
  <2>1. /\ tx'[t].req = tx[t].req /\ tx'[t].submitted = tx[t].submitted
        /\ tx[t].status = "PENDING" /\ tx'[t].status = "PROCESSING"
        /\ \A u \in Txs : u # t => tx'[u] = tx[u]
        /\ request' = request
    BY <1>0, <1>8 DEF Takes, TxType
  <2>2. StaffCalm
    BY <1>0, <1>8, RefundAssumption DEF Takes, StaffCalm
  <2> QED
    BY <2>1, <2>2, CalmDesk DEF Exists, Live, Active, Blocking
<1>9. ASSUME NEW p \in Procs, Submit(p)
      PROVE  DeskInv'
  <2>0. PICK t : t = proc[p].tx
    OBVIOUS
  <2>1. t \in Txs
    BY <1>9, <2>0, AtWork DEF Submit
  <2>2. /\ tx'[t].req = tx[t].req /\ tx'[t].submitted /\ tx'[t].status = tx[t].status
        /\ \A u \in Txs : u # t => tx'[u] = tx[u]
        /\ request' = request
    BY <1>0, <1>9, <2>0, <2>1 DEF Submit, TxType
  <2>3. StaffCalm
    BY <1>0, <1>9, RefundAssumption DEF Submit, StaffCalm
  <2> QED
    BY <2>2, <2>3, CalmDesk DEF Exists, Live
<1>10. ASSUME NEW p \in Procs, SendRefund(p)
       PROVE  DeskInv'
  <2>1. UNCHANGED <<tx, request>>
    BY <1>10 DEF SendRefund, desk
  <2>2. proc'[p].pc = "calling" /\ \A q \in Procs : q # p => proc'[q] = proc[q]
    BY <1>0, <1>10 DEF SendRefund, ProcType
  <2>3. StaffCalm
    BY <2>2 DEF StaffCalm
  <2> QED
    BY <2>1, <2>3, CalmDesk DEF Exists, Live
<1>11. ASSUME NEW t \in Txs, GatewayDecides(t)
       PROVE  DeskInv'
  <2>1. UNCHANGED <<tx, request, proc>>
    BY <1>11 DEF GatewayDecides, desk
  <2>2. StaffCalm
    BY <2>1 DEF StaffCalm
  <2> QED
    BY <2>1, <2>2, CalmDesk DEF Exists, Live
<1> QED
  BY <1>3, <1>4, <1>5, <1>6, <1>7, <1>8, <1>9, <1>10, <1>11 DEF AllKinds

LEMMA DeskInvariant == Spec => []DeskInv
<1>1. Init => DeskInv
  BY RefundAssumption DEF Init, DeskInv, TxPart, StaffPart, ClearOK, ClaimerOK, Claimer, Clear,
     Idle, NoTx, Exists, Live, Active, Blocking
<1>2. TypeInv /\ TypeInv' /\ HoldInv /\ DeskInv /\ Kind => DeskInv'
  <2>1. ASSUME TypeInv, TypeInv', DeskInv, Quiet
        PROVE  DeskInv'
    <3>1. UNCHANGED <<tx, request>> /\ StaffCalm
      BY <2>1 DEF Quiet, desk, Freed, StaffCalm
    <3> QED
      BY <2>1, <3>1, CalmDesk DEF Exists, Live
  <2> QED
    BY <2>1, WrittenDesk DEF Kind
<1>3. TypeInv /\ TypeInv' /\ HoldInv /\ DeskInv /\ [Next]_vars => DeskInv'
  BY <1>2, NextKinds, NamedDesk
<1> QED
  BY <1>1, <1>3, TypeInvariant, HoldInvariant, PTL DEF Spec

-----------------------------------------------------------------------------
(* What the two invariants give *)

\* For any number of workers, staff, crashes and lost answers, VNPay pays a
\* request at most once: no retry or reconciliation of the desk repeats a refund.
THEOREM PaidOnceHolds == Spec => []PaidOnce
<1>1. TypeInv /\ HoldInv /\ DeskInv => PaidOnce
  <2> SUFFICES ASSUME TypeInv, HoldInv, DeskInv,
                      NEW t \in Txs, NEW u \in Txs, tx[t].req = tx[u].req,
                      gateway[t] = "refunded", gateway[u] = "refunded"
               PROVE  t = u
    BY DEF PaidOnce
  <2>1. \A v \in Txs : gateway[v] = "refunded" => Live(v)
    BY DEF HoldInv, HoldPart, Live, Active, Blocking, TypeInv, DeskType, TxType, Statuses
  <2> QED
    BY <2>1 DEF DeskInv, TxPart
<1> QED
  BY <1>1, TypeInvariant, HoldInvariant, DeskInvariant, PTL

\* Whether a request is stranded, for one request.
Stranded(q) ==
    request[q] = "PROCESSING" /\ \A t \in Txs : tx[t].req = q => tx[t].status \notin Active

LEMMA StrandedSame ==
    ASSUME OnlyStaffStrandsRequests, NEW q \in Requests, Stranded(q)',
           request'[q] = request[q], byStaff'[q] = byStaff[q],
           \A t \in Txs : tx[t].req = q /\ tx[t].status \in Active
                            => tx'[t].req = q /\ tx'[t].status \in Active
    PROVE  byStaff'[q]
BY DEF OnlyStaffStrandsRequests, Stranded, TxsOf

\* No step of a worker or a reconciler leaves a request in PROCESSING without an
\* open transaction: every such request carries the mark of the staff.
THEOREM OnlyStaffStrands == Spec => []OnlyStaffStrandsRequests
<1>1. OnlyStaffStrandsRequests <=> \A q \in Requests : Stranded(q) => byStaff[q]
  BY DEF OnlyStaffStrandsRequests, Stranded, TxsOf
<1>2. Init => OnlyStaffStrandsRequests
  BY DEF Init, OnlyStaffStrandsRequests
<1>3. ASSUME TypeInv, OnlyStaffStrandsRequests, Kind, NEW q \in Requests, Stranded(q)'
      PROVE  byStaff'[q]
  <2>1. CASE Quiet
    BY <1>3, <2>1, StrandedSame DEF Quiet, desk
  <2>2. ASSUME NEW t \in Txs, NEW s, NEW resp, Written(t, s, resp)
        PROVE  byStaff'[q]
    <3>0. /\ DeskType /\ Exists(t) /\ s \in Statuses /\ tx[t].submitted \in BOOLEAN
          /\ resp \in {"none", "ok", "echo"} /\ tx[t].req \in Requests
          /\ request \in [Requests -> Open \union {"NONE", "APPROVED"}]
      BY <1>3, <2>2 DEF Written, TypeInv, DeskType, TxType, TxOK, Exists, Active, Blocking
    <3>1. /\ tx'[t].status = s /\ tx'[t].req = tx[t].req
          /\ \A u \in Txs : u # t => tx'[u] = tx[u]
      BY <2>2, <3>0, SetsType DEF Written
    <3>2. request'[q] = "PROCESSING" /\ byStaff'[q] = byStaff[q]
      BY <1>3, <2>2 DEF Stranded, Written, Marked
    <3>3. CASE tx[t].req = q
      <4>1. s \in {"FAILED", "SUCCESS"}
        BY <1>3, <3>0, <3>1, <3>3 DEF Stranded, Statuses, Active, Blocking
      <4>2. request'[q] \in {"PENDING", "APPROVED"} \/ (request[q] \notin Open /\ request' = request)
        BY <2>2, <3>0, <3>3, <4>1 DEF Written, Follows, Reopened, Active, Blocking
      <4> QED
        BY <3>2, <4>2 DEF Open
    <3>4. CASE tx[t].req # q
      <4>1. request'[q] = request[q]
        BY <2>2, <3>0, <3>4 DEF Written, Follows, Reopened
      <4> QED
        BY <1>3, <3>1, <3>2, <3>4, <4>1, StrandedSame
    <3> QED
      BY <3>3, <3>4
  <2> QED
    BY <1>3, <2>1, <2>2 DEF Kind
<1>4. ASSUME TypeInv, HoldInv, OnlyStaffStrandsRequests, AllKinds, ~Kind,
             NEW q \in Requests, Stranded(q)'
      PROVE  byStaff'[q]
  <2>0. /\ DeskType /\ ProcsOK /\ tx \in [Txs -> TxType] /\ byStaff \in [Requests -> BOOLEAN]
        /\ request \in [Requests -> Open \union {"NONE", "APPROVED"}]
        /\ None \notin Requests /\ "PENDING" \in Active /\ "PROCESSING" \in Active
    BY <1>4, RefundAssumption DEF TypeInv, DeskType, Active, Blocking
  <2>1. ASSUME NEW r \in Requests, NEW t \in Txs, NewTx(t), NEW s \in {"PENDING", "PROCESSING"},
               NEW sub \in BOOLEAN, tx' = [tx EXCEPT ![t] = Row(r, s, sub)],
               \A z \in Requests : z # r => request'[z] = request[z], byStaff' = byStaff
        PROVE  byStaff'[q]
    <3>1. /\ tx[t] = NoTx /\ tx'[t].req = r /\ tx'[t].status = s
          /\ \A u \in Txs : u # t => tx'[u] = tx[u]
      BY <2>0, <2>1, NewEffect
    <3>2. q # r
      BY <1>4, <2>0, <3>1 DEF Stranded
    <3>3. \A u \in Txs : tx[u].req = q => tx'[u] = tx[u]
      BY <2>0, <3>1 DEF NoTx
    <3> QED
      BY <1>4, <2>1, <3>2, <3>3, StrandedSame
  <2>2. ASSUME NEW r \in Requests, QueueRefund(r)
        PROVE  byStaff'[q]
    <3>1. PICK t \in Txs : NewTx(t) /\ tx' = [tx EXCEPT ![t] = Row(r, "PENDING", FALSE)]
      BY <2>2 DEF QueueRefund
    <3>2. byStaff' = byStaff /\ \A z \in Requests : z # r => request'[z] = request[z]
      BY <2>0, <2>2 DEF QueueRefund
    <3> QED
      BY <2>1, <3>1, <3>2
  <2>3. ASSUME NEW r \in Requests, CreateRefundRequest(r)
        PROVE  byStaff'[q]
    <3>1. /\ tx' = tx /\ byStaff' = byStaff /\ request'[r] = "PENDING"
          /\ \A z \in Requests : z # r => request'[z] = request[z]
      BY <2>0, <2>3 DEF CreateRefundRequest
    <3> QED
      BY <1>4, <3>1, StrandedSame DEF Stranded
  <2>4. ASSUME NEW t \in Txs, \A u \in Txs : u # t => tx'[u] = tx[u],
               tx'[t].req = tx[t].req, tx'[t].status = tx[t].status \/ tx'[t].status \in Active,
               UNCHANGED <<request, byStaff>>
        PROVE  byStaff'[q]
    BY <1>4, <2>4, StrandedSame
  <2>5. ASSUME NEW p \in Procs, NEW t \in Txs, Takes(p, t)
        PROVE  byStaff'[q]
    BY <2>0, <2>4, <2>5 DEF Takes, TxType
  <2>6. ASSUME NEW p \in Procs, Submit(p)
        PROVE  byStaff'[q]
    <3>0. PICK t : t = proc[p].tx
      OBVIOUS
    <3>1. t \in Txs
      BY <1>4, <2>6, <3>0, AtWork DEF Submit
    <3>2. /\ tx'[t].req = tx[t].req /\ tx'[t].status = tx[t].status
          /\ \A u \in Txs : u # t => tx'[u] = tx[u]
          /\ UNCHANGED <<request, byStaff>>
      BY <2>0, <2>6, <3>0, <3>1 DEF Submit, TxType
    <3> QED
      BY <2>4, <3>1, <3>2
  <2>7. CASE \/ \E p \in Procs : SendRefund(p) \/ \E r \in Requests : ReadRequest(p, r)
             \/ \E t \in Txs : GatewayDecides(t)
    BY <1>4, <2>7, StrandedSame DEF SendRefund, ReadRequest, GatewayDecides, desk
  <2>8. ASSUME NEW p \in Procs, ClaimRequest(p)
        PROVE  byStaff'[q]
    <3>1. /\ tx' = tx
          /\ UNCHANGED <<request, byStaff>> \/ byStaff'[q]
                \/ (request'[q] = request[q] /\ byStaff'[q] = byStaff[q])
      BY <2>0, <2>8 DEF ClaimRequest
    <3> QED
      BY <1>4, <3>1, StrandedSame
  <2>9. ASSUME NEW p \in Procs, CreateTransaction(p)
        PROVE  byStaff'[q]
    <3>0. PICK r : r = proc[p].req
      OBVIOUS
    <3>1. r \in Requests
      BY <2>0, <2>9, <3>0, RefundAssumption DEF CreateTransaction, ProcsOK, ProcOK, WithTx
    <3>2. CASE \E t \in Txs : /\ NewTx(t)
                              /\ tx' = [tx EXCEPT ![t] = Row(r, "PROCESSING", TRUE)]
                              /\ UNCHANGED <<request, byStaff>>
      BY <2>1, <3>1, <3>2
    <3>3. CASE tx' = tx /\ (Reopen(r) \/ UNCHANGED <<request, byStaff>>)
      <4>1. \/ request'[q] = "PENDING"
            \/ request'[q] = request[q] /\ byStaff'[q] = byStaff[q]
        BY <2>0, <3>1, <3>3 DEF Reopen
      <4> QED
        BY <1>4, <3>3, <4>1, StrandedSame DEF Stranded
    <3> QED
      BY <2>9, <3>0, <3>2, <3>3 DEF CreateTransaction
  <2> QED
    BY <1>4, <2>2, <2>3, <2>5, <2>6, <2>7, <2>8, <2>9 DEF AllKinds
<1>5. ASSUME TypeInv, HoldInv, OnlyStaffStrandsRequests, [Next]_vars
      PROVE  OnlyStaffStrandsRequests'
  <2>1. \A q \in Requests : Stranded(q)' => byStaff'[q]
    BY <1>3, <1>4, <1>5, NextKinds
  <2> QED
    BY <2>1 DEF OnlyStaffStrandsRequests, Stranded, TxsOf
<1> QED
  BY <1>2, <1>5, TypeInvariant, HoldInvariant, PTL DEF Spec

-----------------------------------------------------------------------------
(* The promise of the desk *)

Approved == {r \in Requests : request[r] = "APPROVED"}
IsPaid(r) == \E t \in Txs : tx[t].req = r /\ gateway[t] = "refunded"
PaidSame == \A r \in Requests : IsPaid(r)' <=> IsPaid(r)

\* Requests are approved one by one, and stay so.
LEMMA ApprovedKinds ==
    ASSUME TypeInv, DeskInv, AllKinds
    PROVE  \/ Approved' = Approved
           \/ \E r \in Requests : r \notin Approved /\ Approved' = Approved \union {r}
<1>0. /\ request \in [Requests -> Open \union {"NONE", "APPROVED"}] /\ ProcsOK
      /\ \A t \in Txs : tx[t].status \in Active => tx[t].req \in Requests
  BY DEF TypeInv, DeskType, TxOK, Exists, Active, Blocking
<1>1. ASSUME NEW r \in Requests, request[r] # "APPROVED", NEW s, s # "APPROVED",
             request' = [request EXCEPT ![r] = s]
      PROVE  Approved' = Approved
  BY <1>0, <1>1 DEF Approved
<1>2. CASE request' = request
  BY <1>2 DEF Approved
<1>3. ASSUME NEW t \in Txs, NEW s, NEW resp, Written(t, s, resp)
      PROVE  \/ Approved' = Approved
             \/ \E r \in Requests : r \notin Approved /\ Approved' = Approved \union {r}
  <2>0. PICK r : r = tx[t].req
    OBVIOUS
  <2>1. r \in Requests
    BY <1>0, <1>3, <2>0 DEF Written
  <2>2. CASE request[r] \in Open /\ request' = [request EXCEPT ![r] = "APPROVED"]
    BY <1>0, <2>1, <2>2 DEF Approved, Open
  <2>3. CASE \/ request' = request
             \/ /\ request[r] \in Open
                /\ \E c \in Open : request' = [request EXCEPT ![r] = c]
    BY <1>1, <1>2, <2>1, <2>3 DEF Open
  <2> QED
    BY <1>3, <2>0, <2>2, <2>3 DEF Written, Follows, Reopened, Open
<1>4. CASE \E r \in Requests : QueueRefund(r) \/ CreateRefundRequest(r)
  BY <1>1, <1>4 DEF QueueRefund, CreateRefundRequest
<1>5. ASSUME NEW p \in Procs, ClaimRequest(p) \/ CreateTransaction(p)
      PROVE  Approved' = Approved
  <2>0. PICK r : r = proc[p].req
    OBVIOUS
  <2>1. r \in Requests
    BY <1>0, <1>5, <2>0, RefundAssumption
    DEF ClaimRequest, CreateTransaction, ProcsOK, ProcOK, WithTx
  <2>2. \/ request' = request
        \/ /\ request[r] \in Open
           /\ \E c \in Open : request' = [request EXCEPT ![r] = c]
    BY <1>5, <2>0 DEF ClaimRequest, CreateTransaction, Reopen, Open
  <2>3. CASE \E c \in Open : request[r] \in Open /\ request' = [request EXCEPT ![r] = c]
    BY <1>1, <2>1, <2>3 DEF Open
  <2>4. CASE request' = request
    BY <2>4 DEF Approved
  <2> QED
    BY <2>2, <2>3, <2>4
<1>6. CASE Quiet \/ (\E p \in Procs, t \in Txs : Takes(p, t))
           \/ (\E p \in Procs : \/ Submit(p) \/ SendRefund(p)
                                \/ \E r \in Requests : ReadRequest(p, r))
           \/ (\E t \in Txs : GatewayDecides(t))
  BY <1>2, <1>6 DEF Quiet, Takes, Submit, SendRefund, ReadRequest, GatewayDecides, desk
<1> QED
  BY <1>3, <1>4, <1>5, <1>6 DEF AllKinds, Kind

\* Only VNPay pays, one request at a time.
LEMMA PaidKinds ==
    ASSUME TypeInv, HoldInv, PaidOnce', AllKinds
    PROVE  \/ PaidSame
           \/ /\ \E r \in Requests : /\ ~IsPaid(r) /\ IsPaid(r)'
                                     /\ \A q \in Requests : q # r => (IsPaid(q)' <=> IsPaid(q))
              /\ request' = request
<1>0. /\ DeskType /\ ProcsOK /\ GatewayType /\ tx \in [Txs -> TxType]
      /\ \A t \in Txs : gateway[t] # "none" => Exists(t) /\ tx[t].req \in Requests
  BY DEF TypeInv, DeskType, TxOK, HoldInv, HoldPart, Exists, GatewayType
<1>1. ASSUME \A t \in Txs : gateway[t] # "none" => tx'[t].req = tx[t].req,
             UNCHANGED gateway
      PROVE  PaidSame
  BY <1>1 DEF PaidSame, IsPaid
<1>2. ASSUME NEW r \in Requests, NEW t \in Txs, NewTx(t), NEW s \in {"PENDING", "PROCESSING"},
             NEW sub \in BOOLEAN, tx' = [tx EXCEPT ![t] = Row(r, s, sub)], UNCHANGED gateway
      PROVE  PaidSame
  <2>1. ~Exists(t) /\ \A u \in Txs : u # t => tx'[u] = tx[u]
    BY <1>0, <1>2, NewEffect
  <2> QED
    BY <1>0, <1>1, <1>2, <2>1
<1>3. ASSUME NEW t \in Txs, NEW s, NEW resp, Written(t, s, resp)
      PROVE  PaidSame
  <2>1. /\ Exists(t) /\ s \in Statuses /\ tx[t].submitted \in BOOLEAN
        /\ resp \in {"none", "ok", "echo"}
    BY <1>0, <1>3 DEF Written, TxType, Exists, Active, Blocking
  <2>2. \A u \in Txs : tx'[u].req = tx[u].req
    BY <1>0, <1>3, <2>1, SetsType DEF Written
  <2> QED
    BY <1>1, <1>3, <2>2 DEF Written
<1>4. CASE \E r \in Requests : QueueRefund(r) \/ CreateRefundRequest(r)
  BY <1>1, <1>2, <1>4 DEF QueueRefund, CreateRefundRequest
<1>5. ASSUME NEW p \in Procs, NEW t \in Txs, Takes(p, t)
      PROVE  PaidSame
  <2>1. UNCHANGED gateway /\ \A u \in Txs : tx'[u].req = tx[u].req
    BY <1>0, <1>5 DEF Takes, TxType
  <2> QED
    BY <1>1, <2>1
<1>6. ASSUME NEW p \in Procs, Submit(p)
      PROVE  PaidSame
  <2>1. UNCHANGED gateway /\ \A u \in Txs : tx'[u].req = tx[u].req
    BY <1>0, <1>6 DEF Submit, TxType
  <2> QED
    BY <1>1, <2>1
<1>7. ASSUME NEW p \in Procs, SendRefund(p)
      PROVE  PaidSame
  <2>1. /\ tx' = tx
        /\ \A u \in Txs : gateway'[u] = "refunded" <=> gateway[u] = "refunded"
    BY <1>0, <1>7 DEF SendRefund, desk, GatewayType
  <2> QED
    BY <2>1 DEF PaidSame, IsPaid
<1>8. ASSUME NEW p \in Procs, CreateTransaction(p)
      PROVE  PaidSame
  <2>1. proc[p].req \in Requests
    BY <1>0, <1>8, RefundAssumption DEF CreateTransaction, ProcsOK, ProcOK, WithTx
  <2> QED
    BY <1>1, <1>2, <1>8, <2>1 DEF CreateTransaction
<1>9. CASE Quiet \/ \E p \in Procs : \/ ClaimRequest(p)
                                     \/ \E r \in Requests : ReadRequest(p, r)
  BY <1>1, <1>9 DEF Quiet, ClaimRequest, ReadRequest, desk
<1>10. ASSUME NEW t \in Txs, GatewayDecides(t), ~PaidSame
       PROVE  /\ \E r \in Requests : /\ ~IsPaid(r) /\ IsPaid(r)'
                                     /\ \A q \in Requests : q # r => (IsPaid(q)' <=> IsPaid(q))
              /\ request' = request
  <2>1. /\ gateway[t] = "sent" /\ tx' = tx /\ request' = request
        /\ gateway'[t] \in {"refunded", "declined"}
        /\ \A u \in Txs : u # t => gateway'[u] = gateway[u]
    BY <1>0, <1>10 DEF GatewayDecides, desk, GatewayType
  <2>2. gateway'[t] = "refunded"
    BY <1>10, <2>1 DEF PaidSame, IsPaid
  <2>3. tx[t].req \in Requests
    BY <1>0, <2>1
  <2>4. ~IsPaid(tx[t].req)
    BY <2>1, <2>2 DEF IsPaid, PaidOnce
  <2>5. IsPaid(tx[t].req)' /\ \A q \in Requests : q # tx[t].req => (IsPaid(q)' <=> IsPaid(q))
    BY <2>1, <2>2 DEF IsPaid
  <2> QED
    BY <2>1, <2>3, <2>4, <2>5
<1> QED
  BY <1>3, <1>4, <1>5, <1>6, <1>7, <1>8, <1>9, <1>10 DEF AllKinds, Kind

\* Nobody is told, and nothing is written for the customer, before the request is
\* approved.
MailInv ==
    /\ \A r \in Requests : outbox[r] # "NONE" => request[r] = "APPROVED"
    /\ \A r \in told : request[r] = "APPROVED"
    /\ \A s \in Senders : sending[s] # None => request[sending[s]] = "APPROVED"
    /\ \A p \in Procs : proc[p].pc = "approved" => request[proc[p].req] = "APPROVED"

\* A process comes to tell the customer only once the request is approved.
LEMMA ApprovedProcs ==
    ASSUME TypeInv, DeskInv, MailInv, \A r \in Approved : r \in Approved', [Next]_vars,
           NEW p \in Procs, proc'[p].pc = "approved"
    PROVE  request'[proc'[p].req] = "APPROVED"
<1>0. /\ ProcsOK /\ proc \in [Procs -> ProcType] /\ DeskType
      /\ request \in [Requests -> Open \union {"NONE", "APPROVED"}]
  BY DEF TypeInv, ProcsOK, DeskType
<1>1. \A r \in Requests : request[r] = "APPROVED" => request'[r] = "APPROVED"
  BY DEF Approved
<1>2. CASE proc'[p] = proc[p]
  <2>1. proc[p].req \in Requests
    BY <1>0, <1>2, RefundAssumption DEF ProcsOK, ProcOK, WithTx
  <2> QED
    BY <1>1, <1>2, <2>1 DEF MailInv
<1>3. CASE AnswerRefunded(p) \/ QueryRefunded(p)
  <2>0. PICK t : t = proc[p].tx
    OBVIOUS
  <2>1. WithTx(p) /\ t \in Txs /\ Exists(t) /\ tx[t].req \in Requests /\ proc[p].req = tx[t].req
    BY <1>3, <2>0, AtWork DEF AnswerRefunded, QueryRefunded
  <2>2. Done(p)
    BY <1>0, <1>3 DEF AnswerRefunded, QueryRefunded, Quit, Idle
  <2>3. proc'[p].req = tx[t].req
    BY <1>0, <2>1, <2>2 DEF Done, Idle
  <2>4. Finalize(t, "ok") \/ (tx[t].status = "SUCCESS" /\ request' = request)
    BY <1>0, <1>3, <2>0 DEF AnswerRefunded, QueryRefunded, Quit, Idle, desk
  <2>5. request'[tx[t].req] = "APPROVED"
    BY <1>0, <2>1, <2>4 DEF Finalize, DeskInv, TxPart
  <2> QED
    BY <2>3, <2>5
<1>4. CASE ~(AnswerRefunded(p) \/ QueryRefunded(p)) /\ proc'[p] # proc[p]
  <2>0. Idle.pc = "idle" /\ \A q \in Procs : proc' = [proc EXCEPT ![q] = Idle] => proc'[p] \in {Idle, proc[p]}
    BY <1>0 DEF Idle
  <2>1. ASSUME NEW q \in Procs, Step(q)
        PROVE  FALSE
    <3>1. CASE q = p
      BY <1>0, <1>4, <2>0, <2>1, <3>1
      DEF Step, Submit, SendRefund, FailBeforeSend, AnswerUnrecorded, AnswerDeclined,
          AnswerUnclear, FinalizeRecorded, QueryDeclined, QueryFails, QueryUnclear, Quit, ProcType
    <3>2. CASE q # p
      BY <1>0, <1>4, <2>1, <3>2
      DEF Step, Submit, SendRefund, FailBeforeSend, AnswerRefunded, AnswerUnrecorded,
          AnswerDeclined, AnswerUnclear, FinalizeRecorded, QueryRefunded, QueryDeclined,
          QueryFails, QueryUnclear, Quit, Done
    <3> QED
      BY <3>1, <3>2
  <2>2. ASSUME NEW q \in Procs, StaffStep(q) \/ Crash(q)
        PROVE  FALSE
    <3>1. CASE LeaveUncertain(q) \/ TellCustomer(q) \/ Crash(q)
      BY <1>4, <2>0, <3>1 DEF LeaveUncertain, TellCustomer, Crash, Quit
    <3>2. CASE ClaimRequest(q)
      BY <1>0, <1>4, <2>0, <3>2 DEF ClaimRequest, ProcType
    <3>3. CASE CreateTransaction(q)
      <4>1. \/ proc' = [proc EXCEPT ![q] = Idle]
            \/ \E t \in Txs : proc' = [proc EXCEPT ![q].pc = "submitted", ![q].tx = t,
                                                    ![q].seen = "PROCESSING"]
        BY <3>3 DEF CreateTransaction
      <4>2. CASE \E t \in Txs : proc' = [proc EXCEPT ![q].pc = "submitted", ![q].tx = t,
                                                    ![q].seen = "PROCESSING"]
        <5>1. proc'[q].pc = "submitted" /\ \A z \in Procs : z # q => proc'[z] = proc[z]
          BY <1>0, <4>2 DEF ProcType
        <5> QED
          BY <1>4, <5>1
      <4> QED
        BY <1>4, <2>0, <4>1, <4>2
    <3>4. CASE \E r \in Requests : ReadRequest(q, r)
      BY <1>0, <1>4, <3>4 DEF ReadRequest
    <3> QED
      BY <2>2, <3>1, <3>2, <3>3, <3>4 DEF StaffStep
  <2>3. ASSUME NEW q \in Procs, NEW t \in Txs,
               ClaimPending(q, t) \/ FindRecorded(q, t) \/ StartQuery(q, t)
        PROVE  FALSE
    BY <1>0, <1>4, <2>3 DEF ClaimPending, FindRecorded, StartQuery
  <2>4. ASSUME proc' = proc
        PROVE  FALSE
    BY <1>4, <2>4
  <2> QED
    BY <2>1, <2>2, <2>3, <2>4
    DEF Next, vars, Sweep, ReleaseClaim, QueueRefund, CreateRefundRequest,
        GatewayDecides, Adjudicate, Send, ClaimOutboxRow, Deliver, DeliveryFails, SenderCrash
<1> QED
  BY <1>2, <1>3, <1>4

\* The ways the notifications change.
Finalizes == \E t \in Txs, c \in {"none", "ok", "echo"} : Finalize(t, c)
Tells == \E r \in Requests :
            /\ request[r] = "APPROVED" /\ UNCHANGED desk /\ UNCHANGED gateway
            /\ told' \in {told, told \union {r}}
            /\ outbox' = outbox \/ (\E c : outbox' = [outbox EXCEPT ![r] = c])
            /\ \A s \in Senders : sending'[s] \in {sending[s], None, r}

LEMMA MailKinds ==
    ASSUME TypeInv, MailInv, [Next]_vars
    PROVE  UNCHANGED mail \/ Finalizes \/ Tells
<1>0. /\ ProcsOK /\ sending \in [Senders -> Requests \union {None}]
      /\ outbox \in [Requests -> {"NONE", "PENDING", "PROCESSING", "SENT"}]
      /\ told \subseteq Requests
  BY DEF TypeInv, MailType
<1>1. ASSUME NEW p \in Procs, AnswerRefunded(p) \/ QueryRefunded(p)
      PROVE  UNCHANGED mail \/ Finalizes
  <2>1. UNCHANGED mail \/ (proc[p].tx \in Txs /\ Finalize(proc[p].tx, "ok"))
    BY <1>1, AtWork DEF AnswerRefunded, QueryRefunded
  <2> QED
    BY <2>1 DEF Finalizes
<1>2. ASSUME NEW p \in Procs, Step(p),
             ~(AnswerRefunded(p) \/ QueryRefunded(p) \/ FinalizeRecorded(p))
      PROVE  UNCHANGED mail
  BY <1>2
  DEF Step, Submit, SendRefund, FailBeforeSend, AnswerUnrecorded, AnswerDeclined,
      AnswerUnclear, QueryDeclined, QueryFails, QueryUnclear
<1>3. ASSUME NEW p \in Procs, TellCustomer(p)
      PROVE  Tells
  <2>1. proc[p].req \in Requests /\ request[proc[p].req] = "APPROVED"
    BY <1>0, <1>3, RefundAssumption DEF TellCustomer, ProcsOK, ProcOK, WithTx, MailInv
  <2> QED
    BY <1>3, <2>1 DEF TellCustomer, Tells
<1>4. ASSUME NEW s \in Senders, Send(s) \/ SenderCrash(s)
      PROVE  Tells
  <2>1. ASSUME NEW r \in Requests, ClaimOutboxRow(s, r)
        PROVE  Tells
    <3>1. request[r] = "APPROVED"
      BY <2>1 DEF ClaimOutboxRow, MailInv
    <3> QED
      BY <1>0, <2>1, <3>1 DEF ClaimOutboxRow, Tells
  <2>2. CASE Deliver(s) \/ DeliveryFails(s) \/ SenderCrash(s)
    <3>1. sending[s] \in Requests /\ request[sending[s]] = "APPROVED"
      BY <1>0, <2>2 DEF Deliver, DeliveryFails, SenderCrash, MailInv
    <3> QED
      BY <1>0, <2>2, <3>1 DEF Deliver, DeliveryFails, SenderCrash, Tells
  <2> QED
    BY <1>4, <2>1, <2>2 DEF Send
<1>5. ASSUME NEW t \in Txs, Adjudicate(t)
      PROVE  UNCHANGED mail \/ Finalizes
  BY <1>5 DEF Adjudicate, Finalizes
<1>6. ASSUME NEW p \in Procs, FinalizeRecorded(p)
      PROVE  UNCHANGED mail \/ Finalizes
  <2>1. proc[p].tx \in Txs /\ tx[proc[p].tx].response \in {"none", "ok", "echo"}
    BY <1>6, AtWork DEF FinalizeRecorded, TypeInv, DeskType, TxType
  <2> QED
    BY <1>6, <2>1 DEF FinalizeRecorded, Finalizes
<1>7. ASSUME NEW p \in Procs, StaffStep(p), ~TellCustomer(p)
      PROVE  UNCHANGED mail
  BY <1>7 DEF StaffStep, ReadRequest, ClaimRequest, LeaveUncertain, CreateTransaction
<1>8. CASE \/ \E r \in Requests : QueueRefund(r) \/ CreateRefundRequest(r)
           \/ \E p \in Procs, t \in Txs : ClaimPending(p, t) \/ ReleaseClaim(p, t)
                                          \/ FindRecorded(p, t) \/ StartQuery(p, t)
           \/ \E p \in Procs : Crash(p)
           \/ \E t \in Txs : GatewayDecides(t)
           \/ UNCHANGED vars
  BY <1>8
  DEF QueueRefund, CreateRefundRequest, ClaimPending, ReleaseClaim, FindRecorded, StartQuery,
      Crash,
      GatewayDecides, vars, mail
<1> QED
  BY <1>1, <1>2, <1>3, <1>4, <1>5, <1>6, <1>7, <1>8 DEF Next, Sweep

LEMMA MailInvariant == Spec => []MailInv
<1>1. Init => MailInv
  BY DEF Init, MailInv, Idle
<1>2. ASSUME TypeInv, TypeInv', HoldInv, DeskInv, MailInv, [Next]_vars
      PROVE  MailInv'
  <2>0. /\ outbox \in [Requests -> {"NONE", "PENDING", "PROCESSING", "SENT"}]
        /\ told \subseteq Requests /\ DeskType
        /\ sending \in [Senders -> Requests \union {None}]
        /\ sending' \in [Senders -> Requests \union {None}]
        /\ request \in [Requests -> Open \union {"NONE", "APPROVED"}]
    BY <1>2 DEF TypeInv, MailType, DeskType
  <2>1. \A r \in Approved : r \in Approved'
    BY <1>2, NextKinds, ApprovedKinds
  <2>2. \A r \in Requests : request[r] = "APPROVED" => request'[r] = "APPROVED"
    BY <2>1 DEF Approved
  <2>3. \A p \in Procs : proc'[p].pc = "approved" => request'[proc'[p].req] = "APPROVED"
    BY <1>2, <2>1, ApprovedProcs
  <2>4. CASE UNCHANGED mail
    BY <1>2, <2>0, <2>2, <2>3, <2>4 DEF MailInv, mail
  <2>5. CASE Finalizes
    <3>1. PICK t \in Txs, c \in {"none", "ok", "echo"} : Finalize(t, c)
      BY <2>5 DEF Finalizes
    <3>2. tx[t].req \in Requests /\ request'[tx[t].req] = "APPROVED"
      BY <2>0, <3>1, FinalizeEffect
    <3>3. /\ UNCHANGED <<sending, told>>
          /\ \A r \in Requests : r # tx[t].req => outbox'[r] = outbox[r]
      BY <2>0, <3>1 DEF Finalize
    <3> QED
      BY <1>2, <2>0, <2>2, <2>3, <3>2, <3>3 DEF MailInv
  <2>6. CASE Tells
    <3>1. PICK r \in Requests :
            /\ request[r] = "APPROVED" /\ request' = request
            /\ told' \in {told, told \union {r}}
            /\ outbox' = outbox \/ (\E c : outbox' = [outbox EXCEPT ![r] = c])
            /\ \A s \in Senders : sending'[s] \in {sending[s], None, r}
      BY <2>6 DEF Tells, desk
    <3>2. \A q \in Requests : q # r => outbox'[q] = outbox[q]
      BY <2>0, <3>1
    <3>3. \A q \in Requests : outbox'[q] # "NONE" => request'[q] = "APPROVED"
      BY <1>2, <3>1, <3>2 DEF MailInv
    <3>4. \A q \in told' : request'[q] = "APPROVED"
      BY <1>2, <3>1 DEF MailInv
    <3>5. \A s \in Senders : sending'[s] # None => request'[sending'[s]] = "APPROVED"
      BY <1>2, <3>1 DEF MailInv
    <3> QED
      BY <2>3, <3>3, <3>4, <3>5 DEF MailInv
  <2> QED
    BY <1>2, <2>4, <2>5, <2>6, MailKinds
<1> QED
  BY <1>1, <1>2, TypeInvariant, HoldInvariant, DeskInvariant, PTL DEF Spec

\* How often a request was paid, as the contract counts it.
Payments == [r \in Requests |-> Cardinality({t \in TxsOf(r) : gateway[t] = "refunded"})]
Mapped == Payments = [r \in Requests |-> IF IsPaid(r) THEN 1 ELSE 0]

LEMMA PaymentsMap ==
    ASSUME PaidOnce
    PROVE  Mapped
<1> SUFFICES ASSUME NEW r \in Requests
             PROVE  Cardinality({t \in TxsOf(r) : gateway[t] = "refunded"})
                        = IF IsPaid(r) THEN 1 ELSE 0
  BY DEF Mapped, Payments
<1>1. CASE IsPaid(r)
  <2>1. PICK t \in Txs : tx[t].req = r /\ gateway[t] = "refunded"
    BY <1>1 DEF IsPaid
  <2>2. {u \in TxsOf(r) : gateway[u] = "refunded"} = {t}
    BY <2>1 DEF PaidOnce, TxsOf
  <2>3. Cardinality({t}) = 1
    BY FS_Singleton
  <2> QED
    BY <1>1, <2>2, <2>3
<1>2. CASE ~IsPaid(r)
  <2>1. {u \in TxsOf(r) : gateway[u] = "refunded"} = {}
    BY <1>2 DEF IsPaid, TxsOf
  <2> QED
    BY <1>2, <2>1, FS_EmptySet
<1> QED
  BY <1>1, <1>2

\* The desk keeps its promise: whatever is lost, repeated, raced or reconciled, a
\* request is paid at most once and closed once, and its customer is told after.
THEOREM RefundKeepsContract == Spec => RefundContractHolds
<1>1. Init => Contract!ContractInit
  <2> SUFFICES ASSUME Init
               PROVE  Contract!ContractInit
    OBVIOUS
  <2>1. \A r \in Requests : {t \in TxsOf(r) : gateway[t] = "refunded"} = {}
    BY DEF Init, TxsOf
  <2>2. \A r \in Requests : Cardinality({t \in TxsOf(r) : gateway[t] = "refunded"}) = 0
    BY <2>1, FS_EmptySet
  <2> QED
    BY <2>2 DEF Init, Contract!ContractInit
<1>2. ASSUME TypeInv, HoldInv, DeskInv, MailInv, PaidOnce', Mapped, Mapped', [Next]_vars
      PROVE  [Contract!ContractNext]_(Contract!contractVars)
  <2>0. /\ Payments = [r \in Requests |-> IF IsPaid(r) THEN 1 ELSE 0]
        /\ Payments' = [r \in Requests |-> IF IsPaid(r)' THEN 1 ELSE 0]
        /\ AllKinds /\ told \subseteq Requests
    BY <1>2, NextKinds DEF Mapped, TypeInv, MailType
  <2>1. PaidSame => Payments' = Payments
    BY <2>0 DEF PaidSame
  <2>2. CASE told' = told
    <3>1. ASSUME PaidSame, Approved' = Approved
          PROVE  UNCHANGED Contract!contractVars
      BY <2>1, <2>2, <3>1 DEF Contract!contractVars, Payments, Approved
    <3>2. ASSUME PaidSame, NEW r \in Requests, r \notin Approved, Approved' = Approved \union {r}
          PROVE  Contract!Close(r)
      BY <2>1, <2>2, <3>2 DEF Contract!Close, Payments, Approved
    <3>3. ASSUME NEW r \in Requests, ~IsPaid(r), IsPaid(r)', Approved' = Approved,
                 \A q \in Requests : q # r => (IsPaid(q)' <=> IsPaid(q))
          PROVE  Contract!Pay(r)
      <4>1. Payments[r] = 0 /\ Payments' = [Payments EXCEPT ![r] = 1]
        BY <2>0, <3>3
      <4> QED
        BY <2>2, <3>3, <4>1 DEF Contract!Pay, Payments, Approved
    <3>4. request' = request => Approved' = Approved
      BY DEF Approved
    <3> QED
      BY <1>2, <2>0, <3>1, <3>2, <3>3, <3>4, ApprovedKinds, PaidKinds DEF Contract!ContractNext
  <2>3. CASE told' # told
    <3>1. PICK r \in Requests : /\ request[r] = "APPROVED" /\ UNCHANGED desk /\ UNCHANGED gateway
                                /\ told' = told \union {r}
      BY <1>2, <2>3, MailKinds DEF Tells, Finalizes, Finalize, mail
    <3>2. Payments' = Payments /\ Approved' = Approved
      BY <2>1, <3>1 DEF PaidSame, IsPaid, Approved, desk
    <3>3. Contract!Tell(r)
      BY <2>3, <3>1, <3>2 DEF Contract!Tell, Payments, Approved
    <3> QED
      BY <3>3 DEF Contract!ContractNext
  <2> QED
    BY <2>2, <2>3
<1>3. PaidOnce => Mapped
  BY PaymentsMap
<1> QED
  BY <1>1, <1>2, <1>3, TypeInvariant, HoldInvariant, DeskInvariant, MailInvariant, PaidOnceHolds, PTL
  DEF Spec, RefundContractHolds, Contract!ContractSpec

-----------------------------------------------------------------------------
(* The money that left *)

\* The transactions whose money left, or may have left.
AtRisk == {t \in Txs : tx[t].status \in Blocking \union {"SUCCESS"}}

\* Their amounts fit into what the payment brought in: a transaction comes to them
\* only when no other is under way, and only if it fits beside those that succeeded.
MoneyInv == IsFiniteSet(Coins(AtRisk)) /\ Cardinality(Coins(AtRisk)) =< Captured

\* One more transaction brings at most its amount.
LEMMA CoinsGrow ==
    ASSUME NEW C, IsFiniteSet(C), NEW t, NEW n \in Nat, NEW D,
           D \subseteq C \union ({t} \X (1 .. n))
    PROVE  IsFiniteSet(D) /\ Cardinality(D) =< Cardinality(C) + n
<1> DEFINE New == {t} \X (1 .. n)
<1>1. IsFiniteSet({t}) /\ Cardinality({t}) = 1
  BY FS_Singleton
<1>2. IsFiniteSet(1 .. n) /\ Cardinality(1 .. n) = n
  BY FS_Interval
<1>3. IsFiniteSet(New) /\ Cardinality(New) = Cardinality({t}) * Cardinality(1 .. n)
  BY <1>1, <1>2, FS_Product, Zenon
<1>4. Cardinality(New) = n
  BY <1>1, <1>2, <1>3
<1> HIDE DEF New
<1>5. /\ IsFiniteSet(C \union New)
      /\ Cardinality(C \union New)
           = Cardinality(C) + Cardinality(New) - Cardinality(C \intersect New)
  BY <1>3, FS_Union
<1>6. IsFiniteSet(C \intersect New)
  BY FS_Subset
<1>7. Cardinality(C \intersect New) \in Nat /\ Cardinality(C) \in Nat
  BY <1>6, FS_CardinalityType
<1>8. D \subseteq C \union New
  BY DEF New
<1>9. IsFiniteSet(D) /\ Cardinality(D) =< Cardinality(C \union New)
  BY <1>5, <1>8, FS_Subset
<1>10. Cardinality(D) \in Nat /\ Cardinality(C \union New) \in Nat
  BY <1>5, <1>9, FS_CardinalityType
<1> QED
  BY <1>4, <1>5, <1>7, <1>9, <1>10

\* A step that puts no money at risk keeps the bound.
LEMMA MoneyStays ==
    ASSUME MoneyInv,
           \A u \in Txs : u \in AtRisk' => u \in AtRisk /\ tx'[u].req = tx[u].req
    PROVE  MoneyInv'
<1>1. Coins(AtRisk)' \subseteq Coins(AtRisk)
  <2> SUFFICES ASSUME NEW c \in Coins(AtRisk)'
               PROVE  c \in Coins(AtRisk)
    OBVIOUS
  <2>1. PICK u \in AtRisk' : c \in {u} \X (1 .. Amount[tx'[u].req])
    BY DEF Coins, AmountOf
  <2>2. u \in AtRisk /\ tx'[u].req = tx[u].req
    BY DEF AtRisk
  <2> QED
    BY <2>1, <2>2 DEF Coins, AmountOf
<1>2. /\ IsFiniteSet(Coins(AtRisk)')
      /\ Cardinality(Coins(AtRisk)') =< Cardinality(Coins(AtRisk))
  BY <1>1, FS_Subset DEF MoneyInv
<1>3. Cardinality(Coins(AtRisk)') \in Nat /\ Cardinality(Coins(AtRisk)) \in Nat
  BY <1>2, FS_CardinalityType DEF MoneyInv
<1> QED
  BY <1>2, <1>3, RefundAssumption DEF MoneyInv

\* A step that puts one more transaction at risk, which fits beside those that
\* succeeded when no other is open.
LEMMA MoneyAdded ==
    ASSUME MoneyInv, NEW t \in Txs, NEW r \in Requests, NEW ts \in SUBSET Txs, Fits(r, ts),
           tx'[t].req = r,
           \A u \in Txs \ {t} : u \in AtRisk' =>
                u \in ts /\ tx[u].status = "SUCCESS" /\ tx'[u].req = tx[u].req
    PROVE  MoneyInv'
<1> DEFINE C == Coins({u \in ts : tx[u].status = "SUCCESS"})
<1>1. IsFiniteSet(C)
  <2>1. C \subseteq Coins(AtRisk)
    BY DEF Coins, AtRisk
  <2> QED
    BY <2>1, FS_Subset DEF MoneyInv
<1>2. Coins(AtRisk)' \subseteq C \union ({t} \X (1 .. Amount[r]))
  <2> SUFFICES ASSUME NEW c \in Coins(AtRisk)'
               PROVE  c \in C \union ({t} \X (1 .. Amount[r]))
    OBVIOUS
  <2>1. PICK u \in AtRisk' : c \in {u} \X (1 .. Amount[tx'[u].req])
    BY DEF Coins, AmountOf
  <2>2. CASE u = t
    BY <2>1, <2>2
  <2>3. CASE u # t
    BY <2>1, <2>3 DEF Coins, AmountOf, AtRisk
  <2> QED
    BY <2>2, <2>3
<1>3. Amount[r] \in Nat /\ Captured \in Nat
  BY RefundAssumption
<1>4. /\ IsFiniteSet(Coins(AtRisk)')
      /\ Cardinality(Coins(AtRisk)') =< Cardinality(C) + Amount[r]
  BY <1>1, <1>2, <1>3, CoinsGrow
<1>5. Cardinality(Coins(AtRisk)') \in Nat /\ Cardinality(C) \in Nat
  BY <1>1, <1>4, FS_CardinalityType
<1>6. Amount[r] + Cardinality(C) =< Captured
  BY DEF Fits, Refunded
<1> QED
  BY <1>3, <1>4, <1>5, <1>6 DEF MoneyInv

LEMMA MoneyKinds ==
    ASSUME TypeInv, DeskInv, MoneyInv, AllKinds
    PROVE  MoneyInv'
<1>0. /\ DeskType /\ ProcsOK /\ tx \in [Txs -> TxType]
      /\ \A t \in Txs : tx[t].status # "NONE" => Exists(t) /\ tx[t].req \in Requests
  BY DEF TypeInv, DeskType, TxOK, Exists
<1>1. tx' = tx => MoneyInv'
  BY MoneyStays DEF AtRisk
<1>2. ASSUME NEW t \in Txs, NEW s, NEW resp, Written(t, s, resp)
      PROVE  MoneyInv'
  <2>1. /\ tx[t].status \in Active /\ s \in Statuses /\ resp \in {"none", "ok", "echo"}
        /\ Sets(t, s, tx[t].submitted, resp)
        /\ tx[t].status = "PENDING" => s = "FAILED"
    BY <1>2 DEF Written
  <2>2. Exists(t) /\ tx[t].submitted \in BOOLEAN
    BY <1>0, <2>1 DEF Exists, Active, Blocking, TxType
  <2>3. /\ tx'[t].status = s /\ \A u \in Txs : u # t => tx'[u] = tx[u]
        /\ \A u \in Txs : tx'[u].req = tx[u].req
    BY <1>0, <2>1, <2>2, SetsType
  <2>4. s \in Blocking \union {"SUCCESS"} => tx[t].status \in Blocking
    BY <2>1 DEF Active, Blocking
  <2> QED
    BY <2>3, <2>4, MoneyStays DEF AtRisk
<1>3. ASSUME NEW r \in Requests, QueueRefund(r)
      PROVE  MoneyInv'
  <2>1. PICK t \in Txs : NewTx(t) /\ tx' = [tx EXCEPT ![t] = Row(r, "PENDING", FALSE)]
    BY <1>3 DEF QueueRefund
  <2>2. tx'[t].status = "PENDING" /\ \A u \in Txs : u # t => tx'[u] = tx[u]
    BY <1>0, <2>1, NewEffect
  <2> QED
    BY <2>2, MoneyStays DEF AtRisk, Blocking
<1>4. ASSUME NEW p \in Procs, NEW t \in Txs, Takes(p, t)
      PROVE  MoneyInv'
  <2>1. tx[t].req \in Requests
    BY <1>0, <1>4 DEF Takes
  <2>2. tx'[t].req = tx[t].req /\ \A u \in Txs : u # t => tx'[u] = tx[u]
    BY <1>0, <1>4 DEF Takes, TxType
  <2>3. \A u \in Txs \ {t} : u \in AtRisk' => tx[u].status = "SUCCESS" /\ tx'[u].req = tx[u].req
    BY <1>4, <2>2 DEF Takes, AtRisk
  <2> QED
    BY <1>4, <2>1, <2>2, <2>3, MoneyAdded DEF Takes
<1>5. ASSUME NEW p \in Procs, CreateTransaction(p)
      PROVE  MoneyInv'
  <2>0. PICK r : r = proc[p].req
    OBVIOUS
  <2>1. r \in Requests /\ \A u \in Txs : tx[u].req = r => tx[u].status = "FAILED"
    BY <1>0, <1>5, <2>0, RefundAssumption
    DEF CreateTransaction, ProcsOK, ProcOK, WithTx, DeskInv, StaffPart, ClaimerOK, Claimer, Clear
  <2>2. CASE tx' # tx
    <3>1. PICK t \in Txs : /\ NewTx(t) /\ tx' = [tx EXCEPT ![t] = Row(r, "PROCESSING", TRUE)]
                           /\ \A u \in Txs \ TxsOf(r) : tx[u].status \notin Active
                           /\ Fits(r, Txs \ TxsOf(r))
      BY <1>5, <2>0, <2>2 DEF CreateTransaction
    <3>2. tx'[t].req = r /\ \A u \in Txs : u # t => tx'[u] = tx[u]
      BY <1>0, <2>1, <3>1, NewEffect
    <3>3. \A u \in Txs \ {t} : u \in AtRisk' =>
            u \in Txs \ TxsOf(r) /\ tx[u].status = "SUCCESS" /\ tx'[u].req = tx[u].req
      BY <2>1, <3>1, <3>2 DEF AtRisk, Active, Blocking, TxsOf
    <3> QED
      BY <2>1, <3>1, <3>2, <3>3, MoneyAdded
  <2> QED
    BY <1>1, <2>2
<1>6. ASSUME NEW p \in Procs, Submit(p)
      PROVE  MoneyInv'
  <2>1. \A u \in Txs : tx'[u].status = tx[u].status /\ tx'[u].req = tx[u].req
    BY <1>0, <1>6 DEF Submit, TxType
  <2> QED
    BY <2>1, MoneyStays DEF AtRisk
<1>7. CASE \/ Quiet \/ \E r \in Requests : CreateRefundRequest(r)
           \/ \E p \in Procs : \/ SendRefund(p) \/ ClaimRequest(p)
                               \/ \E r \in Requests : ReadRequest(p, r)
           \/ \E t \in Txs : GatewayDecides(t)
  BY <1>1, <1>7
  DEF Quiet, CreateRefundRequest, SendRefund, ClaimRequest, ReadRequest, GatewayDecides, desk
<1> QED
  BY <1>2, <1>3, <1>4, <1>5, <1>6, <1>7 DEF AllKinds, Kind

\* Transactions that are under way after a step were so before it, but one.
LEMMA FlightAdded ==
    ASSUME NEW t \in Txs, \A u \in Txs : tx[u].status \notin Blocking,
           \A u \in Txs : u # t => tx'[u] = tx[u]
    PROVE  OneInFlight'
BY DEF OneInFlight

LEMMA FlightStays ==
    ASSUME OneInFlight, \A u \in Txs : tx'[u].status \in Blocking => tx[u].status \in Blocking
    PROVE  OneInFlight'
BY DEF OneInFlight

\* How transactions end, and that none begins beside another.
LEMMA TxKinds ==
    ASSUME TypeInv, DeskInv, OneInFlight, AllKinds
    PROVE  /\ OneInFlight'
           /\ \A t \in Txs : tx[t].status \in {"SUCCESS", "FAILED"}
                => tx'[t].status = tx[t].status /\ tx'[t].req = tx[t].req
<1> DEFINE Stays == \A t \in Txs : tx[t].status \in {"SUCCESS", "FAILED"}
                        => tx'[t].status = tx[t].status /\ tx'[t].req = tx[t].req
<1>0. /\ DeskType /\ ProcsOK /\ tx \in [Txs -> TxType]
      /\ \A t \in Txs : tx[t].status # "NONE" => Exists(t) /\ tx[t].req \in Requests
  BY DEF TypeInv, DeskType, TxOK, Exists
<1>1. tx' = tx => OneInFlight' /\ Stays
  BY DEF OneInFlight
<1>2. ASSUME NEW t \in Txs, NEW s, NEW resp, Written(t, s, resp)
      PROVE  OneInFlight' /\ Stays
  <2>1. /\ tx[t].status \in Active /\ s \in Statuses /\ resp \in {"none", "ok", "echo"}
        /\ Sets(t, s, tx[t].submitted, resp)
        /\ tx[t].status = "PENDING" => s = "FAILED"
    BY <1>2 DEF Written
  <2>2. Exists(t) /\ tx[t].submitted \in BOOLEAN
    BY <1>0, <2>1 DEF Exists, Active, Blocking, TxType
  <2>3. tx'[t].status = s /\ \A u \in Txs : u # t => tx'[u] = tx[u]
    BY <1>0, <2>1, <2>2, SetsType
  <2>4. s \in Blocking => tx[t].status \in Blocking
    BY <2>1 DEF Active, Blocking
  <2> QED
    BY <2>1, <2>3, <2>4, FlightStays DEF Active, Blocking
<1>3. ASSUME NEW t \in Txs, NewTx(t), NEW r \in Requests, NEW s \in {"PENDING", "PROCESSING"},
             NEW sub \in BOOLEAN, tx' = [tx EXCEPT ![t] = Row(r, s, sub)]
      PROVE  Stays /\ tx'[t].status = s /\ \A u \in Txs : u # t => tx'[u] = tx[u]
  BY <1>0, <1>3, NewEffect DEF Exists
<1>4. ASSUME NEW r \in Requests, QueueRefund(r)
      PROVE  OneInFlight' /\ Stays
  <2>1. PICK t \in Txs : NewTx(t) /\ tx' = [tx EXCEPT ![t] = Row(r, "PENDING", FALSE)]
    BY <1>4 DEF QueueRefund
  <2> QED
    BY <1>3, <2>1, FlightStays DEF Blocking
<1>5. ASSUME NEW p \in Procs, NEW t \in Txs, Takes(p, t)
      PROVE  OneInFlight' /\ Stays
  <2>1. \A u \in Txs : u # t => tx'[u] = tx[u]
    BY <1>0, <1>5 DEF Takes
  <2> QED
    BY <1>5, <2>1, FlightAdded DEF Takes
<1>6. ASSUME NEW p \in Procs, CreateTransaction(p)
      PROVE  OneInFlight' /\ Stays
  <2>0. PICK r : r = proc[p].req
    OBVIOUS
  <2>1. r \in Requests /\ \A u \in Txs : tx[u].req = r => tx[u].status = "FAILED"
    BY <1>0, <1>6, <2>0, RefundAssumption
    DEF CreateTransaction, ProcsOK, ProcOK, WithTx, DeskInv, StaffPart, ClaimerOK, Claimer, Clear
  <2>2. CASE tx' # tx
    <3>1. PICK t \in Txs : /\ NewTx(t) /\ tx' = [tx EXCEPT ![t] = Row(r, "PROCESSING", TRUE)]
                           /\ \A u \in Txs \ TxsOf(r) : tx[u].status \notin Active
      BY <1>6, <2>0, <2>2 DEF CreateTransaction
    <3>2. \A u \in Txs : tx[u].status \notin Blocking
      BY <2>1, <3>1 DEF Active, Blocking, TxsOf
    <3> QED
      BY <1>3, <2>1, <3>1, <3>2, FlightAdded
  <2> QED
    BY <1>1, <2>2
<1>7. ASSUME NEW p \in Procs, Submit(p)
      PROVE  OneInFlight' /\ Stays
  <2>1. \A u \in Txs : tx'[u].status = tx[u].status /\ tx'[u].req = tx[u].req
    BY <1>0, <1>7 DEF Submit, TxType
  <2> QED
    BY <2>1, FlightStays
<1>8. CASE \/ Quiet \/ \E r \in Requests : CreateRefundRequest(r)
           \/ \E p \in Procs : \/ SendRefund(p) \/ ClaimRequest(p)
                               \/ \E r \in Requests : ReadRequest(p, r)
           \/ \E t \in Txs : GatewayDecides(t)
  BY <1>1, <1>8
  DEF Quiet, CreateRefundRequest, SendRefund, ClaimRequest, ReadRequest, GatewayDecides, desk
<1> QED
  BY <1>2, <1>4, <1>5, <1>6, <1>7, <1>8 DEF AllKinds, Kind

\* One refund of the payment is under way at a time, for any workers and staff: the
\* worker claims and the desk creates only while no other is, under the same lock.
THEOREM OneRefundInFlight == Spec => []OneInFlight
<1>1. Init => OneInFlight
  BY DEF Init, OneInFlight, NoTx, Blocking
<1>2. TypeInv /\ HoldInv /\ DeskInv /\ OneInFlight /\ [Next]_vars => OneInFlight'
  BY NextKinds, TxKinds
<1> QED
  BY <1>1, <1>2, TypeInvariant, HoldInvariant, DeskInvariant, PTL DEF Spec

\* No late answer, query, release or crash revives what has ended: a transaction that
\* succeeded or failed stays so, and an approved request stays approved.
THEOREM EndedIsFinal == Spec => EndedStays
<1>1. ASSUME TypeInv, HoldInv, DeskInv, OneInFlight, [Next]_vars
      PROVE  [ /\ \A t \in Txs : tx[t].status \in {"SUCCESS", "FAILED"}
                    => tx'[t].status = tx[t].status /\ tx'[t].req = tx[t].req
               /\ \A r \in Requests : request[r] = "APPROVED" => request'[r] = "APPROVED" ]_vars
  <2>1. AllKinds
    BY <1>1, NextKinds
  <2>2. Approved \subseteq Approved'
    BY <1>1, <2>1, ApprovedKinds
  <2> QED
    BY <1>1, <2>1, <2>2, TxKinds DEF Approved
<1> QED
  BY <1>1, OneRefundInFlight, TypeInvariant, HoldInvariant, DeskInvariant, PTL DEF Spec, EndedStays

\* VNPay never pays back more than the payment brought in, for any number of requests
\* of any amounts, workers and staff: the worker and the desk check the balance apart
\* from each other, but each while no other transaction of the payment is open.
THEOREM PaidBackBounded == Spec => []PaidBackWithinCaptured
<1>1. Init => MoneyInv
  <2> SUFFICES ASSUME Init
               PROVE  MoneyInv
    OBVIOUS
  <2>1. Coins(AtRisk) = {}
    BY DEF Init, AtRisk, Coins, NoTx, Blocking
  <2>2. IsFiniteSet({}) /\ Cardinality({}) = 0 /\ Captured \in Nat
    BY FS_EmptySet, RefundAssumption
  <2> QED
    BY <2>1, <2>2 DEF MoneyInv
<1>2. TypeInv /\ HoldInv /\ DeskInv /\ MoneyInv /\ [Next]_vars => MoneyInv'
  BY NextKinds, MoneyKinds
<1>3. ASSUME TypeInv, HoldInv, MoneyInv
      PROVE  PaidBackWithinCaptured
  <2> DEFINE P == {t \in Txs : gateway[t] = "refunded"}
  <2>1. \A t \in P : tx[t].status \notin {"NONE", "PENDING", "FAILED"} /\ tx[t] \in TxType
    BY <1>3 DEF HoldInv, HoldPart, TypeInv, DeskType
  <2>2. P \subseteq AtRisk
    BY <2>1 DEF AtRisk, Blocking, TxType, Statuses
  <2>3. Coins(P) \subseteq Coins(AtRisk)
    BY <2>2 DEF Coins
  <2>4. IsFiniteSet(Coins(P)) /\ Cardinality(Coins(P)) =< Cardinality(Coins(AtRisk))
    BY <1>3, <2>3, FS_Subset DEF MoneyInv
  <2>5. Cardinality(Coins(P)) \in Nat /\ Cardinality(Coins(AtRisk)) \in Nat
    BY <1>3, <2>4, FS_CardinalityType DEF MoneyInv
  <2> QED
    BY <1>3, <2>4, <2>5, RefundAssumption DEF MoneyInv, PaidBackWithinCaptured
<1> QED
  BY <1>1, <1>2, <1>3, TypeInvariant, HoldInvariant, DeskInvariant, PTL DEF Spec

=============================================================================
