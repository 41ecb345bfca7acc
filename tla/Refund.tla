------------------------------- MODULE Refund -------------------------------
(***************************************************************************)
(* The refunds of one payment captured by VNPay: requests queued by the    *)
(* system or filed by the customer, the refund worker, the staff desk, the *)
(* administrator's adjudication, the gateway that answers late, twice or   *)
(* not at all, and the notification outbox that tells the customer.        *)
(* Database transactions are one action each; everything a process read    *)
(* before one of them is in its local record proc[p] and may be stale.     *)
(***************************************************************************)
EXTENDS Naturals, FiniteSets

CONSTANTS
    Requests,   \* refund requests
    Queued,     \* those queued by the system for the worker
    Waits,      \* those that pay a replacement ticket back ("recovery-customer")
    Amount,     \* the money each request asks for
    Captured,   \* the money the payment brought in
    MaxTx,      \* bound: refund transactions ever created
    Workers, Staff, Senders,    \* processes
    MaxCrash,   \* bound: processes that die
    None        \* no request

ASSUME RefundAssumption ==
    /\ Queued \subseteq Requests /\ Waits \subseteq Requests
    /\ MaxTx \in Nat /\ MaxCrash \in Nat /\ Captured \in Nat
    /\ Amount \in [Requests -> Nat]
    /\ None \notin Requests
    /\ Workers \intersect Staff = {}

VARIABLES
    request,    \* status of a request, "NONE" before it exists
    byStaff,    \* whether processedById of a request is set
    tx,         \* refund transactions, numbered as they are created
    gateway,    \* what VNPay did with each of them
    proc,       \* what each worker and staff member is doing
    outbox,     \* status of the notification of a request, "NONE" before it exists
    sending,    \* the notification each sender has claimed
    told,       \* requests whose customer was told of the refund
    crashes

vars == <<request, byStaff, tx, gateway, proc, outbox, sending, told, crashes>>
desk == <<request, byStaff, tx>>
mail == <<outbox, sending, told>>

Txs == 1..MaxTx
Procs == Workers \union Staff
Statuses == {"PENDING", "PROCESSING", "NEEDS_RECONCILIATION", "SUCCESS", "FAILED"}
Blocking == {"PROCESSING", "NEEDS_RECONCILIATION"}
Active == Blocking \union {"PENDING"}
Open == {"PENDING", "PROCESSING"}

Idle == [pc |-> "idle", req |-> None, tx |-> 0, seen |-> "-"]
NoTx == [req |-> None, status |-> "NONE", submitted |-> FALSE, response |-> "none"]

Exists(t) == tx[t].status # "NONE"
TxsOf(r) == {t \in Txs : tx[t].req = r}
AmountOf(t) == Amount[tx[t].req]

\* The money of a set of transactions, each unit once.
Coins(ts) == UNION {{t} \X (1 .. AmountOf(t)) : t \in ts}
Refunded(ts) == Cardinality(Coins({t \in ts : tx[t].status = "SUCCESS"}))

\* Bug: what other refunds took is not subtracted.
FitsAlone(r, ts) == Amount[r] =< Captured

\* The request fits into what the refunds ts have left of the payment.
Fits(r, ts) == Amount[r] + Refunded(ts) =< Captured

\* A live process that may still send transaction t to the gateway, or has.
Holds(p, t) == proc[p].tx = t /\ proc[p].pc \notin {"querying", "recorded"}

\* The next free transaction number, and the row a transaction starts with.
NewTx(t) == ~Exists(t) /\ \A u \in Txs : u < t => Exists(u)
Row(r, status, submitted) ==
    [req |-> r, status |-> status, submitted |-> submitted, response |-> "none"]

Init ==
    /\ request = [r \in Requests |-> "NONE"]
    /\ byStaff = [r \in Requests |-> FALSE]
    /\ tx = [t \in Txs |-> NoTx]
    /\ gateway = [t \in Txs |-> "none"]
    /\ proc = [p \in Procs |-> Idle]
    /\ outbox = [r \in Requests |-> "NONE"]
    /\ sending = [s \in Senders |-> None]
    /\ told = {}
    /\ crashes = 0

-----------------------------------------------------------------------------
(* Requests                                                                *)

\* The system owes a refund: an open request, and a transaction for the worker.
QueueRefund(r) ==
    /\ r \in Queued /\ request[r] = "NONE"
    /\ \E t \in Txs :
        /\ NewTx(t)
        /\ tx' = [tx EXCEPT ![t] = Row(r, "PENDING", FALSE)]
    /\ request' = [request EXCEPT ![r] = "PROCESSING"]
    /\ UNCHANGED <<byStaff, gateway, proc, mail, crashes>>

\* The customer asks for a refund: staff have to take it up.
CreateRefundRequest(r) ==
    /\ r \notin Queued /\ request[r] = "NONE"
    /\ request' = [request EXCEPT ![r] = "PENDING"]
    /\ UNCHANGED <<byStaff, tx, gateway, proc, mail, crashes>>

\* Bug: a request that is already being processed stays so.
ReopenPendingOnly(r) ==
    IF request[r] = "PENDING"
    THEN /\ request' = [request EXCEPT ![r] = "PENDING"]
         /\ byStaff' = [byStaff EXCEPT ![r] = FALSE]
    ELSE UNCHANGED <<request, byStaff>>

\* A refused refund puts its request back in the queue of the staff.
Reopen(r) ==
    IF request[r] \in Open
    THEN /\ request' = [request EXCEPT ![r] = "PENDING"]
         /\ byStaff' = [byStaff EXCEPT ![r] = FALSE]
    ELSE UNCHANGED <<request, byStaff>>

Fail(t) ==
    /\ tx' = [tx EXCEPT ![t].status = "FAILED"]
    /\ Reopen(tx[t].req)

\* The money is back: transaction and request end together, with the notification.
CanFinalize(t) == tx[t].status \in Active /\ request[tx[t].req] \in Open
Finalize(t, response) ==
    /\ CanFinalize(t)
    /\ tx' = [tx EXCEPT ![t].status = "SUCCESS", ![t].response = response]
    /\ request' = [request EXCEPT ![tx[t].req] = "APPROVED"]
    /\ outbox' = [outbox EXCEPT ![tx[t].req] = IF @ = "NONE" THEN "PENDING" ELSE @]
    /\ UNCHANGED <<byStaff, sending, told>>

\* Bug: the request gets the status of its transaction.
NeedsReconciliationBoth(p, t, response) ==
    /\ tx' = [tx EXCEPT ![t].status = "NEEDS_RECONCILIATION", ![t].response = response]
    /\ LET r == tx[t].req IN
       request' = IF p \in Workers /\ request[r] \in Open
                  THEN [request EXCEPT ![r] = "NEEDS_RECONCILIATION"] ELSE request
    /\ UNCHANGED byStaff

\* An outcome nobody knows: the transaction waits for reconciliation.
NeedsReconciliation(p, t, response) ==
    /\ tx' = [tx EXCEPT ![t].status = "NEEDS_RECONCILIATION", ![t].response = response]
    /\ LET r == tx[t].req IN
       request' = IF p \in Workers /\ request[r] \in Open
                  THEN [request EXCEPT ![r] = "PROCESSING"] ELSE request
    /\ UNCHANGED byStaff

-----------------------------------------------------------------------------
(* The refund worker: sweepPendingRefundTransactions                       *)

ClaimPending(p, t) ==
    /\ p \in Workers /\ proc[p] = Idle
    /\ tx[t].status = "PENDING"
    /\ \A u \in Txs : tx[u].status = "PENDING" => t =< u
    /\ \A u \in Txs : tx[u].status \notin Blocking
    /\ IF Fits(tx[t].req, Txs)
       THEN /\ tx' = [tx EXCEPT ![t].status = "PROCESSING"]
            /\ proc' = [proc EXCEPT ![p] =
                    [pc |-> "claimed", req |-> tx[t].req, tx |-> t, seen |-> "PROCESSING"]]
            /\ UNCHANGED <<request, byStaff>>
       ELSE Fail(t) /\ UNCHANGED proc
    /\ UNCHANGED <<gateway, mail, crashes>>

\* submittedAt is written, whatever the row says, before the call goes out.
Submit(p) ==
    /\ p \in Workers /\ proc[p].pc = "claimed"
    /\ tx' = [tx EXCEPT ![proc[p].tx].submitted = TRUE]
    /\ proc' = [proc EXCEPT ![p].pc = "submitted"]
    /\ UNCHANGED <<request, byStaff, gateway, mail, crashes>>

\* Bug: only claims whose request is queued are looked at.
ReleaseQueuedClaim(p, t) ==
    /\ p \in Workers /\ proc[p] = Idle
    /\ tx[t].status = "PROCESSING" /\ ~tx[t].submitted
    /\ \A q \in Procs : ~Holds(q, t)
    /\ request[tx[t].req] = "PENDING"
    /\ tx' = [tx EXCEPT ![t].status = "PENDING"]
    /\ UNCHANGED <<request, byStaff, gateway, proc, mail, crashes>>

\* A claim whose worker died before it submitted goes back to the queue.
ReleaseClaim(p, t) ==
    /\ p \in Workers /\ proc[p] = Idle
    /\ tx[t].status = "PROCESSING" /\ ~tx[t].submitted
    /\ \A q \in Procs : ~Holds(q, t)
    /\ tx' = [tx EXCEPT ![t].status = "PENDING"]
    /\ LET r == tx[t].req IN
       request' = IF request[r] = "PROCESSING"
                  THEN [request EXCEPT ![r] = "PENDING"] ELSE request
    /\ UNCHANGED <<byStaff, gateway, proc, mail, crashes>>

-----------------------------------------------------------------------------
(* The staff desk: processRefundRequest                                    *)

\* Bug: the transaction a queued request came with is not looked for.
ReadRequestOnly(p, r) ==
    /\ p \in Staff /\ proc[p] = Idle
    /\ request[r] = "PENDING"
    /\ r \in Waits => \A q \in Requests \ {r} : request[q] \notin Open
    /\ proc' = [proc EXCEPT ![p] = [pc |-> "read", req |-> r, tx |-> 0, seen |-> "clear"]]
    /\ UNCHANGED <<desk, gateway, mail, crashes>>

\* The request and its transactions are read; nothing is locked.
ReadRequest(p, r) ==
    /\ p \in Staff /\ proc[p] = Idle
    /\ request[r] = "PENDING"
    /\ r \in Waits => \A q \in Requests \ {r} : request[q] \notin Open
    /\ proc' = [proc EXCEPT ![p] =
            [pc |-> "read", req |-> r, tx |-> 0,
             seen |-> IF \E t \in TxsOf(r) : tx[t].status \in Active
                      THEN "uncertain" ELSE "clear"]]
    /\ UNCHANGED <<desk, gateway, mail, crashes>>

ClaimRequest(p) ==
    /\ p \in Staff /\ proc[p].pc = "read"
    /\ LET r == proc[p].req IN
       IF request[r] = "PENDING"
       THEN /\ request' = [request EXCEPT ![r] = "PROCESSING"]
            /\ byStaff' = [byStaff EXCEPT ![r] = TRUE]
            /\ proc' = [proc EXCEPT ![p].pc = "claimed"]
       ELSE /\ proc' = [proc EXCEPT ![p] = Idle]
            /\ UNCHANGED <<request, byStaff>>
    /\ UNCHANGED <<tx, gateway, mail, crashes>>

\* The desk saw a transaction whose result is open: it leaves the request claimed.
LeaveUncertain(p) ==
    /\ p \in Staff /\ proc[p].pc = "claimed" /\ proc[p].seen = "uncertain"
    /\ proc' = [proc EXCEPT ![p] = Idle]
    /\ UNCHANGED <<desk, gateway, mail, crashes>>

\* A transaction of its own, under the lock of the payment. The claim is undone if the
\* other refunds forbid it, those read before or those there now, or on any error.
CreateTransaction(p) ==
    /\ p \in Staff /\ proc[p].pc = "claimed" /\ proc[p].seen = "clear"
    /\ LET r == proc[p].req
           others == Txs \ TxsOf(r)
       IN
       \/ /\ \A u \in others : tx[u].status \notin Active
          /\ Fits(r, others)
          /\ \E t \in Txs :
            /\ NewTx(t)
            /\ tx' = [tx EXCEPT ![t] = Row(r, "PROCESSING", TRUE)]
            /\ proc' = [proc EXCEPT ![p].pc = "submitted", ![p].tx = t,
                                    ![p].seen = "PROCESSING"]
            /\ UNCHANGED <<request, byStaff>>
       \/ /\ IF request[r] = "PROCESSING" THEN Reopen(r)
                                            ELSE UNCHANGED <<request, byStaff>>
          /\ proc' = [proc EXCEPT ![p] = Idle]
          /\ UNCHANGED tx
    /\ UNCHANGED <<gateway, mail, crashes>>

\* The desk writes to the customer itself, then closes the outbox entry; if the
\* mail server refuses, the entry stays for the senders.
TellCustomer(p) ==
    /\ p \in Staff /\ proc[p].pc = "approved"
    /\ \/ /\ told' = told \union {proc[p].req}
          /\ outbox' = [outbox EXCEPT ![proc[p].req] = "SENT"]
       \/ UNCHANGED <<told, outbox>>
    /\ proc' = [proc EXCEPT ![p] = Idle]
    /\ UNCHANGED <<desk, gateway, sending, crashes>>

-----------------------------------------------------------------------------
(* The call to the gateway, made by a worker or a member of staff          *)

SendRefund(p) ==
    /\ proc[p].pc = "submitted"
    /\ proc' = [proc EXCEPT ![p].pc = "calling"]
    /\ gateway' = [gateway EXCEPT ![proc[p].tx] = IF @ = "none" THEN "sent" ELSE @]
    /\ UNCHANGED <<desk, mail, crashes>>

\* An error before the call was attempted: no money can have moved.
FailBeforeSend(p) ==
    /\ \/ proc[p].pc = "claimed" /\ p \in Workers
       \/ proc[p].pc = "submitted"
    /\ IF tx[proc[p].tx].status = "PROCESSING"
       THEN Fail(proc[p].tx) ELSE UNCHANGED desk
    /\ proc' = [proc EXCEPT ![p] = Idle]
    /\ UNCHANGED <<gateway, mail, crashes>>

\* VNPay decides a request it received, whether or not anyone still listens.
GatewayDecides(t) ==
    /\ gateway[t] = "sent"
    /\ \E outcome \in {"refunded", "declined"} :
        gateway' = [gateway EXCEPT ![t] = outcome]
    /\ UNCHANGED <<desk, proc, mail, crashes>>

Done(p) == proc' = [proc EXCEPT ![p] =
                IF p \in Staff THEN [Idle EXCEPT !.pc = "approved", !.req = proc[p].req]
                               ELSE Idle]
Quit(p) == proc' = [proc EXCEPT ![p] = Idle]

\* A signed 00/00: the refund is recorded. A worker or a reconciler that was
\* first makes this a success without effect.
AnswerRefunded(p) ==
    /\ proc[p].pc = "calling" /\ gateway[proc[p].tx] = "refunded"
    /\ LET t == proc[p].tx IN
       \/ Finalize(t, "ok") /\ Done(p)
       \/ /\ tx[t].status = "SUCCESS"
          /\ Done(p) /\ UNCHANGED <<desk, mail>>
    /\ UNCHANGED <<gateway, crashes>>

\* The answer came but the refund could not be recorded: a used ticket, an error
\* of the database, a row that another process ended as failed.
AnswerUnrecorded(p) ==
    /\ proc[p].pc = "calling" /\ gateway[proc[p].tx] = "refunded"
    /\ IF tx[proc[p].tx].status = "PROCESSING"
       THEN NeedsReconciliation(p, proc[p].tx, "ok") ELSE UNCHANGED desk
    /\ Quit(p)
    /\ UNCHANGED <<gateway, mail, crashes>>

AnswerDeclined(p) ==
    /\ proc[p].pc = "calling" /\ gateway[proc[p].tx] = "declined"
    /\ IF tx[proc[p].tx].status = "PROCESSING"
       THEN Fail(proc[p].tx) ELSE UNCHANGED desk
    /\ Quit(p)
    /\ UNCHANGED <<gateway, mail, crashes>>

\* Bug: no answer is taken for a refusal.
AnswerUnclearFails(p) ==
    /\ proc[p].pc = "calling"
    /\ IF tx[proc[p].tx].status = "PROCESSING"
       THEN Fail(proc[p].tx) ELSE UNCHANGED desk
    /\ Quit(p)
    /\ UNCHANGED <<gateway, mail, crashes>>

\* A timeout, a broken signature, a code that says "in progress".
AnswerUnclear(p) ==
    /\ proc[p].pc = "calling"
    /\ IF tx[proc[p].tx].status = "PROCESSING"
       THEN NeedsReconciliation(p, proc[p].tx, "none") ELSE UNCHANGED desk
    /\ Quit(p)
    /\ UNCHANGED <<gateway, mail, crashes>>

-----------------------------------------------------------------------------
(* Reconciliation: sweepRefundReconciliations and reconcileRefundRequest   *)

\* Among the candidates of its sweep the worker finds one with a recorded 00/00.
FindRecorded(p, t) ==
    /\ p \in Workers /\ proc[p] = Idle
    /\ tx[t].status \in Blocking /\ tx[t].submitted
    /\ tx[t].response \in {"ok", "echo"}
    /\ proc' = [proc EXCEPT ![p] =
            [pc |-> "recorded", req |-> tx[t].req, tx |-> t, seen |-> tx[t].response]]
    /\ UNCHANGED <<desk, gateway, mail, crashes>>

\* It only repeats the local transaction, which looks at the statuses again but not at
\* the codes, and leaves them. On an error the candidate waits for the next sweep.
FinalizeRecorded(p) ==
    /\ proc[p].pc = "recorded"
    /\ \/ Finalize(proc[p].tx, tx[proc[p].tx].response)
       \/ UNCHANGED <<desk, mail>>
    /\ Quit(p)
    /\ UNCHANGED <<gateway, crashes>>

StartQuery(p, t) ==
    /\ proc[p] = Idle
    /\ tx[t].status \in Blocking
    /\ \/ p \in Workers /\ tx[t].submitted /\ tx[t].response = "none"
       \/ /\ p \in Staff /\ request[tx[t].req] = "PROCESSING"
          /\ \A u \in TxsOf(tx[t].req) : tx[u].status \in Blocking => u =< t
    /\ proc' = [proc EXCEPT ![p] =
            [pc |-> "querying", req |-> tx[t].req, tx |-> t, seen |-> tx[t].status]]
    /\ UNCHANGED <<desk, gateway, mail, crashes>>

Unchanged(p) == tx[proc[p].tx].status = proc[p].seen

\* Bug: type and identity of the report are not compared.
QueryRefundedAny(p) ==
    /\ proc[p].pc = "querying"
    /\ IF Unchanged(p) /\ CanFinalize(proc[p].tx)
       THEN Finalize(proc[p].tx, "ok") /\ Done(p)
       ELSE Quit(p) /\ UNCHANGED <<desk, mail>>
    /\ UNCHANGED <<gateway, crashes>>

\* The report names this refund (type, amount, identity) and it went through.
QueryRefunded(p) ==
    /\ proc[p].pc = "querying" /\ gateway[proc[p].tx] = "refunded"
    /\ IF Unchanged(p) /\ CanFinalize(proc[p].tx)
       THEN Finalize(proc[p].tx, "ok") /\ Done(p)
       ELSE Quit(p) /\ UNCHANGED <<desk, mail>>
    /\ UNCHANGED <<gateway, crashes>>

QueryDeclined(p) ==
    /\ proc[p].pc = "querying" /\ gateway[proc[p].tx] = "declined"
    /\ IF Unchanged(p) THEN Fail(proc[p].tx) ELSE UNCHANGED desk
    /\ Quit(p)
    /\ UNCHANGED <<gateway, mail, crashes>>

\* The report is about the original payment, which is 00/00 ("echo"), or names no
\* refund: its codes are stored where those of the refund's own answer stand.
QueryUnclear(p, response) ==
    /\ proc[p].pc = "querying"
    /\ IF Unchanged(p)
       THEN /\ tx' = [tx EXCEPT ![proc[p].tx].response = response,
                                ![proc[p].tx].status =
                                    IF p \in Staff THEN "NEEDS_RECONCILIATION" ELSE @]
            /\ UNCHANGED <<request, byStaff>>
       ELSE UNCHANGED desk
    /\ Quit(p)
    /\ UNCHANGED <<gateway, mail, crashes>>

\* The query itself failed: staff flag the transaction, the worker tries later.
QueryFails(p) ==
    /\ proc[p].pc = "querying"
    /\ tx' = IF p \in Staff /\ Unchanged(p)
             THEN [tx EXCEPT ![proc[p].tx].status = "NEEDS_RECONCILIATION"] ELSE tx
    /\ Quit(p)
    /\ UNCHANGED <<request, byStaff, gateway, mail, crashes>>

\* An administrator ends an open refund by the evidence of VNPay, which is final:
\* the money moved, or it was refused, or nobody is left who could ask for it.
Adjudicate(t) ==
    /\ tx[t].status \in Blocking
    /\ request[tx[t].req] = "PROCESSING"
    /\ \A u \in TxsOf(tx[t].req) \ {t} : tx[u].status \notin Blocking
    /\ \/ /\ gateway[t] = "refunded"
          /\ Finalize(t, "ok")
       \/ /\ \/ gateway[t] = "declined"
             \/ gateway[t] = "none" /\ \A p \in Procs : ~Holds(p, t)
          /\ Fail(t)
          /\ UNCHANGED mail
    /\ UNCHANGED <<gateway, proc, crashes>>

-----------------------------------------------------------------------------
(* The notification outbox                                                 *)

\* Bug: a claim that was never finished is not taken over.
ClaimPendingRow(s, r) ==
    /\ sending[s] = None
    /\ outbox[r] = "PENDING"
    /\ outbox' = [outbox EXCEPT ![r] = "PROCESSING"]
    /\ sending' = [sending EXCEPT ![s] = r]
    /\ UNCHANGED <<desk, gateway, proc, told, crashes>>

\* A due row, or one whose claim has expired, is claimed; there is no fencing.
ClaimOutboxRow(s, r) ==
    /\ sending[s] = None
    /\ outbox[r] \in {"PENDING", "PROCESSING"}
    /\ outbox' = [outbox EXCEPT ![r] = "PROCESSING"]
    /\ sending' = [sending EXCEPT ![s] = r]
    /\ UNCHANGED <<desk, gateway, proc, told, crashes>>

Deliver(s) ==
    /\ sending[s] # None
    /\ request[sending[s]] = "APPROVED"
    /\ told' = told \union {sending[s]}
    /\ outbox' = [outbox EXCEPT ![sending[s]] = IF @ = "PROCESSING" THEN "SENT" ELSE @]
    /\ sending' = [sending EXCEPT ![s] = None]
    /\ UNCHANGED <<desk, gateway, proc, crashes>>

DeliveryFails(s) ==
    /\ sending[s] # None
    /\ outbox' = [outbox EXCEPT ![sending[s]] = IF @ = "PROCESSING" THEN "PENDING" ELSE @]
    /\ sending' = [sending EXCEPT ![s] = None]
    /\ UNCHANGED <<desk, gateway, proc, told, crashes>>

-----------------------------------------------------------------------------
(* Deaths                                                                  *)

Crash(p) ==
    /\ proc[p] # Idle /\ crashes < MaxCrash
    /\ crashes' = crashes + 1
    /\ Quit(p)
    /\ UNCHANGED <<desk, gateway, mail>>

\* The sender dies before or after the mail went out.
SenderCrash(s) ==
    /\ sending[s] # None /\ crashes < MaxCrash
    /\ crashes' = crashes + 1
    /\ sending' = [sending EXCEPT ![s] = None]
    /\ told' \in {told, told \union {sending[s]}}
    /\ UNCHANGED <<desk, gateway, proc, outbox>>

-----------------------------------------------------------------------------

Step(p) ==
    \/ Submit(p) \/ SendRefund(p) \/ FailBeforeSend(p)
    \/ AnswerRefunded(p) \/ AnswerUnrecorded(p) \/ AnswerDeclined(p) \/ AnswerUnclear(p)
    \/ FinalizeRecorded(p) \/ QueryRefunded(p) \/ QueryDeclined(p) \/ QueryFails(p)
    \/ \E response \in {"echo", "none"} : QueryUnclear(p, response)

StaffStep(p) ==
    \/ \E r \in Requests : ReadRequest(p, r)
    \/ ClaimRequest(p) \/ LeaveUncertain(p) \/ CreateTransaction(p) \/ TellCustomer(p)

Sweep(p) ==
    \E t \in Txs : ClaimPending(p, t) \/ ReleaseClaim(p, t) \/ FindRecorded(p, t)

Send(s) == (\E r \in Requests : ClaimOutboxRow(s, r)) \/ Deliver(s) \/ DeliveryFails(s)

Next ==
    \/ \E r \in Requests : QueueRefund(r) \/ CreateRefundRequest(r)
    \/ \E p \in Procs : Step(p) \/ StaffStep(p) \/ Sweep(p) \/ Crash(p)
    \/ \E p \in Procs, t \in Txs : StartQuery(p, t)
    \/ \E t \in Txs : GatewayDecides(t) \/ Adjudicate(t)
    \/ \E s \in Senders : Send(s) \/ SenderCrash(s)

\* Each run of a timer visits every candidate it read, a call ends by its timeout,
\* and the mail server does not refuse for ever.
Fairness ==
    /\ \A p \in Workers : WF_vars(Step(p))
    /\ \A p \in Workers, t \in Txs : SF_vars(ReleaseClaim(p, t))
    /\ \A s \in Senders, r \in Requests :
        SF_vars(ClaimOutboxRow(s, r)) /\ SF_vars(sending[s] = r /\ Deliver(s))

Spec == Init /\ [][Next]_vars /\ Fairness

-----------------------------------------------------------------------------
(* What must hold                                                          *)

\* Every row of the desk, every process and every notification has a value the
\* schema and the handlers know.
TypeOK ==
    /\ request \in [Requests -> Open \union {"NONE", "APPROVED"}]
    /\ byStaff \in [Requests -> BOOLEAN]
    /\ tx \in [Txs -> [req : Requests \union {None}, status : Statuses \union {"NONE"},
                        submitted : BOOLEAN, response : {"none", "ok", "echo"}]]
    /\ gateway \in [Txs -> {"none", "sent", "refunded", "declined"}]
    /\ proc \in [Procs -> [pc : {"idle", "read", "claimed", "submitted", "calling",
                                 "recorded", "querying", "approved"},
                           req : Requests \union {None}, tx : Txs \union {0},
                           seen : Blocking \union {"uncertain", "clear", "ok", "echo", "-"}]]
    /\ outbox \in [Requests -> {"NONE", "PENDING", "PROCESSING", "SENT"}]
    /\ sending \in [Senders -> Requests \union {None}]
    /\ told \subseteq Requests
    /\ crashes \in 0..MaxCrash

\* A transaction recorded as failed moved no money and never will: staff may try
\* its request again (refundWorker and processRefundRequest reopen it).
FailedIsUnpaid ==
    \A t \in Txs : tx[t].status = "FAILED" => gateway[t] \in {"none", "declined"}

\* At most one transaction of a request ever moves money, however answers are
\* lost, queries race and staff retry.
PaidOnce ==
    \A t, u \in Txs :
        /\ gateway[t] = "refunded" /\ gateway[u] = "refunded"
        /\ tx[t].req = tx[u].req
        => t = u

\* A refund that is closed although VNPay moved no money is closed by a worker that
\* had read the codes of the original payment as its own (sweepRefundReconciliations),
\* whether or not they are still there; no answer, query or adjudication does this.
ReadAsEcho(p, t) == proc[p].pc = "recorded" /\ proc[p].tx = t /\ proc[p].seen = "echo"
UnpaidApprovalsAreEchoes ==
    [][\A t \in Txs :
        tx[t].status # "SUCCESS" /\ tx'[t].status = "SUCCESS" /\ gateway[t] # "refunded"
        => \E p \in Workers : ReadAsEcho(p, t) /\ proc'[p] = Idle]_vars

\* What the worker's comment claims: a refund is closed on a 00/00 of that refund,
\* so the money of a closed request has left.
ApprovedIsPaid ==
    \A r \in Requests : request[r] = "APPROVED" => \E t \in TxsOf(r) : gateway[t] = "refunded"

\* A request nobody will move again, in PROCESSING without an open transaction,
\* was left so by the staff desk; neither a worker nor a reconciler strands one.
OnlyStaffStrandsRequests ==
    \A r \in Requests :
        request[r] = "PROCESSING" /\ (\A t \in TxsOf(r) : tx[t].status \notin Active)
        => byStaff[r]

\* A claim whose worker died is taken up again, by any worker.
ClaimIsReleased ==
    \A t \in Txs :
        tx[t].status = "PROCESSING" /\ ~tx[t].submitted
        ~> tx[t].status # "PROCESSING" \/ tx[t].submitted

\* The customer of every closed refund is told in the end.
ApprovedIsTold == \A r \in Requests : request[r] = "APPROVED" ~> r \in told

\* VNPay never pays back more than the payment brought in, although the worker and
\* the staff desk read the balance apart from each other and from the answers that
\* are still under way (claimPendingRefundTransaction, assertRefundCanBeSubmitted).
PaidBackWithinCaptured ==
    Cardinality(Coins({t \in Txs : gateway[t] = "refunded"})) =< Captured

\* One refund of the payment is under way at a time, whoever claimed it and however
\* its answer is delayed: what lockRefundPayment and lockPaymentForRefund are for.
OneInFlight ==
    \A t, u \in Txs : tx[t].status \in Blocking /\ tx[u].status \in Blocking => t = u

\* A transaction that succeeded or failed stays as it ended, and an approved request
\* stays approved: no late answer, query or release revives it.
EndedStays ==
    [][ /\ \A t \in Txs : tx[t].status \in {"SUCCESS", "FAILED"}
                            => tx'[t].status = tx[t].status /\ tx'[t].req = tx[t].req
        /\ \A r \in Requests : request[r] = "APPROVED" => request'[r] = "APPROVED" ]_vars

\* The promise of the refund desk.
Contract == INSTANCE RefundContract WITH
    paid <- [r \in Requests |->
                Cardinality({t \in TxsOf(r) : gateway[t] = "refunded"})],
    closed <- {r \in Requests : request[r] = "APPROVED"},
    told <- told
RefundContractHolds == Contract!ContractSpec
=============================================================================
