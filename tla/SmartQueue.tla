----------------------------- MODULE SmartQueue -----------------------------
(***************************************************************************)
(* The gate of one attraction on one visiting day: customers join the      *)
(* virtual queue, the worker and the staff call them, the partner pauses   *)
(* and resumes the queue, tickets are scanned, bookings are cancelled and  *)
(* refunded, and the workers close what is left over.                      *)
(* Every handler is one serializable transaction, except the completion    *)
(* sweep, which reads twice and then writes one batch.                     *)
(***************************************************************************)
EXTENDS Naturals, FiniteSets, Sequences, FiniteSetsExt

CONSTANTS
    Parties,        \* the bookings of the day
    Quantity,       \* tickets of each booking
    MaxReadyParties, MaxReadyGuests, MaxActiveParties,  \* the partner's policy
    Grace,          \* how long a called party may take to the gate
    CallFrom,       \* 15 minutes before the visit
    Start, Close,   \* the visit
    DayEnd,         \* midnight
    Slack,          \* how long a transaction may take after it read the clock
    MaxTime, MaxPause           \* bounds: the clock, pauses

ASSUME QueueAssumption ==
    /\ IsFiniteSet(Parties) /\ Quantity \in [Parties -> Nat \ {0}]
    /\ {MaxReadyParties, MaxReadyGuests, MaxActiveParties, Grace} \subseteq Nat \ {0}
    /\ {CallFrom, Start, Close, DayEnd, Slack, MaxTime, MaxPause} \subseteq Nat
    /\ CallFrom =< Start /\ Start < Close /\ Close < DayEnd

VARIABLES
    now,
    booking,    \* status of each booking
    valid,      \* how many of its tickets open the gate
    used,       \* how many have been scanned
    late,       \* bookings scanned by a transaction that ended after the visit
    entry,      \* its place in the queue
    line,       \* the parties in the order they joined
    deadline,   \* when the call of a party runs out
    open,       \* history: the time a called party had while the queue was open
    enabled,    \* the partner runs the queue
    pausedAt,   \* {} or the time the queue was paused
    pauses,
    sweep       \* what the completion sweep has read

tickets == <<booking, valid, used, late>>
queue == <<entry, line, deadline, open>>
policy == <<enabled, pausedAt, pauses>>
vars == <<now, booking, valid, used, late, entry, line, deadline, open,
          enabled, pausedAt, pauses, sweep>>

Active == {"WAITING", "READY"}
Final == {"ADMITTED", "NO_SHOW", "CANCELLED", "EXPIRED"}
Least(m, n) == IF m < n THEN m ELSE n
Asleep == [pc |-> "idle", served |-> {}, unused |-> {}]

Init ==
    /\ now = 0
    /\ booking = [b \in Parties |-> "CONFIRMED"]
    /\ valid = Quantity
    /\ used = [b \in Parties |-> 0]
    /\ late = {}
    /\ entry = [b \in Parties |-> "NONE"]
    /\ line = <<>>
    /\ deadline = [b \in Parties |-> 0]
    /\ open = [b \in Parties |-> 0]
    /\ enabled = FALSE /\ pausedAt = {} /\ pauses = 0
    /\ sweep = Asleep

Paused == pausedAt # {}

Tick ==
    /\ now < MaxTime
    /\ now' = now + 1
    /\ open' = [b \in Parties |->
                    IF entry[b] = "READY" /\ ~Paused THEN Least(open[b] + 1, Grace)
                    ELSE open[b]]
    /\ UNCHANGED <<tickets, entry, line, deadline, policy, sweep>>

-----------------------------------------------------------------------------
(* The partner's policy                                                    *)

ActiveParties == {b \in Parties : entry[b] \in Active /\ now < Close}

Enable ==
    /\ ~enabled /\ enabled' = TRUE
    /\ UNCHANGED <<now, tickets, queue, pausedAt, pauses, sweep>>

\* Nobody may be left standing in a queue that is switched off.
Disable ==
    /\ enabled /\ ActiveParties = {}
    /\ enabled' = FALSE
    /\ UNCHANGED <<now, tickets, queue, pausedAt, pauses, sweep>>

\* Bug: a repeated request moves the start of the pause.
PauseAgain ==
    /\ enabled /\ (Paused \/ pauses < MaxPause)
    /\ pausedAt' = {now} /\ pauses' = IF Paused THEN pauses ELSE pauses + 1
    /\ UNCHANGED <<now, tickets, queue, enabled, sweep>>

\* A repeated request changes nothing.
Pause ==
    /\ enabled /\ ~Paused /\ pauses < MaxPause
    /\ pausedAt' = {now} /\ pauses' = pauses + 1
    /\ UNCHANGED <<now, tickets, queue, enabled, sweep>>

\* Bug: everybody who was called gets a fresh call.
ResumeFresh ==
    /\ enabled /\ Paused
    /\ pausedAt' = {}
    /\ deadline' = [b \in Parties |->
            IF entry[b] = "READY" /\ now < Close THEN Least(Close, now + Grace)
            ELSE deadline[b]]
    /\ UNCHANGED <<now, tickets, entry, line, open, enabled, pauses, sweep>>

\* The pause is added to the deadline of every called party.
Resume ==
    /\ enabled /\ Paused
    /\ pausedAt' = {}
    /\ deadline' = [b \in Parties |->
            IF entry[b] = "READY" /\ now < Close
            THEN Least(Close, deadline[b] + (now - Max(pausedAt))) ELSE deadline[b]]
    /\ UNCHANGED <<now, tickets, entry, line, open, enabled, pauses, sweep>>

-----------------------------------------------------------------------------
(* The queue                                                               *)

\* A booking joins once a day, while it is confirmed and nobody of it is inside.
Join(b) ==
    /\ enabled /\ ~Paused
    /\ booking[b] = "CONFIRMED" /\ used[b] = 0
    /\ now < Close
    /\ entry[b] = "NONE"
    /\ Cardinality(ActiveParties) < MaxActiveParties
    /\ entry' = [entry EXCEPT ![b] = "WAITING"]
    /\ line' = Append(line, b)
    /\ UNCHANGED <<now, tickets, deadline, open, policy, sweep>>

WaitingAhead(b) ==
    \E i, j \in 1..Len(line) : i < j /\ line[j] = b /\ entry[line[i]] = "WAITING"

LiveReady == {b \in Parties : entry[b] = "READY" /\ deadline[b] > now}

\* The guests of some parties, one element each.
People(ready) == UNION {{b} \X (1 .. Quantity[b]) : b \in ready}
Guests(ready) == Cardinality(People(ready))

\* The worker's automatic call and the staff's call: first come, first called, and
\* only as many as the gate can take in.
Call(b) ==
    /\ enabled /\ ~Paused
    /\ entry[b] = "WAITING" /\ booking[b] = "CONFIRMED" /\ used[b] = 0
    /\ CallFrom =< now /\ now < Close
    /\ ~WaitingAhead(b)
    /\ Cardinality(LiveReady) < MaxReadyParties
    /\ Guests(LiveReady) + Quantity[b] =< MaxReadyGuests
    /\ entry' = [entry EXCEPT ![b] = "READY"]
    /\ deadline' = [deadline EXCEPT ![b] = Least(Close, now + Grace)]
    /\ UNCHANGED <<now, tickets, line, open, policy, sweep>>

\* Bug: the entry that was read active is closed whatever it has become.
LeaveRead(b) ==
    /\ entry[b] # "NONE"
    /\ entry' = [entry EXCEPT ![b] = "CANCELLED"]
    /\ UNCHANGED <<now, tickets, line, deadline, open, policy, sweep>>

Leave(b) ==
    /\ entry[b] \in Active
    /\ entry' = [entry EXCEPT ![b] = "CANCELLED"]
    /\ UNCHANGED <<now, tickets, line, deadline, open, policy, sweep>>

\* By the staff or by the worker; never while the queue is paused.
MarkNoShow(b) ==
    /\ enabled /\ ~Paused
    /\ entry[b] = "READY" /\ deadline[b] =< now
    /\ entry' = [entry EXCEPT ![b] = "NO_SHOW"]
    /\ UNCHANGED <<now, tickets, line, deadline, open, policy, sweep>>

\* The worker closes the entry of a booking that is no longer confirmed.
CloseInvalidated(b) ==
    /\ entry[b] \in Active /\ booking[b] # "CONFIRMED" /\ used[b] = 0
    /\ entry' = [entry EXCEPT ![b] = "CANCELLED"]
    /\ UNCHANGED <<now, tickets, line, deadline, open, policy, sweep>>

\* Bug: a paused queue keeps its entries.
ExpireOpen(b) ==
    /\ ~Paused
    /\ entry[b] \in Active /\ now >= Close
    /\ entry' = [entry EXCEPT ![b] = "EXPIRED"]
    /\ UNCHANGED <<now, tickets, line, deadline, open, policy, sweep>>

\* The worker closes the entries of a visit that is over.
Expire(b) ==
    /\ entry[b] \in Active /\ now >= Close
    /\ entry' = [entry EXCEPT ![b] = "EXPIRED"]
    /\ UNCHANGED <<now, tickets, line, deadline, open, policy, sweep>>

-----------------------------------------------------------------------------
(* Tickets                                                                 *)

\* Bug: the scanned ticket keeps opening the gate.
CheckInKeepsTicket(b) ==
    /\ Start =< now /\ now =< Close + Slack
    /\ booking[b] = "CONFIRMED" /\ valid[b] > 0
    /\ used' = [used EXCEPT ![b] = @ + 1]
    /\ late' = IF now > Close THEN late \union {b} ELSE late
    /\ entry' = [entry EXCEPT ![b] = IF @ = "NONE" THEN @ ELSE "ADMITTED"]
    /\ UNCHANGED <<now, booking, valid, line, deadline, open, policy, sweep>>

\* The clock is read first, so the transaction may end a little later.
CheckInTicket(b) ==
    /\ Start =< now /\ now =< Close + Slack
    /\ booking[b] = "CONFIRMED" /\ valid[b] > 0
    /\ valid' = [valid EXCEPT ![b] = @ - 1]
    /\ used' = [used EXCEPT ![b] = @ + 1]
    /\ booking' = [booking EXCEPT ![b] = IF valid[b] = 1 THEN "COMPLETED" ELSE @]
    /\ late' = IF now > Close THEN late \union {b} ELSE late
    /\ entry' = [entry EXCEPT ![b] = IF @ = "NONE" THEN @ ELSE "ADMITTED"]
    /\ UNCHANGED <<now, line, deadline, open, policy, sweep>>

\* The customer cancels; the tickets stay as they are until the money is back.
CreateRefundRequest(b) ==
    /\ booking[b] = "CONFIRMED" /\ used[b] = 0 /\ now < Start
    /\ booking' = [booking EXCEPT ![b] = "REFUND_REQUESTED"]
    /\ UNCHANGED <<now, valid, used, late, queue, policy, sweep>>

\* The partner cancels, or the attraction is suspended.
CancelConfirmed(b) ==
    /\ booking[b] = "CONFIRMED" /\ used[b] = 0 /\ now < Start
    /\ booking' = [booking EXCEPT ![b] = "CANCELLED"]
    /\ valid' = [valid EXCEPT ![b] = 0]
    /\ UNCHANGED <<now, used, late, queue, policy, sweep>>

FinalizeRefund(b) ==
    /\ booking[b] \in {"REFUND_REQUESTED", "CANCELLED"} /\ used[b] = 0
    /\ booking' = [booking EXCEPT ![b] = "REFUNDED"]
    /\ valid' = [valid EXCEPT ![b] = 0]
    /\ UNCHANGED <<now, used, late, queue, policy, sweep>>

-----------------------------------------------------------------------------
(* sweepCompletedBookings                                                  *)

FindCompleted ==
    /\ sweep = Asleep /\ now >= DayEnd
    /\ sweep' = [Asleep EXCEPT !.pc = "completed", !.served =
            {b \in Parties : booking[b] = "CONFIRMED" /\ used[b] # 0}]
    /\ UNCHANGED <<now, tickets, queue, policy>>

FindNoShows ==
    /\ sweep.pc = "completed"
    /\ sweep' = [sweep EXCEPT !.pc = "noShows", !.unused =
            {b \in Parties : booking[b] = "CONFIRMED" /\ used[b] = 0}]
    /\ UNCHANGED <<now, tickets, queue, policy>>

\* Tickets are taken from every booking that was found.
UpdateFound ==
    /\ sweep.pc = "noShows"
    /\ sweep' = Asleep
    /\ booking' = [b \in Parties |->
            IF booking[b] # "CONFIRMED" THEN booking[b]
            ELSE IF b \in sweep.served THEN "COMPLETED"
            ELSE IF b \in sweep.unused THEN "NO_SHOW" ELSE "CONFIRMED"]
    /\ valid' = [b \in Parties |->
            IF b \in sweep.served \union sweep.unused THEN 0 ELSE valid[b]]
    /\ UNCHANGED <<now, used, late, queue, policy>>

-----------------------------------------------------------------------------

PartyStep(b) ==
    \/ Join(b) \/ Call(b) \/ Leave(b) \/ MarkNoShow(b)
    \/ CloseInvalidated(b) \/ Expire(b)
    \/ CheckInTicket(b)
    \/ CreateRefundRequest(b) \/ CancelConfirmed(b) \/ FinalizeRefund(b)

Next ==
    \/ Tick \/ Enable \/ Disable \/ Pause \/ Resume
    \/ FindCompleted \/ FindNoShows \/ UpdateFound
    \/ \E b \in Parties : PartyStep(b)

\* Time goes by, and the worker visits every entry of the queue again and again.
Fairness ==
    /\ WF_vars(Tick)
    /\ \A b \in Parties : WF_vars(CloseInvalidated(b)) /\ WF_vars(Expire(b))

Spec == Init /\ [][Next]_vars /\ Fairness

-----------------------------------------------------------------------------
(* What must hold                                                          *)

\* Every row has a value the schema knows, and the line is who has joined.
TypeOK ==
    /\ now \in 0..MaxTime
    /\ booking \in [Parties -> {"CONFIRMED", "COMPLETED", "NO_SHOW",
                                "REFUND_REQUESTED", "CANCELLED", "REFUNDED"}]
    /\ valid \in [Parties -> Nat] /\ used \in [Parties -> Nat]
    /\ \A b \in Parties : valid[b] + used[b] =< Quantity[b]
    /\ late \subseteq Parties
    /\ entry \in [Parties -> Active \union Final \union {"NONE"}]
    /\ {line[i] : i \in 1..Len(line)} = {b \in Parties : entry[b] # "NONE"}
    /\ deadline \in [Parties -> 0..Close] /\ open \in [Parties -> 0..Grace]
    /\ enabled \in BOOLEAN
    /\ pausedAt \subseteq 0..now /\ Cardinality(pausedAt) =< 1 /\ pauses \in 0..MaxPause
    /\ sweep.pc \in {"idle", "completed", "noShows"}
    /\ sweep.served \subseteq Parties /\ sweep.unused \subseteq Parties

\* The parties that may come to the gate now, or when a paused queue goes on.
Called ==
    {b \in Parties : entry[b] = "READY" /\
                     deadline[b] > (IF Paused THEN Max(pausedAt) ELSE now)}

\* The gate is never promised to more parties or guests than the policy lets in, and
\* a pause does not bring back a call that had run out (refreshQueueRecord,
\* transitionQueueEntry, setQueuePause).
GateWithinCapacity ==
    now < Close =>
        /\ Cardinality(Called) =< MaxReadyParties
        /\ Guests(Called) =< MaxReadyGuests

\* A scan decides: no cancellation, call or no-show that races it leaves the entry
\* of a scanned booking in another state (markQueueAdmittedForBooking).
ScannedIsAdmitted ==
    \A b \in Parties :
        /\ used[b] # 0 => entry[b] \in {"NONE", "ADMITTED"}
        /\ entry[b] = "ADMITTED" => used[b] # 0

\* Who was let in is not paid back, and keeps a booking that was served; the sweep
\* calls a visitor a no-show only if the scan ended after the visit was over.
ScannedIsServed ==
    \A b \in Parties :
        /\ used[b] # 0 => booking[b] \in {"CONFIRMED", "COMPLETED", "NO_SHOW"}
        /\ used[b] # 0 /\ booking[b] = "NO_SHOW" => b \in late
        /\ booking[b] = "COMPLETED" => used[b] # 0

\* What checkInTicket commits stands against everything that runs beside it.
CheckInsStick == ScannedIsAdmitted /\ ScannedIsServed

\* Nobody is called past a party that joined before and still waits, whoever calls,
\* whichever parties leave or lose their turn meanwhile
\* (queueAheadWhere, transitionQueueEntry).
NobodyIsOvertaken ==
    \A i, j \in 1..Len(line) :
        i < j /\ entry[line[j]] \in {"READY", "NO_SHOW"} => entry[line[i]] # "WAITING"

\* A called party loses its turn only after it had the time it was promised, not
\* counting pauses, or when the visit is over (setQueuePause, MarkNoShow).
NoShowHadItsTime ==
    [][\A b \in Parties :
        entry[b] = "READY" /\ entry'[b] = "NO_SHOW" => open[b] >= Grace \/ now >= Close]_vars

\* Nobody waits for ever, even in a queue that stays paused (sweepSmartQueues).
EveryEntryCloses == \A b \in Parties : entry[b] \in Active ~> entry[b] \notin Active
=============================================================================
