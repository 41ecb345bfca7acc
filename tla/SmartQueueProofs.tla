-------------------------- MODULE SmartQueueProofs --------------------------
(***************************************************************************)
(* The gate of SmartQueue.tla, for any parties, policy, hours and pauses.  *)
(*                                                                         *)
(*   TypeInv   values, and a paused queue has one start of its pause;      *)
(*   GateInv   the called parties fit, as a finite set of people;          *)
(*   ScanInv   what the completion sweep has read and what scans do to it; *)
(*   TurnInv   what a call has promised and what was kept of it.           *)
(***************************************************************************)
EXTENDS SmartQueue, FiniteSetTheorems, TLAPS

TicketType ==
    /\ booking \in [Parties -> {"CONFIRMED", "COMPLETED", "NO_SHOW",
                                "REFUND_REQUESTED", "CANCELLED", "REFUNDED"}]
    /\ valid \in [Parties -> Nat] /\ used \in [Parties -> Nat]
    /\ \A b \in Parties : valid[b] + used[b] =< Quantity[b]
    /\ late \subseteq Parties

EntryType ==
    /\ entry \in [Parties -> Active \union Final \union {"NONE"}]
    /\ line \in Seq(Parties)
    /\ {line[i] : i \in 1..Len(line)} = {b \in Parties : entry[b] # "NONE"}

TimeType ==
    /\ now \in 0..MaxTime
    /\ deadline \in [Parties -> 0..Close] /\ open \in [Parties -> 0..Grace]

PolicyType ==
    /\ enabled \in BOOLEAN /\ pauses \in 0..MaxPause
    /\ Paused => \E t \in 0..now : pausedAt = {t}

SweepType ==
    sweep \in [pc : {"idle", "completed", "noShows"},
               served : SUBSET Parties, unused : SUBSET Parties]

TypeInv == TicketType /\ EntryType /\ TimeType /\ PolicyType /\ SweepType

\* The constants are numbers the arithmetic below needs.
LEMMA Numbers ==
    /\ \A b \in Parties : Quantity[b] \in Nat /\ Quantity[b] >= 1
    /\ Grace \in Nat /\ MaxReadyParties \in Nat /\ MaxReadyGuests \in Nat
    /\ Start \in Nat /\ Close \in Nat /\ DayEnd \in Nat /\ Slack \in Nat
    /\ MaxTime \in Nat /\ MaxPause \in Nat /\ Close < DayEnd
BY QueueAssumption

\* The start of a pause is the one time there is.
LEMMA PauseStart ==
    ASSUME NEW t \in Nat
    PROVE  Max({t}) = t
BY DEF Max

\* The smaller of two times.
LEMMA LeastOf ==
    ASSUME NEW m \in Nat, NEW n \in Nat
    PROVE  Least(m, n) \in Nat /\ Least(m, n) =< m /\ Least(m, n) =< n
           /\ (Least(m, n) = m \/ Least(m, n) = n)
BY DEF Least

-----------------------------------------------------------------------------
(* Types *)

\* Tickets are scanned, taken away or left alone.
LEMMA TicketTypeStep ==
    ASSUME TypeInv, [Next]_vars
    PROVE  TicketType'
<1> USE DEF TypeInv, TicketType
<1>1. CASE UNCHANGED tickets
  BY <1>1 DEF tickets
<1>2. ASSUME NEW b \in Parties, CheckInTicket(b)
      PROVE  TicketType'
  <2>1. valid[b] \in Nat /\ valid[b] > 0 /\ used[b] \in Nat /\ Quantity[b] \in Nat
    BY <1>2, Numbers DEF CheckInTicket
  <2> QED
    BY <1>2, <2>1 DEF CheckInTicket
<1>3. ASSUME NEW b \in Parties, CreateRefundRequest(b)
      PROVE  TicketType'
  BY <1>3 DEF CreateRefundRequest
<1>4. ASSUME NEW b \in Parties, CancelConfirmed(b)
      PROVE  TicketType'
  BY <1>4, Numbers DEF CancelConfirmed
<1>5. ASSUME NEW b \in Parties, FinalizeRefund(b)
      PROVE  TicketType'
  BY <1>5, Numbers DEF FinalizeRefund
<1>6. CASE UpdateFound
  BY <1>6, Numbers DEF UpdateFound
<1> QED
  BY <1>1, <1>2, <1>3, <1>4, <1>5, <1>6
  DEF Next, vars, tickets, PartyStep, Tick, Enable, Disable, Pause, Resume, FindCompleted,
      FindNoShows, Join, Call, Leave, MarkNoShow, CloseInvalidated, Expire

\* An entry appears only with its place in the line, and never disappears.
LEMMA EntryTypeStep ==
    ASSUME TypeInv, [Next]_vars
    PROVE  EntryType'
<1> USE DEF TypeInv, EntryType
<1>1. CASE UNCHANGED <<entry, line>>
  BY <1>1
<1>2. ASSUME NEW b \in Parties, Join(b)
      PROVE  EntryType'
  <2>1. /\ entry' = [entry EXCEPT ![b] = "WAITING"]
        /\ line' = Append(line, b)
    BY <1>2 DEF Join
  <2>2. line' \in Seq(Parties) /\ Len(line') = Len(line) + 1 /\ Len(line) \in Nat
    BY <2>1
  <2>3. \A i \in 1..Len(line) : line'[i] = line[i]
    BY <2>1, <2>2
  <2>4. line'[Len(line) + 1] = b
    BY <2>1, <2>2
  <2>5. 1..Len(line') = (1..Len(line)) \union {Len(line) + 1}
    BY <2>2
  <2>6. {line'[i] : i \in 1..Len(line')} = {line[i] : i \in 1..Len(line)} \union {b}
    BY <2>3, <2>4, <2>5
  <2>7. {c \in Parties : entry'[c] # "NONE"} = {c \in Parties : entry[c] # "NONE"} \union {b}
    BY <2>1
  <2>8. entry' \in [Parties -> Active \union Final \union {"NONE"}]
    BY <2>1 DEF Active
  <2> QED
    BY <2>2, <2>6, <2>7, <2>8
<1>3. ASSUME NEW b \in Parties, NEW status \in (Active \union Final) ,
             entry[b] # "NONE", entry' = [entry EXCEPT ![b] = status], UNCHANGED line
      PROVE  EntryType'
  <2>1. {c \in Parties : entry'[c] # "NONE"} = {c \in Parties : entry[c] # "NONE"}
    BY <1>3 DEF Active, Final
  <2> QED
    BY <1>3, <2>1
<1>4. ASSUME NEW b \in Parties,
             Call(b) \/ Leave(b) \/ MarkNoShow(b) \/ CloseInvalidated(b) \/ Expire(b)
      PROVE  EntryType'
  BY <1>3, <1>4
  DEF Call, Leave, MarkNoShow, CloseInvalidated, Expire, Active, Final
<1>5. ASSUME NEW b \in Parties, CheckInTicket(b)
      PROVE  EntryType'
  <2>1. CASE entry[b] = "NONE"
    BY <1>1, <1>5, <2>1 DEF CheckInTicket
  <2>2. CASE entry[b] # "NONE"
    BY <1>3, <1>5, <2>2 DEF CheckInTicket, Final
  <2> QED
    BY <2>1, <2>2
<1> QED
  BY <1>1, <1>2, <1>4, <1>5
  DEF Next, vars, queue, PartyStep, Tick, Enable, Disable, Pause, Resume, FindCompleted,
      FindNoShows, UpdateFound, CreateRefundRequest, CancelConfirmed, FinalizeRefund

\* Deadlines stay within the visit, and the time that is counted within the call.
LEMMA TimeTypeStep ==
    ASSUME TypeInv, [Next]_vars
    PROVE  TimeType'
<1> USE DEF TypeInv, TimeType
<1>1. CASE UNCHANGED <<now, deadline, open>>
  BY <1>1
<1>2. CASE Tick
  BY <1>2, Numbers, LeastOf DEF Tick, tickets, policy
<1>3. CASE Resume
  <2>1. PICK t \in 0..now : pausedAt = {t}
    BY <1>3 DEF Resume, PolicyType
  <2>2. Max(pausedAt) = t /\ now - t \in Nat
    BY <2>1, PauseStart
  <2>3. ASSUME NEW b \in Parties
        PROVE  Least(Close, deadline[b] + (now - t)) \in 0..Close
    <3>1. deadline[b] + (now - t) \in Nat /\ Close \in Nat
      BY <2>2, Numbers
    <3> QED
      BY <3>1, LeastOf
  <2> QED
    BY <1>3, <2>2, <2>3 DEF Resume
<1>4. ASSUME NEW b \in Parties, Call(b)
      PROVE  TimeType'
  <2>1. now + Grace \in Nat /\ Close \in Nat
    BY Numbers
  <2>2. Least(Close, now + Grace) \in 0..Close
    BY <2>1, LeastOf
  <2> QED
    BY <1>4, <2>2 DEF Call
<1>5. CASE Enable \/ Disable \/ Pause \/ FindCompleted \/ FindNoShows \/ UpdateFound
  BY <1>1, <1>5 
  DEF Enable, Disable, Pause, FindCompleted, FindNoShows, UpdateFound, queue
<1>6. CASE UNCHANGED vars
  BY <1>1, <1>6 DEF vars, queue
<1> QED
  BY <1>1, <1>2, <1>3, <1>4, <1>5, <1>6
  DEF Next, PartyStep, queue, Join, Leave, MarkNoShow, CloseInvalidated, Expire, CheckInTicket,
      CreateRefundRequest, CancelConfirmed, FinalizeRefund

\* A pause starts now, and the clock does not run back.
LEMMA PolicyTypeStep ==
    ASSUME TypeInv, [Next]_vars
    PROVE  PolicyType'
<1> USE DEF TypeInv, PolicyType, Paused
<1>1. CASE UNCHANGED <<now, enabled, pausedAt, pauses>>
  BY <1>1
<1>2. CASE Tick
  BY <1>2, Numbers DEF Tick, policy, TimeType
<1>3. CASE Enable \/ Disable
  BY <1>3 DEF Enable, Disable
<1>4. CASE Pause
  BY <1>4, Numbers DEF Pause, TimeType
<1>5. CASE Resume
  BY <1>5 DEF Resume
<1> QED
  BY <1>1, <1>2, <1>3, <1>4, <1>5
  DEF Next, vars, policy, PartyStep, FindCompleted, FindNoShows, UpdateFound, Join, Call,
      Leave, MarkNoShow, CloseInvalidated, Expire, CheckInTicket, CreateRefundRequest,
      CancelConfirmed, FinalizeRefund

\* The sweep reads parties.
LEMMA SweepTypeStep ==
    ASSUME TypeInv, [Next]_vars
    PROVE  SweepType'
<1> USE DEF TypeInv, SweepType
<1>1. CASE UNCHANGED sweep
  BY <1>1
<1>2. CASE FindCompleted
  BY <1>2 DEF FindCompleted, Asleep
<1>3. CASE FindNoShows
  BY <1>3 DEF FindNoShows
<1>4. CASE UpdateFound
  BY <1>4 DEF UpdateFound, Asleep
<1> QED
  BY <1>1, <1>2, <1>3, <1>4
  DEF Next, vars, PartyStep, Tick, Enable, Disable, Pause, Resume, Join, Call, Leave,
      MarkNoShow, CloseInvalidated, Expire, CheckInTicket, CreateRefundRequest,
      CancelConfirmed, FinalizeRefund

LEMMA TypeInvariant == Spec => []TypeInv
<1>1. Init => TypeInv
  <2> SUFFICES ASSUME Init
               PROVE  TypeInv
    OBVIOUS
  <2>1. TicketType /\ TimeType /\ PolicyType /\ SweepType
    <3>1. TicketType
      BY Numbers, QueueAssumption DEF Init, TicketType
    <3>2. TimeType
      BY Numbers DEF Init, TimeType
    <3>3. PolicyType
      <4>1. pauses \in 0..MaxPause
        BY Numbers DEF Init
      <4> QED
        BY <4>1, Zenon DEF Init, PolicyType, Paused
    <3>4. SweepType
      BY DEF Init, SweepType, Asleep
    <3> QED
      BY <3>1, <3>2, <3>3, <3>4
  <2>2. EntryType
    BY DEF Init, EntryType
  <2> QED
    BY <2>1, <2>2 DEF TypeInv
<1>2. TypeInv /\ [Next]_vars => TypeInv'
  <2> SUFFICES ASSUME TypeInv, [Next]_vars
               PROVE  TypeInv'
    OBVIOUS
  <2> QED
    BY TicketTypeStep, EntryTypeStep, TimeTypeStep, PolicyTypeStep, SweepTypeStep DEF TypeInv
<1> QED
  BY <1>1, <1>2, PTL DEF Spec

\* Type correctness, for any parties, hours and policy.
THEOREM QueueTypeOK == Spec => []TypeOK
<1>1. TypeInv => TypeOK
  <2> SUFFICES ASSUME TypeInv
               PROVE  TypeOK
    OBVIOUS
  <2>1. pausedAt \subseteq 0..now /\ Cardinality(pausedAt) =< 1
    <3>1. CASE pausedAt = {}
      BY <3>1, FS_EmptySet
    <3>2. CASE Paused
      <4>1. PICK t \in 0..now : pausedAt = {t}
        BY <3>2 DEF TypeInv, PolicyType
      <4>2. Cardinality({t}) = 1
        BY FS_Singleton
      <4> QED
        BY <4>1, <4>2
    <3> QED
      BY <3>1, <3>2 DEF Paused
  <2> QED
    BY <2>1 DEF TypeInv, TicketType, EntryType, TimeType, PolicyType, SweepType, TypeOK
<1> QED
  BY <1>1, TypeInvariant, PTL

-----------------------------------------------------------------------------
(* The gate *)

\* The time a call is measured by: it stands still while the queue is paused.
QueueTime == IF Paused THEN Max(pausedAt) ELSE now

LEMMA QueueTimeType ==
    ASSUME TypeInv
    PROVE  /\ QueueTime \in Nat /\ now \in Nat /\ QueueTime =< now
           /\ Called = {b \in Parties : entry[b] = "READY" /\ deadline[b] > QueueTime}
<1>1. now \in Nat
  BY Numbers DEF TypeInv, TimeType
<1>2. CASE Paused
  <2>1. PICK t \in 0..now : pausedAt = {t}
    BY <1>2 DEF TypeInv, PolicyType
  <2>2. QueueTime = t
    BY <1>2, <2>1, PauseStart DEF QueueTime
  <2> QED
    BY <1>1, <2>2 DEF Called, QueueTime
<1>3. CASE ~Paused
  BY <1>1, <1>3 DEF QueueTime, Called
<1> QED
  BY <1>2, <1>3

\* What time, pauses and their ends do to the time that is measured.
LEMMA QueueTimeMoves ==
    ASSUME TypeInv
    PROVE  /\ Tick => QueueTime' = IF Paused THEN QueueTime ELSE now + 1
           /\ Pause => QueueTime' = QueueTime
           /\ Resume => /\ QueueTime' = now
                        /\ \A b \in Parties :
                            deadline'[b] = IF entry[b] = "READY" /\ now < Close
                                           THEN Least(Close, deadline[b] + (now - QueueTime))
                                           ELSE deadline[b]
<1>1. Tick => QueueTime' = IF Paused THEN QueueTime ELSE now + 1
  BY DEF Tick, policy, QueueTime, Paused
<1>2. Pause => QueueTime' = QueueTime
  BY PauseStart, QueueTimeType DEF Pause, QueueTime, Paused
<1>3. Resume => QueueTime' = now
  BY DEF Resume, QueueTime, Paused
<1>4. Resume => \A b \in Parties :
        deadline'[b] = IF entry[b] = "READY" /\ now < Close
                       THEN Least(Close, deadline[b] + (now - QueueTime)) ELSE deadline[b]
  BY DEF Resume, QueueTime
<1> QED
  BY <1>1, <1>2, <1>3, <1>4

\* Steps that call nobody, start no pause and end none.
Calm ==
    /\ UNCHANGED <<now, pausedAt, deadline, open>>
    /\ \A b \in Parties : entry'[b] = "READY" => entry[b] = "READY"

LEMMA Kinds ==
    ASSUME TypeInv, [Next]_vars
    PROVE  Calm \/ Tick \/ Pause \/ Resume \/ \E b \in Parties : Call(b)
<1>1. CASE UNCHANGED vars
  BY <1>1 DEF vars, queue, policy, Calm
<1>2. CASE Enable \/ Disable \/ FindCompleted \/ FindNoShows \/ UpdateFound
  BY <1>2 DEF Enable, Disable, FindCompleted, FindNoShows, UpdateFound, queue, policy, Calm
<1>3. ASSUME NEW b \in Parties,
             Join(b) \/ Leave(b) \/ MarkNoShow(b) \/ CloseInvalidated(b) \/ Expire(b)
      PROVE  Calm
  BY <1>3 DEF Join, Leave, MarkNoShow, CloseInvalidated, Expire, policy, Calm,
              TypeInv, EntryType
<1>4. ASSUME NEW b \in Parties,
             \/ CheckInTicket(b) \/ CreateRefundRequest(b)
             \/ CancelConfirmed(b) \/ FinalizeRefund(b)
      PROVE  Calm
  BY <1>4 DEF CheckInTicket, CreateRefundRequest, CancelConfirmed, FinalizeRefund, queue,
              policy, Calm, TypeInv, EntryType
<1> QED
  BY <1>1, <1>2, <1>3, <1>4 DEF Next, PartyStep

\* Nobody comes back to the gate but by a call.
LEMMA CalledShrinks ==
    ASSUME TypeInv, TypeInv', now' < Close, Calm \/ Tick \/ Pause \/ Resume
    PROVE  Called' \subseteq Called
<1> DEFINE Up(b) == entry[b] = "READY" /\ deadline[b] > QueueTime
<1>1. Called = {b \in Parties : Up(b)}
  BY QueueTimeType
<1>2. Called' = {b \in Parties : entry'[b] = "READY" /\ deadline'[b] > QueueTime'}
  BY DEF Called, QueueTime
<1>3. ASSUME NEW b \in Parties, entry'[b] = "READY", deadline'[b] > QueueTime'
      PROVE  Up(b)
  <2>1. QueueTime \in Nat /\ now \in Nat /\ QueueTime =< now /\ deadline[b] \in Nat
    BY QueueTimeType, Numbers DEF TypeInv, TimeType
  <2>2. CASE Calm
    BY <1>3, <2>2 DEF Calm, QueueTime, Paused
  <2>3. CASE Tick
    <3>1. entry'[b] = entry[b] /\ deadline'[b] = deadline[b]
      BY <2>3 DEF Tick
    <3> QED
      BY <1>3, <2>1, <2>3, <3>1, QueueTimeMoves DEF QueueTime
  <2>4. CASE Pause
    <3>1. entry'[b] = entry[b] /\ deadline'[b] = deadline[b]
      BY <2>4 DEF Pause, queue
    <3> QED
      BY <1>3, <2>4, <3>1, QueueTimeMoves
  <2>5. CASE Resume
    <3>1. entry'[b] = entry[b] /\ now' = now
      BY <2>5 DEF Resume
    <3>2. deadline'[b] = Least(Close, deadline[b] + (now - QueueTime)) /\ QueueTime' = now
      BY <1>3, <2>5, <3>1, QueueTimeMoves
    <3>3. deadline'[b] =< deadline[b] + (now - QueueTime)
      BY <2>1, <3>2, Numbers, LeastOf
    <3>4. deadline'[b] \in Nat
      BY Numbers DEF TypeInv, TimeType
    <3> QED
      BY <1>3, <2>1, <3>1, <3>2, <3>3, <3>4
  <2> QED
    BY <2>2, <2>3, <2>4, <2>5
<1> QED
  BY <1>1, <1>2, <1>3

\* A party adds its tickets to the people of a set of parties.
LEMMA GuestsAdd ==
    ASSUME NEW S \in SUBSET Parties, NEW b \in Parties \ S, IsFiniteSet(People(S))
    PROVE  /\ IsFiniteSet(People(S \union {b}))
           /\ Guests(S \union {b}) = Guests(S) + Quantity[b]
<1> DEFINE New == {b} \X (1 .. Quantity[b])
<1>1. Quantity[b] \in Nat /\ Quantity[b] >= 1
  BY Numbers
<1>2. IsFiniteSet({b}) /\ Cardinality({b}) = 1
  BY FS_Singleton
<1>3. IsFiniteSet(1 .. Quantity[b]) /\ Cardinality(1 .. Quantity[b]) = Quantity[b]
  BY <1>1, FS_Interval
<1>4. IsFiniteSet(New) /\ Cardinality(New) = Cardinality({b}) * Cardinality(1 .. Quantity[b])
  BY <1>2, <1>3, FS_Product, Zenon
<1>5. Cardinality(New) = Quantity[b]
  BY <1>1, <1>2, <1>3, <1>4
<1>6. People(S \union {b}) = People(S) \union New /\ People(S) \intersect New = {}
  BY DEF People
<1> HIDE DEF New
<1>7. /\ IsFiniteSet(People(S) \union New)
      /\ Cardinality(People(S) \union New)
           = Cardinality(People(S)) + Cardinality(New) - Cardinality({})
  BY <1>4, <1>6, FS_Union
<1>8. Cardinality({}) = 0 /\ Cardinality(People(S)) \in Nat
  BY FS_EmptySet, FS_CardinalityType
<1>9. /\ IsFiniteSet(People(S \union {b}))
      /\ Guests(S \union {b}) = Guests(S) + Quantity[b] - 0
  BY <1>5, <1>6, <1>7, <1>8, Zenon DEF Guests
<1>10. Guests(S) \in Nat
  BY <1>8 DEF Guests
<1> QED
  BY <1>1, <1>9, <1>10

\* Before the visit is over the called parties are finitely many, and they fit.
GateInv ==
    now < Close =>
        /\ IsFiniteSet(Called) /\ IsFiniteSet(People(Called))
        /\ Cardinality(Called) =< MaxReadyParties
        /\ Guests(Called) =< MaxReadyGuests

LEMMA GateStep ==
    ASSUME TypeInv, TypeInv', GateInv, [Next]_vars
    PROVE  GateInv'
<1> SUFFICES ASSUME now' < Close
             PROVE  /\ IsFiniteSet(Called') /\ IsFiniteSet(People(Called'))
                    /\ Cardinality(Called') =< MaxReadyParties
                    /\ Guests(Called') =< MaxReadyGuests
  BY DEF GateInv, Guests, People
<1>1. now < Close
  <2>1. now \in Nat /\ Close \in Nat
    BY QueueTimeType, Numbers
  <2>2. now' = now \/ now' = now + 1
    BY Kinds DEF Calm, Tick, Pause, Resume, Call
  <2> QED
    BY <2>1, <2>2
<1>2. /\ IsFiniteSet(Called) /\ IsFiniteSet(People(Called))
      /\ Cardinality(Called) =< MaxReadyParties /\ Guests(Called) =< MaxReadyGuests
  BY <1>1 DEF GateInv
<1>3. Cardinality(Called) \in Nat /\ Guests(Called) \in Nat
  BY <1>2, FS_CardinalityType DEF Guests
<1>4. CASE Calm \/ Tick \/ Pause \/ Resume
  <2>1. Called' \subseteq Called
    BY <1>4, CalledShrinks
  <2>2. People(Called') \subseteq People(Called)
    BY <2>1 DEF People
  <2>3. IsFiniteSet(Called') /\ Cardinality(Called') =< Cardinality(Called)
    BY <1>2, <2>1, FS_Subset
  <2>4. IsFiniteSet(People(Called')) /\ Guests(Called') =< Guests(Called)
    BY <1>2, <2>2, FS_Subset DEF Guests
  <2>5. Cardinality(Called') \in Nat /\ Guests(Called') \in Nat
    BY <2>3, <2>4, FS_CardinalityType DEF Guests
  <2> QED
    BY <1>2, <1>3, <2>3, <2>4, <2>5, Numbers
<1>5. ASSUME NEW b \in Parties, Call(b)
      PROVE  /\ IsFiniteSet(Called') /\ IsFiniteSet(People(Called'))
             /\ Cardinality(Called') =< MaxReadyParties
             /\ Guests(Called') =< MaxReadyGuests
  <2>1. Called = LiveReady /\ b \notin Called
    BY <1>5 DEF Call, Called, LiveReady
  <2>2. Called' \subseteq Called \union {b}
    BY <1>5 DEF Call, Called, Paused, policy, TypeInv, EntryType, TimeType
  <2>3. Called \in SUBSET Parties
    BY DEF Called
  <2>4. /\ IsFiniteSet(People(Called \union {b}))
        /\ Guests(Called \union {b}) = Guests(Called) + Quantity[b]
    BY <1>2, <2>1, <2>3, GuestsAdd
  <2>5. /\ IsFiniteSet(Called \union {b})
        /\ Cardinality(Called \union {b}) = Cardinality(Called) + 1
    BY <1>2, <2>1, FS_AddElement
  <2>6. Cardinality(Called) < MaxReadyParties /\ Guests(Called) + Quantity[b] =< MaxReadyGuests
    BY <1>5, <2>1 DEF Call
  <2>7. IsFiniteSet(Called') /\ Cardinality(Called') =< Cardinality(Called \union {b})
    BY <2>2, <2>5, FS_Subset
  <2>8. IsFiniteSet(People(Called')) /\ Guests(Called') =< Guests(Called \union {b})
    <3>1. People(Called') \subseteq People(Called \union {b})
      BY <2>2 DEF People
    <3> QED
      BY <2>4, <3>1, FS_Subset DEF Guests
  <2>9. Cardinality(Called') \in Nat /\ Guests(Called') \in Nat
    BY <2>7, <2>8, FS_CardinalityType DEF Guests
  <2> QED
    BY <1>3, <2>4, <2>5, <2>6, <2>7, <2>8, <2>9, Numbers
<1> QED
  BY <1>4, <1>5, Kinds

\* The gate is never promised to more parties or guests than the policy lets in,
\* through calls, deadlines, scans and pauses (transitionQueueEntry, setQueuePause).
THEOREM GateHolds == Spec => []GateWithinCapacity
<1>1. Init => GateInv
  <2> SUFFICES ASSUME Init
               PROVE  GateInv
    OBVIOUS
  <2>1. Called = {} /\ People({}) = {}
    BY DEF Init, Called, People
  <2> QED
    BY <2>1, FS_EmptySet, Numbers DEF GateInv, Guests
<1>2. TypeInv /\ TypeInv' /\ GateInv /\ [Next]_vars => GateInv'
  BY GateStep
<1>3. GateInv => GateWithinCapacity
  BY DEF GateInv, GateWithinCapacity
<1> QED
  BY <1>1, <1>2, <1>3, TypeInvariant, PTL DEF Spec

-----------------------------------------------------------------------------
(* Scans *)

\* What the sweep has read as served is served; what it has read as unused and is
\* scanned all the same was scanned after the visit.
SweepInv ==
    /\ \A b \in sweep.served : used[b] # 0
    /\ \A b \in sweep.unused : used[b] # 0 => b \in late
    /\ sweep.pc # "idle" => now >= DayEnd
    /\ sweep.pc = "idle" => sweep.unused = {}
    /\ sweep.pc = "completed" => sweep.unused = {}

ScanInv == ScannedIsAdmitted /\ ScannedIsServed /\ SweepInv

\* Scans count up, and whoever was late stays so.
LEMMA UsedStays ==
    ASSUME TypeInv, [Next]_vars
    PROVE  /\ \A b \in Parties : used[b] # 0 => used'[b] # 0
           /\ late \subseteq late'
           /\ now' >= now
<1>1. CASE UNCHANGED <<used, late>>
  BY <1>1, QueueTimeType, Kinds DEF Calm, Tick, Pause, Resume, Call
<1>2. ASSUME NEW b \in Parties, CheckInTicket(b)
      PROVE  /\ \A c \in Parties : used[c] # 0 => used'[c] # 0
             /\ late \subseteq late'
             /\ now' >= now
  <2>1. \A c \in Parties : used[c] \in Nat
    BY DEF TypeInv, TicketType
  <2> QED
    BY <1>2, <2>1, QueueTimeType DEF CheckInTicket, TypeInv, TicketType
<1> QED
  BY <1>1, <1>2
  DEF Next, vars, tickets, PartyStep, Tick, Enable, Disable, Pause, Resume, FindCompleted,
      FindNoShows, UpdateFound, Join, Call, Leave, MarkNoShow, CloseInvalidated, Expire,
      CreateRefundRequest, CancelConfirmed, FinalizeRefund

LEMMA AdmittedStep ==
    ASSUME TypeInv, ScanInv, [Next]_vars
    PROVE  ScannedIsAdmitted'
<1> USE DEF ScanInv, ScannedIsAdmitted
<1>1. CASE UNCHANGED <<used, entry>>
  BY <1>1
<1>2. ASSUME NEW b \in Parties, CheckInTicket(b)
      PROVE  ScannedIsAdmitted'
  <2>1. used[b] \in Nat /\ used' = [used EXCEPT ![b] = used[b] + 1]
    BY <1>2 DEF CheckInTicket, TypeInv, TicketType
  <2>2. used'[b] # 0 /\ \A c \in Parties \ {b} : used'[c] = used[c]
    BY <2>1 DEF TypeInv, TicketType
  <2> QED
    BY <1>2, <2>2 DEF CheckInTicket, TypeInv, EntryType
<1>3. ASSUME NEW b \in Parties, used[b] = 0, UNCHANGED used,
             NEW status \in {"WAITING", "READY", "NO_SHOW", "CANCELLED", "EXPIRED"},
             entry' = [entry EXCEPT ![b] = status]
      PROVE  ScannedIsAdmitted'
  BY <1>3 DEF TypeInv, EntryType
<1>4. ASSUME NEW b \in Parties,
             \/ Join(b) \/ Call(b) \/ Leave(b) \/ MarkNoShow(b)
             \/ CloseInvalidated(b) \/ Expire(b)
      PROVE  ScannedIsAdmitted'
  <2>1. used[b] = 0
    BY <1>4 DEF Join, Call, Leave, MarkNoShow, CloseInvalidated, Expire, Active
  <2> QED
    BY <1>3, <1>4, <2>1
    DEF Join, Call, Leave, MarkNoShow, CloseInvalidated, Expire, tickets
<1> QED
  BY <1>1, <1>2, <1>4
  DEF Next, vars, tickets, queue, PartyStep, Tick, Enable, Disable, Pause, Resume,
      FindCompleted, FindNoShows, UpdateFound, CreateRefundRequest, CancelConfirmed,
      FinalizeRefund

LEMMA ServedStep ==
    ASSUME TypeInv, ScanInv, [Next]_vars
    PROVE  ScannedIsServed'
<1> USE DEF ScanInv, ScannedIsServed
<1>1. CASE UNCHANGED <<used, booking, late>>
  BY <1>1
<1>2. ASSUME NEW b \in Parties, CheckInTicket(b)
      PROVE  ScannedIsServed'
  <2>1. used[b] \in Nat /\ used' = [used EXCEPT ![b] = used[b] + 1]
    BY <1>2 DEF CheckInTicket, TypeInv, TicketType
  <2>2. used'[b] # 0 /\ \A c \in Parties \ {b} : used'[c] = used[c]
    BY <2>1 DEF TypeInv, TicketType
  <2>3. /\ booking[b] = "CONFIRMED" /\ booking'[b] \in {"CONFIRMED", "COMPLETED"}
        /\ \A c \in Parties \ {b} : booking'[c] = booking[c]
        /\ late \subseteq late'
    BY <1>2 DEF CheckInTicket, TypeInv, TicketType
  <2> QED
    BY <2>2, <2>3
<1>3. ASSUME NEW b \in Parties,
             CreateRefundRequest(b) \/ CancelConfirmed(b) \/ FinalizeRefund(b)
      PROVE  ScannedIsServed'
  BY <1>3
  DEF CreateRefundRequest, CancelConfirmed, FinalizeRefund, TypeInv, TicketType
<1>4. CASE UpdateFound
  BY <1>4 DEF UpdateFound, SweepInv
<1> QED
  BY <1>1, <1>2, <1>3, <1>4
  DEF Next, vars, tickets, PartyStep, Tick, Enable, Disable, Pause, Resume, FindCompleted,
      FindNoShows, Join, Call, Leave, MarkNoShow, CloseInvalidated, Expire

LEMMA SweepInvStep ==
    ASSUME TypeInv, ScanInv, [Next]_vars
    PROVE  SweepInv'
<1> USE DEF ScanInv, SweepInv
<1>1. sweep.served \subseteq Parties /\ sweep.unused \subseteq Parties
  BY DEF TypeInv, SweepType
<1>2. now \in Nat /\ now' \in Nat /\ now' >= now /\ DayEnd \in Nat
  BY QueueTimeType, UsedStays, Kinds, Numbers DEF Calm, Tick, Pause, Resume, Call
<1>3. CASE UNCHANGED <<used, sweep>>
  BY <1>1, <1>2, <1>3, UsedStays
<1>4. ASSUME NEW b \in Parties, CheckInTicket(b)
      PROVE  SweepInv'
  <2>1. UNCHANGED <<now, sweep>>
    BY <1>4 DEF CheckInTicket
  <2>2. \A c \in sweep.served : used'[c] # 0
    BY <1>1, UsedStays
  <2>3. \A c \in Parties \ {b} : used'[c] = used[c]
    BY <1>4 DEF CheckInTicket, TypeInv, TicketType
  <2>4. b \in sweep.unused => b \in late'
    <3>1. sweep.unused # {} => now >= DayEnd
      BY DEF TypeInv, SweepType
    <3>2. now >= DayEnd => now > Close
      BY <1>2, Numbers
    <3> QED
      BY <1>4, <3>1, <3>2 DEF CheckInTicket
  <2>5. \A c \in sweep.unused : used'[c] # 0 => c \in late'
    BY <1>1, <2>3, <2>4, UsedStays
  <2> QED
    BY <2>1, <2>2, <2>5
<1>5. CASE FindCompleted
  BY <1>5 DEF FindCompleted, Asleep, tickets
<1>6. CASE FindNoShows
  BY <1>6 DEF FindNoShows, TypeInv, SweepType, tickets
<1>7. CASE UpdateFound
  BY <1>7 DEF UpdateFound, Asleep
<1> QED
  BY <1>3, <1>4, <1>5, <1>6, <1>7
  DEF Next, vars, tickets, PartyStep, Tick, Enable, Disable, Pause, Resume, Join, Call,
      Leave, MarkNoShow, CloseInvalidated, Expire, CreateRefundRequest, CancelConfirmed,
      FinalizeRefund

\* A scan stands against cancellations, refunds, calls, no-shows and the completion
\* sweep, which may only miss one that ended after the visit (checkInTicket).
THEOREM ScansStick == Spec => []CheckInsStick
<1>1. Init => ScanInv
  BY DEF Init, ScanInv, ScannedIsAdmitted, ScannedIsServed, SweepInv, Asleep
<1>2. TypeInv /\ ScanInv /\ [Next]_vars => ScanInv'
  BY AdmittedStep, ServedStep, SweepInvStep DEF ScanInv
<1>3. ScanInv => CheckInsStick
  BY DEF ScanInv, CheckInsStick
<1> QED
  BY <1>1, <1>2, <1>3, TypeInvariant, PTL DEF Spec

-----------------------------------------------------------------------------
(* The order of the line *)

LEMMA OrderStep ==
    ASSUME TypeInv, NobodyIsOvertaken, [Next]_vars
    PROVE  NobodyIsOvertaken'
<1> USE DEF NobodyIsOvertaken
<1>0. /\ entry \in [Parties -> Active \union Final \union {"NONE"}]
      /\ line \in Seq(Parties) /\ Len(line) \in Nat
      /\ \A i \in 1..Len(line) : line[i] \in Parties /\ entry[line[i]] # "NONE"
  BY DEF TypeInv, EntryType
<1>1. CASE UNCHANGED <<entry, line>>
  BY <1>1
<1>2. ASSUME NEW b \in Parties, Join(b)
      PROVE  NobodyIsOvertaken'
  <2>1. /\ entry[b] = "NONE" /\ entry' = [entry EXCEPT ![b] = "WAITING"]
        /\ line' = Append(line, b)
    BY <1>2 DEF Join
  <2>2. Len(line') = Len(line) + 1 /\ line'[Len(line) + 1] = b
    BY <1>0, <2>1
  <2>3. \A i \in 1..Len(line) : line'[i] = line[i] /\ entry'[line[i]] = entry[line[i]]
    BY <1>0, <2>1
  <2> SUFFICES ASSUME NEW i \in 1..Len(line'), NEW j \in 1..Len(line'), i < j,
                      entry'[line'[j]] \in {"READY", "NO_SHOW"}, entry'[line'[i]] = "WAITING"
               PROVE  FALSE
    OBVIOUS
  <2>4. j # Len(line) + 1
    BY <1>0, <2>1, <2>2
  <2>5. i \in 1..Len(line) /\ j \in 1..Len(line)
    BY <1>0, <2>2, <2>4
  <2> QED
    BY <2>3, <2>5
<1>3. ASSUME NEW b \in Parties, Call(b)
      PROVE  NobodyIsOvertaken'
  <2>1. /\ ~WaitingAhead(b) /\ UNCHANGED line
        /\ entry' = [entry EXCEPT ![b] = "READY"]
    BY <1>3 DEF Call
  <2> QED
    BY <1>0, <2>1 DEF WaitingAhead
<1>4. ASSUME NEW b \in Parties, NEW status \in {"ADMITTED", "CANCELLED", "EXPIRED"},
             entry' = [entry EXCEPT ![b] = status], UNCHANGED line
      PROVE  NobodyIsOvertaken'
  BY <1>0, <1>4
<1>5. ASSUME NEW b \in Parties, MarkNoShow(b)
      PROVE  NobodyIsOvertaken'
  BY <1>0, <1>5 DEF MarkNoShow
<1>6. ASSUME NEW b \in Parties,
             Leave(b) \/ CloseInvalidated(b) \/ Expire(b) \/ CheckInTicket(b)
      PROVE  NobodyIsOvertaken'
  <2>1. UNCHANGED entry \/ \E status \in {"ADMITTED", "CANCELLED", "EXPIRED"} :
                               entry' = [entry EXCEPT ![b] = status]
    BY <1>0, <1>6 DEF Leave, CloseInvalidated, Expire, CheckInTicket
  <2>2. UNCHANGED line
    BY <1>6 DEF Leave, CloseInvalidated, Expire, CheckInTicket
  <2> QED
    BY <1>1, <1>4, <2>1, <2>2
<1> QED
  BY <1>1, <1>2, <1>3, <1>5, <1>6
  DEF Next, vars, queue, PartyStep, Tick, Enable, Disable, Pause, Resume, FindCompleted,
      FindNoShows, UpdateFound, CreateRefundRequest, CancelConfirmed, FinalizeRefund

\* First come, first called, for any parties and policy: leaving, scans, pauses, no-shows
\* and expiry never let a party be called past one that still waits in front of it.
THEOREM TurnsInOrder == Spec => []NobodyIsOvertaken
<1>1. Init => NobodyIsOvertaken
  BY DEF Init, NobodyIsOvertaken
<1>2. TypeInv /\ NobodyIsOvertaken /\ [Next]_vars => NobodyIsOvertaken'
  BY OrderStep
<1> QED
  BY <1>1, <1>2, TypeInvariant, PTL DEF Spec

-----------------------------------------------------------------------------
(* Turns *)

\* The time a call still has and the time it had make up what was promised, unless
\* the visit ends first.
TurnInv ==
    \A b \in Parties : entry[b] = "READY" =>
        \/ open[b] >= Grace
        \/ now >= Close
        \/ deadline[b] = Close
        \/ open[b] + deadline[b] >= QueueTime + Grace

LEMMA TurnStep ==
    ASSUME TypeInv, TurnInv, [Next]_vars
    PROVE  TurnInv'
<1> SUFFICES ASSUME NEW b \in Parties, entry'[b] = "READY"
             PROVE  \/ open'[b] >= Grace
                    \/ now' >= Close
                    \/ deadline'[b] = Close
                    \/ open'[b] + deadline'[b] >= QueueTime' + Grace
  BY DEF TurnInv
<1>1. /\ QueueTime \in Nat /\ now \in Nat /\ QueueTime =< now
      /\ deadline[b] \in Nat /\ open[b] \in Nat /\ Grace \in Nat /\ Close \in Nat
  BY QueueTimeType, Numbers DEF TypeInv, TimeType
<1>2. CASE Calm
  BY <1>2 DEF Calm, TurnInv, QueueTime, Paused
<1>3. CASE Tick
  <2>1. /\ entry[b] = "READY" /\ deadline'[b] = deadline[b] /\ now' = now + 1
        /\ open'[b] = IF Paused THEN open[b] ELSE Least(open[b] + 1, Grace)
    BY <1>3 DEF Tick
  <2>2. QueueTime' = IF Paused THEN QueueTime ELSE now + 1
    BY <1>3, QueueTimeMoves
  <2>3. CASE Paused
    BY <1>1, <2>1, <2>2, <2>3 DEF TurnInv
  <2>4. CASE ~Paused
    <3>1. open'[b] = Grace \/ open'[b] = open[b] + 1
      BY <1>1, <2>1, <2>4, LeastOf
    <3>2. QueueTime = now
      BY <2>4 DEF QueueTime
    <3>3. open[b] >= Grace => open'[b] >= Grace
      BY <1>1, <3>1
    <3> QED
      BY <1>1, <2>1, <2>2, <2>4, <3>1, <3>2, <3>3 DEF TurnInv
  <2> QED
    BY <2>3, <2>4
<1>4. CASE Pause
  BY <1>4, QueueTimeMoves DEF Pause, queue, TurnInv
<1>5. CASE Resume
  <2>1. entry[b] = "READY" /\ open'[b] = open[b] /\ now' = now /\ QueueTime' = now
    BY <1>5, QueueTimeMoves DEF Resume
  <2>2. CASE now >= Close
    BY <2>1, <2>2
  <2>3. CASE now < Close
    <3>1. deadline'[b] = Least(Close, deadline[b] + (now - QueueTime))
      BY <1>5, <2>1, <2>3, QueueTimeMoves
    <3>2. deadline[b] + (now - QueueTime) \in Nat
      BY <1>1
    <3>3. deadline'[b] = Close \/ deadline'[b] = deadline[b] + (now - QueueTime)
      BY <1>1, <3>1, <3>2, LeastOf
    <3>4. deadline[b] = Close => deadline'[b] = Close
      BY <1>1, <3>1 DEF Least
    <3> QED
      BY <1>1, <2>1, <3>3, <3>4 DEF TurnInv
  <2> QED
    BY <1>1, <2>2, <2>3
<1>6. ASSUME NEW c \in Parties, Call(c)
      PROVE  \/ open'[b] >= Grace
             \/ now' >= Close
             \/ deadline'[b] = Close
             \/ open'[b] + deadline'[b] >= QueueTime' + Grace
  <2>1. open' = open /\ now' = now /\ QueueTime' = QueueTime /\ QueueTime = now
    BY <1>6 DEF Call, policy, QueueTime, Paused
  <2>2. CASE b = c
    <3>1. deadline'[b] = Least(Close, now + Grace)
      BY <1>6, <2>2 DEF Call, TypeInv, TimeType
    <3>2. now + Grace \in Nat
      BY <1>1
    <3>3. deadline'[b] = Close \/ deadline'[b] = now + Grace
      BY <1>1, <3>1, <3>2, LeastOf
    <3> QED
      BY <1>1, <2>1, <3>3
  <2>3. CASE b # c
    <3>1. entry[b] = "READY" /\ deadline'[b] = deadline[b]
      BY <1>6, <2>3 DEF Call, TypeInv, TimeType, EntryType
    <3> QED
      BY <2>1, <3>1 DEF TurnInv
  <2> QED
    BY <2>2, <2>3
<1> QED
  BY <1>2, <1>3, <1>4, <1>5, <1>6, Kinds

\* A called party loses its turn only after the time it was promised, pauses not
\* counted, or when the visit is over (setQueuePause, the no-show of the staff).
THEOREM TurnsAreKept == Spec => NoShowHadItsTime
<1>1. Init => TurnInv
  BY DEF Init, TurnInv
<1>2. TypeInv /\ TurnInv /\ [Next]_vars => TurnInv'
  BY TurnStep
<1>3. ASSUME TypeInv, TurnInv, [Next]_vars
      PROVE  [\A b \in Parties : entry[b] = "READY" /\ entry'[b] = "NO_SHOW"
                => open[b] >= Grace \/ now >= Close]_vars
  <2> SUFFICES ASSUME NEW b \in Parties, entry[b] = "READY", entry'[b] = "NO_SHOW"
               PROVE  open[b] >= Grace \/ now >= Close
    OBVIOUS
  <2>1. MarkNoShow(b)
    <3>1. entry'[b] # entry[b]
      OBVIOUS
    <3>2. ~UNCHANGED vars
      BY <3>1 DEF vars, queue
    <3>3. ~(Tick \/ Enable \/ Disable \/ Pause \/ Resume)
      BY <3>1 DEF Tick, Enable, Disable, Pause, Resume, queue
    <3>4. ~(FindCompleted \/ FindNoShows \/ UpdateFound)
      BY <3>1 DEF FindCompleted, FindNoShows, UpdateFound, queue
    <3>5. PICK c \in Parties : PartyStep(c)
      BY <1>3, <3>2, <3>3, <3>4 DEF Next
    <3>6. ~(CreateRefundRequest(c) \/ CancelConfirmed(c) \/ FinalizeRefund(c))
      BY <3>1 DEF CreateRefundRequest, CancelConfirmed, FinalizeRefund, queue
    <3> QED
      BY <1>3, <3>5, <3>6
      DEF PartyStep, Join, Call, Leave, MarkNoShow, CloseInvalidated, Expire, CheckInTicket,
          TypeInv, EntryType
  <2>2. QueueTime = now /\ deadline[b] =< now
    BY <2>1 DEF MarkNoShow, QueueTime
  <2>3. /\ now \in Nat /\ deadline[b] \in Nat /\ open[b] \in Nat
        /\ Grace \in Nat /\ Close \in Nat
    BY <1>3, Numbers, QueueTimeType DEF TypeInv, TimeType
  <2> QED
    BY <1>3, <2>2, <2>3 DEF TurnInv
<1> QED
  BY <1>1, <1>2, <1>3, TypeInvariant, PTL DEF Spec, NoShowHadItsTime
=============================================================================
