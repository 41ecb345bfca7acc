------------------------------- MODULE JobLock -------------------------------
(***************************************************************************)
(* One ScheduledJobLock row and the interval workers of several backend    *)
(* processes that compete for it.  Every setInterval callback is a tick    *)
(* with its own control state; ticks of one process overlap whenever an    *)
(* await is pending, and share the process's in-memory flag isRunning.     *)
(*                                                                         *)
(* Two protocols use the row.  jobLease.js names a fresh owner for every   *)
(* tick, and its workers set the flag before they ask for the row and drop *)
(* it after they gave the row back.  cleanupWorker.js names the process    *)
(* (INSTANCE_ID), takes the flag after the row and drops it before.        *)
(***************************************************************************)
EXTENDS Integers

CONSTANTS
    Ticks,      \* callbacks of setInterval, each runs once
    ProcessOf,  \* the process of a tick
    Owner,      \* the name a tick writes in lockedBy
    FlagFirst,  \* TRUE: jobLease.js and its workers, FALSE: cleanupWorker.js
    TTL,        \* ttlMs
    Horizon,    \* the clock stops here (a bound of the model)
    NoOne       \* lockedBy of a free row

ASSUME JobLockAssumption ==
    /\ DOMAIN ProcessOf = Ticks /\ DOMAIN Owner = Ticks
    /\ \A t \in Ticks : Owner[t] # NoOne
    /\ FlagFirst \in BOOLEAN
    /\ TTL \in Nat /\ Horizon \in Nat

VARIABLES
    now,            \* new Date()
    lockedBy,
    lockedUntil,    \* -1 when there is no row or it was given back
    pc,             \* where each tick is
    asked,          \* the `now` a tick took before it asked for the row
    isRunning       \* the flag of each process

vars == <<now, lockedBy, lockedUntil, pc, asked, isRunning>>

Processes == {ProcessOf[t] : t \in Ticks}

Goto(t, place) == pc' = [pc EXCEPT ![t] = place]

SetFlag(t, value) == isRunning' = [isRunning EXCEPT ![ProcessOf[t]] = value]

-----------------------------------------------------------------------------

\* The callback fires: it looks at the flag and takes the time.
Fire(t) ==
    /\ pc[t] = "waiting" /\ ~isRunning[ProcessOf[t]]
    /\ Goto(t, "asking")
    /\ asked' = [asked EXCEPT ![t] = now]
    /\ IF FlagFirst THEN SetFlag(t, TRUE) ELSE UNCHANGED isRunning
    /\ UNCHANGED <<now, lockedBy, lockedUntil>>

\* The row expired before the tick asked, or names the tick's own owner.
Free(t) == lockedUntil < asked[t] \/ lockedBy = Owner[t]

\* Bug: the time to live is added twice.
UntilTwice(t) == asked[t] + TTL + TTL

Until(t) == asked[t] + TTL

Acquire(t) ==
    /\ pc[t] = "asking" /\ Free(t)
    /\ lockedBy' = Owner[t]
    /\ lockedUntil' = Until(t)
    /\ Goto(t, "running")
    /\ SetFlag(t, TRUE)
    /\ UNCHANGED <<now, asked>>

\* The row is taken, the database fails, or a concurrent create came first.
GiveUp(t) ==
    /\ pc[t] = "asking"
    /\ Goto(t, "done")
    /\ IF FlagFirst THEN SetFlag(t, FALSE) ELSE UNCHANGED isRunning
    /\ UNCHANGED <<now, lockedBy, lockedUntil, asked>>

\* Bug: the flag is dropped while the row is still held.
FinishUnflagged(t) ==
    /\ pc[t] = "running"
    /\ Goto(t, "releasing")
    /\ SetFlag(t, FALSE)
    /\ UNCHANGED <<now, lockedBy, lockedUntil, asked>>

\* The sweep returns or throws.
Finish(t) ==
    /\ pc[t] = "running"
    /\ Goto(t, "releasing")
    /\ IF FlagFirst THEN UNCHANGED isRunning ELSE SetFlag(t, FALSE)
    /\ UNCHANGED <<now, lockedBy, lockedUntil, asked>>

\* Bug: whoever finishes gives the row back.
GiveBackAny(t) == lockedBy' = NoOne /\ lockedUntil' = -1

\* Only a row that still names this owner is given back.
GiveBack(t) ==
    IF lockedBy = Owner[t]
    THEN lockedBy' = NoOne /\ lockedUntil' = -1
    ELSE UNCHANGED <<lockedBy, lockedUntil>>

\* A release that fails is logged: the row expires on its own.
Release(t) ==
    /\ pc[t] = "releasing"
    /\ GiveBack(t) \/ UNCHANGED <<lockedBy, lockedUntil>>
    /\ Goto(t, "done")
    /\ IF FlagFirst THEN SetFlag(t, FALSE) ELSE UNCHANGED isRunning
    /\ UNCHANGED <<now, asked>>

\* A process dies with all its ticks and never names its owners again.
Crash(p) ==
    /\ \E t \in Ticks : ProcessOf[t] = p /\ pc[t] \notin {"waiting", "done"}
    /\ pc' = [t \in Ticks |-> IF ProcessOf[t] = p THEN "done" ELSE pc[t]]
    /\ isRunning' = [isRunning EXCEPT ![p] = FALSE]
    /\ UNCHANGED <<now, lockedBy, lockedUntil, asked>>

Tick ==
    /\ now < Horizon
    /\ now' = now + 1
    /\ UNCHANGED <<lockedBy, lockedUntil, pc, asked, isRunning>>

Init ==
    /\ now = 0
    /\ lockedBy = NoOne /\ lockedUntil = -1
    /\ pc = [t \in Ticks |-> "waiting"]
    /\ asked = [t \in Ticks |-> 0]
    /\ isRunning = [p \in Processes |-> FALSE]

TickStep(t) == Fire(t) \/ Acquire(t) \/ GiveUp(t) \/ Finish(t) \/ Release(t)

Next ==
    \/ \E t \in Ticks : TickStep(t)
    \/ \E p \in Processes : Crash(p)
    \/ Tick

Spec == Init /\ [][Next]_vars

-----------------------------------------------------------------------------
(* Properties *)

TypeOK ==
    /\ now \in 0 .. Horizon
    /\ lockedBy \in {Owner[t] : t \in Ticks} \cup {NoOne}
    /\ lockedUntil \in -1 .. (Horizon + TTL)
    /\ pc \in [Ticks -> {"waiting", "asking", "running", "releasing", "done"}]
    /\ asked \in [Ticks -> 0 .. Horizon]
    /\ isRunning \in [Processes -> BOOLEAN]

\* A tick that sweeps within the time it asked the row for.
Sweeping(t) == pc[t] = "running" /\ now <= Until(t)

\* No two ticks sweep at once while both are within their time: what a job
\* lock is for.  A sweep that outlives its time may be joined by another one.
OneSweeper == \A s, t \in Ticks : Sweeping(s) /\ Sweeping(t) => s = t

\* What cleanupWorker.js promises of acquireJobLock: two processes never sweep
\* at once (while both are within their time).
OneInstance ==
    \A s, t \in Ticks : Sweeping(s) /\ Sweeping(t) => ProcessOf[s] = ProcessOf[t]

\* The flag keeps the callbacks of one process apart: at most one of them is
\* past the flag and not finished, however long its queries take.
OneTickPerProcess ==
    \A s, t \in Ticks :
        /\ ProcessOf[s] = ProcessOf[t]
        /\ pc[s] \in {"asking", "running", "releasing"}
        /\ pc[t] \in {"asking", "running", "releasing"}
        => s = t
=============================================================================
