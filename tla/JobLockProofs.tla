---------------------------- MODULE JobLockProofs ----------------------------
(***************************************************************************)
(* The leases of jobLease.js exclude each other for any number of          *)
(* processes and ticks, any time to live and any delay of the queries:     *)
(* proofs about JobLock.tla.                                               *)
(***************************************************************************)
EXTENDS JobLock, TLAPS

\* jobLease.js: every tick has an owner id of its own.
FreshOwners == \A s, t \in Ticks : Owner[s] = Owner[t] => s = t

\* cleanupWorker.js: a process has one owner id, and no two processes share it.
InstanceOwners == \A s, t \in Ticks : Owner[s] = Owner[t] => ProcessOf[s] = ProcessOf[t]

\* Whatever the protocol: no two ticks are at the row under one name.
NamesApart ==
    \A s, t \in Ticks :
        /\ Owner[s] = Owner[t]
        /\ pc[s] \in {"asking", "running", "releasing"}
        /\ pc[t] \in {"asking", "running", "releasing"}
        => s = t

-----------------------------------------------------------------------------
(* Type correctness *)

\* Every tick writes the control state and the flag of its own process only.
LEMMA GotoType ==
    ASSUME TypeOK, NEW t \in Ticks,
           NEW place \in {"waiting", "asking", "running", "releasing", "done"},
           Goto(t, place)
    PROVE  /\ pc' \in [Ticks -> {"waiting", "asking", "running", "releasing", "done"}]
           /\ pc'[t] = place
           /\ \A s \in Ticks : s # t => pc'[s] = pc[s]
BY DEF TypeOK, Goto

\* The flags stay Booleans.
LEMMA FlagType ==
    ASSUME TypeOK, NEW t \in Ticks, NEW value \in BOOLEAN, SetFlag(t, value)
    PROVE  /\ isRunning' \in [Processes -> BOOLEAN]
           /\ isRunning'[ProcessOf[t]] = value
           /\ \A p \in Processes : p # ProcessOf[t] => isRunning'[p] = isRunning[p]
<1>1. ProcessOf[t] \in Processes
  BY DEF Processes
<1> QED
  BY <1>1 DEF TypeOK, SetFlag

\* The job row and the workers stay well-typed.
THEOREM JobLockTypeOK == Spec => []TypeOK
<1>1. Init => TypeOK
  BY JobLockAssumption DEF Init, TypeOK
<1>2. TypeOK /\ [Next]_vars => TypeOK'
  <2> SUFFICES ASSUME TypeOK, [Next]_vars
               PROVE  TypeOK'
    OBVIOUS
  <2> USE JobLockAssumption
  <2>1. ASSUME NEW t \in Ticks, Fire(t)
        PROVE  TypeOK'
    <3>1. pc' \in [Ticks -> {"waiting", "asking", "running", "releasing", "done"}]
      BY <2>1, GotoType DEF Fire
    <3>2. isRunning' \in [Processes -> BOOLEAN]
      BY <2>1, FlagType DEF Fire, TypeOK
    <3>3. asked' \in [Ticks -> 0 .. Horizon]
      BY <2>1 DEF Fire, TypeOK
    <3> QED
      BY <2>1, <3>1, <3>2, <3>3 DEF Fire, TypeOK
  <2>2. ASSUME NEW t \in Ticks, Acquire(t)
        PROVE  TypeOK'
    <3>1. pc' \in [Ticks -> {"waiting", "asking", "running", "releasing", "done"}]
      BY <2>2, GotoType DEF Acquire
    <3>2. isRunning' \in [Processes -> BOOLEAN]
      BY <2>2, FlagType DEF Acquire
    <3>3. lockedUntil' \in -1 .. (Horizon + TTL)
      BY <2>2 DEF Acquire, TypeOK, Until
    <3> QED
      BY <2>2, <3>1, <3>2, <3>3 DEF Acquire, TypeOK
  <2>3. ASSUME NEW t \in Ticks, GiveUp(t)
        PROVE  TypeOK'
    <3>1. pc' \in [Ticks -> {"waiting", "asking", "running", "releasing", "done"}]
      BY <2>3, GotoType DEF GiveUp
    <3>2. isRunning' \in [Processes -> BOOLEAN]
      BY <2>3, FlagType DEF GiveUp, TypeOK
    <3> QED
      BY <2>3, <3>1, <3>2 DEF GiveUp, TypeOK
  <2>4. ASSUME NEW t \in Ticks, Finish(t)
        PROVE  TypeOK'
    <3>1. pc' \in [Ticks -> {"waiting", "asking", "running", "releasing", "done"}]
      BY <2>4, GotoType DEF Finish
    <3>2. isRunning' \in [Processes -> BOOLEAN]
      BY <2>4, FlagType DEF Finish, TypeOK
    <3> QED
      BY <2>4, <3>1, <3>2 DEF Finish, TypeOK
  <2>5. ASSUME NEW t \in Ticks, Release(t)
        PROVE  TypeOK'
    <3>1. pc' \in [Ticks -> {"waiting", "asking", "running", "releasing", "done"}]
      BY <2>5, GotoType DEF Release
    <3>2. isRunning' \in [Processes -> BOOLEAN]
      BY <2>5, FlagType DEF Release, TypeOK
    <3>3. /\ lockedBy' \in {Owner[s] : s \in Ticks} \cup {NoOne}
          /\ lockedUntil' \in -1 .. (Horizon + TTL)
      BY <2>5 DEF Release, GiveBack, TypeOK
    <3> QED
      BY <2>5, <3>1, <3>2, <3>3 DEF Release, TypeOK
  <2>6. ASSUME NEW p \in Processes, Crash(p)
        PROVE  TypeOK'
    BY <2>6 DEF Crash, TypeOK
  <2>7. CASE Tick
    BY <2>7 DEF Tick, TypeOK
  <2>8. CASE UNCHANGED vars
    BY <2>8 DEF vars, TypeOK
  <2> QED
    BY <2>1, <2>2, <2>3, <2>4, <2>5, <2>6, <2>7, <2>8 DEF Next, TickStep
<1> QED
  BY <1>1, <1>2, PTL DEF Spec

-----------------------------------------------------------------------------
(* Mutual exclusion of the sweeps *)

\* A tick asks in the past, and a tick that sweeps in its time owns the row
\* until that time is over: nobody who asks before then finds the row free.
LeaseInv ==
    /\ \A t \in Ticks : asked[t] <= now
    /\ \A t \in Ticks :
        Sweeping(t) => lockedBy = Owner[t] /\ lockedUntil = Until(t)

\* The row of a sweep that is in its time is not free to any other tick.
LEMMA NotFree ==
    ASSUME TypeOK, NamesApart, LeaseInv,
           NEW s \in Ticks, NEW t \in Ticks, s # t, Sweeping(s), pc[t] = "asking"
    PROVE  ~Free(t)
<1>1. lockedBy # Owner[t]
  BY DEF LeaseInv, NamesApart, Sweeping
<1>2. lockedUntil = Until(s) /\ now <= Until(s) /\ asked[t] <= now
  BY DEF LeaseInv, Sweeping
<1>3. ~(lockedUntil < asked[t])
  BY <1>2, JobLockAssumption DEF TypeOK, Until
<1> QED
  BY <1>1, <1>3 DEF Free

\* The owner invariant is inductive: one step per action.
LEMMA LeaseStep ==
    ASSUME TypeOK, TypeOK', NamesApart, LeaseInv, [Next]_vars
    PROVE  LeaseInv'
<1> USE JobLockAssumption
<1>1. ASSUME NEW t \in Ticks, Fire(t)
      PROVE  LeaseInv'
  <2>1. \A s \in Ticks : asked'[s] <= now'
    BY <1>1 DEF Fire, LeaseInv, TypeOK
  <2>2. ASSUME NEW s \in Ticks, Sweeping(s)'
        PROVE  lockedBy' = Owner[s] /\ lockedUntil' = Until(s)'
    <3>1. pc'[t] = "asking" /\ s # t /\ pc'[s] = pc[s]
      BY <1>1, <2>2, GotoType DEF Fire, Sweeping
    <3>2. asked'[s] = asked[s] /\ now' = now
      BY <1>1, <3>1 DEF Fire, TypeOK
    <3> QED
      BY <1>1, <2>2, <3>1, <3>2 DEF Fire, Sweeping, Until, LeaseInv
  <2> QED
    BY <2>1, <2>2 DEF LeaseInv
<1>2. ASSUME NEW t \in Ticks, Acquire(t)
      PROVE  LeaseInv'
  <2>1. \A s \in Ticks : asked'[s] <= now'
    BY <1>2 DEF Acquire, LeaseInv
  <2>2. ASSUME NEW s \in Ticks, Sweeping(s)'
        PROVE  lockedBy' = Owner[s] /\ lockedUntil' = Until(s)'
    <3>1. CASE s = t
      BY <1>2, <3>1 DEF Acquire, Until
    <3>2. CASE s # t
      <4>1. pc'[s] = pc[s]
        BY <1>2, <3>2, GotoType DEF Acquire
      <4>2. Sweeping(s)
        BY <1>2, <2>2, <4>1 DEF Acquire, Sweeping, Until
      <4> QED
        BY <1>2, <3>2, <4>2, NotFree DEF Acquire
    <3> QED
      BY <3>1, <3>2
  <2> QED
    BY <2>1, <2>2 DEF LeaseInv
<1>3. ASSUME NEW t \in Ticks, GiveUp(t) \/ Finish(t)
      PROVE  LeaseInv'
  <2>1. UNCHANGED <<now, lockedBy, lockedUntil, asked>>
    BY <1>3 DEF GiveUp, Finish
  <2>2. \A s \in Ticks : pc'[s] = "running" => pc[s] = "running"
    BY <1>3, GotoType DEF GiveUp, Finish
  <2> QED
    BY <2>1, <2>2 DEF LeaseInv, Sweeping, Until
<1>4. ASSUME NEW t \in Ticks, Release(t)
      PROVE  LeaseInv'
  <2>1. UNCHANGED <<now, asked>> /\ pc[t] = "releasing"
    BY <1>4 DEF Release
  <2>2. ASSUME NEW s \in Ticks, Sweeping(s)'
        PROVE  lockedBy' = Owner[s] /\ lockedUntil' = Until(s)'
    <3>1. pc[s] = "running" /\ s # t
      BY <1>4, <2>1, <2>2, GotoType DEF Release, Sweeping
    <3>2. Sweeping(s)
      BY <2>1, <2>2, <3>1 DEF Sweeping, Until
    <3>3. lockedBy = Owner[s] /\ lockedUntil = Until(s) /\ lockedBy # Owner[t]
      BY <2>1, <3>1, <3>2 DEF LeaseInv, NamesApart
    <3>4. UNCHANGED <<lockedBy, lockedUntil>>
      BY <1>4, <3>3 DEF Release, GiveBack
    <3> QED
      BY <2>1, <3>3, <3>4 DEF Until
  <2> QED
    BY <2>1, <2>2 DEF LeaseInv
<1>5. ASSUME NEW p \in Processes, Crash(p)
      PROVE  LeaseInv'
  <2>1. UNCHANGED <<now, lockedBy, lockedUntil, asked>>
    BY <1>5 DEF Crash
  <2>2. \A s \in Ticks : pc'[s] = "running" => pc[s] = "running"
    BY <1>5 DEF Crash
  <2> QED
    BY <2>1, <2>2 DEF LeaseInv, Sweeping, Until
<1>6. CASE Tick
  <2>1. UNCHANGED <<lockedBy, lockedUntil, asked, pc>> /\ now <= now'
    BY <1>6 DEF Tick, TypeOK
  <2>2. \A s \in Ticks : asked'[s] <= now'
    BY <1>6 DEF Tick, TypeOK, LeaseInv
  <2>3. \A s \in Ticks : Sweeping(s)' => Sweeping(s)
    BY <1>6 DEF Tick, TypeOK, Sweeping, Until
  <2> QED
    BY <2>1, <2>2, <2>3 DEF LeaseInv, Until
<1>7. CASE UNCHANGED vars
  BY <1>7 DEF vars, LeaseInv, Sweeping, Until
<1> QED
  BY <1>1, <1>2, <1>3, <1>4, <1>5, <1>6, <1>7 DEF Next, TickStep

\* Sweeps exclude each other whenever no two ticks ask, sweep or release under one
\* name: this is all that the row needs of the protocol around it.
THEOREM RowExcludes == Spec /\ []NamesApart => []OneSweeper
<1>1. Init => LeaseInv
  BY JobLockAssumption DEF Init, LeaseInv, Sweeping
<1>2. TypeOK /\ TypeOK' /\ NamesApart /\ LeaseInv /\ [Next]_vars => LeaseInv'
  BY LeaseStep
<1>3. LeaseInv /\ NamesApart => OneSweeper
  BY DEF LeaseInv, NamesApart, OneSweeper, Sweeping
<1> QED
  BY <1>1, <1>2, <1>3, JobLockTypeOK, PTL DEF Spec

\* With an owner id of its own for every tick no two sweeps run at once, as
\* long as each stays within its time: refund worker and notification outbox.
THEOREM LeaseExcludes == FreshOwners => (Spec => []OneSweeper)
<1> SUFFICES ASSUME FreshOwners
             PROVE  Spec => []OneSweeper
  OBVIOUS
<1>1. NamesApart
  BY DEF NamesApart, FreshOwners
<1> QED
  BY <1>1, RowExcludes, PTL

\* With one owner id for a process, as in cleanupWorker.js, the row still keeps all
\* sweeps apart as long as the ticks of a process do not overlap: their overlap is
\* the only way two processes get in.
THEOREM InstanceExcludes ==
    InstanceOwners => (Spec /\ []OneTickPerProcess => []OneSweeper)
<1> SUFFICES ASSUME InstanceOwners
             PROVE  Spec /\ []OneTickPerProcess => []OneSweeper
  OBVIOUS
<1>1. OneTickPerProcess => NamesApart
  BY DEF OneTickPerProcess, NamesApart, InstanceOwners
<1> QED
  BY <1>1, RowExcludes, PTL

-----------------------------------------------------------------------------
(* The flag of a process *)

\* A tick that is past the flag keeps it up, and is alone there.
FlagInv ==
    /\ \A t \in Ticks :
        pc[t] \in {"asking", "running", "releasing"} => isRunning[ProcessOf[t]]
    /\ OneTickPerProcess

\* A tick that moves among the guarded places, or leaves them and drops the
\* flag, keeps the flag invariant.
LEMMA FlagKept ==
    ASSUME TypeOK, FlagInv, NEW t \in Ticks,
           pc[t] \in {"asking", "running", "releasing"},
           \/ /\ \E place \in {"running", "releasing"} : Goto(t, place)
              /\ SetFlag(t, TRUE) \/ UNCHANGED isRunning
           \/ Goto(t, "done") /\ SetFlag(t, FALSE)
    PROVE  FlagInv'
<1>1. \A s \in Ticks : s # t => pc'[s] = pc[s]
  BY GotoType
<1>2. \A s \in Ticks : ProcessOf[s] \in Processes
  BY DEF Processes
<1>3. \A s \in Ticks :
        pc[s] \in {"asking", "running", "releasing"} /\ ProcessOf[s] = ProcessOf[t]
        => s = t
  BY DEF FlagInv, OneTickPerProcess
<1>4. CASE \E place \in {"running", "releasing"} : Goto(t, place)
  <2>1. \A p \in Processes : isRunning[p] => isRunning'[p]
    BY <1>4, <1>2, FlagType, GotoType
  <2> QED
    BY <1>1, <1>2, <1>3, <2>1 DEF FlagInv, OneTickPerProcess
<1>5. CASE Goto(t, "done") /\ SetFlag(t, FALSE)
  <2>1. pc'[t] = "done"
    BY <1>5, GotoType
  <2>2. \A p \in Processes : p # ProcessOf[t] => isRunning'[p] = isRunning[p]
    BY <1>5, FlagType
  <2>3. \A s \in Ticks :
          pc'[s] \in {"asking", "running", "releasing"} =>
            /\ pc[s] = pc'[s] /\ ProcessOf[s] # ProcessOf[t]
            /\ isRunning'[ProcessOf[s]]
    BY <1>1, <1>2, <1>3, <2>1, <2>2 DEF FlagInv
  <2> QED
    BY <2>3 DEF FlagInv, OneTickPerProcess
<1> QED
  BY <1>4, <1>5

\* The callbacks of one process never overlap in the workers that raise their
\* flag before they ask for the row and drop it after they gave it back.
THEOREM FlagExcludes == FlagFirst => (Spec => []OneTickPerProcess)
<1> SUFFICES ASSUME FlagFirst
             PROVE  Spec => []OneTickPerProcess
  OBVIOUS
<1>1. Init => FlagInv
  BY DEF Init, FlagInv, OneTickPerProcess
<1>2. TypeOK /\ FlagInv /\ [Next]_vars => FlagInv'
  <2> SUFFICES ASSUME TypeOK, FlagInv, [Next]_vars
               PROVE  FlagInv'
    OBVIOUS
  <2>1. ASSUME NEW t \in Ticks, Fire(t)
        PROVE  FlagInv'
    <3>1. ~isRunning[ProcessOf[t]] /\ ProcessOf[t] \in Processes
      BY <2>1 DEF Fire, Processes
    <3>2. \A s \in Ticks : s # t => pc'[s] = pc[s]
      BY <2>1, GotoType DEF Fire
    <3>3. /\ isRunning'[ProcessOf[t]]
          /\ \A p \in Processes : p # ProcessOf[t] => isRunning'[p] = isRunning[p]
      BY <2>1, FlagType DEF Fire
    <3>4. \A s \in Ticks :
            pc[s] \in {"asking", "running", "releasing"} => ProcessOf[s] # ProcessOf[t]
      BY <3>1 DEF FlagInv
    <3>5. \A s \in Ticks : ProcessOf[s] \in Processes
      BY DEF Processes
    <3> QED
      BY <3>2, <3>3, <3>4, <3>5 DEF FlagInv, OneTickPerProcess
  <2>2. ASSUME NEW t \in Ticks, Acquire(t)
        PROVE  FlagInv'
    BY <2>2, FlagKept DEF Acquire
  <2>3. ASSUME NEW t \in Ticks, GiveUp(t)
        PROVE  FlagInv'
    BY <2>3, FlagKept DEF GiveUp
  <2>4. ASSUME NEW t \in Ticks, Finish(t)
        PROVE  FlagInv'
    BY <2>4, FlagKept DEF Finish
  <2>5. ASSUME NEW t \in Ticks, Release(t)
        PROVE  FlagInv'
    BY <2>5, FlagKept DEF Release
  <2>6. ASSUME NEW p \in Processes, Crash(p)
        PROVE  FlagInv'
    <3>1. \A s \in Ticks :
            pc'[s] = IF ProcessOf[s] = p THEN "done" ELSE pc[s]
      BY <2>6 DEF Crash
    <3>2. \A q \in Processes : q # p => isRunning'[q] = isRunning[q]
      BY <2>6 DEF Crash, TypeOK
    <3>3. \A s \in Ticks : ProcessOf[s] \in Processes
      BY DEF Processes
    <3> QED
      BY <3>1, <3>2, <3>3 DEF FlagInv, OneTickPerProcess
  <2>7. CASE Tick \/ UNCHANGED vars
    BY <2>7 DEF Tick, vars, FlagInv, OneTickPerProcess
  <2> QED
    BY <2>1, <2>2, <2>3, <2>4, <2>5, <2>6, <2>7 DEF Next, TickStep
<1>3. FlagInv => OneTickPerProcess
  BY DEF FlagInv
<1> QED
  BY <1>1, <1>2, <1>3, JobLockTypeOK, PTL DEF Spec

\* Raising the flag before the row is asked for, and dropping it after it was given
\* back, is enough to make one owner id for a process safe: the order of the flag,
\* not the name, is what lets two sweeps of cleanupWorker.js overlap.
THEOREM FlagRepairsInstance ==
    FlagFirst /\ InstanceOwners => (Spec => []OneInstance)
<1> SUFFICES ASSUME FlagFirst, InstanceOwners
             PROVE  Spec => []OneInstance
  OBVIOUS
<1>1. Spec => []OneTickPerProcess
  BY FlagExcludes
<1>2. Spec /\ []OneTickPerProcess => []OneSweeper
  BY InstanceExcludes
<1>3. OneSweeper => OneInstance
  BY DEF OneSweeper, OneInstance
<1> QED
  BY <1>1, <1>2, <1>3, PTL
=============================================================================
