------------------------------ MODULE MCJobLock ------------------------------
(* Two processes, the first with two ticks that may overlap. *)
EXTENDS JobLock

MCTicks == {"a1", "a2", "b1", "b2"}
MCProcessOf == [t \in MCTicks |-> IF t \in {"a1", "a2"} THEN "A" ELSE "B"]

\* jobLease.js: randomUUID() for every tick.
FreshOwner == [t \in MCTicks |-> t]

\* cleanupWorker.js: INSTANCE_ID of the process.
InstanceOwner == MCProcessOf
=============================================================================
