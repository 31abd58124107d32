----------------------------- MODULE MCScheduler ----------------------------
(* Instances of Scheduler: which calls the program in each slot makes. *)
EXTENDS Scheduler

AllCalls == {"yield", "exit", "spawn", "event_read", "sleep"}

\* The last slot never blocks, the others may do anything.
LastNeverBlocks ==
  [t \in Task |-> IF t = MAX_TASKS - 1 THEN {"yield", "exit"} ELSE AllCalls]

\* Every program may do anything.
AnyProgram == [t \in Task |-> AllCalls]

\* /init spawns the others; they compute and never call the kernel.
Spinners == [t \in Task |-> IF t = 0 THEN {"spawn"} ELSE {}]
=============================================================================
