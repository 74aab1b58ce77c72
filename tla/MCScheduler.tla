---------------------------- MODULE MCScheduler ----------------------------
(* Instances of Scheduler for TLC. *)
EXTENDS Scheduler, TLC

CONSTANTS k1, k2, u1, u2, u3

\* k1 and k2 are tasks of the kernel, the others of process 1.
MCpid_of == [t \in Task |-> IF t \in {k1, k2} THEN 0 ELSE 1]

\* Each user task is a process of its own.
MCpid_apart == [t \in Task |-> IF t \in {k1, k2} THEN 0 ELSE IF t = u1 THEN 1 ELSE 2]

\* Two levels: the first task of each process is the more urgent one.
MCtwo_levels == [t \in Task |-> IF t \in {k1, u1} THEN 0 ELSE 1]

MCone_level == [t \in Task |-> 0]

=============================================================================
