---------------------------- MODULE MCReadyQueue ----------------------------
(* Instances of ReadyQueue for TLC. *)
EXTENDS ReadyQueue, TLC

CONSTANTS urgent, t1, t2, t3, c1, c2, c3

\* One urgent task, the others share the lower level, which has room for all
\* but one of them.
MCpriority == [t \in Task |-> IF t = urgent THEN 0 ELSE 1]

\* The callers are interchangeable, and so are the tasks of the lower level.
MCsymmetry == Permutations(CPU) \cup Permutations(Task \ {urgent})

=============================================================================
