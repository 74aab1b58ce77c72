--------------------------- MODULE MCTrapHandling ---------------------------
(* Instances of TrapHandling for TLC. *)
EXTENDS TrapHandling, TLC

CONSTANTS c1, c2, t1, t2, h1, h2, h3

\* TrapWaitQueue::init creates one handler for each CPU.
MCFirstHandlers == IF CPU = {c1} THEN <<h1>> ELSE <<h1, h2>>

\* CPUs and tasks are interchangeable; handlers are not, the pool starts
\* with some of them in an order.
MCsymmetry == Permutations(CPU) \cup Permutations(Task)

=============================================================================
