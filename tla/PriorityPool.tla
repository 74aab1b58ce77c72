---------------------------- MODULE PriorityPool ----------------------------
(***************************************************************************)
(* What a ready queue promises its callers, without bitmap, locks or scan. *)
(* Putting a task is one step.  Getting a task takes time, and other       *)
(* callers put and get meanwhile, so a get cannot promise the most urgent  *)
(* task of any single instant.  It promises that a task which was in the   *)
(* pool when the get began, and has been there ever since, is never passed *)
(* over for a less urgent one, and that a get which finds nothing has not  *)
(* missed such a task.  Tasks of one level leave in the order they came.   *)
(***************************************************************************)
EXTENDS ReadyQueueOps

CONSTANT CPU

VARIABLES
    ready,      \* The pool: for each level the tasks in it, oldest first.
    getting,    \* The callers that are between Begin and Get or GetNone.
    waiting,    \* For each of them, the tasks in the pool since Begin.
    outside     \* The tasks that are neither in the pool nor being handed out.

vars == <<ready, getting, waiting, outside>>

Init ==
    /\ ready = EmptyQueues
    /\ getting = {}
    /\ waiting = [c \in CPU |-> {}]
    /\ outside = Task

Put(t) ==
    /\ t \in outside
    /\ outside' = outside \ {t}
    /\ ready' = PushBack(ready, t)
    /\ UNCHANGED <<getting, waiting>>

Begin(c) ==
    /\ c \notin getting
    /\ getting' = getting \cup {c}
    /\ waiting' = [waiting EXCEPT ![c] = Queued(ready)]
    /\ UNCHANGED <<ready, outside>>

Get(c, p) ==
    /\ c \in getting
    /\ ready[p] # <<>>
    /\ \A t \in waiting[c] : priority[t] >= p
    /\ getting' = getting \ {c}
    /\ ready' = PopFront(ready, p)
    /\ waiting' = [d \in CPU |-> waiting[d] \ {Head(ready[p])}]
    /\ UNCHANGED outside

GetNone(c) ==
    /\ c \in getting
    /\ waiting[c] = {}
    /\ getting' = getting \ {c}
    /\ UNCHANGED <<ready, waiting, outside>>

\* The caller has received the task and may put it again.
Receive(t) ==
    /\ t \notin outside
    /\ t \notin Queued(ready)
    /\ outside' = outside \cup {t}
    /\ UNCHANGED <<ready, getting, waiting>>

Next ==
    \/ \E t \in Task : Put(t) \/ Receive(t)
    \/ \E c \in CPU : Begin(c) \/ GetNone(c)
    \/ \E c \in CPU, p \in Level : Get(c, p)

Spec == Init /\ [][Next]_vars

=============================================================================
