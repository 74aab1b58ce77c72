---------------------------- MODULE ReadyQueueOps ----------------------------
(***************************************************************************)
(* The data of schedule/ready_queue.rs: one bounded FIFO of tasks for each *)
(* priority level and a bitmap with one bit for each level.  The bitmap is *)
(* kept as the set of the levels whose bit is 1; the constant bit below    *)
(* the last level is not kept, and Highest returns NoPriority where the    *)
(* code finds only that bit.                                               *)
(*                                                                         *)
(* Each operator is one atomic access of the code: one critical section of *)
(* a level's Mutex, or one atomic instruction on the bitmap.  An operator  *)
(* marked "Fault" is a slip somebody could make in the one below it; the   *)
(* properties are checked to notice each of them, and no module uses them. *)
(***************************************************************************)
EXTENDS Integers, Sequences

CONSTANTS
    Task,               \* The tasks the OS gives to the scheduler.
    priority,           \* Task::priority(), a lower number is more urgent.
    HIGHEST_PRIORITY,
    LOWEST_PRIORITY,
    READY_QUEUE_SIZE,   \* Capacity of each level's queue.
    NoTask              \* The null pointer.

Level == HIGHEST_PRIORITY .. LOWEST_PRIORITY

\* PRIORITY_LEVELS <= 64 is the assertion of ReadyQueue::new.
ASSUME LevelAssumption ==
    /\ HIGHEST_PRIORITY \in Int
    /\ LOWEST_PRIORITY \in Int
    /\ HIGHEST_PRIORITY <= LOWEST_PRIORITY
    /\ LOWEST_PRIORITY - HIGHEST_PRIORITY < 64

ASSUME PriorityAssumption == priority \in [Task -> Level]

ASSUME CapacityAssumption == READY_QUEUE_SIZE \in Nat \ {0}

ASSUME NoTaskAssumption == NoTask \notin Task

\* "One level below the lowest": what a source without ready tasks reports.
NoPriority == LOWEST_PRIORITY + 1

-----------------------------------------------------------------------------
\* ReadyQueue::new.
EmptyQueues == [p \in Level |-> <<>>]

\* highest_one and the arithmetic around it.
Highest(bits) ==
    CHOOSE p \in bits \cup {NoPriority} : \A q \in bits : p <= q

\* Deque::push_back fails on a full queue, and the task is handed back.
IsFull(qs, t) == Len(qs[priority[t]]) >= READY_QUEUE_SIZE

\* Fault: the level is not computed from the task's priority.
PushBackTop(qs, t) == [qs EXCEPT ![HIGHEST_PRIORITY] = Append(@, t)]

PushBack(qs, t) == [qs EXCEPT ![priority[t]] = Append(@, t)]

\* The fetch_or of push_task.
SetBit(bits, t) == bits \cup {priority[t]}

\* Fault: front() instead of pop_front().
PeekFront(qs, p) == qs

PopFront(qs, p) == [qs EXCEPT ![p] = Tail(@)]

\* Fault: the bit is cleared without looking at the queue again.
SettleBlindly(qs, bits, p) == bits \ {p}

\* Fault: nobody clears the bit.
SettleNever(qs, bits, p) == bits

\* take_task's second critical section, on a level it has popped from: the
\* bit is cleared if the level is empty by now, and only then.
Settle(qs, bits, p) == IF qs[p] = <<>> THEN bits \ {p} ELSE bits

\* Fault: the two branches are exchanged.
NextPrioExchanged(qs, bits, p) ==
    IF qs[p] = <<>> THEN p ELSE Highest(bits \ {p})

\* The priority take_task returns with the task.  fetch_and returns the value
\* the bitmap had BEFORE it was cleared.
NextPrio(qs, bits, p) == IF qs[p] = <<>> THEN Highest(bits) ELSE p

-----------------------------------------------------------------------------
InQueue(qs, p) == {qs[p][i] : i \in 1 .. Len(qs[p])}

Queued(qs) == UNION {InQueue(qs, p) : p \in Level}

\* The levels that hold a task, what the bitmap is meant to say.
Occupied(qs) == {p \in Level : qs[p] # <<>>}

=============================================================================
