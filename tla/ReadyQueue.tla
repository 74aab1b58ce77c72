----------------------------- MODULE ReadyQueue -----------------------------
(***************************************************************************)
(* schedule/ready_queue.rs under concurrent callers.  A level's Mutex is   *)
(* released between push_back and fetch_or, between two levels of the scan *)
(* and between pop_front and the test that clears the bit, so each of      *)
(* these is a step of its own.  The test, the fetch_and and the lookup in  *)
(* its result are one step: the level's lock is held throughout, only the  *)
(* fetch_and touches shared state that others can change meanwhile, and    *)
(* the emptiness it depends on is protected by the lock.                   *)
(*                                                                         *)
(* A task is pushed by whoever owns it: `outside' holds the tasks that are *)
(* running, blocked or in a waker's hands.  Operators marked "Fault" are   *)
(* explained in ReadyQueueOps.                                             *)
(***************************************************************************)
EXTENDS ReadyQueueOps

CONSTANT CPU

VARIABLES
    queues,         \* ReadyQueue.queues
    prio_bitmap,    \* ReadyQueue.prio_bitmap
    pc,             \* What each caller does next.
    task,           \* The task it is pushing, or has popped.
    prio,           \* take_task's loop variable.
    ret,            \* The priority its last finished call returned.
    outside,
    waiting,        \* History: the tasks queued without a break since the
                    \* caller entered take_task.
    raced           \* History: some task was popped before its bit was set.

vars == <<queues, prio_bitmap, pc, task, prio, ret, outside, waiting, raced>>

NoResult == NoPriority + 1

Init ==
    /\ queues = EmptyQueues
    /\ prio_bitmap = {}
    /\ pc = [c \in CPU |-> "idle"]
    /\ task = [c \in CPU |-> NoTask]
    /\ prio = [c \in CPU |-> HIGHEST_PRIORITY]
    /\ ret = [c \in CPU |-> NoResult]
    /\ outside = Task
    /\ waiting = [c \in CPU |-> {}]
    /\ raced = FALSE

Goto(c, from, to) ==
    /\ pc[c] = from
    /\ pc' = [pc EXCEPT ![c] = to]

-----------------------------------------------------------------------------
\* push_task, its critical section.
push_back(c, t) ==
    /\ Goto(c, "idle", "mark")
    /\ t \in outside
    /\ ~IsFull(queues, t)
    /\ queues' = PushBack(queues, t)
    /\ task' = [task EXCEPT ![c] = t]
    /\ outside' = outside \ {t}
    /\ ret' = [ret EXCEPT ![c] = NoResult]
    /\ UNCHANGED <<prio_bitmap, prio, waiting, raced>>

\* push_task on a full level: the task stays with its owner.
push_full(c, t) ==
    /\ pc[c] = "idle"
    /\ t \in outside
    /\ IsFull(queues, t)
    /\ ret' = [ret EXCEPT ![c] = NoResult]
    /\ UNCHANGED <<queues, prio_bitmap, pc, task, prio, outside, waiting, raced>>

\* push_task, its fetch_or.
mark(c) ==
    /\ Goto(c, "mark", "idle")
    /\ prio_bitmap' = SetBit(prio_bitmap, task[c])
    /\ task' = [task EXCEPT ![c] = NoTask]
    /\ UNCHANGED <<queues, prio, ret, outside, waiting, raced>>

hightest_priority(c) ==
    /\ pc[c] = "idle"
    /\ ret' = [ret EXCEPT ![c] = Highest(prio_bitmap)]
    /\ UNCHANGED <<queues, prio_bitmap, pc, task, prio, outside, waiting, raced>>

-----------------------------------------------------------------------------
\* Fault: the scan starts where the bitmap points (the commented-out hint of
\* ready_queue.rs:77-78).
take_begin_hint(c) ==
    /\ Goto(c, "idle", "scan")
    /\ prio' = [prio EXCEPT ![c] = Highest(prio_bitmap)]
    /\ ret' = [ret EXCEPT ![c] = NoResult]
    /\ waiting' = [waiting EXCEPT ![c] = Queued(queues)]
    /\ UNCHANGED <<queues, prio_bitmap, task, outside, raced>>

take_begin(c) ==
    /\ Goto(c, "idle", "scan")
    /\ prio' = [prio EXCEPT ![c] = HIGHEST_PRIORITY]
    /\ ret' = [ret EXCEPT ![c] = NoResult]
    /\ waiting' = [waiting EXCEPT ![c] = Queued(queues)]
    /\ UNCHANGED <<queues, prio_bitmap, task, outside, raced>>

\* pop_front finds the level empty.
scan_empty(c) ==
    /\ pc[c] = "scan"
    /\ prio[c] \in Level
    /\ queues[prio[c]] = <<>>
    /\ prio' = [prio EXCEPT ![c] = @ + 1]
    /\ UNCHANGED <<queues, prio_bitmap, pc, task, ret, outside, waiting, raced>>

\* Its pusher has not set the bit yet.
Unmarked(t) == \E d \in CPU : pc[d] = "mark" /\ task[d] = t

\* Fault: pop_back() instead of pop_front().
scan_pop_back(c) ==
    LET q == queues[prio[c]]
        newest == q[Len(q)]
    IN  /\ Goto(c, "scan", "settle")
        /\ prio[c] \in Level
        /\ q # <<>>
        /\ task' = [task EXCEPT ![c] = newest]
        /\ queues' = [queues EXCEPT ![prio[c]] = SubSeq(q, 1, Len(q) - 1)]
        /\ waiting' = [d \in CPU |-> waiting[d] \ {newest}]
        /\ raced' = (raced \/ Unmarked(newest))
        /\ UNCHANGED <<prio_bitmap, prio, ret, outside>>

\* pop_front finds a task.
scan_pop(c) ==
    /\ Goto(c, "scan", "settle")
    /\ prio[c] \in Level
    /\ queues[prio[c]] # <<>>
    /\ task' = [task EXCEPT ![c] = Head(queues[prio[c]])]
    /\ queues' = PopFront(queues, prio[c])
    /\ waiting' = [d \in CPU |-> waiting[d] \ {Head(queues[prio[c]])}]
    /\ raced' = (raced \/ Unmarked(Head(queues[prio[c]])))
    /\ UNCHANGED <<prio_bitmap, prio, ret, outside>>

\* The loop has passed the last level: the null pointer.
scan_none(c) ==
    /\ Goto(c, "scan", "idle")
    /\ prio[c] = NoPriority
    /\ ret' = [ret EXCEPT ![c] = prio[c]]
    /\ UNCHANGED <<queues, prio_bitmap, task, prio, outside, waiting, raced>>

\* The second critical section, and the return with the task.
settle(c) ==
    /\ Goto(c, "settle", "idle")
    /\ prio_bitmap' = Settle(queues, prio_bitmap, prio[c])
    /\ ret' = [ret EXCEPT ![c] = NextPrio(queues, prio_bitmap, prio[c])]
    /\ outside' = outside \cup {task[c]}
    /\ task' = [task EXCEPT ![c] = NoTask]
    /\ UNCHANGED <<queues, prio, waiting, raced>>

Next ==
    \E c \in CPU :
        \/ \E t \in Task : push_back(c, t) \/ push_full(c, t)
        \/ mark(c)
        \/ hightest_priority(c)
        \/ take_begin(c) \/ scan_empty(c) \/ scan_pop(c) \/ scan_none(c)
        \/ settle(c)

Spec == Init /\ [][Next]_vars

-----------------------------------------------------------------------------
PC == {"idle", "mark", "scan", "settle"}

\* The state keeps its shape: queues are bounded and hold only tasks of their
\* own level, and a caller that is pushing or has popped holds a task (ready_queue.rs:28-37).
TypeOK ==
    /\ queues \in [Level -> Seq(Task)]
    /\ \A p \in Level : Len(queues[p]) <= READY_QUEUE_SIZE
    /\ \A p \in Level : \A t \in InQueue(queues, p) : priority[t] = p
    /\ prio_bitmap \subseteq Level
    /\ pc \in [CPU -> PC]
    /\ task \in [CPU -> Task \cup {NoTask}]
    /\ \A c \in CPU : pc[c] \in {"mark", "settle"} => task[c] \in Task
    /\ prio \in [CPU -> Level \cup {NoPriority}]
    /\ \A c \in CPU : pc[c] = "settle" => prio[c] \in Level
    /\ ret \in [CPU -> Level \cup {NoPriority, NoResult}]
    /\ outside \subseteq Task
    /\ waiting \in [CPU -> SUBSET Task]
    /\ raced \in BOOLEAN

\* The tasks in the hands of a take_task that has not returned yet.
Taken == {task[c] : c \in {d \in CPU : pc[d] = "settle"}}

\* A pushed task is neither lost nor handed out twice: at every instant each
\* task is in exactly one place, one position of one queue, the hands of one
\* take_task that popped it, or its owner (the whole of push_task and
\* take_task, ready_queue.rs:54-119).
EveryTaskInOnePlace ==
    /\ Queued(queues) \cup Taken \cup outside = Task
    /\ Queued(queues) \cap Taken = {}
    /\ Queued(queues) \cap outside = {}
    /\ Taken \cap outside = {}
    /\ \A p \in Level : \A i, j \in 1 .. Len(queues[p]) :
          queues[p][i] = queues[p][j] => i = j
    /\ \A c, d \in CPU :
          pc[c] = "settle" /\ pc[d] = "settle" /\ task[c] = task[d] => c = d

\* A task never becomes invisible to hightest_priority: a level that holds a
\* task has its bit set, unless the pusher that will set it has not done so
\* yet.  This is what holding the lock over is_empty and fetch_and is for
\* (the comment at ready_queue.rs:85).
BitCoversQueue ==
    \A p \in Occupied(queues) :
        \/ p \in prio_bitmap
        \/ \E c \in CPU : pc[c] = "mark" /\ priority[task[c]] = p

\* take_task never passes over a more urgent task that was queued during the
\* whole call, whatever other CPUs pushed and popped meanwhile, and a null
\* pointer means that no task was queued during the whole call
\* (ready_queue.rs:79-118).
NoOvertaking ==
    \A c \in CPU :
        /\ pc[c] \in {"scan", "settle"} =>
               \A t \in waiting[c] : priority[t] >= prio[c]
        /\ pc[c] = "scan" /\ prio[c] = NoPriority => waiting[c] = {}

\* The queue implements the abstract pool: a put takes effect at push_back,
\* a get at pop_front, and the bitmap and the scan are invisible.
Pool == INSTANCE PriorityPool WITH
            ready <- queues,
            getting <- {c \in CPU : pc[c] = "scan"}

ImplementsPool == Pool!Spec

Quiescent == \A c \in CPU : pc[c] = "idle"

\* There is only one way to a bit for an empty level: take_task pops a task
\* between its push_back and its fetch_or.  Without that, whatever else
\* overlaps, the bitmap is exact whenever no operation is in progress, so that
\* hightest_priority reports the most urgent queued task, or one level below
\* the lowest if there is none (ready_queue.rs:57-65 and 84-113,
\* event_source.rs:24).
ExactUnlessRaced == Quiescent /\ ~raced => prio_bitmap = Occupied(queues)

StaysVisible ==
    \A c \in CPU : settle(c) =>
        \A t \in waiting[c] :
            \/ ret'[c] <= priority[t]
            \/ \E d \in CPU : pc[d] = "mark" /\ priority[task[d]] = priority[t]

\* The priority returned with a task may be too urgent, as fetch_and returns
\* the old bitmap, but it never hides a task that has been queued during the
\* whole call from the process table it is stored in, unless somebody who
\* will store that level himself is still pushing to it
\* (ready_queue.rs:102-113, scheduler.rs:330-340).
NextPrioHidesNothing == [][StaysVisible]_vars

=============================================================================
