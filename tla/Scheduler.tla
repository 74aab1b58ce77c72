------------------------------ MODULE Scheduler ------------------------------
(***************************************************************************)
(* The scheduling loop of all CPUs over the kernel's scheduler (process 0) *)
(* and the schedulers of the user processes: schedule/scheduler.rs, the    *)
(* process table's choice of a process, the loops kschedule, uschedule and *)
(* utok_schedule, the wait for a runnable task, and the trap entry and the *)
(* trap handler as far as they touch the table.                            *)
(*                                                                         *)
(* A step makes at most one access to what CPUs share: a ready queue (see  *)
(* ReadyQueueOps), or one entry of the process table.  A CPU's own trap    *)
(* queue, IS_SLEEPING, CURRENT_TASK and CURRENT_VSPACE are accessed by     *)
(* that CPU alone (no code sends an IPI) and change within such a step.    *)
(* A level's queue has room for every task: ReadyQueue has the full one.   *)
(* Operators marked "Fault" are explained in ReadyQueueOps.                *)
(*                                                                         *)
(* What the OS does is chosen freely: a running task yields, blocks, traps *)
(* or is interrupted, also in the middle of a push_task, and a task or a   *)
(* trap handler wakes a task.  The loops and the handlers run with         *)
(* interrupts disabled, as api.rs asks; an exception comes only outside of *)
(* a push.  `outside' holds the tasks in the OS's hands, blocked or not    *)
(* started yet.                                                            *)
(***************************************************************************)
EXTENDS ReadyQueueOps, FiniteSets

CONSTANTS
    CPU_NUM,
    PROCESS_NUM,        \* Registered processes, the kernel included.
    pid_of,             \* Task::pid(); 0 for the kernel's tasks.
    Handler,            \* Whichever trap handler task the pool hands out.
    MAX_TRAPS,          \* Bound: interrupts a CPU may have pending.
    WFI_MAY_RETURN,     \* Whether WFI may complete without a trap.
    KERNEL_PUSH_IRQ     \* Whether the OS's kernel tasks call push_task with
                        \* interrupts enabled; its users' tasks always do.

CPU == 0 .. CPU_NUM - 1
Process == 0 .. PROCESS_NUM - 1

ASSUME CpuAssumption == CPU_NUM \in Nat \ {0} /\ PROCESS_NUM \in Nat \ {0}
ASSUME RoomAssumption == IsFiniteSet(Task) /\ Cardinality(Task) <= READY_QUEUE_SIZE
ASSUME PidAssumption == pid_of \in [Task -> Process]
ASSUME HandlerAssumption == Handler \notin Task \cup {NoTask}
ASSUME BoundAssumption == MAX_TRAPS \in Nat /\ WFI_MAY_RETURN \in BOOLEAN
ASSUME PushAssumption == KERNEL_PUSH_IRQ \in BOOLEAN

VARIABLES
    queues,         \* Scheduler.ready_queue.queues of each process
    prio_bitmap,    \* Scheduler.ready_queue.prio_bitmap of each process
    traps,          \* The kernel's TrapWaitQueue.queues: for each trap the
                    \* task blocked on it, NoTask for an interrupt.
    highest_prio,   \* PROCESS_INFO_TABLE.table[pid].highest_prio[cpu]
    is_sleeping,    \* IS_SLEEPING
    vspace,         \* CURRENT_VSPACE
    page_table,     \* The address space the MMU uses, VSpace::into_vspace.
    in_kernel,      \* IN_KERNEL
    current,        \* CURRENT_TASK; NoTask between two tasks and in the
                    \* wait context.
    outside,
    context,        \* Where each task goes on when it runs again.
    pc, loc,        \* Where each CPU is, and its local variables.
    seen,           \* History: the tasks that were published when the CPU
                    \* announced that it would sleep, and are still queued.
    delayed         \* History: the entries of the table whose last store an
                    \* interrupt had separated from its read.

queueVars == <<queues, prio_bitmap>>
spaceVars == <<vspace, page_table>>
modeVars == <<spaceVars, in_kernel>>
cpuVars == <<traps, is_sleeping, modeVars, current>>
tableVars == <<highest_prio, delayed>>
taskVars == <<outside, context>>
vars == <<queueVars, tableVars, cpuVars, taskVars, pc, loc, seen>>

ISIZE_MAX == NoPriority + 1

\* home: the process whose scheduler runs the loop.  pid: the one chosen, or
\* operated on.  idx, best: the scan of the table.  task, prio: what is pushed
\* or was popped.  all, cpu: which entries update_prio writes, and the next
\* one.  ret: where to go afterwards.  work: the trap being handled.  late
\* (history): an interrupt has come between the read of prio and its store.
Fresh ==
    [home |-> 0, pid |-> 0, idx |-> 0, best |-> ISIZE_MAX,
     task |-> NoTask, prio |-> NoPriority, all |-> FALSE, cpu |-> 0,
     ret |-> "none", work |-> NoTask, late |-> FALSE]

\* The context of a task that is not in the middle of a push_task.
Running == [at |-> "run", loc |-> Fresh]

\* All CPUs are past kernel_init_* and enter raw_kschedule.
Init ==
    /\ queues = [p \in Process |-> EmptyQueues]
    /\ prio_bitmap = [p \in Process |-> {}]
    /\ traps = [c \in CPU |-> <<>>]
    /\ highest_prio = [p \in Process |-> [c \in CPU |-> NoPriority]]
    /\ is_sleeping = [c \in CPU |-> FALSE]
    /\ vspace = [c \in CPU |-> 0]
    /\ page_table = [c \in CPU |-> 0]
    /\ in_kernel = [c \in CPU |-> TRUE]
    /\ current = [c \in CPU |-> NoTask]
    /\ outside = Task
    /\ context = [t \in Task |-> Running]
    /\ pc = [c \in CPU |-> "select"]
    /\ loc = [c \in CPU |-> Fresh]
    /\ seen = [c \in CPU |-> {}]
    /\ delayed = {}

Goto(c, from, to) ==
    /\ pc[c] = from
    /\ pc' = [pc EXCEPT ![c] = to]

Lower(a, b) == IF a < b THEN a ELSE b

-----------------------------------------------------------------------------
(* What a scheduler's two event sources report.                            *)

\* TrapWaitQueue::hightest_priority.  Traps are queued at the kernel only.
TrapPrioOffByOne(p, c) ==   \* Fault: one trap does not count.
    IF p = 0 /\ Len(traps[c]) > 1 THEN HIGHEST_PRIORITY ELSE NoPriority

TrapPrio(p, c) ==
    IF p = 0 /\ traps[c] # <<>> THEN HIGHEST_PRIORITY ELSE NoPriority

\* Scheduler::hightest_priority.
ReadyPrioOnly(p, c) == Highest(prio_bitmap[p])  \* Fault: the first source is skipped.

SourcesPrio(p, c) == Lower(TrapPrio(p, c), Highest(prio_bitmap[p]))

-----------------------------------------------------------------------------
(* highest_prio_process: read the entries in turn, keep the first of the   *)
(* most urgent ones, but prefer the process whose scheduler is asking.     *)

ReadEntry(c, from, to) ==
    LET l == loc[c]
        prio == highest_prio[l.idx][c]
        better == prio < l.best \/ (prio = l.best /\ l.idx = l.home)
        last == l.idx = PROCESS_NUM - 1
    IN  /\ Goto(c, from, IF last THEN to ELSE from)
        /\ loc' = [loc EXCEPT ![c] =
                      [l EXCEPT !.pid = IF better THEN l.idx ELSE @,
                                !.best = IF last THEN ISIZE_MAX ELSE Lower(prio, @),
                                !.idx = IF last THEN 0 ELSE @ + 1]]
        /\ UNCHANGED <<queueVars, tableVars, cpuVars, taskVars, seen>>

process_schedule(c) == ReadEntry(c, "select", "pop")

\* The second look, by wait_for_runnable_task.
check_again(c) == ReadEntry(c, "check", "decide")

-----------------------------------------------------------------------------
(* Scheduler::pop_task, called by ktask_schedule or utask_schedule.        *)

\* Ask both sources.  The traps come first in `sources', so the ready queue
\* is taken from only if it is strictly more urgent, and then no trap waits
\* and the second priority is NoPriority.  A user's loop that has chosen
\* another process enters the kernel first (trap_entry, type 2), which goes on
\* with that choice.
PopTask(c, from_queue, space, mapped) ==
    LET l == loc[c]
        handler == ~from_queue /\ l.pid = 0 /\ traps[c] # <<>>
    IN  /\ Goto(c, "pop", IF from_queue THEN "scan" ELSE "store")
        /\ vspace' = [vspace EXCEPT ![c] = space]
        /\ page_table' = [page_table EXCEPT ![c] = mapped]
        /\ in_kernel' = [in_kernel EXCEPT ![c] = @ \/ l.home # l.pid]
        /\ loc' = [loc EXCEPT ![c] =
                      [l EXCEPT !.home = IF @ = l.pid THEN @ ELSE 0,
                                !.task = IF handler THEN Handler ELSE NoTask,
                                !.prio = IF from_queue \/ handler
                                         THEN HIGHEST_PRIORITY ELSE NoPriority,
                                !.all = from_queue,
                                !.cpu = IF from_queue THEN 0 ELSE c,
                                !.ret = "popped"]]
        /\ UNCHANGED <<queueVars, tableVars, traps, is_sleeping, current,
                       taskVars, seen>>

\* switch_vspace maps the address space unless CURRENT_VSPACE names it already;
\* the kernel has none of its own and runs in any.
SwitchTo(c, p) == IF p \in {vspace[c], 0} THEN page_table[c] ELSE p

\* The kernel's loop switches before it pops from a user's scheduler.  A user's
\* loop that has chosen another process stores its choice in CURRENT_VSPACE, and
\* the kernel's switch finds it there.
SpaceOfChoice(c) == IF loc[c].home = loc[c].pid THEN vspace[c] ELSE loc[c].pid

MappedForChoice(c) ==
    IF loc[c].home = 0 THEN SwitchTo(c, loc[c].pid) ELSE page_table[c]

ReadyIsBetter(c) == Highest(prio_bitmap[loc[c].pid]) < TrapPrio(loc[c].pid, c)

pop_task_tie(c) ==          \* Fault: on a tie the ready queue wins.
    PopTask(c, Highest(prio_bitmap[loc[c].pid]) <= TrapPrio(loc[c].pid, c),
            SpaceOfChoice(c), MappedForChoice(c))

pop_task_same_space(c) ==   \* Fault: no switch_vspace before the pop.
    PopTask(c, ReadyIsBetter(c), vspace[c], page_table[c])

pop_task(c) == PopTask(c, ReadyIsBetter(c), SpaceOfChoice(c), MappedForChoice(c))

scan_empty(c) ==
    LET l == loc[c]
    IN  /\ pc[c] = "scan"
        /\ l.prio \in Level
        /\ queues[l.pid][l.prio] = <<>>
        /\ loc' = [loc EXCEPT ![c].prio = @ + 1]
        /\ UNCHANGED <<queueVars, tableVars, cpuVars, taskVars, pc, seen>>

scan_pop(c) ==
    LET l == loc[c]
        t == Head(queues[l.pid][l.prio])
    IN  /\ Goto(c, "scan", "settle")
        /\ l.prio \in Level
        /\ queues[l.pid][l.prio] # <<>>
        /\ queues' = [queues EXCEPT ![l.pid] = PopFront(@, l.prio)]
        /\ loc' = [loc EXCEPT ![c].task = t]
        /\ seen' = [d \in CPU |-> seen[d] \ {t}]
        /\ UNCHANGED <<prio_bitmap, tableVars, cpuVars, taskVars>>

scan_none(c) ==
    /\ Goto(c, "scan", "store")
    /\ loc[c].prio = NoPriority
    /\ UNCHANGED <<queueVars, tableVars, cpuVars, taskVars, loc, seen>>

settle(c) ==
    LET l == loc[c]
        qs == queues[l.pid]
        bits == prio_bitmap[l.pid]
    IN  /\ Goto(c, "settle", "store")
        /\ prio_bitmap' = [prio_bitmap EXCEPT ![l.pid] = Settle(qs, bits, l.prio)]
        /\ loc' = [loc EXCEPT ![c].prio = NextPrio(qs, bits, l.prio)]
        /\ UNCHANGED <<queues, tableVars, cpuVars, taskVars, seen>>

\* update_prio, one entry at a time.
StoreEntry(c, last) ==
    LET l == loc[c]
    IN  /\ Goto(c, "store", IF last THEN l.ret ELSE "store")
        /\ highest_prio' = [highest_prio EXCEPT ![l.pid][l.cpu] = l.prio]
        /\ delayed' = IF l.late THEN delayed \cup {<<l.pid, l.cpu>>}
                      ELSE delayed \ {<<l.pid, l.cpu>>}
        /\ loc' = [loc EXCEPT
                      ![c] = IF ~last THEN [l EXCEPT !.cpu = @ + 1]
                             ELSE [Fresh EXCEPT
                                      !.home = l.home, !.work = l.work,
                                      !.pid = IF l.ret = "popped" THEN l.pid ELSE 0,
                                      !.task = IF l.ret = "popped"
                                               THEN l.task ELSE NoTask]]
        /\ UNCHANGED <<queueVars, cpuVars, taskVars, seen>>

store_past_end(c) ==        \* Fault: the loop runs once too often.
    StoreEntry(c, ~loc[c].all \/ loc[c].cpu = CPU_NUM)

store(c) == StoreEntry(c, ~loc[c].all \/ loc[c].cpu = CPU_NUM - 1)

\* The queued tasks whose push_task has returned.
Published ==
    {t \in Task : /\ \E p \in Process : t \in Queued(queues[p])
                  /\ \A c \in CPU : loc[c].task # t
                  /\ \A u \in Task : context[u].loc.task # t}

\* With a task: switch to its address space, unless its process was entered
\* before the pop, and resume it.  Without one: a user's loop enters the kernel,
\* where utok_schedule tries CURRENT_VSPACE's scheduler; the kernel's loop
\* switches to the wait context and announces that it will sleep.

\* The handler goes to the address space of the task that trapped.
SpaceOfTrap(t) == IF t = NoTask THEN 0 ELSE pid_of[t]

run_popped(c) ==
    LET l == loc[c]
        address_space == IF l.task # Handler THEN pid_of[l.task]
                         ELSE SpaceOfTrap(Head(traps[c]))
        resumed == IF l.task = Handler THEN [at |-> "handler", loc |-> Fresh]
                   ELSE context[l.task]
    IN  /\ l.task # NoTask
        /\ Goto(c, "popped", resumed.at)
        /\ current' = [current EXCEPT ![c] = l.task]
        /\ vspace' = [vspace EXCEPT ![c] =
                          IF l.pid = 0 THEN address_space ELSE @]
        /\ page_table' = [page_table EXCEPT ![c] =
                              IF l.pid = 0 THEN SwitchTo(c, address_space) ELSE @]
        /\ in_kernel' = [in_kernel EXCEPT ![c] = l.pid = 0]
        /\ loc' = [loc EXCEPT ![c] = resumed.loc]
        /\ context' = [t \in Task |-> IF t = l.task THEN Running ELSE context[t]]
        /\ UNCHANGED <<queueVars, tableVars, traps, is_sleeping, outside, seen>>

into_kernel_unmarked(c) ==  \* Fault: IN_KERNEL is set by the other traps only.
    /\ Goto(c, "popped", "pop")
    /\ loc[c].task = NoTask
    /\ loc[c].home # 0
    /\ loc' = [loc EXCEPT ![c] = [Fresh EXCEPT !.pid = vspace[c]]]
    /\ UNCHANGED <<queueVars, tableVars, cpuVars, taskVars, seen>>

into_kernel(c) ==
    /\ Goto(c, "popped", "pop")
    /\ loc[c].task = NoTask
    /\ loc[c].home # 0
    /\ in_kernel' = [in_kernel EXCEPT ![c] = TRUE]
    /\ loc' = [loc EXCEPT ![c] = [Fresh EXCEPT !.pid = vspace[c]]]
    /\ UNCHANGED <<queueVars, tableVars, traps, is_sleeping, spaceVars,
                   current, taskVars, seen>>

wait_for_runnable_task(c) ==
    /\ Goto(c, "popped", "check")
    /\ loc[c].task = NoTask
    /\ loc[c].home = 0
    /\ is_sleeping' = [is_sleeping EXCEPT ![c] = TRUE]
    /\ seen' = [seen EXCEPT ![c] = Published]
    /\ loc' = [loc EXCEPT ![c] = Fresh]
    /\ UNCHANGED <<queueVars, tableVars, traps, modeVars, current, taskVars>>

\* The second look has named a process: read its entry once more.
stay_awake_marked(c) ==     \* Fault: IS_SLEEPING is not cleared.
    /\ Goto(c, "decide", "select")
    /\ highest_prio[loc[c].pid][c] <= LOWEST_PRIORITY
    /\ seen' = [seen EXCEPT ![c] = {}]
    /\ loc' = [loc EXCEPT ![c] = Fresh]
    /\ UNCHANGED <<queueVars, tableVars, cpuVars, taskVars>>

stay_awake(c) ==
    /\ Goto(c, "decide", "select")
    /\ highest_prio[loc[c].pid][c] <= LOWEST_PRIORITY
    /\ is_sleeping' = [is_sleeping EXCEPT ![c] = FALSE]
    /\ seen' = [seen EXCEPT ![c] = {}]
    /\ loc' = [loc EXCEPT ![c] = Fresh]
    /\ UNCHANGED <<queueVars, tableVars, traps, modeVars, current, taskVars>>

go_to_sleep(c) ==
    /\ Goto(c, "decide", "wfi")
    /\ highest_prio[loc[c].pid][c] > LOWEST_PRIORITY
    /\ loc' = [loc EXCEPT ![c] = Fresh]
    /\ UNCHANGED <<queueVars, tableVars, cpuVars, taskVars, seen>>

\* wait_irqs returns although no trap was taken.
wfi_returns(c) ==
    /\ WFI_MAY_RETURN
    /\ Goto(c, "wfi", "select")
    /\ seen' = [seen EXCEPT ![c] = {}]
    /\ UNCHANGED <<queueVars, tableVars, cpuVars, taskVars, loc>>

-----------------------------------------------------------------------------
(* Scheduler::push_task: push_back, fetch_or, then read both sources and   *)
(* store what they report for all CPUs.  push_trap ends with the last two, *)
(* for the own CPU.                                                        *)

push_task(c, t, from, ret, home) ==
    LET p == pid_of[t]
    IN  /\ Goto(c, from, "mark")
        /\ queues' = [queues EXCEPT ![p] = PushBack(@, t)]
        /\ loc' = [loc EXCEPT ![c] = [Fresh EXCEPT !.home = home, !.pid = p,
                                                  !.task = t, !.ret = ret]]
        /\ UNCHANGED <<prio_bitmap, tableVars, traps, is_sleeping, modeVars,
                       context, seen>>

mark_without_bit(c) ==      \* Fault: no fetch_or.
    /\ Goto(c, "mark", "peek")
    /\ loc' = [loc EXCEPT ![c].all = TRUE]
    /\ UNCHANGED <<queueVars, tableVars, cpuVars, taskVars, seen>>

mark(c) ==
    LET l == loc[c]
    IN  /\ Goto(c, "mark", "peek")
        /\ prio_bitmap' = [prio_bitmap EXCEPT ![l.pid] = SetBit(@, l.task)]
        /\ loc' = [loc EXCEPT ![c].all = TRUE]
        /\ UNCHANGED <<queues, tableVars, cpuVars, taskVars, seen>>

\* get_and_update_all_prio and get_and_update_current_prio, their read.
peek(c) ==
    LET l == loc[c]
    IN  /\ Goto(c, "peek", "store")
        /\ loc' = [loc EXCEPT ![c] =
                      [l EXCEPT !.prio = SourcesPrio(l.pid, c),
                                !.cpu = IF l.all THEN 0 ELSE c]]
        /\ UNCHANGED <<queueVars, tableVars, cpuVars, taskVars, seen>>

-----------------------------------------------------------------------------
(* What ends or interrupts a running task.                                 *)

\* A push_task of the running task, called with interrupts enabled.
InterruptiblePush(c) ==
    /\ pc[c] \in {"mark", "peek", "store"}
    /\ loc[c].ret = "run"
    /\ KERNEL_PUSH_IRQ \/ pid_of[current[c]] # 0

\* trap_entry for an interrupt.  IS_SLEEPING tells whether it interrupts the
\* wait context; a running task is put back once the trap is queued, and goes
\* on in the middle of its push_task when it runs again.
interrupt(c) ==
    /\ pc[c] \in {"run", "wfi"} \/ InterruptiblePush(c)
    /\ Len(traps[c]) < MAX_TRAPS
    /\ traps' = [traps EXCEPT ![c] = Append(@, NoTask)]
    /\ is_sleeping' = [is_sleeping EXCEPT ![c] = FALSE]
    /\ current' = [current EXCEPT ![c] = IF is_sleeping[c] THEN NoTask ELSE @]
    /\ pc' = [pc EXCEPT ![c] = "peek"]
    /\ loc' = [loc EXCEPT ![c] =
                  [Fresh EXCEPT !.ret = IF is_sleeping[c] THEN "select" ELSE "requeue"]]
    /\ context' = [t \in Task |->
                      IF t = current[c] /\ ~is_sleeping[c]
                      THEN [at |-> pc[c], loc |-> [loc[c] EXCEPT !.late = pc[c] = "store"]]
                      ELSE context[t]]
    /\ seen' = [seen EXCEPT ![c] = {}]
    /\ in_kernel' = [in_kernel EXCEPT ![c] = TRUE]
    /\ UNCHANGED <<queueVars, tableVars, spaceVars, outside>>

requeue_dropped(c) ==       \* Fault: the early return for the wait context is
    /\ Goto(c, "requeue", "select")     \* taken for a running task as well.
    /\ current' = [current EXCEPT ![c] = NoTask]
    /\ UNCHANGED <<queueVars, tableVars, traps, is_sleeping, modeVars,
                   taskVars, loc, seen>>

requeue(c) ==
    /\ push_task(c, current[c], "requeue", "select", 0)
    /\ current' = [current EXCEPT ![c] = NoTask]
    /\ UNCHANGED outside

\* trap_entry for an exception or a system call: the task waits in the trap
\* queue.  The code asserts that the CPU is not marked as sleeping.
sync_trap(c) ==
    /\ pc[c] = "run"
    /\ Len(traps[c]) < MAX_TRAPS
    /\ IF is_sleeping[c]
       THEN /\ pc' = [pc EXCEPT ![c] = "panic"]
            /\ UNCHANGED <<traps, current, loc>>
       ELSE /\ pc' = [pc EXCEPT ![c] = "peek"]
            /\ traps' = [traps EXCEPT ![c] = Append(@, current[c])]
            /\ current' = [current EXCEPT ![c] = NoTask]
            /\ loc' = [loc EXCEPT ![c].ret = "select"]
    /\ in_kernel' = [in_kernel EXCEPT ![c] = TRUE]
    /\ UNCHANGED <<queueVars, tableVars, is_sleeping, spaceVars, taskVars, seen>>

\* IN_KERNEL decides which loop goes on after a task has yielded or blocked:
\* kschedule, or the uschedule of the address space.
NextLoop(c) == IF in_kernel[c] THEN 0 ELSE page_table[c]

\* The task yields in state Ready.
yield(c) ==
    /\ push_task(c, current[c], "run", "select", NextLoop(c))
    /\ current' = [current EXCEPT ![c] = NoTask]
    /\ UNCHANGED outside

\* The task blocks or exits.
block(c) ==
    LET t == current[c]
    IN  /\ Goto(c, "run", "select")
        /\ outside' = outside \cup {t}
        /\ loc' = [loc EXCEPT ![c].home = NextLoop(c)]
        /\ current' = [current EXCEPT ![c] = NoTask]
        /\ UNCHANGED <<queueVars, tableVars, traps, is_sleeping, modeVars,
                       context, seen>>

\* A running task wakes a task through the API.  User code reaches the
\* scheduler of its own process only.
wake(c, t) ==
    /\ t \in outside
    /\ pc[c] = "run" => pid_of[current[c]] \in {0, pid_of[t]}
    /\ push_task(c, t, "run", "run", 0)
    /\ outside' = outside \ {t}
    /\ UNCHANGED current

-----------------------------------------------------------------------------
(* The trap handler task, with interrupts disabled.                        *)

\* Take the next trap; when it was the last one, report the new priority of
\* the own CPU before the trap is handled.
take_trap(c) ==
    LET l == loc[c]
        t == Head(traps[c])
        last == Len(traps[c]) = 1
    IN  /\ traps[c] # <<>>
        /\ Goto(c, "handler", IF last THEN "peek" ELSE "handle")
        /\ traps' = [traps EXCEPT ![c] = Tail(@)]
        /\ vspace' = [vspace EXCEPT ![c] = SpaceOfTrap(t)]
        /\ page_table' = [page_table EXCEPT ![c] = SwitchTo(c, SpaceOfTrap(t))]
        /\ loc' = [loc EXCEPT ![c] =
                      [l EXCEPT !.work = t, !.ret = IF last THEN "handle" ELSE @]]
        /\ UNCHANGED <<queueVars, tableVars, is_sleeping, in_kernel, current,
                       taskVars, seen>>

\* The interrupt has been handled, and wakes a task or none.
interrupt_wakes(c, t) ==
    /\ loc[c].work = NoTask
    /\ t \in outside
    /\ push_task(c, t, "handle", "handler", 0)
    /\ outside' = outside \ {t}
    /\ UNCHANGED current

interrupt_done(c) ==
    /\ Goto(c, "handle", "handler")
    /\ loc[c].work = NoTask
    /\ UNCHANGED <<queueVars, tableVars, cpuVars, taskVars, loc, seen>>

\* The trapped task has been served and becomes ready.
task_done(c) ==
    /\ loc[c].work # NoTask
    /\ push_task(c, loc[c].work, "handle", "handler", 0)
    /\ UNCHANGED <<current, outside>>

\* The trapped task has exited in its system call: it is not queued again.
task_exits(c) ==
    /\ Goto(c, "handle", "handler")
    /\ loc[c].work # NoTask
    /\ outside' = outside \cup {loc[c].work}
    /\ loc' = [loc EXCEPT ![c].work = NoTask]
    /\ UNCHANGED <<queueVars, tableVars, cpuVars, context, seen>>

\* No trap left: the handler goes back to the pool.
reschedule_handler(c) ==
    /\ Goto(c, "handler", "select")
    /\ traps[c] = <<>>
    /\ current' = [current EXCEPT ![c] = NoTask]
    /\ UNCHANGED <<queueVars, tableVars, traps, is_sleeping, modeVars,
                   taskVars, loc, seen>>

-----------------------------------------------------------------------------
\* What the scheduler does without the OS's choosing.
Step(c) ==
    \/ process_schedule(c) \/ check_again(c)
    \/ pop_task(c) \/ scan_empty(c) \/ scan_pop(c) \/ scan_none(c) \/ settle(c)
    \/ store(c) \/ run_popped(c) \/ into_kernel(c)
    \/ wait_for_runnable_task(c) \/ stay_awake(c) \/ go_to_sleep(c)
    \/ mark(c) \/ peek(c) \/ requeue(c)
    \/ take_trap(c) \/ interrupt_done(c) \/ task_done(c) \/ task_exits(c)
    \/ reschedule_handler(c)

Choice(c) ==
    \/ interrupt(c) \/ sync_trap(c) \/ yield(c) \/ block(c) \/ wfi_returns(c)
    \/ \E t \in Task : wake(c, t) \/ interrupt_wakes(c, t)

Next == \E c \in CPU : Step(c) \/ Choice(c)

Spec == Init /\ [][Next]_vars

\* A CPU that has something to do does it, and the timer interrupts a CPU
\* whenever interrupts are enabled for long enough; it stays pending while
\* they are not (the comment at scheduler.rs:366-370 relies on that).
Fairness == \A c \in CPU : WF_vars(Step(c)) /\ SF_vars(interrupt(c))

FairSpec == Spec /\ Fairness

-----------------------------------------------------------------------------
PC == {"select", "check", "decide", "pop", "scan", "settle", "store", "popped",
       "wfi", "mark", "peek", "run", "requeue", "handler", "handle", "panic"}

Local ==
    [home : Process, pid : Process, idx : Process,
     best : Level \cup {NoPriority, ISIZE_MAX}, task : Task \cup {Handler, NoTask},
     prio : Level \cup {NoPriority}, all : BOOLEAN, cpu : CPU,
     ret : PC \cup {"none"}, work : Task \cup {NoTask}, late : BOOLEAN]

\* The state keeps its shape (scheduler.rs:52-84, current.rs:23-93).
TypeOK ==
    /\ queues \in [Process -> [Level -> Seq(Task)]]
    /\ prio_bitmap \in [Process -> SUBSET Level]
    /\ traps \in [CPU -> Seq(Task \cup {NoTask})]
    /\ highest_prio \in [Process -> [CPU -> Level \cup {NoPriority}]]
    /\ is_sleeping \in [CPU -> BOOLEAN]
    /\ vspace \in [CPU -> Process]
    /\ page_table \in [CPU -> Process]
    /\ in_kernel \in [CPU -> BOOLEAN]
    /\ current \in [CPU -> Task \cup {Handler, NoTask}]
    /\ outside \subseteq Task
    /\ context \in [Task -> [at : {"run", "mark", "peek", "store"}, loc : Local]]
    /\ pc \in [CPU -> PC]
    /\ loc \in [CPU -> Local]
    /\ seen \in [CPU -> SUBSET Task]
    /\ delayed \subseteq Process \X CPU

\* The task a CPU has popped and not yet made its current task, is running,
\* or is serving.
InHand(c, t) ==
    \/ current[c] = t
    \/ loc[c].work = t
    \/ loc[c].task = t /\ \/ pc[c] \in {"settle", "popped"}
                          \/ pc[c] = "store" /\ loc[c].ret = "popped"

\* Where a task is.
QueueSlots(t) ==
    UNION {{<<"queue", p, q, i>> : i \in {j \in DOMAIN queues[p][q] : queues[p][q][j] = t}} :
              p \in Process, q \in Level}

TrapSlots(t) ==
    UNION {{<<"trap", c, i>> : i \in {j \in DOMAIN traps[c] : traps[c][j] = t}} : c \in CPU}

Places(t) ==
    QueueSlots(t) \cup TrapSlots(t)
    \cup {<<"hand", c>> : c \in {d \in CPU : InHand(d, t)}}
    \cup {<<"outside", u>> : u \in outside \cap {t}}

\* Neither a trap, an interrupt, a yield nor a wake-up loses a task or lets
\* two CPUs have it: each task is in exactly one place, one slot of a ready
\* queue, which is its own process's, one CPU's trap queue, one CPU's hands,
\* or the OS (main_loop.rs:51-234 and 465-498, trap_wait_queue.rs:164-238).
EveryTaskInOnePlace ==
    \A t \in Task :
        /\ Cardinality(Places(t)) = 1
        /\ \A p \in Process : t \in Queued(queues[p]) => p = pid_of[t]

\* The entry code never finds a running task on a CPU that is marked as
\* sleeping (the assertion at main_loop.rs:65).
NoPanic == \A c \in CPU : pc[c] # "panic"

\* A task runs in the address space of its process, whichever loop picked it,
\* and CURRENT_VSPACE says so (current.rs:73-84, main_loop.rs:446-461, 525-597).
\* The kernel's tasks run in any address space.
RunsInItsAddressSpace ==
    \A c \in CPU : pc[c] = "run" =>
        /\ vspace[c] = pid_of[current[c]]
        /\ pid_of[current[c]] # 0 => page_table[c] = pid_of[current[c]]

\* What the CPU executes is user code: a user task, or the loop of its process.
InUserMode(c) ==
    \/ loc[c].home # 0
    \/ /\ pc[c] = "run" \/ loc[c].ret = "run"
       /\ current[c] \in Task
       /\ pid_of[current[c]] # 0

\* IN_KERNEL tells each CPU's privilege level, from which the loop to go on
\* with, the stack handler and the sources' addresses are chosen: wherever a
\* user's loop or task is left it is set, and it is cleared only on the way
\* back (current.rs:49-67, main_loop.rs:53-57, 316-321 and 835-850,
\* scheduler.rs:96-98, event_source.rs:97-115).
PrivilegeIsKnown == \A c \in CPU : in_kernel[c] = ~InUserMode(c)

\* A CPU goes to sleep over a task, whose push_task had returned before the CPU
\* announced that it would sleep and that nobody has taken since, in one way
\* only: an interrupt has separated the read and the store of the table's entry
\* (main_loop.rs:412-417, scheduler.rs:459-463).
NoSleepOverReadyTask ==
    \A c \in CPU : pc[c] = "wfi" =>
        \A t \in seen[c] : <<pid_of[t], c>> \in delayed

\* A CPU with a trap in its queue chooses the kernel's scheduler, and so the
\* trap's handler, before any user task (trap_wait_queue.rs:241-248: the
\* queue's priority is ACTIVE_PRIORITY while it is not empty;
\* event_source.rs:42-44: each CPU has a priority of its own).
TrapsBeforeUserTasks ==
    \A c \in CPU : pc[c] = "pop" /\ traps[c] # <<>> => loc[c].pid = 0

\* Between two operations of its CPU, the table reports a process as less urgent
\* than a waiting trap or a task whose push_task has returned in one way only: an
\* interrupt has separated the read and the store of its entry (scheduler.rs:421-461).
TableHidesNothing ==
    \A c \in CPU :
        pc[c] \in {"run", "handle", "pop", "decide", "wfi"} =>
            /\ \A p \in Process :
                   <<p, c>> \in delayed \/ highest_prio[p][c] <= TrapPrio(p, c)
            /\ \A t \in Published :
                   \/ <<pid_of[t], c>> \in delayed
                   \/ highest_prio[pid_of[t]][c] <= priority[t]

\* A CPU runs no task while a trap waits in its queue: the traps come first
\* in the list of event sources and win every tie (scheduler.rs:112-123 and
\* 293-312).  It makes TRAP_WAIT_QUEUE_SIZE irrelevant, each CPU needs one
\* slot.
TrapsBeforeTasks == \A c \in CPU : pc[c] = "run" => traps[c] = <<>>

\* A ready task of the kernel is eventually popped, even if all CPUs sleep
\* and nobody sends them an IPI (scheduler.rs:366-370).
KernelTaskIsPopped ==
    \A t \in Task : pid_of[t] = 0 =>
        (t \in Queued(queues[0]) ~> t \notin Queued(queues[0]))

\* The same for a task of a user process.
UserTaskIsPopped ==
    \A t \in Task : pid_of[t] # 0 =>
        (t \in Queued(queues[pid_of[t]]) ~> t \notin Queued(queues[pid_of[t]]))

\* Every trap is eventually taken by a handler on the CPU that it hit, since
\* no other CPU looks into that queue (trap_wait_queue.rs:170-173).
TrapIsTaken == \A c \in CPU : traps[c] # <<>> ~> traps[c] = <<>>

=============================================================================
