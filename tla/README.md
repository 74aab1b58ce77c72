# vsched2 in TLA+

vsched2 is a task scheduler that lives in a vDSO: the kernel and every user
process map the same code, and share one page of data per system. On each CPU a
*scheduling loop* picks a process, takes a task out of that process's scheduler
and runs it; the loop of a user process can hand tasks of its own process to
the CPU without entering the kernel. This directory models the loop, the
queues, the table the CPUs share, the handling of traps and the stacks all this
runs on, checks the models with TLC, and proves what matters most about each of
them with TLAPS, for any number of CPUs, processes, tasks, handlers and stacks.

All paths below are relative to the repository's source root; `main_loop.rs`
means `src/main_loop.rs` in it.

## 1. Inventory

| Component | State | Operations | Talks to |
|---|---|---|---|
| Ready queue (`schedule/ready_queue.rs`) | per level a bounded FIFO under a spin lock; an atomic bitmap of levels | `push_task`, `take_task`, `hightest_priority` | the scheduler |
| Trap wait queue (`schedule/trap_wait_queue.rs`) | per CPU a FIFO of traps; one pool of idle handler tasks for all CPUs | `push_trap`, `take_task` (an idle or new handler), `hightest_priority`; the handler's loop `trap_handler`, `reschedule_handler` | the scheduler, the OS (`TrapInfo::handle`), task states |
| Scheduler (`schedule/scheduler.rs`) | a list of event sources, the two above first; its pid | `pop_task`, `push_task`, `push_trap`, `hightest_priority`, `update_prio`, `get_and_update_*_prio`; `init*` | the event sources, the process table |
| Event source interface (`schedule/event_source.rs`) | vtable, object address in kernel and in user space | `take_task`, `hightest_priority`, registration | the scheduler |
| Process table (`schedule/process_info.rs`) | per entry: valid, address space, scheduler, one published priority per CPU; `next_i` | `register_process`, `unregister_process`, `highest_prio_process` | everybody, without a lock |
| Per-CPU shared state (`current.rs`) | `CURRENT_TASK`, `CURRENT_VSPACE`, `IS_SLEEPING`, `IN_KERNEL`, wait contexts, kernel stacks | reads and writes of the own CPU | the loop, the API |
| Scheduling loop (`main_loop.rs`) | none of its own; registers between the parts | `trap_entry`, `thread_entry` and its phase 2, `kschedule`, `uschedule`, `utok_schedule`, `wait_for_runnable_task`, `switch_vspace`, `push_prev_task`, `run_task`, `run_thread`, `run_coroutine` | all of the above, the OS |
| Low-level loop (`arch/*.rs`) | registers, stack pointer | which part of the loop follows which; `wait_irqs` | the loop |
| Stack handler (`stack/handler.rs`) | per CPU a current stack, a trap stack and a bounded pool, under one lock | `alloc_stack`, `dealloc_stack`, `set_current_stack`, `take_current_stack`, `alloc_trap_stack`, `set_trap_stack`, `get_empty_stack`, `get_thread_stack` | the loop, the OS |
| Public API (`api.rs`) | none | initialisation, `push_task*`, `process_init`, `user_init`, `process_drop`, accessors | everything |
| OS interfaces (`interface.rs`) | task states (`TaskState`), contexts | traits the OS implements | external |
| Trampolines (`stack/trampoline.rs`) | – | change the stack and call on | the loop |

**What is hard.** There is no global lock. A CPU publishes how urgent a
process is in a table others read without a lock, after it has computed it from
a bitmap that others are changing, that in turn summarises queues under locks
of their own. No IPI is ever sent, so a sleeping CPU relies on that table and
on the clock. Tasks and trap handlers move between CPUs, while the CPU they
leave is still saving their contexts. A CPU keeps executing on a stack it has
already put away, and leaves a thread's stack only after the thread's context is
saved there. User loops write part of what the kernel's loop later relies on, and
user code cannot disable interrupts while it changes what all share.
PROJECT.json lists these as hazards, each at its line; a hazard with no property
says why.

**What makes each component correct.**

* Ready queue: no task is lost or duplicated; what is queued is visible in the
  bitmap; a take does not pass over a more urgent task that was there during
  the whole call; the bitmap says nothing else than what is queued.
* Trap wait queue: each trap is handled on its CPU; a handler is resumed once
  at a time, and only with its context saved; the busy wait ends.
* Scheduler, process table: the table does not hide a ready task; a trap comes
  before tasks; every ready task is run in the end.
* Loop: each task is in one place; it runs in its process's address space; no
  CPU sleeps over a task; the assertions in the code hold.
* Process table (registration): an entry belongs to one process; nothing
  reaches an entry that is half-initialised or belongs to the next process.
* Stack handler: each stack is in one place; a CPU executes on a stack that is
  its own, and a thread's stack is left before anybody can resume the thread.

## 2. The modules

| Module | Lines of the code it stands for | State and actions |
|---|---|---|
| `ReadyQueueOps` | `ready_queue.rs` | Pure operators: one per critical section or atomic instruction. No state. |
| `PriorityPool` | – (specification) | What a ready queue promises: `Put`, `Begin`, `Get`, `GetNone`. |
| `ReadyQueue` | `ready_queue.rs:28-122` | Any number of callers inside `push_task`, `take_task` and `hightest_priority`. Implements `PriorityPool`. |
| `ReadyQueueOps_proofs` | – | Lemmas about levels, the bitmap and FIFOs, for the two modules that use the ready queue. |
| `ReadyQueue_proofs`, `Scheduler_proofs`, `ProcessTable_proofs`, `TrapHandling_proofs`, `StackHandler_proofs` | – | The theorems of section 6 about the module of that name. |
| `SchedulerOneCPU_proofs` | – | The theorems about `Scheduler` on one CPU. |
| `Scheduler` | `scheduler.rs`, `process_info.rs:99-136`, `main_loop.rs`, `trap_wait_queue.rs`, `api.rs:254-324` | All CPUs in the loop over all processes' schedulers; every access to a ready queue or to an entry of the table is a step. |
| `ProcessTable` | `process_info.rs`, `api.rs:128-173, 235-296`, `main_loop.rs:348-410, 446-461, 500-597`, parts of `scheduler.rs` | Processes come and go, and CPUs choose among them in the kernel's loop and the users'; every access to an entry or to `next_i` is a step. |
| `TrapHandling` | `trap_wait_queue.rs`, `main_loop.rs:51-335, 463-498, 600-832`, `interface.rs:205-248` | Task states, the pool of handlers, the saving of contexts. |
| `StackHandler` | `stack/handler.rs`, the stack side of `main_loop.rs:51-269, 394-442, 600-850`, `api.rs:30-127, 368-388` | Where each stack is and which one each CPU executes on. Implements `StackOwnership`. |
| `StackOwnership` | – (specification) | What the stack handler promises: each stack has at most one owner, and a CPU executes on its own only. |
| `MC*` | – | Values for TLC. |

`Scheduler` and `ReadyQueue` use the same operators of `ReadyQueueOps`, so what
is proved about a step of the queue is about the step the loop takes.
`TrapHandling` looks at the same loop from the side that `Scheduler` abstracts:
`Scheduler` has one symbolic `Handler` and no task states, `TrapHandling` has
individual handlers and states, and one kernel ready queue taken as atomic.
`ProcessTable` has the one thing `Scheduler` leaves out of the table, that
entries change hands, and reduces a scheduler to a number of tasks for it.
`StackHandler` goes through the loop once more, for the stacks: of queues and
states it keeps only which tasks may come back (`ready`).

### How they correspond to the code

*Steps.* A step makes at most one access to what CPUs share: the critical
section of one level's lock, one atomic instruction, one entry of the table.
What one CPU alone reads and writes (`IS_SLEEPING`, `CURRENT_TASK`,
`CURRENT_VSPACE`, and its own trap queue, since nobody sends interrupts to
another CPU) changes within such a step. `pc[c]` is the place in the code,
`loc[c]` (`Scheduler`) or `task`/`prio` (`ReadyQueue`) the local variables.

*`ReadyQueue`.* `push_back` and `mark` are the two halves of `push_task`
(`ready_queue.rs:57-62` and `63-65`); `push_full` its failure. `take_begin`,
`scan_empty`, `scan_pop`, `scan_none` are the loop of lines 79-83 and its end,
`settle` the second critical section (84-115). The bitmap is the set of levels
whose bit is 1; the code's constant bit one below the last level appears as
`Highest({}) = NoPriority`.

*`Scheduler`.* `process_schedule` reads one entry of the table per step.
`pop_task` asks both event sources, chooses, and does what `ktask_schedule` and
`utask_schedule` do to the address space before it; the scan and `settle` take
the task; `store` is one `AtomicIsize::store` of `update_prio`; `run_popped`,
`into_kernel` and `wait_for_runnable_task` are the three ways on. `check_again`,
`stay_awake` and `go_to_sleep` are the second look before WFI. A push is
`push_task`, `mark`, `peek`, `store`..., wherever it starts: `wake`, `yield`,
`requeue`, `task_done`, `interrupt_wakes`. `interrupt` and `sync_trap` are
`trap_entry`; an interrupt may also hit a task inside a `push_task` that it has
called with interrupts enabled (`InterruptiblePush`): `context` keeps where the
task goes on, with its local variables, when it runs again, on this CPU or
another. `delayed` is a history variable, the table's entries last stored by a
`push_task` that was interrupted between its read and its store; `take_trap` ...
`reschedule_handler` are the handler's loop.
`page_table` is the address space the MMU uses, which `vspace`
(`CURRENT_VSPACE`) should follow. `in_kernel` (`IN_KERNEL`) decides in `NextLoop`
which loop goes on after a task has yielded or blocked (`main_loop.rs:316-322`,
`813-821`); which mode a CPU really is in is in its `pc`, its task and its loop
(`InUserMode`), and `PrivilegeIsKnown` compares the two.

*`ProcessTable`.* `register_process`, `claim`, `retry` are the loop of
`register_process`, `store_vspace` and `store_scheduler` the rest of
`process_init`; `user_init`; `push_task` and `lookup`; `unregister_process` and
`invalidate`, the two swaps of `process_drop`. `process_schedule`, `look`,
`read`, `confirm` are the scan of `highest_prio_process`, `switch_vspace` and
`pop_task` what `ktask_schedule` does with its choice. After a user's task the
CPU is in its process's loop (`home`), which pops from its own scheduler or, in
`utask_schedule`, leaves its choice in `CURRENT_VSPACE` and enters the kernel
(`into_kernel`, the head of `utok_schedule`). `kernel_task` and `exits_by_trap`
bring a CPU into the kernel, from where the API is called.
`next_i` is kept below `2 * PROCESS_NUM`, as only its residue and whether it has
reached `PROCESS_NUM` are ever looked at. `open` and `wasted` remember what a
registrar could have found; `overlapped` where two operations met in one
scheduler, which is the subject of `Scheduler`.

*`TrapHandling`.* `sync_trap`, `push_trap`, `interrupt`, `preempt` are
`trap_entry` in the order of its lines; `leave` is the saving of the context in
`thread_entry`, `phase2` the atomic `match_set_state` of
`thread_entry_phase2`; `take`, `take_new`, `spin` are the trap wait queue's
`take_task`; `resume` is `run_thread`; `handler`/`handle`/`settle`/`push_task`/
`dealloc`/`pool` is the handler's loop. `saved[x]` is a history variable: the
context is saved and the stack left.

*`StackHandler`.* An operation of the handler holds its lock from beginning to
end and is one step; what the CPU does to its stack pointer afterwards is
another, so `run_thread` and `krun_utask` put the stack away on which the CPU
goes on until `restore_context` and `into_user`. `resched` and `thread_entry` are
the way out of a thread (on a single CPU a coroutine would keep its stack,
`main_loop.rs:253`, but what comes through `resched` has a thread's context);
`trap`, `interrupt` and `user_trap` what the OS's trap
entry does, `trap_entry`, `wake_up` and `user_trap_entry` the exchange of the
trap stack (`SwapTrapStack`). `put` is where a task becomes available to other
CPUs. A coroutine whose poll has returned has no stack; one that was trapped or
interrupted is resumed as a thread. `into_kernel` and `utok_schedule` leave all
stacks as they are. The context in which a CPU waits is saved under the CPU's
own name.

*Operators marked "Fault"* are slips somebody could make in the operator below
them. No specification uses them; each property was seen to fail when one of
them takes the place of its original (PROJECT.json, "mutants").

### External, and assumed

* What a task does is free: it yields, blocks, exits, traps or is interrupted,
  and wakes any task it may reach (user code: its own process's).
* Task states and wakers follow the protocol written at `TaskState`
  (`interface.rs:205-248`): a waker that finds a task Blocked makes it Ready
  and pushes it, one that finds it Blocking makes it Ready and leaves the push
  to the CPU that is saving the context.
  The waker of a coroutine that is Running finds neither: the OS lets it fire
  only after the coroutine has set Blocking, or after `match_set_state` has made
  it Blocked (`main_loop.rs:743-769`).
* The loops, the trap entry and the handlers run with interrupts disabled, as
  `api.rs:185-231` requires of whoever enters them, and the code asserts
  (`assert_disable_irq`). `push_task` has no such requirement, and user code
  cannot disable interrupts: a user's task may be interrupted at any step of it.
  For the OS's kernel tasks the code leaves it open; `KERNEL_PUSH_IRQ` says
  whether they push with interrupts enabled. Exceptions and system calls come
  outside of a push. Tasks of the kernel have pid 0.
* `get_user_data(None)` resolves the *current* address space through
  `CURRENT_VSPACE` (`current.rs:132-137`); it is taken to find the data of that
  process, and a null pointer if no process has that pid.
* The OS calls `process_init` and then `user_init` once for each address space,
  and `process_drop` when no task of the process is left, no CPU is in its loop
  and none of these calls is about it; whether it ever had a task does not
  matter. A CPU may well have chosen the process by then, or have it in
  `CURRENT_VSPACE`.
* On a trap or an interrupt the OS changes to the stack that `set_pre_stack!`
  has named, and saves the context of a kernel's task with the stack it gets
  from `take_current_stack` (`api.rs:368-374`). `set_pre_stack!` is that of
  riscv; x86 has a `todo!()` there (`arch/x86.rs:323`).
* A user's loop and its trampolines run without interrupts, as `api.rs:209-231`
  asks for.
* Another CPU's stores become visible in one order (the code uses
  Acquire/Release and locks; the models are sequentially consistent).

## 3. The runs

Passing runs:

| Run | Instance | Distinct states | What it shows |
|---|---|---|---|
| `rq_concurrent` | 3 callers, 4 tasks, 2 levels, one of which can be full | 132,500 | no task is lost, duplicated, invisible or passed over; the bitmap is exact unless a task was popped before its bit was set; the returned priority hides nothing; the queue implements the pool |
| `sched_one_cpu` | 1 CPU, kernel and a user process, 5 tasks, 2 levels, WFI may return for no reason, user tasks are interrupted inside `push_task` | 227,096 | on one CPU the loop keeps its promises, also those that fail on two: `TrapsBeforeUserTasks`, `NoPanic` with such a WFI, and `NoSleepOverReadyTask` and `TableHidesNothing` but for entries whose store an interrupt has delayed |
| `sched_smp` | 2 CPUs, a kernel and a user task | 2,693,490 | no task is lost or run twice, no assertion trips, each task runs in its address space, and `IN_KERNEL` agrees with the mode |
| `sched_live` | 2 CPUs, two kernel tasks, fairness | 65,612 | no task runs before a waiting trap; every ready task is popped, every trap is taken |
| `pt_safety` | 2 CPUs, 3 processes one after the other in 1 entry, each with up to two tasks | 914,580 up to what no guard reads | a pid has one owner; its entry is its own from `process_init` to `process_drop`; registration fails only if the table is full, or a free index was wasted; the table is right about a process unless operations on its scheduler overlapped |
| `th_safety` | 2 CPUs, 2 tasks, 3 handlers, one of them still to be created | 144,808 | no panic; nothing is resumed before its context is saved; everything is held exactly once |
| `th_live` | 2 CPUs, 1 task, 3 handlers, fairness | 61,258 | the busy wait ends; a trapped task comes back even if its handler blocks and moves |
| `st_safety` | 2 CPUs, two threads, a coroutine, 9 stacks | 62,096 up to the names of stacks | no panic of the stack handler; no stack is lost or in two places; no CPU executes on a stack of another CPU, of a saved context or of the OS |

Runs that TLC is expected to find violated, each a statement of the
documentation that the code does not keep (section 4): `sched_user_starves`,
`sched_vspace_kept`, `pt_stale_space`, `st_waits`.

### Bounds, and why they are enough

* *Three callers* in `rq_concurrent`: a pusher between its halves, a taker
  between its halves and a third who acts meanwhile; two levels, of which one
  holds at most two of its three tasks, give a scan something to pass over, a
  full level, and a FIFO order to keep.
* *Two CPUs* everywhere else: each race found or excluded is between the CPU
  that stores, sleeps or saves and one other. *Two processes* (three in
  `sched_vspace_kept`): a choice of process, and a user loop that must enter
  the kernel. *Two levels* on one CPU, so that a push raises and a pop lowers
  the published priority; one level on two, where the difference between a
  level and none is all the races need.
* *Three processes for one entry* (the other is the kernel's) in `pt_safety`:
  two registrars compete while a third process leaves, and each of them can
  inherit what another left in the entry. In `pt_stale_space` two processes
  suffice. The choice among several processes is in `Scheduler`.
  `MAX_TASKS = 2` (1 in `pt_stale_space`): a process is ready, and then, with a
  stale entry, is not, and may be again. The run looks at a state without the page
  tables and without what is left over of dropped processes (`VIEW Essential`):
  no guard reads them, and none of the run's properties but `TypeOK` is about
  them. A CPU that has panicked stops, so these runs do not check for deadlock.
* `MAX_TRAPS` bounds the interrupts pending on one CPU: at least one is needed,
  the second (`sched_smp`, `sched_live`, `sched_one_cpu`) is a trap that arrives
  while one waits. `TrapsBeforeTasks` shows that with kernel tasks only the
  second never comes.
* `READY_QUEUE_SIZE` is large enough in `Scheduler` for a push never to fail
  (`RoomAssumption`); `ReadyQueue` has the full level.
* `MAX_WAITING_HANDLERS` bounds the handlers that are blocked in the kernel
  amid a trap, and `TRAP_WAIT_QUEUE_SIZE` is at least the number of handlers,
  as the pool's panic on overflow is a known gap (`trap_wait_queue.rs:117`).
  With two CPUs and one waiting handler three handlers are all that can be in
  use at once.
* *Two threads and a coroutine* in `st_safety`: both ways to give up a stack,
  two CPUs that exchange threads, and a coroutine that is a thread for a while.
  Nine stacks are two for each CPU to boot with, one for each task and two more,
  so the OS does not run out of them; `STACK_POOL_SIZE` has room for all. Stacks
  are alike, so the run looks at a state up to their names (`VIEW Shape`): two
  states in which stacks are held by the same holders in the same numbers, and in
  which each CPU executes on one of the same holder, have the same future, as
  `EveryStackInOnePlace` says that there is no other reference to a stack. In
  `st_waits` the CPU that has panicked stops, so it does not check for deadlock.
* `UTOK_MAY_WAIT` says whether `utok_schedule` can find nothing to run; it is off
  except in `st_waits`, where that is the question.
* `WFI_MAY_RETURN` says whether WFI can complete without a trap. It is off
  except where it is the question, and on one CPU, where it does no harm.
* An interrupted push takes two user tasks of a process, one of which wakes the
  other. `sched_one_cpu` has three; `sched_smp` has one, as two would not fit into
  a run, so on two CPUs that interrupted pushes lose no task rests on the proofs
  (`EveryTaskHasOnePlace`).
* `KERNEL_PUSH_IRQ` is `FALSE` in the runs: with it the two-CPU instances grow too
  large for a run (more than four times as many states). Section 4 says what
  changes on one CPU.

### Fairness

`Scheduler!Fairness` has weak fairness on each CPU's own steps — a CPU that has
something to do does it; the loop has no blocking step except WFI — and strong
fairness on `interrupt`: the timer ticks, and its interrupt is taken whenever
interrupts are enabled again and again. The code's comment at
`scheduler.rs:366-370` counts on the same. No fairness is given to tasks: a
task may run for ever between two interrupts, never wake another, never yield.

`TrapHandling!Fairness` has the same for CPUs and interrupts; what wakes a
*handler* that waits in the kernel happens in the end (weak fairness of
`wake(h)`), a waker finishes its push, and a handler that gets the CPU again and
again finishes its trap. These are promises of the OS's `TrapInfo::handle`, not
of the scheduler; without them a trapped task depends on a handler that never
returns. Tasks get no such promise.

## 4. Where code and comments disagree

1. **`sched_user_starves`** a CPU stores a priority computed before another
   CPU's push and overwrites the push's store (`scheduler.rs:336`). If that hits
   a user process, nothing else updates its entry, and its task is never run,
   although the clock wakes the CPUs (`scheduler.rs:369`).
2. **`sched_vspace_kept`** a user loop's choice of a process is in
   `CURRENT_VSPACE` before the kernel switches, and `switch_vspace` then sees
   nothing to do (`main_loop.rs:449, 589`).
3. **`pt_stale_space`** neither does it when a pid has been used again. A CPU
   that has not yet taken its second look (`main_loop.rs:433-439`) while one
   process ends and the next gets its pid runs the next one in the dropped
   address space; a CPU already in WFI does not, as the handler of the interrupt
   that wakes it calls `switch_vspace(0)`. The trace TLC finds is another one: the
   CPU chooses the entry by the priority the dead process has left in it, before
   `process_init` has stored the new address space; `switch_vspace` finds a null
   pointer and returns, with the pid already in `CURRENT_VSPACE`.
4. **`st_waits`** a CPU that enters the kernel from a user's loop executes on its
   trap stack and has no current stack (`main_loop.rs:231`). If it then has to
   wait, the interrupt that ends the wait enters on the stack the wait executes
   on, and there is no current stack to save the wait context with, which
   `take_current_stack` takes for an error (`handler.rs:177`).

Five more can be seen by changing a constant or a property.

* `WFI_MAY_RETURN = TRUE` in `sched_smp` makes `NoPanic` and
  `EveryTaskInOnePlace` fail: `IS_SLEEPING` survives a WFI that ends without an
  interrupt (`main_loop.rs:441`). The next exception of the task the CPU then runs
  trips the assertion of `trap_entry`; the next interrupt takes the task for the
  wait context, and nobody puts it back. On one CPU it does no harm as long as
  the kernel's tasks push with interrupts disabled, which is proved
  (`NoPanicOnOneCPU`, `OnePlaceOnOneCPU`).
* `NoSleepOverReadyTask` and `TableHidesNothing` without `delayed` fail in
  `sched_one_cpu`, on a single CPU: a user's task in `push_task` is interrupted
  after it has read the priority; another task of its process pushes a more
  urgent one; the first then stores what it had read. If the first was
  interrupted once more, before its `fetch_or`, so that it read an empty queue,
  and leaves by a system call after its store, the CPU goes to sleep over the
  second's task (`scheduler.rs:459-463`, against line 369), and no event but a
  further push to that process repairs the entry, as in `sched_user_starves`.
* `KERNEL_PUSH_IRQ = TRUE` in `sched_one_cpu`, where WFI may return, makes
  `NoPanic`, `EveryTaskInOnePlace` and `TableHidesNothing` fail: the kernel's own
  entry can now be stale, the CPU reaches WFI with `IS_SLEEPING` set and a task
  in its queue, and a WFI that returns finds that task. With interrupts disabled
  in the kernel's pushes, or with a WFI that waits, they hold, which is proved.
* `STACK_POOL_SIZE = 1` in `st_safety` makes `ImplementsOwnership` fail:
  `dealloc_stack` frees a stack for which the pool has no room
  (`handler.rs:130`), although `run_task` and `krun_utask` put back the stack
  they still execute on.
* `NoneUnlessWasted` without `wasted` fails in `pt_safety`: `register_process`
  ends with drawing its start index again; that entry may be free by then,
  nobody looks at it, and another registrar that comes round to its own start
  fails as well, with an entry free all the time (`process_info.rs:81`, against
  line 20). The property says that this is the only way.

The same causes have further consequences, for which the runs keep the
one-CPU side as passing properties. The stale store can also hit the kernel's
entry: a CPU then sleeps over a published task in spite of the second look
(`main_loop.rs:417`), until its next timer interrupt — on two CPUs
`KernelTaskIsPopped` holds, and on one `NoSleepOverReadyTask` is proved. And one
CPU's view of its own trap queue is stored for all CPUs (`scheduler.rs:365`), so
that another CPU may run a user task before its waiting trap — on one CPU
`TrapsBeforeUserTasks` holds, and is proved. A pusher whose `fetch_or` comes after the taker's
clearing leaves a bit for an empty level (`ready_queue.rs:63`), although a
source without tasks should report one level below the lowest
(`event_source.rs:24`); `ExactUnlessRaced` says that this is the only way to
such a bit, and is proved.

Two comments are inexact without consequence, and no run is spent on them.
`take_task` computes the priority it returns with the last task of a level from
the bitmap as it was *before* the bit was cleared (`ready_queue.rs:104` against
`event_source.rs:38`), so it returns that level again; `NextPrioHidesNothing`
says that the error is on the safe side. And a trap handler *can* be picked from
the pool while it is still running on another CPU (`trap_wait_queue.rs:112`
against the comment at line 257); `Blocking` and the busy wait are there for
that, and `th_safety` shows that they suffice.

## 5. What each property is about

*ReadyQueue.* `EveryTaskInOnePlace`; `BitCoversQueue`: an occupied level has its
bit, or a pusher that is about to set it; `NoOvertaking`; `ExactUnlessRaced`;
`NextPrioHidesNothing`; `ImplementsPool`.

*Scheduler.* `EveryTaskInOnePlace` over queues, trap queues, CPUs and the OS;
`NoPanic`; `RunsInItsAddressSpace`; `NoSleepOverReadyTask`;
`TrapsBeforeUserTasks`; `TrapsBeforeTasks`; `TableHidesNothing`: between two
operations of its CPU no entry of the table is less urgent than a waiting trap or
a published task, unless an interrupt came between the read and the store of that
entry. `NoSleepOverReadyTask` has the same exception, for the process of the task
that is slept over: it says that this is the only way. `KernelTaskIsPopped`,
`UserTaskIsPopped`, `TrapIsTaken`; `PrivilegeIsKnown`: `IN_KERNEL`, from which a
scheduler takes the address of its sources and the loop its way on, is the mode
the CPU is in.

*ProcessTable.* `EntryHasOneOwner`; `NoneUnlessWasted`; `EntryIsOwn`;
`TableTellsTheTruth`; `UserTaskInItsSpace`, violated.

*TrapHandling.* `NoPanic`: none of the code's panics; `ResumedOnlyWhenSaved`;
`HeldOnce`: exactly one queue, waker, trap or CPU answers for each task and
handler, and a CPU shares with one of the others only while the task is
Blocking; `SpinEnds`; `TrappedTaskReturns`.

*StackHandler.* `NoPanic`: none of the panics of the handler and of `trap_entry`;
`EveryStackInOnePlace`; `ImplementsOwnership`, which relates what the handler
keeps to the stack pointers, of which it knows nothing.

## 6. What is proved

Each component's theorems hold for every value of its constants that its
`ASSUME`s allow: any numbers of CPUs, processes, tasks, handlers and stacks, any
range of at most 64 levels, any capacity. No other assumption is made; where a
theorem needs more, it is a hypothesis in its statement and listed below as
"if". What the assumptions say: sets of tasks, handlers, stacks and the special
values (`NoTask`, `Null`, ...) are disjoint; counts are naturals, and there is a
CPU and the kernel's process; a scheduler's queue has room for all tasks
(`RoomAssumption`, only in `Scheduler`); `TrapWaitQueue::init` creates different
handlers; the CPUs boot on different stacks. All specifications are proved about
without their fairness, which safety does not need.

### Ready queue

| Theorem | States |
|---|---|
| `TypeCorrect` | `Spec => []TypeOK` |
| `BitmapCovers` | `Spec => []BitCoversQueue` |
| `TasksInOnePlace` | `Spec => []EveryTaskInOnePlace` |
| `ScanOvertakesNobody` | `Spec => []NoOvertaking` |
| `QueueImplementsPool` | `Spec => ImplementsPool` |
| `BitmapExactUnlessRaced` | `Spec => []ExactUnlessRaced` |
| `NextPrioIsSafe` | `Spec => NextPrioHidesNothing` |

*Argument.* `TypeOK` is inductive. So is `BitCoversQueue` given `TypeOK`: the
only step that clears a bit is `settle`, and it clears it for an empty level
only; the only step that fills an empty level leaves its pusher at `mark`.
`EveryTaskInOnePlace` is inductive given `TypeOK`; `PushBackDistinct` and
`PopFrontDistinct` are the lemmas about queues it needs. `NoOvertaking` is not
inductive: it needs that `waiting[c]` is a subset of what is queued, and that a
task of a level already scanned cannot be in it, because a level is left only
when it is empty and a task that comes later is not in `waiting`. `ScanInv` adds
this. The refinement maps the pool to the queues and `getting` to the callers
inside the scan; `scan_pop` maps to `Get`, whose guard is `NoOvertaking`,
`scan_none` to `GetNone`, `push_back` to `Put`, `take_begin` to `Begin`, all
else stutters. `ExactUnlessRaced` needs `UnracedInv`: as long as no task was
popped before its bit was set, a pusher at `mark` still finds its task queued,
and the bit of an empty level belongs to a taker that is about to look at the
level again. `NextPrioHidesNothing` follows from `BitCoversQueue`, `ScanInv`
and what `Highest` returns (`HighestLemma`); that a set of levels has a most
urgent one (`LeastElement`) comes from the well-foundedness of the naturals.

### Scheduler

| Theorem | States |
|---|---|
| `TypeCorrect` | `Spec => []TypeOK` |
| `PrivilegeKnown` | `Spec => []PrivilegeIsKnown` |
| `OneUserProcessRunsInItsSpace` | `RunsInItsAddressSpace`, if there is at most one user process |
| `TrapsBeforeKernelTasks` | no task of the kernel runs while a trap waits on its CPU |
| `NoUsersTrapsFirst` | `TrapsBeforeTasks`, if there is no user process |
| `NoPanicIfWfiWaits` | `NoPanic`, if WFI returns with a trap only |
| `EveryTaskHasOnePlace` | `EveryTaskInOnePlace`, if WFI returns with a trap only |

Each hypothesis is where the property stops being true, as TLC finds: with two
user processes `sched_vspace_kept` violates `RunsInItsAddressSpace`; with a user
process `sched_smp` would violate `TrapsBeforeTasks`, because of the priority one
CPU stores for the other; and section 4 says what a WFI that returns
without a trap does to the last two. `PROCESS_NUM` and `WFI_MAY_RETURN` are
constants, so these hypotheses are about the instance, not about a state.

*Argument.* `ControlInv` says for each `pc` what the CPU has in hand (`InCharge`,
`Popping`), from which operations it may have been called and where it goes on
(`Control`, with `Resumes` as the return address), which space is mapped
(`Spaces`), and that `IN_KERNEL` is the mode (`Mode`); that no trap waits while a
kernel task runs (`Traps`) is part of it, as the pop must remember what it saw of
the trap queue. All of it is about one CPU, so what a step of another CPU can do
to it is small: `OtherCPUs` says once and for all that nobody else writes what a
CPU's part of the invariant speaks of, other than the queues, of which only
`Proper` (a task is queued at its process and level) matters. A task that is
interrupted inside a push carries its place and local variables with it, and
what `ControlInv` says of a CPU inside a push it says of them. There is a lemma
for each action and `Frame` combines them. `Awake` says where a CPU may be
marked as sleeping; it is inductive if `wait_irqs` never returns by itself.
`PlaceInv` says that each task is in a ready queue, in one trap queue, in the
hands of one CPU (`Held`) or with the OS, and in one of these only. Five lemmas
(`PushPlaces`, `PopPlaces`, `TrapPlaces`, `TakePlaces`, `BlockPlaces`) say that
one task moves from one place to another, `QuietPlaces` that none does, and each
action is an instance of one of them. `EveryTaskInOnePlace` counts places, so
the last step goes from "in one only" to cardinalities.

### Scheduler on one CPU

| Theorem | States, if `CPU_NUM = 1` |
|---|---|
| `TheTableHidesNothing` | `Spec => []TableHidesNothing` |
| `TrapsChooseTheKernel` | `Spec => []TrapsBeforeUserTasks` |
| `TrapsFirst` | `Spec => []TrapsBeforeTasks` |
| `NoTaskIsSleptOver` | `Spec => []NoSleepOverReadyTask` |
| `NoPanicOnOneCPU` | `Spec => []NoPanic`, whatever WFI does, if not `KERNEL_PUSH_IRQ` |
| `OnePlaceOnOneCPU` | `Spec => []EveryTaskInOnePlace`, whatever WFI does, if not `KERNEL_PUSH_IRQ` |

The number of processes, tasks, levels and traps is any. The first four need
that kernel tasks push with interrupts disabled or that WFI returns with a trap
only: with neither a CPU marked as sleeping may run a task, whose next interrupt
`trap_entry` takes for the end of a wait, and `TableHidesNothing` fails (section
4); the other three lean on it. Each of the four fails with two CPUs (section
4; the second and third as soon as there is a user process), and so do the last
two with a WFI that may return without a trap.

*Argument.* With one CPU nothing happens between two steps of an operation,
unless it is the `push_task` of a running task and an interrupt comes. So what an
operation reads is true, not only well-formed, except for what a suspended push
will do when its task runs again. `OneInv` says so, on top of `ControlInv`.
`Visible`: the level of a queued task has its bit, unless a push of that task,
under way or suspended (`Unmarked`), is about to set it. `Told`: each process's
entry is at least as urgent as its queued tasks and, for the kernel, a waiting
trap (`NoLess`), except about the task that an operation on its way to `store` is
pushing, those of suspended pushes (`Suspended`), and entries that are `delayed`;
at `store` the value to be stored is, unless an interrupt has come between. `Late`
says which stores those are. `Scanned`: the levels a scan has passed are
empty. `Choosing`: between the reads of the table, the best entry so far is the
least of those read, and the kernel's if that is as urgent. `Clear`: no trap
waits while a user's loop works, a task is about to run or a user's scheduler is
popped; the traps are not affected by suspended pushes, as `push_trap` stores for
them without an interrupt in between, and a push that is resumed is resumed when
no trap waits. `Unseen`: the tasks seen at the announcement of a sleep are still
queued, and at WFI those of delayed entries are left. `OnTime`: without
`KERNEL_PUSH_IRQ` the kernel's own entry is never delayed. `Idle`: then a CPU
marked as sleeping is in the second look, or nothing is queued at the kernel and
it has nothing in hand. These lean on each other in a circle: the bitmap makes
what `settle` and `peek` find true, so `store` keeps `Told`, so the choice of a
process is right, so no user's task is chosen over a trap (`Clear`), and no entry
beyond the last level means that nothing that was told of waits, so sleeping is
safe (`Idle`, `Unseen`), and the wait that ends without a trap finds nothing to
run and comes back to wait. `OneStep` combines the lemmas about the actions. For
`OnePlaceOnOneCPU` the lemma `PlaceStep` of `Scheduler_proofs` needs only that a
CPU that runs a task is not marked as sleeping (`RunsAwake`).

### Process table

| Theorem | States |
|---|---|
| `TypeCorrect` | `Spec => []TypeOK` |
| `EveryEntryIsOwn` | `Spec => []EntryIsOwn` |
| `EveryEntryHasOneOwner` | `Spec => []EntryHasOneOwner` |
| `NoneIfFull` | `Spec => []NoneUnlessWasted` |
| `TruthIsTold` | `Spec => []TableTellsTheTruth` |

*Argument.* `ControlInv` says of each entry who owns it: the process whose pid it
is (`OwnEntries`), or one call between the swap that claims it and the point
where it becomes a pid, or between that point and the swap that gives it up
(`HeldEntries`); not two of them (`OneOwner`), and somebody if it is valid
(`NoneLost`). It is inductive because `claim` and `invalidate` are atomic swaps.
`EntryIsOwn` and `EntryHasOneOwner` follow. The bound on tasks in `TypeOK` takes
counting: `TasksInv` adds the pushes that are under way. `NoneUnlessWasted` needs
`DrawnInv`: an entry that has been free since a registrar began, and has been
drawn since, is about to be claimed by the CPU that drew it, unless that one
gave up. "Drawn since" is an interval of the indices modulo the table's size
(`Between`), and `DrawOne` says that a `fetch_add` extends it by one or has gone
round. `TableTellsTheTruth` needs `PublishedInv`: as long as no two operations
on a process's scheduler have overlapped, there is one at most; while there is
none, a task in it is published to every CPU, and what an `update_prio` under way
has still to store is that.

### Trap wait queue and trap handlers

| Theorem | States |
|---|---|
| `TypeCorrect` | `Spec => []TypeOK` |
| `NobodyResumedUnsaved` | `Spec => []ResumedOnlyWhenSaved` |
| `EveryTaskHeldOnce` | `Spec => []HeldOnce` |
| `OnlyTheFullPoolPanics` | a step that panics gives a handler back to a full pool |
| `NoPanicIfThePoolHolds` | `NoPanic`, if there are at most `TRAP_WAIT_QUEUE_SIZE` handlers |

The hypothesis of the last one is what the TODO at `trap_wait_queue.rs:117` is
about; the size is 256 (`build.rs:12`). `OnlyTheFullPoolPanics` is the theorem
without it: no other assertion and no other panic, the one for a full trap queue
included, is reached with any number of handlers.

*Argument.* One inductive invariant, `Inv`, gives all of them. It says what a CPU
has in hand at each `pc` (`Control`), what state it finds that task in
(`States`), which states go with which claims for a task that is on no CPU
(`StatesOfClaims`), that claims of one kind are unique (`Unique`) and of different
kinds exclude each other (`Disjoint`), and that whoever exists is on a CPU or has
a claim, and both only while Blocking (`Somewhere`). Most of the proof is what an
assignment to one variable does to the sets of claims; that is said in lemmas
(`Enqueued`, `TrapAdded`, `IsPicked`, ...), one per kind of change, and `StepInv`
goes through the actions with them. A trap queue holds at most one trap: that is
in `Control`, and is why `push_trap` cannot fail.

### Stack handler

| Theorem | States |
|---|---|
| `TypeCorrect` | `Spec => []TypeOK` |
| `EveryStackHasOneHolder` | `Spec => []EveryStackInOnePlace` |
| `OnlyTheWaitPanics` | a CPU panics, or waits with no current stack, only if `UTOK_MAY_WAIT` |
| `NoPanicIfNoWait` | `NoPanic`, if `utok_schedule` never has to wait |
| `HandlerImplementsOwnership` | `ImplementsOwnership`, if no pool is ever full (`[]Room`) |
| `FewStacksImplementOwnership` | `ImplementsOwnership`, if there are at most `STACK_POOL_SIZE` stacks |

With `UTOK_MAY_WAIT`, `st_waits` violates `NoPanic`, and with a full pool
`ImplementsOwnership` fails (section 4). `[]Room` is a hypothesis about a
behaviour, and the last theorem gives a case in which each behaviour meets it.

*Argument.* `ControlInv` says which of a CPU's stacks exist at each `pc`, and that
a task is on one CPU or ready (`TasksApart`); `PlaceInv` that no stack has two
holders. They are inductive together with the type invariant, and give
`EveryStackInOnePlace`. `PanicInv` adds the one place from which a CPU can panic.
`ExecutesInv` says on which stack each CPU executes: its current stack, its trap
stack, one in its own pool that nobody will take before it leaves, or that of
the thread it is leaving. The refinement maps a stack to the CPU that holds it or
executes on it, or to the task that is saved on it. As the mapping is a `CHOOSE`,
`OwnerInv` says what it chooses, and each action is then a step of
`StackOwnership` or leaves the owners as they are (`Same`).

### Model-checked only

* Liveness (`KernelTaskIsPopped`, `TrapIsTaken`, `SpinEnds`,
  `TrappedTaskReturns`), which rests on fairness and so on `ENABLED`, which the
  prover does not treat.
* What the four runs of section 4 find violated cannot be proved; the theorems
  with a hypothesis are as much of it as is true.
* Nothing here needs an induction over data: no definition is recursive.

## 7. Not modelled, and the plan

Written, in this order: `ReadyQueueOps`, `ReadyQueue` with `PriorityPool` and its
proofs; `Scheduler`; `TrapHandling`; `ProcessTable`; `StackHandler` with
`StackOwnership`; the proofs of `StackHandler`, `TrapHandling`, `ProcessTable` and
`Scheduler`; and those of `Scheduler` on one CPU.

Every safety property that a passing run checks is now proved, some of them with
a hypothesis. What would say more: that `TableHidesNothing` and
`NoSleepOverReadyTask` hold with any number of CPUs as long as no two operations
on a scheduler overlap, as `TableTellsTheTruth` does for the registration; and a
refinement that relates `Scheduler`'s queues to the pool that `ReadyQueue`
implements.

Not modelled, and why:

* *Event sources other than the two built-in ones.* `register_event_source` and
  `unregister_event_source` (`scheduler.rs`) are private and have no caller, and
  `EventSourceVtable` has no other implementation, so the program has no state in
  which there is a third source. (By reading: the comment at `scheduler.rs:59`
  calls the ready queue index 0, but the trap queue is pushed first; an index of
  -len-1 passes the check at line 203 and is then out of range; and -1 inserts
  before the last source.)
* *Stacks of user processes.* The `STACK_HANDLER` of a process is another
  instance of the same code, used without traps: `trap_entry` for user mode ends
  in `unimplemented!()` and `todo!()` (`main_loop.rs:121, 223`). Which copy of it
  `take_current_stack` finds in the kernel for a user's task (`api.rs:386`)
  depends on how the vDSO is linked.
* *Preemption inside a critical section.* A user's `push_task` is interrupted
  between its steps, but a spin lock's holder is taken to leave it; a user task
  interrupted while it holds a lock of the ready queue is a hazard without a
  property.
* Registers other than the stack pointer and the trap stack register, the
  instructions of the trampolines, the address arithmetic of `get_user_data`, the
  contents of traps and tasks, and logging.
