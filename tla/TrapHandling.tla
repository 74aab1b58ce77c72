----------------------------- MODULE TrapHandling -----------------------------
(***************************************************************************)
(* The life of a kernel task across CPUs: how it leaves a CPU through a    *)
(* trap, an interrupt or a call of the scheduler, how trap handler tasks   *)
(* are lent from the shared pool and given back, and how TaskState keeps a *)
(* task from being resumed before its context has been saved.              *)
(*                                                                         *)
(* Taken as atomic here and modelled in detail in Scheduler and ReadyQueue:*)
(* pop_task and push_task.  All tasks have one priority, and a CPU's own   *)
(* traps come before them.  External, chosen freely: what a task does, how *)
(* a trap is handled (the handler may block in the kernel, the task may be *)
(* made to exit), and wakers, which follow the protocol that interface.rs  *)
(* gives for Blocking: a waker that finds the task Blocked makes it Ready  *)
(* and pushes it, one that finds it Blocking makes it Ready and leaves the *)
(* push to the CPU that is saving its context.                             *)
(***************************************************************************)
EXTENDS Naturals, Sequences, FiniteSets

CONSTANTS
    CPU,
    Task,
    Handler,                \* Trap handler tasks, created or not.
    FirstHandlers,          \* Those TrapWaitQueue::init creates.
    TRAP_WAIT_QUEUE_SIZE,   \* Capacity of each trap queue and of the pool.
    MAX_WAITING_HANDLERS,   \* Bound: handlers off the CPU amid a trap.
    NoTask,                 \* No task: the trap is an interrupt.
    NoWork                  \* The handler handles no trap.

ASSUME SetAssumption ==
    /\ Task \cap Handler = {}
    /\ NoTask \notin Task \cup Handler
    /\ NoWork \notin Task \cup Handler \cup {NoTask}

ASSUME PoolAssumption ==
    /\ FirstHandlers \in Seq(Handler)
    /\ \A i, j \in DOMAIN FirstHandlers : FirstHandlers[i] = FirstHandlers[j] => i = j
    /\ TRAP_WAIT_QUEUE_SIZE \in Nat \ {0}
    /\ MAX_WAITING_HANDLERS \in Nat

VARIABLES
    state,      \* TaskState of each task and handler
    ready,      \* The kernel's ready queue
    traps,      \* TrapWaitQueue.queues of each CPU
    idle,       \* TrapWaitQueue.idle_handlers
    waiters,    \* What can wake up: tasks in some wait queue of the OS.
    woken,      \* Made Ready by a waker that is about to push them.
    absent,     \* Not created yet, or deallocated.
    work,       \* The trap each handler is handling
    picked,     \* What each CPU has got from pop_task
    current,    \* CURRENT_TASK while it has not been put away
    pc,
    saved       \* History: the task's context is saved and its stack left.

vars == <<state, ready, traps, idle, waiters, woken, absent, work, picked,
          current, pc, saved>>

All == Task \cup Handler

RangeOf(s) == {s[i] : i \in 1 .. Len(s)}

TaskState == {"Ready", "Running", "Blocked", "Exited", "Blocking"}

Init ==
    /\ state = [x \in All |-> IF x \in RangeOf(FirstHandlers) THEN "Blocked" ELSE "Ready"]
    /\ ready = <<>>
    /\ traps = [c \in CPU |-> <<>>]
    /\ idle = FirstHandlers
    /\ waiters = {}
    /\ woken = {}
    /\ absent = All \ RangeOf(FirstHandlers)
    /\ work = [h \in Handler |-> NoWork]
    /\ picked = [c \in CPU |-> NoTask]
    /\ current = [c \in CPU |-> NoTask]
    /\ pc = [c \in CPU |-> "sched"]
    /\ saved = [x \in All |-> TRUE]

Goto(c, from, to) ==
    /\ pc[c] = from
    /\ pc' = [pc EXCEPT ![c] = to]

SetState(x, s) == state' = [state EXCEPT ![x] = s]

-----------------------------------------------------------------------------
(* trap_entry.  The OS has saved the context and the CPU is on its trap    *)
(* stack.                                                                  *)

\* Fault: CURRENT_TASK is cleared before the trap is pushed.
sync_trap_clears(c) ==
    LET t == current[c]
    IN  /\ Goto(c, "run", IF state[t] = "Running" THEN "push_trap" ELSE "panic")
        /\ SetState(t, "Blocked")
        /\ saved' = [saved EXCEPT ![t] = TRUE]
        /\ current' = [current EXCEPT ![c] = NoTask]
        /\ UNCHANGED <<ready, traps, idle, waiters, woken, absent, work, picked>>

\* Exception or system call: the state first, ...
sync_trap(c) ==
    LET t == current[c]
    IN  /\ Goto(c, "run", IF state[t] = "Running" THEN "push_trap" ELSE "panic")
        /\ SetState(t, "Blocked")
        /\ saved' = [saved EXCEPT ![t] = TRUE]
        /\ UNCHANGED <<ready, traps, idle, waiters, woken, absent, work, picked, current>>

\* ... then the trap, from where a handler may end the wait at once.
push_trap(c) ==
    /\ traps' = [traps EXCEPT ![c] = Append(@, current[c])]
    /\ Goto(c, "push_trap",
            IF Len(traps[c]) < TRAP_WAIT_QUEUE_SIZE THEN "sched" ELSE "panic")
    /\ current' = [current EXCEPT ![c] = NoTask]
    /\ UNCHANGED <<state, ready, idle, waiters, woken, absent, work, picked, saved>>

\* Interrupt: the trap first, then the state, then the ready queue.  The wait
\* context is not a task and is not put anywhere.
interrupt(c) ==
    /\ pc[c] \in {"run", "wfi"}
    /\ traps' = [traps EXCEPT ![c] = Append(@, NoTask)]
    /\ pc' = [pc EXCEPT ![c] =
                  IF Len(traps[c]) >= TRAP_WAIT_QUEUE_SIZE THEN "panic"
                  ELSE IF pc[c] = "wfi" THEN "sched" ELSE "preempt"]
    /\ saved' = [x \in All |-> saved[x] \/ x = current[c]]
    /\ UNCHANGED <<state, ready, idle, waiters, woken, absent, work, picked, current>>

preempt(c) ==
    /\ Goto(c, "preempt",
            IF state[current[c]] = "Running" THEN "requeue" ELSE "panic")
    /\ SetState(current[c], "Ready")
    /\ UNCHANGED <<ready, traps, idle, waiters, woken, absent, work, picked,
                   current, saved>>

-----------------------------------------------------------------------------
(* A task gives up the CPU by itself, with interrupts disabled: it sets    *)
(* its state, its context is saved, and thread_entry_phase2 (for a         *)
(* coroutine the end of run_coroutine) goes by the state it finds.         *)

\* Wait for an event of the OS.
set_blocking(c) ==
    /\ Goto(c, "run", "leave")
    /\ SetState(current[c], "Blocking")
    /\ waiters' = waiters \cup {current[c]}
    /\ UNCHANGED <<ready, traps, idle, woken, absent, work, picked, current, saved>>

\* Yield or exit.
set_ready(c) ==
    /\ Goto(c, "run", "leave")
    /\ \E s \in {"Ready", "Exited"} : SetState(current[c], s)
    /\ UNCHANGED <<ready, traps, idle, waiters, woken, absent, work, picked,
                   current, saved>>

\* A coroutine returns Pending in state Running.
return_pending(c) ==
    /\ Goto(c, "run", "leave")
    /\ UNCHANGED <<state, ready, traps, idle, waiters, woken, absent, work,
                   picked, current, saved>>

\* The context is saved and the CPU moves to an empty stack.
leave(c) ==
    /\ Goto(c, "leave", "phase2")
    /\ saved' = [saved EXCEPT ![current[c]] = TRUE]
    /\ UNCHANGED <<state, ready, traps, idle, waiters, woken, absent, work,
                   picked, current>>

\* Fault: Blocking is left as it is.
phase2_stays_blocking(c) ==
    LET t == current[c]
        old == state[t]
    IN  /\ Goto(c, "phase2", CASE old \in {"Blocking", "Running"} -> "sched"
                               [] old = "Ready" -> "requeue"
                               [] old = "Exited" -> "free"
                               [] old = "Blocked" -> "panic")
        /\ SetState(t, IF old = "Running" THEN "Blocked" ELSE old)
        /\ waiters' = IF old = "Running" THEN waiters \cup {t} ELSE waiters
        /\ current' = [current EXCEPT ![c] =
                           IF old \in {"Blocking", "Running"} THEN NoTask ELSE @]
        /\ UNCHANGED <<ready, traps, idle, woken, absent, work, picked, saved>>

\* Fault: the state becomes Blocked whatever it was.
phase2_blocks(c) ==
    LET t == current[c]
    IN  /\ Goto(c, "phase2", IF state[t] = "Exited" THEN "free" ELSE "sched")
        /\ SetState(t, IF state[t] = "Exited" THEN "Exited" ELSE "Blocked")
        /\ waiters' = IF state[t] = "Running" THEN waiters \cup {t} ELSE waiters
        /\ current' = [current EXCEPT ![c] = IF state[t] = "Exited" THEN @ ELSE NoTask]
        /\ UNCHANGED <<ready, traps, idle, woken, absent, work, picked, saved>>

\* The atomic match_set_state and the branch on the state it returns.  The
\* waker of a coroutine that was still Running fires after this.
phase2(c) ==
    LET t == current[c]
        old == state[t]
    IN  /\ Goto(c, "phase2", CASE old \in {"Blocking", "Running"} -> "sched"
                               [] old = "Ready" -> "requeue"
                               [] old = "Exited" -> "free"
                               [] old = "Blocked" -> "panic")
        /\ SetState(t, IF old \in {"Blocking", "Running"} THEN "Blocked" ELSE old)
        /\ waiters' = IF old = "Running" THEN waiters \cup {t} ELSE waiters
        /\ current' = [current EXCEPT ![c] =
                           IF old \in {"Blocking", "Running"} THEN NoTask ELSE @]
        /\ UNCHANGED <<ready, traps, idle, woken, absent, work, picked, saved>>

\* push_prev_task(Ready)
requeue(c) ==
    /\ Goto(c, "requeue", "sched")
    /\ ready' = Append(ready, current[c])
    /\ current' = [current EXCEPT ![c] = NoTask]
    /\ UNCHANGED <<state, traps, idle, waiters, woken, absent, work, picked, saved>>

\* push_prev_task(Exited)
free(c) ==
    /\ Goto(c, "free", "sched")
    /\ absent' = absent \cup {current[c]}
    /\ current' = [current EXCEPT ![c] = NoTask]
    /\ UNCHANGED <<state, ready, traps, idle, waiters, woken, work, picked, saved>>

-----------------------------------------------------------------------------
(* kschedule and run_task.                                                 *)

sched(c) ==
    /\ Goto(c, "sched", IF traps[c] # <<>> THEN "take"
                        ELSE IF ready # <<>> THEN "resume" ELSE "wfi")
    /\ IF traps[c] = <<>> /\ ready # <<>>
       THEN /\ picked' = [picked EXCEPT ![c] = Head(ready)]
            /\ ready' = Tail(ready)
       ELSE UNCHANGED <<picked, ready>>
    /\ UNCHANGED <<state, traps, idle, waiters, woken, absent, work, current, saved>>

\* A CPU in WFI goes on only with the next interrupt.

\* Fault: a Blocking handler is run at once.
take_at_once(c) ==
    /\ idle # <<>>
    /\ Goto(c, "take", "resume")
    /\ SetState(Head(idle), "Ready")
    /\ idle' = Tail(idle)
    /\ picked' = [picked EXCEPT ![c] = Head(idle)]
    /\ UNCHANGED <<ready, traps, waiters, woken, absent, work, current, saved>>

\* TrapWaitQueue::take_task, when the pool is not empty: get_idle_handler
\* matches the state of the first one.
take(c) ==
    LET h == Head(idle)
    IN  /\ idle # <<>>
        /\ Goto(c, "take", CASE state[h] = "Blocked" -> "resume"
                             [] state[h] = "Blocking" -> "spin"
                             [] OTHER -> "panic")
        /\ SetState(h, IF state[h] = "Blocked" THEN "Ready" ELSE state[h])
        /\ idle' = Tail(idle)
        /\ picked' = [picked EXCEPT ![c] = h]
        /\ UNCHANGED <<ready, traps, waiters, woken, absent, work, current, saved>>

\* When it is empty: create_new_handler.
take_new(c) ==
    /\ idle = <<>>
    /\ Goto(c, "take", "resume")
    /\ \E h \in absent \cap Handler :
          /\ absent' = absent \ {h}
          /\ SetState(h, "Ready")
          /\ picked' = [picked EXCEPT ![c] = h]
    /\ UNCHANGED <<ready, traps, idle, waiters, woken, work, current, saved>>

\* The busy wait until the handler's own CPU has saved its context.
spin(c) ==
    /\ Goto(c, "spin", "resume")
    /\ state[picked[c]] = "Blocked"
    /\ SetState(picked[c], "Ready")
    /\ UNCHANGED <<ready, traps, idle, waiters, woken, absent, work, picked,
                   current, saved>>

\* run_thread and run_coroutine.  A handler goes on where it left.
resume(c) ==
    LET x == picked[c]
    IN  /\ Goto(c, "resume", IF state[x] \notin {"Ready", "Blocked"} THEN "panic"
                             ELSE IF x \in Task THEN "run"
                             ELSE IF work[x] = NoWork THEN "handler" ELSE "handle")
        /\ SetState(x, "Running")
        /\ current' = [current EXCEPT ![c] = x]
        /\ picked' = [picked EXCEPT ![c] = NoTask]
        /\ saved' = [saved EXCEPT ![x] = FALSE]
        /\ UNCHANGED <<ready, traps, idle, waiters, woken, absent, work>>

-----------------------------------------------------------------------------
(* trap_handler, with interrupts disabled.                                 *)

\* The next trap of the CPU that the handler runs on now.
take_trap(c) ==
    /\ traps[c] # <<>>
    /\ Goto(c, "handler", "handle")
    /\ work' = [work EXCEPT ![current[c]] = Head(traps[c])]
    /\ traps' = [traps EXCEPT ![c] = Tail(@)]
    /\ UNCHANGED <<state, ready, idle, waiters, woken, absent, picked, current, saved>>

\* TrapInfo::handle blocks in the kernel, as any task does.
handle_blocks(c) ==
    /\ Goto(c, "handle", "leave")
    /\ Cardinality({h \in Handler : work[h] # NoWork /\ state[h] # "Running"})
           < MAX_WAITING_HANDLERS
    /\ SetState(current[c], "Blocking")
    /\ waiters' = waiters \cup {current[c]}
    /\ UNCHANGED <<ready, traps, idle, woken, absent, work, picked, current, saved>>

\* It returns, with an interrupt handled ...
interrupt_done(c) ==
    /\ Goto(c, "handle", "handler")
    /\ work[current[c]] = NoTask
    /\ work' = [work EXCEPT ![current[c]] = NoWork]
    /\ UNCHANGED <<state, ready, traps, idle, waiters, woken, absent, picked,
                   current, saved>>

\* ... or with a task served, which may have been made to exit.
task_done(c) ==
    LET t == work[current[c]]
    IN  /\ Goto(c, "handle", "settle")
        /\ t # NoTask
        /\ \E s \in {state[t], "Exited"} : SetState(t, s)
        /\ UNCHANGED <<ready, traps, idle, waiters, woken, absent, work, picked,
                       current, saved>>

\* The atomic match_set_state on the served task.
settle(c) ==
    LET t == work[current[c]]
    IN  /\ Goto(c, "settle", CASE state[t] = "Blocked" -> "push_task"
                               [] state[t] = "Exited" -> "dealloc"
                               [] OTHER -> "panic")
        /\ SetState(t, IF state[t] = "Blocked" THEN "Ready" ELSE state[t])
        /\ UNCHANGED <<ready, traps, idle, waiters, woken, absent, work, picked,
                       current, saved>>

push_task(c) ==
    /\ Goto(c, "push_task", "handler")
    /\ ready' = Append(ready, work[current[c]])
    /\ work' = [work EXCEPT ![current[c]] = NoWork]
    /\ UNCHANGED <<state, traps, idle, waiters, woken, absent, picked, current, saved>>

dealloc(c) ==
    /\ Goto(c, "dealloc", "handler")
    /\ absent' = absent \cup {work[current[c]]}
    /\ work' = [work EXCEPT ![current[c]] = NoWork]
    /\ UNCHANGED <<state, ready, traps, idle, waiters, woken, picked, current, saved>>

\* Fault: the handler says Blocked before its context has been saved.
reschedule_handler_blocked(c) ==
    /\ traps[c] = <<>>
    /\ Goto(c, "handler", "pool")
    /\ SetState(current[c], "Blocked")
    /\ UNCHANGED <<ready, traps, idle, waiters, woken, absent, work, picked,
                   current, saved>>

\* reschedule_handler: no trap left.  The handler is Blocking, then in the
\* pool, and only then is its context saved (leave).
reschedule_handler(c) ==
    /\ traps[c] = <<>>
    /\ Goto(c, "handler", "pool")
    /\ SetState(current[c], "Blocking")
    /\ UNCHANGED <<ready, traps, idle, waiters, woken, absent, work, picked,
                   current, saved>>

pool(c) ==
    /\ Goto(c, "pool", IF Len(idle) < TRAP_WAIT_QUEUE_SIZE THEN "leave" ELSE "panic")
    /\ idle' = Append(idle, current[c])
    /\ UNCHANGED <<state, ready, traps, waiters, woken, absent, work, picked,
                   current, saved>>

-----------------------------------------------------------------------------
(* The OS: wakers and new tasks.                                           *)

wake(x) ==
    /\ x \in waiters
    /\ waiters' = waiters \ {x}
    /\ SetState(x, "Ready")
    /\ woken' = IF state[x] = "Blocked" THEN woken \cup {x} ELSE woken
    /\ UNCHANGED <<ready, traps, idle, absent, work, picked, current, pc, saved>>

push_woken(x) ==
    /\ x \in woken
    /\ woken' = woken \ {x}
    /\ ready' = Append(ready, x)
    /\ UNCHANGED <<state, traps, idle, waiters, absent, work, picked, current,
                   pc, saved>>

spawn(t) ==
    /\ t \in absent \cap Task
    /\ absent' = absent \ {t}
    /\ SetState(t, "Ready")
    /\ woken' = woken \cup {t}
    /\ UNCHANGED <<ready, traps, idle, waiters, work, picked, current, pc, saved>>

-----------------------------------------------------------------------------
\* What a CPU does by itself: the OS's code in a handler, too, comes to an end.
Step(c) ==
    \/ push_trap(c) \/ preempt(c)
    \/ leave(c) \/ phase2(c) \/ requeue(c) \/ free(c)
    \/ sched(c) \/ take(c) \/ take_new(c) \/ spin(c) \/ resume(c)
    \/ take_trap(c) \/ interrupt_done(c) \/ task_done(c) \/ settle(c)
    \/ push_task(c) \/ dealloc(c) \/ reschedule_handler(c) \/ pool(c)

Choice(c) ==
    \/ sync_trap(c) \/ interrupt(c)
    \/ set_blocking(c) \/ set_ready(c) \/ return_pending(c)
    \/ handle_blocks(c)

Next ==
    \/ \E c \in CPU : Step(c) \/ Choice(c)
    \/ \E x \in All : wake(x) \/ push_woken(x)
    \/ \E t \in Task : spawn(t)

Spec == Init /\ [][Next]_vars

\* CPUs go on, the timer ticks, a waker finishes its push, what a handler
\* waits for in the kernel happens, and its trap is done in the end, however
\* often it blocks.
Fairness ==
    /\ \A c \in CPU : WF_vars(Step(c)) /\ SF_vars(interrupt(c))
    /\ \A x \in All : WF_vars(push_woken(x))
    /\ \A h \in Handler :
          /\ WF_vars(wake(h))
          /\ SF_vars(\E c \in CPU : current[c] = h /\ (interrupt_done(c) \/ task_done(c)))

FairSpec == Spec /\ Fairness

-----------------------------------------------------------------------------
PC == {"sched", "take", "spin", "resume", "wfi", "run", "push_trap", "preempt",
       "requeue", "leave", "phase2", "free", "handler", "handle", "settle",
       "push_task", "dealloc", "pool", "panic"}

\* The state keeps its shape (interface.rs:205-248, trap_wait_queue.rs:35-60).
TypeOK ==
    /\ state \in [All -> TaskState]
    /\ ready \in Seq(All)
    /\ traps \in [CPU -> Seq(Task \cup {NoTask})]
    /\ idle \in Seq(Handler)
    /\ waiters \subseteq All
    /\ woken \subseteq All
    /\ absent \subseteq All
    /\ work \in [Handler -> Task \cup {NoTask, NoWork}]
    /\ picked \in [CPU -> All \cup {NoTask}]
    /\ current \in [CPU -> All \cup {NoTask}]
    /\ pc \in [CPU -> PC]
    /\ saved \in [All -> BOOLEAN]
    /\ \A c \in CPU :
          /\ pc[c] \in {"run", "push_trap", "preempt", "requeue", "leave", "phase2", "free"}
                => current[c] \in All
          /\ pc[c] \in {"handler", "handle", "settle", "push_task", "dealloc", "pool"}
                => current[c] \in Handler
          /\ pc[c] \in {"spin", "resume"} <=> picked[c] # NoTask

\* None of the assertions and panics of the entry code, the handler and the
\* pool is reached: "task state is not Blocked!", "idle trap handler has
\* invalid state", "thread entry: ... state Blocked", the asserted previous
\* states and the unwrap of a full trap queue or pool (main_loop.rs:65-205,
\* 300-305 and 826-829, trap_wait_queue.rs:108-143 and 192-203).
NoPanic == \A c \in CPU : pc[c] # "panic"

\* A task is resumed only once its context has been saved and its stack left:
\* this is what Blocking and the busy wait are for (interface.rs:238-247,
\* trap_wait_queue.rs:264-275).
ResumedOnlyWhenSaved ==
    \A c \in CPU : pc[c] = "resume" => saved[picked[c]]

\* What is going to run x, or end its wait.
Claims(x) ==
    {<<"ready", i>> : i \in {j \in DOMAIN ready : ready[j] = x}}
    \cup {<<"idle", i>> : i \in {j \in DOMAIN idle : idle[j] = x}}
    \cup {<<"waits", y>> : y \in waiters \cap {x}}
    \cup {<<"woken", y>> : y \in woken \cap {x}}
    \cup {<<"trapped", c>> : c \in {d \in CPU : x \in RangeOf(traps[d])}}
    \cup {<<"served", h>> : h \in {g \in Handler : work[g] = x}}
    \cup {<<"picked", c>> : c \in {d \in CPU : picked[d] = x}}

\* No task or handler is lost, and none can be resumed twice: whatever the
\* order of a wake-up, a trap, the saving of a context and the search of the
\* pool, each one that exists is on one CPU or has one claim, and it has both
\* only while it is Blocking (main_loop.rs:90-98, 176-184 and 277-315,
\* trap_wait_queue.rs:108-143 and 189-230).
HeldOnce ==
    \A x \in All :
        LET cpus == {c \in CPU : current[c] = x}
        IN  /\ Cardinality(Claims(x)) <= 1
            /\ Cardinality(cpus) <= 1
            /\ x \in absent <=> Claims(x) = {} /\ cpus = {}
            /\ Claims(x) # {} /\ cpus # {} => state[x] = "Blocking"

\* The busy wait of take_task ends (trap_wait_queue.rs:264-275).
SpinEnds == \A c \in CPU : pc[c] = "spin" ~> pc[c] # "spin"

\* A task that trapped runs again or is freed, even if its handler blocks in
\* the kernel and goes on as another CPU's task (trap_wait_queue.rs:164-238,
\* and 294-297).
TrappedTaskReturns ==
    \A t \in Task :
        (\E c \in CPU : t \in RangeOf(traps[c])) ~> state[t] = "Running" \/ t \in absent

=============================================================================
