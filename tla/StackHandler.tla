----------------------------- MODULE StackHandler -----------------------------
(***************************************************************************)
(* The kernel's stacks (KERNEL_STACKS, stack/handler.rs): which stack each *)
(* CPU executes on, which one its next trap will use, which ones idle in   *)
(* the CPUs' pools, and on which ones contexts are saved, while tasks are  *)
(* run, yield, trap, are interrupted and move to other CPUs.               *)
(*                                                                         *)
(* All operations of the handler hold its lock to their end, so each is a  *)
(* step.  A task is a thread, or a coroutine: that one needs no stack while*)
(* it is away after its poll has returned, and is a thread while it is     *)
(* away in any other manner.  `ready' holds all tasks that may come back,  *)
(* whatever they wait for: TrapHandling says when they do.                 *)
(*                                                                         *)
(* External: the OS's trap entry changes to the stack named by the         *)
(* register that set_pre_stack! writes (riscv; x86 has a todo!()), which is*)
(* trap_stack here; saving the context of a kernel task, or of the context *)
(* a CPU waits in, it gets the stack from take_current_stack (api.rs).     *)
(* The stacks of user processes are not modelled: sp is NoStack in user    *)
(* mode.  Which stack an allocation finds is left to CHOOSE, as stacks     *)
(* nobody uses are alike.                                                  *)
(* Operators marked "Fault" are explained in ReadyQueueOps.                *)
(***************************************************************************)
EXTENDS Naturals, FiniteSets

CONSTANTS
    CPU,
    Task,               \* The kernel's tasks, trap handlers included,
    Coroutine,          \* and those among them that can be polled.
    Stack,              \* All stacks the OS has memory for.
    InitStack,          \* The stack on which each CPU boots.
    STACK_POOL_SIZE,
    UTOK_MAY_WAIT,      \* Whether utok_schedule can find nothing to run.
    NoStack,
    NoTask              \* CURRENT_TASK is no kernel task.

ASSUME StackAssumption ==
    /\ InitStack \in [CPU -> Stack]
    /\ \A c, d \in CPU : InitStack[c] = InitStack[d] => c = d
    /\ NoStack \notin Stack
    /\ IsFiniteSet(Stack)

ASSUME TaskAssumption ==
    /\ Coroutine \subseteq Task
    /\ Task \cap CPU = {}
    /\ NoTask \notin Task \cup CPU

ASSUME PoolSizeAssumption == STACK_POOL_SIZE \in Nat /\ UTOK_MAY_WAIT \in BOOLEAN

VARIABLES
    free_stacks,    \* StackHandler.free_stacks of each CPU
    current_stack,  \* StackHandler.current_stack
    trap_stack,     \* StackHandler.trap_stack, and what the register holds
    unused,         \* Memory of the OS: never allocated, or freed.
    sp,             \* The stack each CPU executes on
    thread_stack,   \* Task::thread_stack of the saved contexts.  A CPU
                    \* stands for the task in its SCHEDULER_WAIT_CONTEXT.
    ready,
    current,        \* CURRENT_TASK
    pc

stackVars == <<free_stacks, unused>>
cpuVars == <<current_stack, trap_stack, sp>>
taskVars == <<thread_stack, ready, current>>
vars == <<stackVars, cpuVars, taskVars, pc>>

\* vDSO data is zero; no CPU has called kernel_init_* yet.
Init ==
    /\ free_stacks = [c \in CPU |-> {}]
    /\ current_stack = [c \in CPU |-> NoStack]
    /\ trap_stack = [c \in CPU |-> NoStack]
    /\ unused = Stack \ {InitStack[c] : c \in CPU}
    /\ sp = InitStack
    /\ thread_stack = [x \in Task \cup CPU |-> NoStack]
    /\ ready = {}
    /\ current = [c \in CPU |-> NoTask]
    /\ pc = [c \in CPU |-> "boot"]

Goto(c, from, to) ==
    /\ pc[c] = from
    /\ pc' = [pc EXCEPT ![c] = to]

-----------------------------------------------------------------------------
(* StackHandler's operations.                                              *)

\* alloc_stack: one of the own pool, a new one only if it is empty.
Available(c) == IF free_stacks[c] # {} THEN free_stacks[c] ELSE unused

Found(c) == CHOOSE s \in Available(c) : TRUE

\* Fault: the stack stays in the pool.
alloc_stack_kept(c) ==
    /\ Available(c) # {}
    /\ unused' = IF free_stacks[c] = {} THEN unused \ {Found(c)} ELSE unused
    /\ UNCHANGED free_stacks

alloc_stack(c) ==
    /\ Available(c) # {}
    /\ free_stacks' = [free_stacks EXCEPT ![c] = @ \ {Found(c)}]
    /\ unused' = unused \ {Found(c)}

\* Fault: the Option is taken for a stack.
dealloc_stack_unchecked(c, s) ==
    /\ free_stacks' = [free_stacks EXCEPT ![c] = @ \cup {s}]
    /\ UNCHANGED unused

\* dealloc_stack, for the old value of an Option: a stack for which the own
\* pool has no room is freed.
dealloc_stack(c, s) ==
    LET room == Cardinality(free_stacks[c] \ {s}) < STACK_POOL_SIZE
        put == {s} \ {NoStack}
    IN  /\ free_stacks' = [free_stacks EXCEPT ![c] = IF room THEN @ \cup put ELSE @ \ put]
        /\ unused' = IF room THEN unused ELSE unused \cup put

\* set_current_stack panics if another CPU has the stack.
UsedElsewhere(c, s) == \E d \in CPU \ {c} : current_stack[d] = s

\* take_current_stack, and the OS keeps the stack for the context it saves.
TakeCurrentStack(c, from, to) ==
    /\ Goto(c, from, IF current_stack[c] = NoStack THEN "panic" ELSE to)
    /\ thread_stack' = [thread_stack EXCEPT ![current[c]] = current_stack[c]]
    /\ current_stack' = [current_stack EXCEPT ![c] = NoStack]
    /\ UNCHANGED <<stackVars, trap_stack, ready, current>>

-----------------------------------------------------------------------------
Exists(t) == t \in ready \/ \E c \in CPU : current[c] = t

\* Task::is_coroutine: "according to the kind of context saved" last
\* (interface.rs:22-24), so not once a thread's context has been saved.
is_coroutine(t) == thread_stack[t] = NoStack

\* kernel_init_main and kernel_init_secondary: the boot stack is the current
\* one, and the initial thread goes on or the OS jumps to raw_kschedule.
kernel_init(c) ==
    /\ alloc_stack(c)
    /\ current_stack' = [current_stack EXCEPT ![c] = InitStack[c]]
    /\ trap_stack' = [trap_stack EXCEPT ![c] = Found(c)]
    /\ \/ /\ Goto(c, "boot", "run")
          /\ \E t \in Task \ Coroutine :
                /\ ~Exists(t)
                /\ current' = [current EXCEPT ![c] = t]
       \/ /\ Goto(c, "boot", "sched")
          /\ UNCHANGED current
    /\ UNCHANGED <<sp, thread_stack, ready>>

-----------------------------------------------------------------------------
(* How a task leaves the CPU.                                              *)

\* Task::resched saves the context, still on the task's stack, ...
resched(c) ==
    /\ TakeCurrentStack(c, "run", "entry")
    /\ UNCHANGED sp

\* Fault: the scheduler goes on on the thread's stack.
thread_entry_stays(c) ==
    /\ Goto(c, "entry", "put")
    /\ alloc_stack(c)
    /\ current_stack' = [current_stack EXCEPT ![c] = Found(c)]
    /\ UNCHANGED <<trap_stack, sp, taskVars>>

\* ... and thread_entry moves to an empty one: get_empty_stack(1) and the
\* trampoline.
to_empty_stack(c) ==
    /\ alloc_stack(c)
    /\ Goto(c, "entry", IF UsedElsewhere(c, Found(c)) THEN "panic" ELSE "put")
    /\ current_stack' = [current_stack EXCEPT ![c] = Found(c)]
    /\ sp' = [sp EXCEPT ![c] = Found(c)]
    /\ UNCHANGED <<trap_stack, taskVars>>

\* A coroutine on a single CPU stays where it is; but a task that has come
\* through resched has a thread's context.
thread_entry(c) ==
    /\ pc[c] = "entry"
    /\ IF Cardinality(CPU) > 1 \/ ~is_coroutine(current[c])
       THEN to_empty_stack(c)
       ELSE /\ Goto(c, "entry", "put")
            /\ UNCHANGED <<stackVars, cpuVars, taskVars>>

\* A coroutine's poll returns to run_coroutine, on whatever stack it is now.
poll_returns(c) ==
    /\ current[c] \in Coroutine
    /\ Goto(c, "run", "put")
    /\ UNCHANGED <<stackVars, cpuVars, taskVars>>

\* Exception or system call of a task, interrupt of a task or of the wait.
trap(c) ==
    /\ TakeCurrentStack(c, "run", "trap")
    /\ sp' = [sp EXCEPT ![c] = trap_stack[c]]

interrupt(c) ==
    /\ \E from \in {"run", "wfi"} : TakeCurrentStack(c, from, "irq")
    /\ sp' = [sp EXCEPT ![c] = trap_stack[c]]

\* What becomes of the stacks in trap_entry: `next' for the next trap, the
\* old trap stack, on which trap_entry runs, is now the current one.
SwapTrapStack(c, from, to, next) ==
    /\ Goto(c, from,
            IF current_stack[c] # NoStack \/ trap_stack[c] = NoStack
                   \/ UsedElsewhere(c, trap_stack[c])
            THEN "panic" ELSE to)
    /\ trap_stack' = [trap_stack EXCEPT ![c] = next]
    /\ current_stack' = [current_stack EXCEPT ![c] = trap_stack[c]]
    /\ UNCHANGED sp

\* trap_entry for a trap or an interrupt of a task.
trap_entry(c) ==
    /\ current[c] \in Task
    /\ alloc_stack(c)
    /\ \/ SwapTrapStack(c, "trap", "put", Found(c))
       \/ SwapTrapStack(c, "irq", "requeue", Found(c))
    /\ UNCHANGED taskVars

\* Fault: the stack of the wait is forgotten, and a new one allocated.
wake_up_allocates(c) ==
    /\ current[c] = c
    /\ alloc_stack(c)
    /\ SwapTrapStack(c, "irq", "sched", Found(c))
    /\ thread_stack' = [thread_stack EXCEPT ![c] = NoStack]
    /\ current' = [current EXCEPT ![c] = NoTask]
    /\ UNCHANGED ready

\* trap_entry for an interrupt of the wait: nothing on the stack of the wait
\* is needed any more, it becomes the next trap stack.
wake_up(c) ==
    /\ current[c] = c
    /\ SwapTrapStack(c, "irq", "sched", thread_stack[c])
    /\ thread_stack' = [thread_stack EXCEPT ![c] = NoStack]
    /\ current' = [current EXCEPT ![c] = NoTask]
    /\ UNCHANGED <<stackVars, ready>>

\* push_prev_task or push_trap: from now on another CPU may run the task.
put(c) ==
    /\ pc[c] \in {"put", "requeue"}
    /\ pc' = [pc EXCEPT ![c] = "sched"]
    /\ ready' = ready \cup {current[c]}
    /\ current' = [current EXCEPT ![c] = NoTask]
    /\ UNCHANGED <<stackVars, cpuVars, thread_stack>>

\* The task has exited and is deallocated with the stack of its context.
free(c) ==
    /\ Goto(c, "put", "sched")
    /\ unused' = unused \cup ({thread_stack[current[c]]} \ {NoStack})
    /\ thread_stack' = [thread_stack EXCEPT ![current[c]] = NoStack]
    /\ current' = [current EXCEPT ![c] = NoTask]
    /\ UNCHANGED <<free_stacks, cpuVars, ready>>

-----------------------------------------------------------------------------
(* How a CPU gets to its next task.                                        *)

ktask_schedule(c) ==
    /\ Goto(c, "sched", "run_task")
    /\ \E t \in ready :
          /\ ready' = ready \ {t}
          /\ current' = [current EXCEPT ![c] = t]
    /\ UNCHANGED <<stackVars, cpuVars, thread_stack>>

\* run_task for a coroutine: get_empty_stack takes the current stack, if
\* there is one, and the trampoline starts it from its base.
run_coroutine(c) ==
    /\ pc[c] = "run_task"
    /\ is_coroutine(current[c])
    /\ IF current_stack[c] # NoStack
       THEN /\ Goto(c, "run_task", "run")
            /\ UNCHANGED <<stackVars, current_stack>>
       ELSE /\ alloc_stack(c)
            /\ Goto(c, "run_task", IF UsedElsewhere(c, Found(c)) THEN "panic" ELSE "run")
            /\ current_stack' = [current_stack EXCEPT ![c] = Found(c)]
    /\ sp' = [sp EXCEPT ![c] = current_stack'[c]]
    /\ UNCHANGED <<trap_stack, taskVars>>

\* run_task for a thread: get_thread_stack makes the thread's stack current
\* and puts the old one away, on which the CPU still executes, ...
run_thread(c) ==
    LET s == thread_stack[current[c]]
    IN  /\ Goto(c, "run_task", IF UsedElsewhere(c, s) THEN "panic" ELSE "restore")
        /\ s # NoStack
        /\ current_stack' = [current_stack EXCEPT ![c] = s]
        /\ dealloc_stack(c, current_stack[c])
        /\ thread_stack' = [thread_stack EXCEPT ![current[c]] = NoStack]
        /\ UNCHANGED <<trap_stack, sp, ready, current>>

\* ... until Task::restore_context.
restore_context(c) ==
    /\ Goto(c, "restore", "run")
    /\ sp' = [sp EXCEPT ![c] = current_stack[c]]
    /\ UNCHANGED <<stackVars, current_stack, trap_stack, taskVars>>

\* krun_utask puts the current stack away in the same manner,
\* get_thread_stack(None), before the CPU enters user mode.
krun_utask(c) ==
    /\ Goto(c, "sched", "leave")
    /\ current_stack' = [current_stack EXCEPT ![c] = NoStack]
    /\ dealloc_stack(c, current_stack[c])
    /\ UNCHANGED <<trap_stack, sp, taskVars>>

into_user(c) ==
    /\ Goto(c, "leave", "user")
    /\ sp' = [sp EXCEPT ![c] = NoStack]
    /\ UNCHANGED <<stackVars, current_stack, trap_stack, taskVars>>

\* A trap or an interrupt of user code: the OS's entry ...
user_trap(c) ==
    /\ Goto(c, "user", "utrap")
    /\ sp' = [sp EXCEPT ![c] = trap_stack[c]]
    /\ UNCHANGED <<stackVars, current_stack, trap_stack, taskVars>>

\* ... and trap_entry, as for a task of the kernel.
user_trap_entry(c) ==
    /\ alloc_stack(c)
    /\ SwapTrapStack(c, "utrap", "sched", Found(c))
    /\ UNCHANGED taskVars

\* A user's loop enters the kernel (trap type 2): trap_entry goes to
\* utok_schedule with the stacks as they are, the CPU is on its trap stack.
into_kernel(c) ==
    /\ Goto(c, "user", "sched")
    /\ sp' = [sp EXCEPT ![c] = trap_stack[c]]
    /\ UNCHANGED <<stackVars, current_stack, trap_stack, taskVars>>

\* Nothing to run: WFI in the wait context, on the stack of the loop.
wait_for_runnable_task(c) ==
    /\ UTOK_MAY_WAIT \/ current_stack[c] # NoStack
    /\ Goto(c, "sched", "wfi")
    /\ current' = [current EXCEPT ![c] = c]
    /\ UNCHANGED <<stackVars, cpuVars, thread_stack, ready>>

-----------------------------------------------------------------------------
\* The OS creates a task; a thread gets a stack of its own.
spawn(t) ==
    /\ ~Exists(t)
    /\ ready' = ready \cup {t}
    /\ \/ /\ t \in Coroutine
          /\ UNCHANGED <<thread_stack, unused>>
       \/ /\ t \notin Coroutine
          /\ unused # {}
          /\ LET s == CHOOSE x \in unused : TRUE
             IN  /\ thread_stack' = [thread_stack EXCEPT ![t] = s]
                 /\ unused' = unused \ {s}
    /\ UNCHANGED <<free_stacks, cpuVars, current, pc>>

Next ==
    \/ \E c \in CPU :
          \/ kernel_init(c) \/ resched(c) \/ thread_entry(c) \/ poll_returns(c)
          \/ trap(c) \/ interrupt(c) \/ trap_entry(c) \/ wake_up(c)
          \/ put(c) \/ free(c) \/ ktask_schedule(c)
          \/ run_coroutine(c) \/ run_thread(c) \/ restore_context(c)
          \/ krun_utask(c) \/ into_user(c)
          \/ user_trap(c) \/ user_trap_entry(c) \/ into_kernel(c)
          \/ wait_for_runnable_task(c)
    \/ \E t \in Task : spawn(t)

Spec == Init /\ [][Next]_vars

-----------------------------------------------------------------------------
PC == {"boot", "sched", "run_task", "run", "restore", "entry", "put", "requeue",
       "trap", "irq", "utrap", "wfi", "leave", "user", "panic"}

\* The state keeps its shape (handler.rs:92-100, current.rs:23-93).
TypeOK ==
    /\ free_stacks \in [CPU -> SUBSET Stack]
    /\ current_stack \in [CPU -> Stack \cup {NoStack}]
    /\ trap_stack \in [CPU -> Stack \cup {NoStack}]
    /\ unused \subseteq Stack
    /\ sp \in [CPU -> Stack \cup {NoStack}]
    /\ thread_stack \in [Task \cup CPU -> Stack \cup {NoStack}]
    /\ ready \subseteq Task
    /\ current \in [CPU -> Task \cup CPU \cup {NoTask}]
    /\ pc \in [CPU -> PC]

\* None of the handler's and trap_entry's panics: a stack current on two CPUs,
\* no current stack to save a context with, a current stack left over when a
\* trap comes (handler.rs:142-157 and 174-177, main_loop.rs:85-87 and 185-186).
NoPanic == \A c \in CPU : pc[c] # "panic"

\* Who answers for a stack.
Holders(s) ==
    {<<"unused", s>> : x \in unused \cap {s}}
    \cup {<<"pool", c>> : c \in {d \in CPU : s \in free_stacks[d]}}
    \cup {<<"current", c>> : c \in {d \in CPU : current_stack[d] = s}}
    \cup {<<"trap", c>> : c \in {d \in CPU : trap_stack[d] = s}}
    \cup {<<"saved", x>> : x \in {y \in Task \cup CPU : thread_stack[y] = s}}
    \cup {<<"boot", c>> : c \in {d \in CPU : pc[d] = "boot" /\ InitStack[d] = s}}

\* No stack is lost or handed out twice, however tasks and the contexts of
\* coroutines wander between CPUs: each is in one pool, or the current or the
\* trap stack of one CPU, or holds one saved context, or is the OS's
\* (handler.rs:119-134, 161, 174, 213 and 248-274, main_loop.rs:137-187).
EveryStackInOnePlace == \A s \in Stack : Cardinality(Holders(s)) = 1

\* A CPU belongs to what it is about to save or to resume.
OwnedBy(c) ==
    ({current_stack[c], trap_stack[c], thread_stack[c]}
       \cup {thread_stack[x] : x \in Task \cap {current[c]}}
       \cup {x \in {InitStack[c]} : pc[c] = "boot"}
       \cup free_stacks[c]) \ {NoStack}

Owner ==
    [s \in Stack |->
        IF \E c \in CPU : s \in OwnedBy(c)
        THEN CHOOSE c \in CPU : s \in OwnedBy(c)
        ELSE IF \E t \in Task : thread_stack[t] = s
        THEN CHOOSE t \in Task : thread_stack[t] = s
        ELSE NoTask]

Ownership == INSTANCE StackOwnership WITH Free <- NoTask, owner <- Owner

\* The handler keeps what StackOwnership promises: no CPU executes on a stack
\* that another CPU, a saved context or the OS has, and a context is saved on
\* a stack its CPU has left before anybody may resume it (handler.rs:119-274,
\* main_loop.rs:51-269 and 632-709, the comment at api.rs:368-374).
ImplementsOwnership == Ownership!Spec

=============================================================================
