---------------------------- MODULE ProcessTable ----------------------------
(***************************************************************************)
(* The global process table under concurrent calls: process_init,          *)
(* user_init, process_drop and push_task of api.rs, and a CPU that chooses *)
(* a process, goes to its address space and pops a task.  There is no      *)
(* lock, so every access to an entry, and to next_i, is a step.            *)
(*                                                                         *)
(* A process is named by the address space the OS creates for it; its      *)
(* scheduler lives in there.  A scheduler is reduced to one level: how     *)
(* many tasks it holds and whether its event sources are registered.       *)
(* What happens inside it is the subject of ReadyQueue and Scheduler; here *)
(* it matters which scheduler an operation reaches and which entry it      *)
(* writes.  The kernel's own tasks only make the calls of the API.         *)
(*                                                                         *)
(* External, as the OS is expected to use the API: process_init once for   *)
(* each process, then user_init, and process_drop when all of its tasks    *)
(* are gone and none of these calls is about it.  A task that is run       *)
(* exits.  Operators marked "Fault" are explained in ReadyQueueOps.        *)
(***************************************************************************)
EXTENDS Naturals, FiniteSets

CONSTANTS
    CPU_NUM,
    PROCESS_NUM,
    Process,        \* The user processes, one for each address space.
    Null,           \* The null pointer; also the kernel's address space.
    MAX_TASKS       \* Bound: tasks pushed for each process in its life.

CPU == 0 .. CPU_NUM - 1
Index == 0 .. PROCESS_NUM - 1

ASSUME TableAssumption == CPU_NUM \in Nat \ {0} /\ PROCESS_NUM \in Nat \ {0, 1}
ASSUME NullAssumption == Null \notin Process
ASSUME TasksAssumption == MAX_TASKS \in Nat

VARIABLES
    valid, vspace, scheduler, highest_prio,     \* The table's entries.
    next_i,         \* Kept below 2 * PROCESS_NUM, see Advance.
    life,           \* What the OS knows of each process.
    pid,            \* What process_init returned; 0 before.
    sources,        \* The processes whose event sources are registered.
    tasks, left,    \* How many tasks a scheduler holds, and are to come.
    mapped,         \* The address space each CPU's MMU uses.
    current_vspace, \* CURRENT_VSPACE
    home,           \* The process whose loop a CPU runs; Null in the kernel.
    pc, loc,
    open,           \* History: the entries that have been free ever since
                    \* the CPU's register_process began,
    wasted,         \* History: and those with which another one gave up.
    overlapped      \* History: the processes on whose scheduler two
                    \* operations have overlapped.

entryVars == <<valid, vspace, scheduler, highest_prio>>
osVars == <<life, pid, left>>
schedVars == <<sources, tasks>>
cpuVars == <<mapped, current_vspace, home>>
freeVars == <<open, wasted>>
history == <<freeVars, overlapped>>
vars == <<entryVars, next_i, osVars, schedVars, cpuVars, pc, loc, history>>

\* Published priorities: the only level, one below it, and isize::MAX.
READY == 0
NO_TASK == 1
ISIZE_MAX == 2
Prio == {READY, NO_TASK, ISIZE_MAX}

\* proc: the process the call is about.  start, index: register_process, or
\* the scan, which ends before `last'.  best, choice: the best entry so far.
\* cpu, last: update_prio.  ret: where it returns to.
Fresh == [proc |-> Null, start |-> 0, index |-> 0, prio |-> ISIZE_MAX,
          best |-> ISIZE_MAX, choice |-> 0, cpu |-> 0, last |-> 0, ret |-> "kernel"]

\* After kernel_init_*: the kernel has entry 0, and no task in this model.
Init ==
    /\ valid = [e \in Index |-> e = 0]
    /\ vspace = [e \in Index |-> Null]
    /\ scheduler = [e \in Index |-> Null]
    /\ highest_prio = [e \in Index |-> [c \in CPU |-> IF e = 0 THEN NO_TASK ELSE ISIZE_MAX]]
    /\ next_i = 1
    /\ life = [p \in Process |-> "new"]
    /\ pid = [p \in Process |-> 0]
    /\ sources = {}
    /\ tasks = [p \in Process |-> 0]
    /\ left = [p \in Process |-> MAX_TASKS]
    /\ mapped = [c \in CPU |-> Null]
    /\ current_vspace = [c \in CPU |-> 0]
    /\ home = [c \in CPU |-> Null]
    /\ pc = [c \in CPU |-> "idle"]
    /\ loc = [c \in CPU |-> Fresh]
    /\ open = [c \in CPU |-> {}]
    /\ wasted = [c \in CPU |-> {}]
    /\ overlapped = {}

Goto(c, from, to) ==
    /\ pc[c] = from
    /\ pc' = [pc EXCEPT ![c] = to]

\* fetch_add.  Only the residue and whether it has reached PROCESS_NUM count.
Advance == next_i' = IF next_i + 1 = 2 * PROCESS_NUM THEN PROCESS_NUM ELSE next_i + 1

-----------------------------------------------------------------------------
(* process_init                                                            *)

register_process(c, p) ==
    /\ Goto(c, "kernel", "claim")
    /\ life[p] = "new"
    /\ life' = [life EXCEPT ![p] = "starting"]
    /\ Advance
    /\ loc' = [loc EXCEPT ![c] = [Fresh EXCEPT !.proc = p, !.start = next_i % PROCESS_NUM,
                                              !.index = next_i % PROCESS_NUM]]
    /\ open' = [open EXCEPT ![c] = {e \in Index : ~valid[e]}]
    /\ UNCHANGED <<entryVars, pid, left, schedVars, cpuVars, wasted, overlapped>>

\* Fault: the value that swap returns is not looked at.
claim_blindly(c) ==
    LET e == loc[c].index
    IN  /\ Goto(c, "claim", "store_vspace")
        /\ valid' = [valid EXCEPT ![e] = TRUE]
        /\ open' = [d \in CPU |-> open[d] \ {e}]
        /\ UNCHANGED <<vspace, scheduler, highest_prio, next_i, osVars, schedVars,
                       cpuVars, loc, wasted, overlapped>>

\* valid.swap(true)
claim(c) ==
    LET e == loc[c].index
    IN  /\ Goto(c, "claim", IF valid[e] THEN "retry" ELSE "store_vspace")
        /\ valid' = [valid EXCEPT ![e] = TRUE]
        /\ open' = [d \in CPU |-> open[d] \ {e}]
        /\ UNCHANGED <<vspace, scheduler, highest_prio, next_i, osVars, schedVars,
                       cpuVars, loc, wasted, overlapped>>

\* Fault: one entry too few is tried.
retry_short(c) ==
    LET e == next_i % PROCESS_NUM
    IN  /\ Goto(c, "retry", IF (e + 1) % PROCESS_NUM = loc[c].start THEN "full" ELSE "claim")
        /\ Advance
        /\ loc' = [loc EXCEPT ![c].index = e]
        /\ UNCHANGED <<entryVars, osVars, schedVars, cpuVars, history>>

\* The next index, which may have come round: then process_init panics.
retry(c) ==
    LET e == next_i % PROCESS_NUM
        full == e = loc[c].start
    IN  /\ Goto(c, "retry", IF full THEN "full" ELSE "claim")
        /\ Advance
        /\ loc' = [loc EXCEPT ![c].index = e]
        /\ wasted' = [d \in CPU |-> wasted[d] \cup (IF full THEN open[d] \cap {e} ELSE {})]
        /\ UNCHANGED <<entryVars, osVars, schedVars, cpuVars, open, overlapped>>

store_vspace(c) ==
    /\ Goto(c, "store_vspace", "store_scheduler")
    /\ vspace' = [vspace EXCEPT ![loc[c].index] = loc[c].proc]
    /\ UNCHANGED <<valid, scheduler, highest_prio, next_i, osVars, schedVars,
                   cpuVars, loc, history>>

\* init_except_sources makes a scheduler without sources and leaves the
\* entry's priorities as they are.
store_scheduler(c) ==
    LET p == loc[c].proc
        e == loc[c].index
    IN  /\ Goto(c, "store_scheduler", "kernel")
        /\ scheduler' = [scheduler EXCEPT ![e] = p]
        /\ pid' = [pid EXCEPT ![p] = e]
        /\ life' = [life EXCEPT ![p] = "started"]
        /\ loc' = [loc EXCEPT ![c] = Fresh]
        /\ open' = [open EXCEPT ![c] = {}]
        /\ wasted' = [wasted EXCEPT ![c] = {}]
        /\ UNCHANGED <<valid, vspace, highest_prio, next_i, left, schedVars,
                       cpuVars, overlapped>>

-----------------------------------------------------------------------------
(* Operations on a scheduler: each ends with reading its sources and       *)
(* storing the result for one or all CPUs.                                 *)

\* Somebody else is working for p, or runs a task of it.
InUse(c, p) == \E d \in CPU \ {c} : loc[d].proc = p

Begin(c, p) == overlapped' = IF InUse(c, p) THEN overlapped \cup {p} ELSE overlapped

Report(p) == IF p \notin sources THEN ISIZE_MAX ELSE IF tasks[p] > 0 THEN READY ELSE NO_TASK

\* get_and_update_all_prio, its read.
peek(c) ==
    /\ Goto(c, "peek", "store")
    /\ loc' = [loc EXCEPT ![c].prio = Report(loc[c].proc)]
    /\ UNCHANGED <<entryVars, next_i, osVars, schedVars, cpuVars, history>>

\* update_prio, one entry.
store(c) ==
    LET l == loc[c]
        done == l.cpu = l.last
    IN  /\ Goto(c, "store", IF done THEN l.ret ELSE "store")
        /\ highest_prio' = [highest_prio EXCEPT ![pid[l.proc]][l.cpu] = l.prio]
        /\ loc' = [loc EXCEPT ![c] = IF ~done THEN [l EXCEPT !.cpu = @ + 1]
                                     ELSE IF l.ret = "run" THEN [Fresh EXCEPT !.proc = l.proc]
                                     ELSE Fresh]
        /\ UNCHANGED <<valid, vspace, scheduler, next_i, osVars, schedVars,
                       cpuVars, history>>

\* Fault: the sources' priority is not published.
user_init_silent(c, p) ==
    /\ life[p] = "started"
    /\ pc[c] = "kernel"
    /\ life' = [life EXCEPT ![p] = "live"]
    /\ sources' = sources \cup {p}
    /\ Begin(c, p)
    /\ UNCHANGED <<entryVars, next_i, pid, left, tasks, cpuVars, pc, loc, freeVars>>

\* user_init: init_sources registers both sources under its write lock, which
\* is then only held for reading.
user_init(c, p) ==
    /\ Goto(c, "kernel", "peek")
    /\ life[p] = "started"
    /\ life' = [life EXCEPT ![p] = "live"]
    /\ sources' = sources \cup {p}
    /\ loc' = [loc EXCEPT ![c] = [Fresh EXCEPT !.proc = p, !.last = CPU_NUM - 1]]
    /\ Begin(c, p)
    /\ UNCHANGED <<entryVars, next_i, pid, left, tasks, cpuVars, freeVars>>

\* push_task: the entry must be valid, ...
push_task(c, p) ==
    /\ Goto(c, "kernel", "lookup")
    /\ life[p] \in {"started", "live"}
    /\ left[p] > 0
    /\ left' = [left EXCEPT ![p] = @ - 1]
    /\ valid[pid[p]]
    /\ loc' = [loc EXCEPT ![c] = [Fresh EXCEPT !.proc = p, !.last = CPU_NUM - 1]]
    /\ Begin(c, p)
    /\ UNCHANGED <<entryVars, next_i, life, pid, schedVars, cpuVars, freeVars>>

\* ... and the task goes to the scheduler that it names.
lookup(c) ==
    LET s == scheduler[pid[loc[c].proc]]
    IN  /\ Goto(c, "lookup", "peek")
        /\ s # Null
        /\ tasks' = [tasks EXCEPT ![s] = @ + 1]
        /\ loc' = [loc EXCEPT ![c].proc = s]
        /\ UNCHANGED <<entryVars, next_i, osVars, sources, cpuVars, history>>

-----------------------------------------------------------------------------
(* process_drop                                                            *)

unregister_process(c, p) ==
    /\ Goto(c, "kernel", "invalidate")
    /\ life[p] = "live"
    /\ tasks[p] = 0
    /\ ~InUse(c, p)
    /\ \A d \in CPU : home[d] # p
    /\ life' = [life EXCEPT ![p] = "dropped"]
    /\ vspace' = [vspace EXCEPT ![pid[p]] = Null]
    /\ loc' = [loc EXCEPT ![c] = [Fresh EXCEPT !.proc = p, !.index = pid[p]]]
    /\ UNCHANGED <<valid, scheduler, highest_prio, next_i, pid, left, schedVars,
                   cpuVars, history>>

\* Fault: the entry is given up first, its address space afterwards.
invalidate_then_null(c) ==
    LET e == loc[c].index
        first == loc[c].last = 0
    IN  /\ Goto(c, "invalidate", IF first THEN "invalidate" ELSE "kernel")
        /\ valid' = IF first THEN [valid EXCEPT ![e] = FALSE] ELSE valid
        /\ vspace' = IF first THEN vspace ELSE [vspace EXCEPT ![e] = Null]
        /\ loc' = [loc EXCEPT ![c] = IF first THEN [@ EXCEPT !.last = 1] ELSE Fresh]
        /\ UNCHANGED <<scheduler, highest_prio, next_i, osVars, schedVars,
                       cpuVars, history>>

invalidate(c) ==
    /\ Goto(c, "invalidate", "kernel")
    /\ valid' = [valid EXCEPT ![loc[c].index] = FALSE]
    /\ loc' = [loc EXCEPT ![c] = Fresh]
    /\ UNCHANGED <<vspace, scheduler, highest_prio, next_i, osVars, schedVars,
                   cpuVars, history>>

-----------------------------------------------------------------------------
(* A CPU between tasks: kschedule, or, after a task of a user process,     *)
(* uschedule in the address space of that process, then utok_schedule.     *)

\* The scheduler of the loop, as an entry of the table.
global_index(c) == IF home[c] = Null THEN 0 ELSE pid[home[c]]

\* A task of the kernel is popped; switch_vspace(0) maps nothing.
kernel_task(c) ==
    /\ Goto(c, "idle", "kernel")
    /\ home[c] = Null
    /\ current_vspace' = [current_vspace EXCEPT ![c] = 0]
    /\ UNCHANGED <<entryVars, next_i, osVars, schedVars, mapped, home, loc, history>>

kernel_done(c) ==
    /\ Goto(c, "kernel", "idle")
    /\ UNCHANGED <<entryVars, next_i, osVars, schedVars, cpuVars, loc, history>>

\* highest_prio_process scans next_i - PROCESS_NUM .. next_i - 1, or from 0.
process_schedule(c) ==
    LET start == IF next_i >= PROCESS_NUM THEN next_i - PROCESS_NUM ELSE 0
    IN  /\ Goto(c, "idle", "look")
        /\ loc' = [loc EXCEPT ![c] = [Fresh EXCEPT !.index = start, !.last = next_i]]
        /\ UNCHANGED <<entryVars, next_i, osVars, schedVars, cpuVars, history>>

\* On to the next entry; with the last one, to the process that was chosen.
\* In the kernel's loop, the kernel itself, whose scheduler is empty now,
\* leaves the CPU without a task.
Advanced(l) ==
    IF l.index + 1 < l.last THEN [l EXCEPT !.index = @ + 1]
    ELSE [Fresh EXCEPT !.choice = l.choice]

After(c, l) ==
    IF l.index + 1 < l.last THEN "look"
    ELSE IF home[c] # Null THEN "choose"
    ELSE IF l.choice = 0 THEN "idle" ELSE "switch"

\* One entry: valid?  How urgent?  Still valid?
look(c) ==
    LET l == loc[c]
        there == valid[l.index % PROCESS_NUM]
    IN  /\ Goto(c, "look", IF there THEN "read" ELSE After(c, l))
        /\ loc' = [loc EXCEPT ![c] = IF there THEN l ELSE Advanced(l)]
        /\ UNCHANGED <<entryVars, next_i, osVars, schedVars, cpuVars, history>>

read(c) ==
    /\ Goto(c, "read", "confirm")
    /\ loc' = [loc EXCEPT ![c].prio = highest_prio[loc[c].index % PROCESS_NUM][c]]
    /\ UNCHANGED <<entryVars, next_i, osVars, schedVars, cpuVars, history>>

\* The process whose loop this is goes first among equals.
confirm(c) ==
    LET l == loc[c]
        e == l.index % PROCESS_NUM
        better == valid[e] /\ (l.prio < l.best \/ (l.prio = l.best /\ e = global_index(c)))
        m == IF better THEN [l EXCEPT !.best = l.prio, !.choice = e] ELSE l
    IN  /\ Goto(c, "confirm", After(c, m))
        /\ loc' = [loc EXCEPT ![c] = Advanced(m)]
        /\ UNCHANGED <<entryVars, next_i, osVars, schedVars, cpuVars, history>>

\* A user's loop pops from its own scheduler, or names another process in
\* CURRENT_VSPACE for the kernel and maps nothing.
utask_schedule(c) ==
    LET e == loc[c].choice
        own == e = global_index(c)
    IN  /\ Goto(c, "choose", IF own THEN "pop" ELSE "into")
        /\ current_vspace' = [current_vspace EXCEPT ![c] = IF own THEN @ ELSE e]
        /\ UNCHANGED <<entryVars, next_i, osVars, schedVars, mapped, home, loc, history>>

\* utok_schedule goes on with the process that CURRENT_VSPACE names.
into_kernel(c) ==
    /\ Goto(c, "into", IF current_vspace[c] = 0 THEN "idle" ELSE "switch")
    /\ home' = [home EXCEPT ![c] = Null]
    /\ loc' = [loc EXCEPT ![c] = [Fresh EXCEPT !.choice = current_vspace[c]]]
    /\ UNCHANGED <<entryVars, next_i, osVars, schedVars, mapped, current_vspace, history>>

\* Nothing is mapped if CURRENT_VSPACE names the process already, or if it
\* has no address space.
switch_vspace(c) ==
    LET e == loc[c].choice
        stay == current_vspace[c] = e \/ vspace[e] = Null
    IN  /\ Goto(c, "switch", "pop")
        /\ current_vspace' = [current_vspace EXCEPT ![c] = e]
        /\ mapped' = [mapped EXCEPT ![c] = IF stay THEN @ ELSE vspace[e]]
        /\ UNCHANGED <<entryVars, next_i, osVars, schedVars, home, loc, history>>

\* What get_user_data(None) finds for CURRENT_VSPACE: the process to which the
\* OS gave that pid.
OwnerOf(e) == {p \in Process : life[p] \in {"started", "live"} /\ pid[p] = e}

\* get_user_data asserts that there is one.
pop_lost(c) ==
    /\ OwnerOf(loc[c].choice) = {}
    /\ Goto(c, "pop", "lost")
    /\ loc' = [loc EXCEPT ![c] = Fresh]
    /\ UNCHANGED <<entryVars, next_i, osVars, schedVars, cpuVars, history>>

\* Where a loop goes on when it has found no task.
Empty(c) == IF home[c] = Null THEN "idle" ELSE "into"

\* pop_task.  Without sources or tasks only this CPU's entry is written.
pop_task(c) ==
    \E p \in OwnerOf(loc[c].choice) :
        LET prio == Report(p)
        IN  /\ Goto(c, "pop", IF prio = READY THEN "take" ELSE "store")
            /\ loc' = [loc EXCEPT ![c] = [Fresh EXCEPT !.proc = p, !.prio = prio, !.cpu = c,
                                                      !.last = c, !.ret = Empty(c)]]
            /\ Begin(c, p)
            /\ UNCHANGED <<entryVars, next_i, osVars, schedVars, cpuVars, freeVars>>

\* Fault: the task is taken to be still there.
take_task_unchecked(c) ==
    LET p == loc[c].proc
    IN  /\ Goto(c, "take", "store")
        /\ tasks' = [tasks EXCEPT ![p] = @ - 1]
        /\ loc' = [loc EXCEPT ![c] = [@ EXCEPT !.prio = READY, !.cpu = 0, !.last = CPU_NUM - 1,
                                              !.ret = "run"]]
        /\ UNCHANGED <<entryVars, next_i, osVars, sources, cpuVars, history>>

\* The priority returned with a task is never below its own, even if it was
\* the last one, see NextPrio in ReadyQueueOps.  It is stored for all CPUs.
take_task(c) ==
    LET p == loc[c].proc
        got == tasks[p] > 0
    IN  /\ Goto(c, "take", "store")
        /\ tasks' = [tasks EXCEPT ![p] = IF got THEN @ - 1 ELSE @]
        /\ loc' = [loc EXCEPT ![c] = [@ EXCEPT !.prio = IF got THEN READY ELSE NO_TASK,
                                              !.cpu = 0, !.last = CPU_NUM - 1,
                                              !.ret = IF got THEN "run" ELSE Empty(c)]]
        /\ UNCHANGED <<entryVars, next_i, osVars, sources, cpuVars, history>>

\* The task exits, and its process's own loop begins or goes on ...
exits(c) ==
    /\ Goto(c, "run", "idle")
    /\ home' = [home EXCEPT ![c] = loc[c].proc]
    /\ loc' = [loc EXCEPT ![c] = Fresh]
    /\ UNCHANGED <<entryVars, next_i, osVars, schedVars, mapped, current_vspace, history>>

\* ... or with a system call, for which a handler of the kernel is popped
\* (switch_vspace(0)) and switches to the space of the trapped task.
exits_by_trap(c) ==
    LET e == pid[loc[c].proc]
    IN  /\ Goto(c, "run", "kernel")
        /\ current_vspace' = [current_vspace EXCEPT ![c] = e]
        /\ mapped' = [mapped EXCEPT ![c] = IF vspace[e] = Null THEN @ ELSE vspace[e]]
        /\ home' = [home EXCEPT ![c] = Null]
        /\ loc' = [loc EXCEPT ![c] = Fresh]
        /\ UNCHANGED <<entryVars, next_i, osVars, schedVars, history>>

-----------------------------------------------------------------------------
Register(c) ==
    \/ \E p \in Process : register_process(c, p)
    \/ claim(c)
    \/ retry(c)
    \/ store_vspace(c)
    \/ store_scheduler(c)

UseScheduler(c) ==
    \/ \E p \in Process : user_init(c, p) \/ push_task(c, p)
    \/ lookup(c)
    \/ peek(c)
    \/ store(c)

Drop(c) ==
    \/ \E p \in Process : unregister_process(c, p)
    \/ invalidate(c)

Schedule(c) ==
    \/ kernel_task(c)
    \/ kernel_done(c)
    \/ process_schedule(c)
    \/ look(c)
    \/ read(c)
    \/ confirm(c)
    \/ utask_schedule(c)
    \/ into_kernel(c)
    \/ switch_vspace(c)
    \/ pop_lost(c)
    \/ pop_task(c)
    \/ take_task(c)
    \/ exits(c)
    \/ exits_by_trap(c)

Next == \E c \in CPU : Register(c) \/ UseScheduler(c) \/ Drop(c) \/ Schedule(c)

Spec == Init /\ [][Next]_vars

-----------------------------------------------------------------------------
Place == {"idle", "kernel", "claim", "retry", "full", "store_vspace", "store_scheduler",
          "lookup", "peek", "store", "invalidate", "look", "read", "confirm",
          "choose", "into", "switch", "pop", "lost", "take", "run"}

Local == [proc : Process \cup {Null}, start : Index, index : 0 .. 2 * PROCESS_NUM - 2,
          prio : Prio, best : Prio, choice : Index, cpu : CPU,
          last : 0 .. 2 * PROCESS_NUM + CPU_NUM, ret : {"kernel", "idle", "into", "run"}]

\* Every variable has its type; next_i stays in the range that Advance gives
\* it, and so does every index that is computed from it (process_info.rs:73).
TypeOK ==
    /\ valid \in [Index -> BOOLEAN]
    /\ vspace \in [Index -> Process \cup {Null}]
    /\ scheduler \in [Index -> Process \cup {Null}]
    /\ highest_prio \in [Index -> [CPU -> Prio]]
    /\ next_i \in 1 .. 2 * PROCESS_NUM - 1
    /\ life \in [Process -> {"new", "starting", "started", "live", "dropped"}]
    /\ pid \in [Process -> Index]
    /\ sources \subseteq Process
    /\ tasks \in [Process -> 0 .. MAX_TASKS]
    /\ left \in [Process -> 0 .. MAX_TASKS]
    /\ mapped \in [CPU -> Process \cup {Null}]
    /\ current_vspace \in [CPU -> Index]
    /\ home \in [CPU -> Process \cup {Null}]
    /\ pc \in [CPU -> Place]
    /\ loc \in [CPU -> Local]
    /\ open \in [CPU -> SUBSET Index]
    /\ wasted \in [CPU -> SUBSET Index]
    /\ overlapped \subseteq Process

\* The entries that process_init is filling in or has returned, and that
\* process_drop has not given back.
Holders(e) ==
    {p \in Process : \/ life[p] \in {"started", "live"} /\ pid[p] = e
                     \/ \E c \in CPU : /\ loc[c].proc = p
                                      /\ loc[c].index = e
                                      /\ pc[c] \in {"store_vspace", "store_scheduler", "invalidate"}}

\* A pid belongs to one process at a time, from the claim of its entry to the
\* end of process_drop, and never to the kernel's; and an entry that nobody
\* holds can be claimed again (process_info.rs:72-96).
EntryHasOneOwner ==
    \A e \in Index \ {0} : /\ \A p, q \in Holders(e) : p = q
                          /\ valid[e] <=> Holders(e) # {}

\* register_process goes on "until it has found a free index or traversed the
\* whole array" (process_info.rs:20): when it gives up, no entry has been free
\* all the time since it began, but for one that another CPU is about to claim.
\* One thing hides a free entry from it all the same, and only this: another
\* CPU drew its index from the counter they share, found that it had come
\* round, and gave up without a look at the entry (process_info.rs:80-83).
NoneUnlessWasted ==
    \A c \in CPU : pc[c] = "full" =>
        \A e \in open[c] \ wasted[c] : \E d \in CPU : pc[d] = "claim" /\ loc[d].index = e

\* Between process_init and process_drop, the entry of a process says where
\* this process is, whatever is done to the entry's next or previous owner
\* and however late (api.rs:138-167).
EntryIsOwn ==
    \A p \in Process : life[p] \in {"started", "live"} =>
        valid[pid[p]] /\ vspace[pid[p]] = p /\ scheduler[pid[p]] = p

\* A process whose scheduler nobody works on, and on whose scheduler no two
\* operations ever overlapped, is published as ready to every CPU if it has a
\* task; also if tasks were pushed before user_init, and if its pid was used
\* before (scheduler.rs:138, api.rs:245).
TableTellsTheTruth ==
    \A p \in Process :
        (/\ life[p] = "live"
         /\ tasks[p] > 0
         /\ p \notin overlapped
         /\ \A c \in CPU : loc[c].proc # p)
        => \A c \in CPU : highest_prio[pid[p]][c] = READY

\* A user task runs in the address space of its process: CURRENT_VSPACE "stands
\* for the current address space" (current.rs:83), and only the kernel's process
\* has none (process_info.rs:42).
UserTaskInItsSpace == \A c \in CPU : pc[c] = "run" => mapped[c] = loc[c].proc

=============================================================================
