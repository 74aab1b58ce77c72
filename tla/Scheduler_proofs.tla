-------------------------- MODULE Scheduler_proofs --------------------------
(***************************************************************************)
(* Proofs about Scheduler for any number of CPUs, processes, tasks and     *)
(* levels.                                                                 *)
(*                                                                         *)
(* The inductive invariant ControlInv says what a CPU has in hand, in      *)
(* which address space and at which privilege level it is at each place of *)
(* the code.  The privilege level and the address spaces follow from it,   *)
(* and what a CPU runs while traps wait.  Awake says where a CPU may be    *)
(* marked as sleeping, which needs a WFI that only a trap ends.  On both   *)
(* rests PlaceInv: each task is in one queue, one trap queue, in the hands *)
(* of one CPU or the OS's, and so EveryTaskInOnePlace.                     *)
(***************************************************************************)
EXTENDS Scheduler, ReadyQueueOps_proofs, FiniteSetTheorems

\* The places inside an operation on a scheduler that another part of the
\* code has called (scheduler.rs:280-463).
Operating == {"mark", "peek", "store"}

\* Where the CPU's code goes on once that operation is over, if it is in one.
Resumes(c) == IF pc[c] \in Operating THEN loc[c].ret
              ELSE IF pc[c] \in {"scan", "settle"} THEN "popped" ELSE pc[c]

\* Which operation may be called from where, and what it works on: push_task
\* on the task's own process, a user's loop only up to a pop; and a CPU that
\* looks again or waits is marked as sleeping (main_loop.rs:418-442).
Control(c) ==
    /\ pc[c] = "mark" => loc[c].ret \in {"select", "run", "handler"}
    /\ pc[c] = "peek" => loc[c].ret \in {"select", "requeue", "run", "handler", "handle"}
    /\ pc[c] = "store" =>
          loc[c].ret \in {"popped", "select", "requeue", "run", "handler", "handle"}
    /\ pc[c] \in {"scan", "settle"} => loc[c].ret = "popped"
    /\ pc[c] \notin Operating \cup {"scan", "settle"} => loc[c].ret = "none"
    /\ pc[c] = "mark" \/ (pc[c] \in Operating /\ loc[c].ret = "run") =>
          loc[c].task \in Task /\ loc[c].pid = pid_of[loc[c].task]
    /\ loc[c].work # NoTask => Resumes(c) = "handle"
    /\ loc[c].home # 0 => Resumes(c) \in {"select", "pop", "popped"}
    /\ pc[c] = "run" => loc[c] = Fresh
    /\ pc[c] \in {"check", "decide", "wfi"} => is_sleeping[c]

\* The current task: none in the loop, a task while one runs or is put back,
\* the handler while traps are handled (current.rs:23-47).
InCharge(c) ==
    /\ Resumes(c) \in {"select", "check", "decide", "pop", "popped", "wfi"}
          => current[c] = NoTask
    /\ Resumes(c) \in {"run", "requeue"} => current[c] \in Task
    /\ Resumes(c) \in {"handler", "handle"} => current[c] = Handler

\* A pop from the ready queue finds a level's task, which is one of the
\* process it pops from; at the kernel it is done only while no trap waits,
\* and the handler is the result of a pop at the kernel while one waits
\* (scheduler.rs:280-340).
Popping(c) ==
    /\ pc[c] = "scan" => loc[c].task = NoTask /\ (loc[c].pid = 0 => traps[c] = <<>>)
    /\ pc[c] = "settle" => loc[c].task \in Task /\ loc[c].prio \in Level
    /\ Resumes(c) = "popped" =>
          /\ loc[c].home \in {0, loc[c].pid}
          /\ loc[c].task \in Task => /\ pid_of[loc[c].task] = loc[c].pid
                                     /\ loc[c].pid = 0 => traps[c] = <<>>
          /\ loc[c].task = Handler => loc[c].pid = 0 /\ traps[c] # <<>>

\* CURRENT_VSPACE names a user process only if one is mapped, and it names some
\* user process in a user's loop and from the pop of a user's task on, the
\* kernel's while a kernel task runs (main_loop.rs:446-461, 525-597).
Spaces(c) ==
    /\ vspace[c] # 0 => page_table[c] # 0
    /\ loc[c].home # 0 => vspace[c] # 0
    /\ Resumes(c) = "popped" /\ loc[c].pid # 0 => vspace[c] # 0
    /\ Resumes(c) = "run" => (vspace[c] = 0 <=> pid_of[current[c]] = 0)

\* IN_KERNEL is the privilege level, and user code has an address space.
Mode(c) ==
    /\ in_kernel[c] = ~InUserMode(c)
    /\ ~in_kernel[c] => page_table[c] # 0

\* No trap waits while a kernel task runs.
Traps(c) == Resumes(c) = "run" /\ pid_of[current[c]] = 0 => traps[c] = <<>>

\* A task goes on where it started, or in the middle of a push_task that it
\* has called (main_loop.rs:51-234, scheduler.rs:434-463).
Contexts ==
    \A t \in Task :
        /\ context[t].at = "run" => context[t].loc = Fresh
        /\ context[t].at # "run" =>
              /\ context[t].loc.home = 0 /\ context[t].loc.ret = "run"
              /\ context[t].loc.work = NoTask /\ context[t].loc.task \in Task
              /\ context[t].loc.pid = pid_of[context[t].loc.task]

\* Each task is queued at its process and its level (main_loop.rs:476-498,
\* ready_queue.rs:58-62).
Proper ==
    \A p \in Process, q \in Level :
       \A t \in Elements(queues[p][q]) : pid_of[t] = p /\ priority[t] = q

\* The task that the CPU has in hand, NoTask if it has none: its current
\* task, the one whose trap it handles, or the one it pops.
Held(c) ==
    IF Resumes(c) \in {"run", "requeue"} THEN current[c]
    ELSE IF Resumes(c) = "handle" THEN loc[c].work
    ELSE IF Resumes(c) = "popped" /\ loc[c].task # Handler THEN loc[c].task
    ELSE NoTask

\* All of this for one CPU.
OwnState(c) == Control(c) /\ InCharge(c) /\ Popping(c) /\ Spaces(c) /\ Mode(c) /\ Traps(c)

\* The first part of the inductive invariant, TypeOK included.
ControlInv ==
    /\ TypeOK
    /\ \A c \in CPU : OwnState(c)
    /\ Proper
    /\ Contexts

\* A step of one CPU leaves the other CPUs' own state alone (no code sends an
\* IPI).
Others(c) ==
    \A d \in CPU \ {c} :
        /\ pc'[d] = pc[d]
        /\ loc'[d] = loc[d]
        /\ current'[d] = current[d]
        /\ traps'[d] = traps[d]
        /\ vspace'[d] = vspace[d] /\ page_table'[d] = page_table[d]
        /\ in_kernel'[d] = in_kernel[d] /\ is_sleeping'[d] = is_sleeping[d]

-----------------------------------------------------------------------------
(* Facts about constants, local variables and single CPUs.                 *)

\* The constants are integers in their ranges, and counting up from one of
\* them stays in range until the last.
LEMMA Numbers ==
    /\ 0 \in CPU /\ 0 \in Process
    /\ HIGHEST_PRIORITY \in Level
    /\ \A c \in CPU : c \in Int /\ (c # CPU_NUM - 1 => c + 1 \in CPU)
    /\ \A p \in Process : p \in Int /\ (p # PROCESS_NUM - 1 => p + 1 \in Process)
BY CpuAssumption, LevelAssumption, SMT DEF CPU, Process, Level

\* A local variable that is assigned a value of its range stays in it.
LEMMA Updated ==
    ASSUME NEW l \in Local
    PROVE  /\ \A x \in Process : [l EXCEPT !.home = x] \in Local
           /\ \A x \in Process : [l EXCEPT !.pid = x] \in Local
           /\ \A x \in Process : [l EXCEPT !.idx = x] \in Local
           /\ \A x \in Level \cup {NoPriority, ISIZE_MAX} : [l EXCEPT !.best = x] \in Local
           /\ \A x \in Task \cup {Handler, NoTask} : [l EXCEPT !.task = x] \in Local
           /\ \A x \in Level \cup {NoPriority} : [l EXCEPT !.prio = x] \in Local
           /\ \A x \in BOOLEAN : [l EXCEPT !.all = x] \in Local
           /\ \A x \in CPU : [l EXCEPT !.cpu = x] \in Local
           /\ \A x \in PC \cup {"none"} : [l EXCEPT !.ret = x] \in Local
           /\ \A x \in Task \cup {NoTask} : [l EXCEPT !.work = x] \in Local
           /\ \A x \in BOOLEAN : [l EXCEPT !.late = x] \in Local
BY SMT DEF Local

\* The local variables' initial values are in their ranges (CPU 0, the
\* kernel's process, no task, no level).
LEMMA FreshLocal == Fresh \in Local
BY Numbers, SMT DEF Fresh, Local

\* Assigning the initial values changes nothing.
LEMMA Unwritten ==
    /\ [Fresh EXCEPT !.home = 0, !.work = NoTask, !.pid = 0, !.task = NoTask] = Fresh
    /\ [Fresh EXCEPT !.late = FALSE] = Fresh
<1>1. Fresh = [x \in DOMAIN Fresh |-> Fresh[x]]
  BY SMT DEF Fresh
<1>2. ASSUME NEW f PROVE [Fresh EXCEPT ![f] = Fresh[f]] = Fresh
  <2>1. [Fresh EXCEPT ![f] = Fresh[f]]
           = [x \in DOMAIN Fresh |-> IF x = f THEN Fresh[f] ELSE Fresh[x]]
    BY <1>1, Zenon
  <2>2. \A x : (IF x = f THEN Fresh[f] ELSE Fresh[x]) = Fresh[x]
    OBVIOUS
  <2> QED
    BY <1>1, <2>1, <2>2, Zenon
<1>3. /\ Fresh.home = 0 /\ Fresh.work = NoTask /\ Fresh.pid = 0 /\ Fresh.task = NoTask
      /\ Fresh.late = FALSE
  BY SMT DEF Fresh
<1>4. /\ [Fresh EXCEPT !.home = 0] = Fresh /\ [Fresh EXCEPT !.work = NoTask] = Fresh
      /\ [Fresh EXCEPT !.pid = 0] = Fresh /\ [Fresh EXCEPT !.task = NoTask] = Fresh
      /\ [Fresh EXCEPT !.late = FALSE] = Fresh
  BY <1>2, <1>3, Zenon
<1>5. [[[[Fresh EXCEPT !.home = 0] EXCEPT !.work = NoTask] EXCEPT !.pid = 0]
          EXCEPT !.task = NoTask] = Fresh
  BY <1>4, Zenon
<1> QED
  BY <1>4, <1>5, Zenon

\* Several local variables that are assigned together.
LEMMA UpdatedMore ==
    ASSUME NEW l \in Local
    PROVE  /\ \A p, e \in Process, b \in Level \cup {NoPriority, ISIZE_MAX} :
                 [l EXCEPT !.pid = p, !.best = b, !.idx = e] \in Local
           /\ \A h \in Process, t \in Task \cup {Handler, NoTask}, q \in Level
                 \cup {NoPriority},
                 a \in BOOLEAN, c \in CPU, r \in PC :
                 [l EXCEPT !.home = h, !.task = t, !.prio = q, !.all = a, !.cpu = c, !.ret = r]
                    \in Local
           /\ \A h, p \in Process, t \in Task \cup {Handler, NoTask}, w \in Task \cup {NoTask} :
                 [l EXCEPT !.home = h, !.work = w, !.pid = p, !.task = t] \in Local
           /\ \A h, p \in Process, t \in Task \cup {Handler, NoTask}, r \in PC :
                 [l EXCEPT !.home = h, !.pid = p, !.task = t, !.ret = r] \in Local
           /\ \A q \in Level \cup {NoPriority}, c \in CPU :
                 [l EXCEPT !.prio = q, !.cpu = c] \in Local
           /\ \A w \in Task \cup {NoTask}, r \in PC \cup {"none"} :
                 [l EXCEPT !.work = w, !.ret = r] \in Local
<1>1. ASSUME NEW p \in Process, NEW e \in Process, NEW b \in Level \cup {NoPriority, ISIZE_MAX}
      PROVE  [l EXCEPT !.pid = p, !.best = b, !.idx = e] \in Local
  <2> DEFINE m1 == [l EXCEPT !.pid = p]
  <2> DEFINE m2 == [m1 EXCEPT !.best = b]
  <2> DEFINE m3 == [m2 EXCEPT !.idx = e]
  <2>1. m1 \in Local
    BY <1>1, Updated, Zenon
  <2>2. m2 \in Local
    BY <2>1, <1>1, Updated, Zenon
  <2>3. m3 \in Local
    BY <2>2, <1>1, Updated, Zenon
  <2> QED
    BY <2>3, SMT
<1>2. ASSUME NEW h \in Process, NEW t \in Task \cup {Handler, NoTask},
             NEW q \in Level \cup {NoPriority}, NEW a \in BOOLEAN, NEW c \in CPU, NEW r \in PC
      PROVE  [l EXCEPT !.home = h, !.task = t, !.prio = q, !.all = a, !.cpu = c, !.ret = r]
                \in Local
  <2> DEFINE m1 == [l EXCEPT !.home = h]
  <2> DEFINE m2 == [m1 EXCEPT !.task = t]
  <2> DEFINE m3 == [m2 EXCEPT !.prio = q]
  <2> DEFINE m4 == [m3 EXCEPT !.all = a]
  <2> DEFINE m5 == [m4 EXCEPT !.cpu = c]
  <2> DEFINE m6 == [m5 EXCEPT !.ret = r]
  <2>1. m1 \in Local
    BY <1>2, Updated, Zenon
  <2>2. m2 \in Local
    BY <2>1, <1>2, Updated, Zenon
  <2>3. m3 \in Local
    BY <2>2, <1>2, Updated, Zenon
  <2>4. m4 \in Local
    BY <2>3, <1>2, Updated, Zenon
  <2>5. m5 \in Local
    BY <2>4, <1>2, Updated, Zenon
  <2>6. m6 \in Local
    BY <2>5, <1>2, Updated, Zenon
  <2> QED
    BY <2>6, SMT
<1>3. ASSUME NEW h \in Process, NEW p \in Process, NEW t \in Task \cup {Handler, NoTask},
             NEW w \in Task \cup {NoTask}
      PROVE  [l EXCEPT !.home = h, !.work = w, !.pid = p, !.task = t] \in Local
  <2> DEFINE m1 == [l EXCEPT !.home = h]
  <2> DEFINE m2 == [m1 EXCEPT !.work = w]
  <2> DEFINE m3 == [m2 EXCEPT !.pid = p]
  <2> DEFINE m4 == [m3 EXCEPT !.task = t]
  <2>1. m1 \in Local
    BY <1>3, Updated, Zenon
  <2>2. m2 \in Local
    BY <2>1, <1>3, Updated, Zenon
  <2>3. m3 \in Local
    BY <2>2, <1>3, Updated, Zenon
  <2>4. m4 \in Local
    BY <2>3, <1>3, Updated, Zenon
  <2> QED
    BY <2>4, SMT
<1>4. ASSUME NEW h \in Process, NEW p \in Process, NEW t \in Task \cup {Handler, NoTask},
             NEW r \in PC
      PROVE  [l EXCEPT !.home = h, !.pid = p, !.task = t, !.ret = r] \in Local
  <2> DEFINE m1 == [l EXCEPT !.home = h]
  <2> DEFINE m2 == [m1 EXCEPT !.pid = p]
  <2> DEFINE m3 == [m2 EXCEPT !.task = t]
  <2> DEFINE m4 == [m3 EXCEPT !.ret = r]
  <2>1. m1 \in Local
    BY <1>4, Updated, Zenon
  <2>2. m2 \in Local
    BY <2>1, <1>4, Updated, Zenon
  <2>3. m3 \in Local
    BY <2>2, <1>4, Updated, Zenon
  <2>4. m4 \in Local
    BY <2>3, <1>4, Updated, Zenon
  <2> QED
    BY <2>4, SMT
<1>5. ASSUME NEW q \in Level \cup {NoPriority}, NEW c \in CPU
      PROVE  [l EXCEPT !.prio = q, !.cpu = c] \in Local
  <2> DEFINE m1 == [l EXCEPT !.prio = q]
  <2> DEFINE m2 == [m1 EXCEPT !.cpu = c]
  <2>1. m1 \in Local
    BY <1>5, Updated, Zenon
  <2>2. m2 \in Local
    BY <2>1, <1>5, Updated, Zenon
  <2> QED
    BY <2>2, SMT
<1>6. ASSUME NEW w \in Task \cup {NoTask}, NEW r \in PC \cup {"none"}
      PROVE  [l EXCEPT !.work = w, !.ret = r] \in Local
  <2> DEFINE m1 == [l EXCEPT !.work = w]
  <2> DEFINE m2 == [m1 EXCEPT !.ret = r]
  <2>1. m1 \in Local
    BY <1>6, Updated, Zenon
  <2>2. m2 \in Local
    BY <2>1, <1>6, Updated, Zenon
  <2> QED
    BY <2>2, SMT
<1> QED
  BY <1>1, <1>2, <1>3, <1>4, <1>5, <1>6, Zenon

\* The priorities that the two sources report are levels or NoPriority, and
\* nothing is more urgent than a waiting trap at the kernel
\* (trap_wait_queue.rs:241-248, ready_queue.rs:15-26).
LEMMA Highests ==
    ASSUME TypeOK
    PROVE  \A p \in Process, c \in CPU :
              /\ TrapPrio(p, c) \in Level \cup {NoPriority}
              /\ Highest(prio_bitmap[p]) \in Level \cup {NoPriority}
              /\ SourcesPrio(p, c) \in Level \cup {NoPriority}
              /\ (p = 0 /\ traps[c] # <<>>) => ~(Highest(prio_bitmap[p]) < TrapPrio(p, c))
<1> TAKE p \in Process, c \in CPU
<1>1. prio_bitmap[p] \in SUBSET Level
  BY DEF TypeOK
<1>2. Highest(prio_bitmap[p]) \in Level \cup {NoPriority}
  BY <1>1, HighestLemma
<1>3. TrapPrio(p, c) \in Level \cup {NoPriority}
  BY Numbers, SMT DEF TrapPrio
<1>4. SourcesPrio(p, c) \in Level \cup {NoPriority}
  BY <1>2, <1>3, SMT DEF SourcesPrio, Lower
<1>5. \A q \in Level \cup {NoPriority} : ~(q < HIGHEST_PRIORITY)
  BY LevelFacts, SMT
<1> QED
  BY <1>2, <1>3, <1>4, <1>5, SMT DEF TrapPrio

\* What holds of one CPU's own state keeps holding while another CPU moves.
LEMMA OtherCPUs ==
    ASSUME ControlInv, NEW c \in CPU, Others(c), OwnState(c)'
    PROVE  \A d \in CPU : OwnState(d)'
<1>1. ASSUME NEW d \in CPU PROVE OwnState(d)'
  <2>1. CASE d = c
    BY <2>1
  <2>2. CASE d # c
    <3>1. OwnState(d)
      BY DEF ControlInv
    <3>2. /\ pc'[d] = pc[d]
          /\ loc'[d] = loc[d]
          /\ current'[d] = current[d]
          /\ traps'[d] = traps[d]
          /\ vspace'[d] = vspace[d] /\ page_table'[d] = page_table[d]
          /\ in_kernel'[d] = in_kernel[d] /\ is_sleeping'[d] = is_sleeping[d]
      BY <2>2 DEF Others
    <3>3. Resumes(d)' = Resumes(d) /\ (InUserMode(d)' <=> InUserMode(d))
      BY <3>2 DEF Resumes, InUserMode
    <3> QED
      BY <3>1, <3>2, <3>3 DEF OwnState, Control, InCharge, Popping, Spaces, Mode, Traps
  <2> QED
    BY <2>1, <2>2
<1> QED
  BY <1>1

-----------------------------------------------------------------------------
(* What each CPU does at each place: ControlInv, action by action.         *)

\* ControlInv holds when the CPUs enter raw_kschedule.
LEMMA InitControl == Init => ControlInv
<1> SUFFICES ASSUME Init PROVE ControlInv
  OBVIOUS
<1> USE Numbers, FreshLocal, HandlerAssumption, NoTaskAssumption
<1>1. TypeOK
  <2>1. queues \in [Process -> [Level -> Seq(Task)]]
    BY SMT DEF Init, EmptyQueues
  <2>2. Running \in [at : {"run", "mark", "peek", "store"}, loc : Local]
    BY Zenon DEF Running
  <2>3. context \in [Task -> [at : {"run", "mark", "peek", "store"}, loc : Local]]
    <3>1. context = [t \in Task |-> Running]
      BY DEF Init
    <3> QED
      BY <2>2, <3>1, Zenon
  <2> QED
    BY <2>1, <2>3, SMT DEF Init, TypeOK, PC
<1>2. ASSUME NEW c \in CPU PROVE OwnState(c)
  <2>1. pc[c] = "select" /\ loc[c] = Fresh /\ current[c] = NoTask
    BY DEF Init
  <2>2. Resumes(c) = "select" /\ ~InUserMode(c)
    BY <2>1, SMT DEF Resumes, Operating, InUserMode, Fresh
  <2>3. Control(c) /\ InCharge(c) /\ Popping(c) /\ Traps(c)
    BY <2>1, <2>2, SMT DEF Control, Operating, InCharge, Popping, Traps, Fresh
  <2>4. Spaces(c) /\ Mode(c)
    <3>1. vspace[c] = 0 /\ loc[c].home = 0 /\ in_kernel[c] = TRUE
      BY <2>1, SMT DEF Init, Fresh
    <3>2. Spaces(c)
      BY <2>2, <3>1, SMT DEF Spaces
    <3>3. Mode(c)
      BY <2>2, <3>1, Zenon DEF Mode
    <3> QED
      BY <3>2, <3>3
  <2> QED
    BY <2>3, <2>4 DEF OwnState
<1>3. Proper
  <2>1. \A p \in Process, q \in Level : queues[p][q] = <<>>
    BY SMT DEF Init, EmptyQueues
  <2> QED
    BY <2>1, SMT DEF Proper, Elements
<1>4. Contexts
  <2>1. \A t \in Task : context[t] = Running
    BY Zenon DEF Init
  <2>2. Running.at = "run" /\ Running.loc = Fresh
    BY Zenon DEF Running
  <2> QED
    BY <2>1, <2>2, Zenon DEF Contexts
<1> QED
  BY <1>1, <1>2, <1>3, <1>4 DEF ControlInv

\* A CPU goes to another place of its code, the other CPUs do not.
LEMMA Goes ==
    ASSUME TypeOK, NEW c \in CPU, NEW to \in PC, pc' = [pc EXCEPT ![c] = to]
    PROVE  /\ pc' \in [CPU -> PC] /\ pc'[c] = to
           /\ \A d \in CPU \ {c} : pc'[d] = pc[d]
BY SMT DEF TypeOK

\* A CPU writes its local variables, not those of others.
LEMMA Writes ==
    ASSUME TypeOK, NEW c \in CPU, NEW m \in Local, loc' = [loc EXCEPT ![c] = m]
    PROVE  /\ loc' \in [CPU -> Local] /\ loc'[c] = m
           /\ \A d \in CPU \ {c} : loc'[d] = loc[d]
BY SMT DEF TypeOK

\* A step that changes only where a CPU is and its local variables.
LEMMA QuietStep ==
    ASSUME ControlInv, NEW c \in CPU, NEW to \in PC, NEW m \in Local,
           pc' = [pc EXCEPT ![c] = to], loc' = [loc EXCEPT ![c] = m],
           UNCHANGED <<queueVars, tableVars, cpuVars, taskVars, seen>>
    PROVE  /\ TypeOK' /\ Others(c) /\ Proper' /\ Contexts'
           /\ pc'[c] = to /\ loc'[c] = m
           /\ UNCHANGED <<current, traps, vspace, page_table, in_kernel, is_sleeping>>
<1>1. /\ loc' \in [CPU -> Local] /\ loc'[c] = m
      /\ \A d \in CPU \ {c} : loc'[d] = loc[d]
  BY Writes, Zenon DEF ControlInv
<1>2. /\ pc' \in [CPU -> PC] /\ pc'[c] = to
      /\ \A d \in CPU \ {c} : pc'[d] = pc[d]
  BY Goes, Zenon DEF ControlInv
<1>3. TypeOK'
  BY <1>1, <1>2, SMT
     DEF ControlInv, TypeOK, queueVars, cpuVars, modeVars, spaceVars, tableVars, taskVars
<1>4. Others(c)
  BY <1>1, <1>2, SMT DEF Others, cpuVars, modeVars, spaceVars, tableVars, taskVars
<1>5. Proper' /\ Contexts'
  BY DEF ControlInv, Proper, queueVars, tableVars, taskVars, Contexts
<1> QED
  BY <1>1, <1>2, <1>3, <1>4, <1>5 DEF cpuVars, modeVars, spaceVars, tableVars, taskVars

\* Choosing a process reads an entry of the table into the local variables
\* (main_loop.rs:500-512, process_info.rs:99-136).
LEMMA ReadEntryStep ==
    ASSUME ControlInv, NEW c \in CPU,
           process_schedule(c) \/ check_again(c)
    PROVE  ControlInv' /\ Others(c) /\ Held(c)' = Held(c)
<1> DEFINE l == loc[c]
           prio0 == highest_prio[l.idx][c]
           better == prio0 < l.best \/ (prio0 = l.best /\ l.idx = l.home)
           last == l.idx = PROCESS_NUM - 1
           m == [l EXCEPT !.pid = IF better THEN l.idx ELSE @,
                          !.best = IF last THEN ISIZE_MAX ELSE Lower(prio0, @),
                          !.idx = IF last THEN 0 ELSE @ + 1]
           to == IF pc[c] = "select" THEN IF last THEN "pop" ELSE "select"
                                     ELSE IF last THEN "decide" ELSE "check"
<1> USE DEF ControlInv
<1>1. /\ l \in Local /\ l.idx \in Process /\ l.best \in Level \cup {NoPriority, ISIZE_MAX}
      /\ l.pid \in Process
      /\ prio0 \in Level \cup {NoPriority}
  BY SMT DEF TypeOK, Local
<1>2. /\ UNCHANGED <<queueVars, tableVars, cpuVars, taskVars, seen>>
      /\ loc' = [loc EXCEPT ![c] = m]
      /\ pc[c] \in {"select", "check"}
  BY Zenon DEF process_schedule, check_again, ReadEntry, Goto
<1>3. pc' = [pc EXCEPT ![c] = to]
  <2>1. CASE process_schedule(c)
    <3>1. pc[c] = "select" /\ pc' = [pc EXCEPT ![c] = IF last THEN "pop" ELSE "select"]
      BY <2>1, Zenon DEF process_schedule, ReadEntry, Goto
    <3> QED
      BY <3>1
  <2>2. CASE check_again(c)
    <3>1. pc[c] = "check" /\ pc' = [pc EXCEPT ![c] = IF last THEN "decide" ELSE "check"]
      BY <2>2, Zenon DEF check_again, ReadEntry, Goto
    <3> QED
      BY <3>1
  <2> QED
    BY <2>1, <2>2
<1>4. /\ m \in Local /\ m.home = l.home /\ m.ret = l.ret /\ m.work = l.work
  <2> DEFINE a == IF better THEN l.idx ELSE l.pid
             b == IF last THEN ISIZE_MAX ELSE Lower(prio0, l.best)
             e == IF last THEN 0 ELSE l.idx + 1
  <2>1. a \in Process /\ b \in Level \cup {NoPriority, ISIZE_MAX} /\ e \in Process
    BY <1>1, Numbers, SMT DEF Lower
  <2>2. m = [l EXCEPT !.pid = a, !.best = b, !.idx = e]
    BY <1>1, SMT
  <2> HIDE DEF a, b, e, m
  <2>3. m.home = l.home /\ m.ret = l.ret /\ m.work = l.work
    BY <1>1, <2>2, SMT
  <2>4. m \in Local
    BY <1>1, <2>1, <2>2, UpdatedMore, Zenon
  <2> QED
    BY <2>3, <2>4
<1>5. /\ to \in {"select", "pop", "check", "decide"}
      /\ to \in {"check", "decide"} => pc[c] = "check"
      /\ to \in PC
  BY <1>2, SMT DEF PC
<1> HIDE DEF m, to
<1>6. /\ TypeOK' /\ Others(c) /\ Proper' /\ Contexts'
      /\ pc'[c] = to /\ loc'[c] = m
      /\ UNCHANGED <<current, traps, vspace, page_table, in_kernel, is_sleeping>>
  BY <1>2, <1>3, <1>4, <1>5, QuietStep, Zenon
<1>7. Resumes(c) = pc[c] /\ Resumes(c)' = to
  BY <1>2, <1>5, <1>6, SMT DEF Resumes, Operating
<1>8. OwnState(c)'
  <2>1. OwnState(c)
    OBVIOUS
  <2> QED
    BY <1>2, <1>4, <1>5, <1>6, <1>7, <2>1, SMT
       DEF OwnState, Control, Operating, InCharge, Popping, Spaces, Mode, Traps, InUserMode
<1>9. Held(c)' = Held(c)
  BY <1>2, <1>5, <1>7, SMT DEF Held
<1> QED
  BY <1>9, <1>6, <1>8, OtherCPUs

\* The pop asks both sources; a user's loop that chose another process is in
\* the kernel from then on, and CURRENT_VSPACE names the process it pops from
\* (scheduler.rs:280-340, main_loop.rs:514-597).
LEMMA PopTaskStep ==
    ASSUME ControlInv, NEW c \in CPU, pop_task(c)
    PROVE  ControlInv' /\ Others(c) /\ Held(c)' = Held(c)
<1> DEFINE l == loc[c]
           from_queue == ReadyIsBetter(c)
           handler == ~from_queue /\ l.pid = 0 /\ traps[c] # <<>>
           m == [l EXCEPT !.home = IF @ = l.pid THEN @ ELSE 0,
                          !.task = IF handler THEN Handler ELSE NoTask,
                          !.prio = IF from_queue \/ handler
                                   THEN HIGHEST_PRIORITY ELSE NoPriority,
                          !.all = from_queue,
                          !.cpu = IF from_queue THEN 0 ELSE c,
                          !.ret = "popped"]
           to == IF from_queue THEN "scan" ELSE "store"
           space == SpaceOfChoice(c)
           mapped == MappedForChoice(c)
<1> USE DEF ControlInv
<1>1. OwnState(c)
  OBVIOUS
<1>2. /\ l \in Local /\ l.pid \in Process /\ l.home \in Process
      /\ l.ret = "none" /\ l.work = NoTask
      /\ 0 \in Process /\ vspace[c] \in Process /\ page_table[c] \in Process
      /\ pc[c] = "pop"
  <2>1. pc[c] = "pop"
    BY DEF pop_task, PopTask, Goto
  <2> QED
    BY <1>1, <2>1, Numbers, SMT DEF OwnState, Control, Resumes, Operating, TypeOK, Local
<1>3. /\ UNCHANGED <<queueVars, tableVars, traps, is_sleeping, current, taskVars, seen>>
      /\ loc' = [loc EXCEPT ![c] = m]
      /\ pc' = [pc EXCEPT ![c] = to]
      /\ vspace' = [vspace EXCEPT ![c] = space]
      /\ page_table' = [page_table EXCEPT ![c] = mapped]
      /\ in_kernel' = [in_kernel EXCEPT ![c] = @ \/ l.home # l.pid]
  BY Zenon DEF pop_task, PopTask, Goto
<1>4. /\ m \in Local /\ m.home = (IF l.home = l.pid THEN l.home ELSE 0) /\ m.pid = l.pid
      /\ m.task = (IF handler THEN Handler ELSE NoTask) /\ m.ret = "popped" /\ m.work = NoTask
  <2> DEFINE a == IF l.home = l.pid THEN l.home ELSE 0
             t == IF handler THEN Handler ELSE NoTask
             q == IF from_queue \/ handler THEN HIGHEST_PRIORITY ELSE NoPriority
             e == IF from_queue THEN 0 ELSE c
  <2>1. /\ a \in Process /\ t \in Task \cup {Handler, NoTask} /\ q \in Level \cup {NoPriority}
        /\ e \in CPU /\ from_queue \in BOOLEAN /\ "popped" \in PC
    BY <1>2, Numbers, SMT DEF ReadyIsBetter, PC
  <2>2. m = [l EXCEPT !.home = a, !.task = t, !.prio = q, !.all = from_queue, !.cpu = e,
                      !.ret = "popped"]
    BY <1>2, SMT
  <2> HIDE DEF a, t, q, e, m, from_queue
  <2>3. m.home = a /\ m.pid = l.pid /\ m.task = t /\ m.ret = "popped" /\ m.work = l.work
    BY <1>2, <2>2, SMT
  <2>4. m \in Local
    <3>1. l \in Local
      BY <1>2
    <3> QED
      BY <2>1, <2>2, <3>1, UpdatedMore, Zenon
  <2> QED
    BY <1>2, <2>3, <2>4 DEF a, t
<1>5. /\ to \in {"scan", "store"} /\ to \in PC
      /\ to = "scan" => ~handler /\ (l.pid = 0 => traps[c] = <<>>)
  <2>1. (l.pid = 0 /\ traps[c] # <<>>) => ~from_queue
    BY <1>2, Highests, SMT DEF ReadyIsBetter
  <2> QED
    BY <2>1, SMT DEF PC
<1>6. /\ space \in Process /\ mapped \in Process
      /\ l.pid # 0 => space # 0
      /\ space # 0 => mapped # 0
      /\ l.home # 0 => mapped # 0
      /\ l.home # 0 /\ l.home = l.pid => space # 0
  <2>1. l.home # 0 => page_table[c] # 0
    BY <1>1, Zenon DEF OwnState, Mode, InUserMode
  <2>2. /\ vspace[c] # 0 => page_table[c] # 0
        /\ l.home # 0 => vspace[c] # 0
    BY <1>1 DEF OwnState, Spaces
  <2> QED
    BY <1>2, <2>1, <2>2, SMT DEF SpaceOfChoice, MappedForChoice, SwitchTo
<1>7. InUserMode(c) <=> l.home # 0
  BY <1>2, SMT DEF InUserMode
<1>8. l.home = 0 => in_kernel[c] = TRUE
  BY <1>1, <1>7, Zenon DEF OwnState, Mode
<1>9. l.home # 0 => in_kernel[c] = FALSE
  BY <1>1, <1>7, Zenon DEF OwnState, Mode
<1>10. current[c] = NoTask
  BY <1>2, <1>1, SMT DEF OwnState, InCharge, Resumes, Operating
<1> HIDE DEF m, to, space, mapped, from_queue, handler
<1>11. /\ loc' \in [CPU -> Local] /\ loc'[c] = m
      /\ \A d \in CPU \ {c} : loc'[d] = loc[d]
  BY <1>3, <1>4, Writes, Zenon
<1>12. /\ pc' \in [CPU -> PC] /\ pc'[c] = to
       /\ \A d \in CPU \ {c} : pc'[d] = pc[d]
  BY <1>3, <1>5, Goes, Zenon
<1>13. /\ vspace' \in [CPU -> Process] /\ vspace'[c] = space
       /\ page_table' \in [CPU -> Process] /\ page_table'[c] = mapped
       /\ \A d \in CPU \ {c} : vspace'[d] = vspace[d] /\ page_table'[d] = page_table[d]
  BY <1>3, <1>6, SMT DEF TypeOK
<1>14. /\ in_kernel' \in [CPU -> BOOLEAN]
       /\ in_kernel'[c] = (in_kernel[c] \/ l.home # l.pid)
       /\ \A d \in CPU \ {c} : in_kernel'[d] = in_kernel[d]
  BY <1>3, Zenon DEF TypeOK
<1>15. TypeOK'
  BY <1>3, <1>11, <1>12, <1>13, <1>14, SMT DEF TypeOK, queueVars, tableVars, taskVars
<1>16. Others(c)
  BY <1>3, <1>11, <1>12, <1>13, <1>14, Zenon DEF Others
<1>17. Resumes(c)' = "popped"
  BY <1>4, <1>5, <1>11, <1>12, SMT DEF Resumes, Operating
<1>18. InUserMode(c)' <=> m.home # 0
  BY <1>4, <1>5, <1>11, <1>12, SMT DEF InUserMode
<1>19. Mode(c)'
  <2>1. CASE l.home = l.pid
    <3>1. in_kernel'[c] = in_kernel[c]
      BY <1>8, <1>9, <1>14, <2>1, Zenon
    <3> QED
      BY <1>4, <1>6, <1>8, <1>9, <1>13, <1>18, <2>1, <3>1, Zenon DEF Mode
  <2>2. CASE l.home # l.pid
    BY <1>4, <1>14, <1>18, <2>2, Zenon DEF Mode
  <2> QED
    BY <2>1, <2>2
<1>20. Control(c)' /\ InCharge(c)' /\ Popping(c)' /\ Spaces(c)' /\ Traps(c)'
  <2>1. handler => l.pid = 0 /\ traps[c] # <<>>
    BY DEF handler
  <2>2. UNCHANGED <<traps, current>>
    BY <1>3
  <2> QED
    BY <1>2, <1>4, <1>5, <1>6, <1>10, <1>11, <1>12, <1>13, <1>17, <2>1, <2>2, HandlerAssumption,
       NoTaskAssumption, SMT DEF Control, Operating, InCharge, Popping, Spaces, Traps
<1>21. Proper' /\ Contexts'
  BY <1>3 DEF Proper, queueVars, tableVars, taskVars, Contexts
<1>22. Held(c)' = Held(c)
  <2>1. Resumes(c) = "pop"
    BY <1>2, SMT DEF Resumes, Operating
  <2> QED
    BY <1>4, <1>11, <1>17, <2>1, NoTaskAssumption, HandlerAssumption, SMT DEF Held
<1> QED
  BY <1>22, <1>15, <1>16, <1>19, <1>20, <1>21, OtherCPUs DEF OwnState

\* The scan passes an empty level (ready_queue.rs:79-84).
LEMMA ScanEmptyStep ==
    ASSUME ControlInv, NEW c \in CPU, scan_empty(c)
    PROVE  ControlInv' /\ Others(c) /\ Held(c)' = Held(c)
<1> DEFINE l == loc[c]
           m == [l EXCEPT !.prio = l.prio + 1]
<1> USE DEF ControlInv
<1>1. OwnState(c) /\ l \in Local
  BY DEF TypeOK
<1>2. /\ pc[c] = "scan" /\ l.prio \in Level
      /\ UNCHANGED <<queueVars, tableVars, cpuVars, taskVars, pc, seen>>
  BY DEF scan_empty
<1>3. loc' = [loc EXCEPT ![c] = m]
  <2>1. loc' = [loc EXCEPT ![c].prio = @ + 1]
    BY DEF scan_empty
  <2> QED
    BY <1>1, <2>1, SMT
<1>4. m \in Local /\ \A f \in {"home", "pid", "task", "ret", "work"} : m[f] = l[f]
  BY <1>1, <1>2, LevelFacts, SMT DEF Local
<1>5. pc' = [pc EXCEPT ![c] = "scan"] /\ "scan" \in PC
  BY <1>2, SMT DEF TypeOK
<1> HIDE DEF m
<1>6. /\ TypeOK' /\ Others(c) /\ Proper' /\ Contexts'
      /\ pc'[c] = "scan" /\ loc'[c] = m
      /\ UNCHANGED <<current, traps, vspace, page_table, in_kernel, is_sleeping>>
  BY <1>2, <1>3, <1>4, <1>5, QuietStep, Zenon
<1>7. Resumes(c)' = "popped" /\ Resumes(c) = "popped"
  BY <1>2, <1>6, SMT DEF Resumes, Operating
<1>8. OwnState(c)'
  BY <1>1, <1>2, <1>4, <1>6, <1>7, SMT
     DEF OwnState, Control, Operating, InCharge, Popping, Spaces, Mode, Traps, InUserMode
<1>9. Held(c)' = Held(c)
  BY <1>4, <1>6, <1>7, SMT DEF Held
<1> QED
  BY <1>9, <1>6, <1>8, OtherCPUs

\* The scan has passed all levels and found no task (ready_queue.rs:116-119).
LEMMA ScanNoneStep ==
    ASSUME ControlInv, NEW c \in CPU, scan_none(c)
    PROVE  ControlInv' /\ Others(c) /\ Held(c)' = Held(c)
<1> DEFINE l == loc[c]
<1> USE DEF ControlInv
<1>1. OwnState(c) /\ l \in Local
  BY DEF TypeOK
<1>2. /\ pc[c] = "scan" /\ pc' = [pc EXCEPT ![c] = "store"] /\ "store" \in PC
      /\ UNCHANGED <<queueVars, tableVars, cpuVars, taskVars, loc, seen>>
  BY SMT DEF scan_none, Goto, PC
<1>3. loc' = [loc EXCEPT ![c] = l]
  BY <1>2, SMT DEF TypeOK
<1>4. /\ TypeOK' /\ Others(c) /\ Proper' /\ Contexts'
      /\ pc'[c] = "store" /\ loc'[c] = l
      /\ UNCHANGED <<current, traps, vspace, page_table, in_kernel, is_sleeping>>
  BY <1>1, <1>2, <1>3, QuietStep, Zenon
<1>5. l.ret = "popped"
  BY <1>1, <1>2 DEF OwnState, Control
<1>6. Resumes(c)' = "popped" /\ Resumes(c) = "popped"
  BY <1>2, <1>4, <1>5, SMT DEF Resumes, Operating
<1>7. OwnState(c)'
  BY <1>1, <1>2, <1>4, <1>5, <1>6, NoTaskAssumption, HandlerAssumption, SMT
     DEF OwnState, Control, Operating, InCharge, Popping, Spaces, Mode, Traps, InUserMode
<1>8. Held(c)' = Held(c)
  BY <1>4, <1>6, SMT DEF Held
<1> QED
  BY <1>8, <1>4, <1>7, OtherCPUs

\* The first task of a level is of the queue's process and of that level.
LEMMA First ==
    ASSUME TypeOK, Proper, NEW p \in Process, NEW q \in Level, queues[p][q] # <<>>
    PROVE  /\ Head(queues[p][q]) \in Task
           /\ pid_of[Head(queues[p][q])] = p /\ priority[Head(queues[p][q])] = q
<1> DEFINE s == queues[p][q]
<1>1. s \in Seq(Task) /\ s # <<>>
  BY DEF TypeOK
<1>2. Head(s) \in Task /\ Head(s) \in Elements(s)
  BY <1>1, SMT DEF Elements
<1> QED
  BY <1>2 DEF Proper

\* Taking it leaves every task where it belongs.
LEMMA Popped ==
    ASSUME TypeOK, Proper, NEW p \in Process, NEW q \in Level, queues[p][q] # <<>>,
           queues' = [queues EXCEPT ![p] = PopFront(@, q)]
    PROVE  /\ queues' \in [Process -> [Level -> Seq(Task)]] /\ Proper'
           /\ Head(queues[p][q]) \in Task
           /\ pid_of[Head(queues[p][q])] = p /\ priority[Head(queues[p][q])] = q
           /\ queues'[p][q] = Tail(queues[p][q])
           /\ \A a \in Process, b \in Level : a # p \/ b # q => queues'[a][b] = queues[a][b]
<1> DEFINE s == queues[p][q]
<1>1. s \in Seq(Task) /\ s # <<>>
  BY DEF TypeOK
<1>2. /\ Head(s) \in Task /\ Tail(s) \in Seq(Task)
      /\ Elements(s) = {Head(s)} \cup Elements(Tail(s))
  <2> HIDE DEF s
  <2> QED
    BY <1>1, TailFacts, Zenon
<1>3. /\ queues'[p][q] = Tail(s)
      /\ \A a \in Process, b \in Level : a # p \/ b # q => queues'[a][b] = queues[a][b]
  BY SMT DEF TypeOK, PopFront
<1>4. queues' \in [Process -> [Level -> Seq(Task)]]
  <2>1. [queues[p] EXCEPT ![q] = Tail(@)] \in [Level -> Seq(Task)]
    BY <1>2, SMT DEF TypeOK
  <2> QED
    BY <2>1, SMT DEF TypeOK, PopFront
<1>5. pid_of[Head(s)] = p /\ priority[Head(s)] = q
  BY <1>2 DEF Proper
<1>6. Proper'
  <2> SUFFICES ASSUME NEW a \in Process, NEW b \in Level, NEW t \in Elements(queues'[a][b])
               PROVE  pid_of[t] = a /\ priority[t] = b
    BY Zenon DEF Proper
  <2>1. t \in Elements(queues[a][b])
    BY <1>2, <1>3, Zenon
  <2> QED
    BY <2>1 DEF Proper
<1> QED
  BY <1>2, <1>3, <1>4, <1>5, <1>6

\* So does putting a task into its own process's queue
\* (ready_queue.rs:54-62).
LEMMA Pushed ==
    ASSUME TypeOK, Proper, NEW t \in Task,
           queues' = [queues EXCEPT ![pid_of[t]] = PushBack(@, t)]
    PROVE  /\ queues' \in [Process -> [Level -> Seq(Task)]] /\ Proper'
           /\ pid_of[t] \in Process /\ priority[t] \in Level
           /\ queues'[pid_of[t]][priority[t]] = Append(queues[pid_of[t]][priority[t]], t)
           /\ \A a \in Process, b \in Level :
                 a # pid_of[t] \/ b # priority[t] => queues'[a][b] = queues[a][b]
<1> DEFINE p == pid_of[t]
           q == priority[t]
           s == queues[p][q]
<1>1. p \in Process /\ q \in Level
  BY PidAssumption, PriorityAssumption
<1>2. s \in Seq(Task)
  BY <1>1 DEF TypeOK
<1>3. /\ Append(s, t) \in Seq(Task)
      /\ Elements(Append(s, t)) = Elements(s) \cup {t}
  <2> HIDE DEF s
  <2> QED
    BY <1>2, AppendFacts, SMT
<1>4. /\ queues'[p][q] = Append(s, t)
      /\ \A a \in Process, b \in Level : a # p \/ b # q => queues'[a][b] = queues[a][b]
  BY <1>1, SMT DEF TypeOK, PushBack
<1>5. queues' \in [Process -> [Level -> Seq(Task)]]
  <2>1. [queues[p] EXCEPT ![q] = Append(@, t)] \in [Level -> Seq(Task)]
    BY <1>1, <1>3, SMT DEF TypeOK
  <2> QED
    BY <1>1, <2>1, SMT DEF TypeOK, PushBack
<1>6. Proper'
  <2> SUFFICES ASSUME NEW a \in Process, NEW b \in Level, NEW x \in Elements(queues'[a][b])
               PROVE  pid_of[x] = a /\ priority[x] = b
    BY Zenon DEF Proper
  <2>1. CASE a # p \/ b # q
    <3>1. x \in Elements(queues[a][b])
      BY <1>4, <2>1
    <3> QED
      BY <3>1 DEF Proper
  <2>2. CASE a = p /\ b = q
    <3>1. x \in Elements(s) \cup {t}
      BY <1>3, <1>4, <2>2, Zenon
    <3>2. CASE x = t
      BY <2>2, <3>2
    <3>3. CASE x # t
      <4>1. x \in Elements(queues[a][b])
        BY <2>2, <3>1, <3>3
      <4> QED
        BY <4>1 DEF Proper
    <3> QED
      BY <3>2, <3>3
  <2> QED
    BY <2>1, <2>2
<1> QED
  BY <1>1, <1>4, <1>5, <1>6

\* The scan finds a task: from now on the CPU has that task in hand, and had
\* none before (ready_queue.rs:79-84).
LEMMA ScanPopStep ==
    ASSUME ControlInv, NEW c \in CPU, scan_pop(c)
    PROVE  /\ ControlInv'
           /\ Others(c)
           /\ Held(c) = NoTask
           /\ Held(c)' = Head(queues[loc[c].pid][loc[c].prio])
<1> DEFINE l == loc[c]
           t == Head(queues[l.pid][l.prio])
           m == [l EXCEPT !.task = t]
<1> USE DEF ControlInv
<1>1. OwnState(c) /\ l \in Local
  BY DEF TypeOK
<1>2. /\ pc[c] = "scan" /\ pc' = [pc EXCEPT ![c] = "settle"] /\ "settle" \in PC
      /\ l.prio \in Level /\ l.pid \in Process /\ queues[l.pid][l.prio] # <<>>
      /\ queues' = [queues EXCEPT ![l.pid] = PopFront(@, l.prio)]
      /\ UNCHANGED <<prio_bitmap, tableVars, cpuVars, taskVars>>
  BY <1>1, SMT DEF scan_pop, Goto, Local, PC
<1>3. loc' = [loc EXCEPT ![c] = m]
  <2>1. loc' = [loc EXCEPT ![c].task = t]
    BY DEF scan_pop
  <2> QED
    BY <1>1, <2>1, SMT
<1>4. /\ queues' \in [Process -> [Level -> Seq(Task)]] /\ Proper'
      /\ t \in Task /\ pid_of[t] = l.pid
  <2>1. TypeOK /\ Proper
    OBVIOUS
  <2> HIDE DEF l, ControlInv
  <2>2. Head(queues[l.pid][l.prio]) \in Task /\ pid_of[Head(queues[l.pid][l.prio])] = l.pid
    BY <1>2, <2>1, First
  <2>3. queues' \in [Process -> [Level -> Seq(Task)]] /\ Proper'
    BY <1>2, <2>1, Popped, Zenon
  <2> QED
    BY <2>2, <2>3
<1>5. seen' \in [CPU -> SUBSET Task]
  BY SMT DEF scan_pop, TypeOK
<1>6. m \in Local /\ m.task = t /\ \A f \in {"home", "pid", "prio", "ret", "work"} : m[f] = l[f]
  <2> HIDE DEF t, l
  <2>1. l \in Local /\ t \in Task
    BY <1>1, <1>4
  <2> QED
    BY <2>1, SMT DEF Local
<1> HIDE DEF m, t
<1>7. /\ loc' \in [CPU -> Local] /\ loc'[c] = m
      /\ \A d \in CPU \ {c} : loc'[d] = loc[d]
  BY <1>3, <1>6, Writes, Zenon
<1>8. /\ pc' \in [CPU -> PC] /\ pc'[c] = "settle"
      /\ \A d \in CPU \ {c} : pc'[d] = pc[d]
  BY <1>2, Goes, Zenon
<1>9. TypeOK'
  BY <1>2, <1>4, <1>5, <1>7, <1>8, SMT
     DEF TypeOK, cpuVars, modeVars, spaceVars, tableVars, taskVars
<1>10. Others(c)
  BY <1>2, <1>7, <1>8, SMT DEF Others, cpuVars, modeVars, spaceVars, tableVars, taskVars
<1>11. Resumes(c)' = "popped" /\ Resumes(c) = "popped"
  BY <1>2, <1>8, SMT DEF Resumes, Operating
<1>12. UNCHANGED <<current, traps, vspace, page_table, in_kernel, is_sleeping>>
  BY <1>2 DEF cpuVars, modeVars, spaceVars, tableVars, taskVars
<1>13. OwnState(c)'
  BY <1>1, <1>2, <1>4, <1>6, <1>7, <1>8, <1>11, <1>12, HandlerAssumption, SMT
     DEF OwnState, Control, Operating, InCharge, Popping, Spaces, Mode, Traps, InUserMode
<1>14. Held(c) = NoTask /\ Held(c)' = t
  BY <1>1, <1>2, <1>4, <1>6, <1>7, <1>11, HandlerAssumption, SMT DEF OwnState, Popping, Held
<1>15. Contexts'
  BY <1>2 DEF Contexts, taskVars
<1> QED
  BY <1>15, <1>14, <1>4, <1>9, <1>10, <1>13, OtherCPUs DEF t

\* The pop corrects the bitmap and says what the next priority is
\* (ready_queue.rs:84-115).
LEMMA SettleStep ==
    ASSUME ControlInv, NEW c \in CPU, settle(c)
    PROVE  ControlInv' /\ Others(c) /\ Held(c)' = Held(c)
<1> DEFINE l == loc[c]
           qs == queues[l.pid]
           bits == prio_bitmap[l.pid]
           q == NextPrio(qs, bits, l.prio)
           m == [l EXCEPT !.prio = q]
<1> USE DEF ControlInv
<1>1. OwnState(c) /\ l \in Local /\ l.pid \in Process
  BY SMT DEF TypeOK, Local
<1>2. /\ pc[c] = "settle" /\ pc' = [pc EXCEPT ![c] = "store"] /\ "store" \in PC
      /\ prio_bitmap' = [prio_bitmap EXCEPT ![l.pid] = Settle(qs, bits, l.prio)]
      /\ UNCHANGED <<queues, tableVars, cpuVars, taskVars, seen>>
  BY SMT DEF settle, Goto, PC
<1>3. loc' = [loc EXCEPT ![c] = m]
  <2>1. loc' = [loc EXCEPT ![c].prio = q]
    BY DEF settle
  <2> QED
    BY <1>1, <2>1, SMT
<1>4. l.prio \in Level
  BY <1>1, <1>2 DEF OwnState, Popping
<1>5. q \in Level \cup {NoPriority}
  BY <1>1, <1>4, Highests, SMT DEF NextPrio
<1>6. prio_bitmap' \in [Process -> SUBSET Level]
  <2>1. bits \in SUBSET Level
    BY <1>1 DEF TypeOK
  <2>2. Settle(qs, bits, l.prio) \in SUBSET Level
    BY <2>1 DEF Settle
  <2>3. prio_bitmap \in [Process -> SUBSET Level]
    BY DEF TypeOK
  <2> QED
    BY <1>2, <2>2, <2>3, Zenon
<1>7. m \in Local /\ \A f \in {"home", "pid", "task", "ret", "work"} : m[f] = l[f]
  <2> HIDE DEF q
  <2> QED
    BY <1>1, <1>5, SMT DEF Local
<1> HIDE DEF m, q
<1>8. /\ loc' \in [CPU -> Local] /\ loc'[c] = m
      /\ \A d \in CPU \ {c} : loc'[d] = loc[d]
  BY <1>3, <1>7, Writes, Zenon
<1>9. /\ pc' \in [CPU -> PC] /\ pc'[c] = "store"
      /\ \A d \in CPU \ {c} : pc'[d] = pc[d]
  BY <1>2, Goes, Zenon
<1>10. TypeOK'
  BY <1>2, <1>6, <1>8, <1>9, SMT DEF TypeOK, cpuVars, modeVars, spaceVars, tableVars, taskVars
<1>11. Others(c)
  BY <1>2, <1>8, <1>9, SMT DEF Others, cpuVars, modeVars, spaceVars, tableVars, taskVars
<1>12. l.ret = "popped"
  BY <1>1, <1>2 DEF OwnState, Control
<1>13. Resumes(c)' = "popped" /\ Resumes(c) = "popped"
  BY <1>2, <1>7, <1>8, <1>9, <1>12, SMT DEF Resumes, Operating
<1>14. UNCHANGED <<current, traps, vspace, page_table, in_kernel, is_sleeping>>
  BY <1>2 DEF cpuVars, modeVars, spaceVars, tableVars, taskVars
<1>15. OwnState(c)'
  BY <1>1, <1>2, <1>7, <1>8, <1>9, <1>12, <1>13, <1>14, SMT
     DEF OwnState, Control, Operating, InCharge, Popping, Spaces, Mode, Traps, InUserMode
<1>16. Proper' /\ Contexts'
  BY <1>2 DEF Proper, Contexts, taskVars
<1>17. Held(c)' = Held(c)
  BY <1>7, <1>8, <1>13, SMT DEF Held
<1> QED
  BY <1>17, <1>10, <1>11, <1>15, <1>16, OtherCPUs

\* update_prio stores an entry; after the last it goes back to its caller,
\* which has the same task in hand as before (scheduler.rs:417-432).
LEMMA StoreStep ==
    ASSUME ControlInv, NEW c \in CPU, store(c)
    PROVE  ControlInv' /\ Others(c) /\ Held(c)' = Held(c)
<1> DEFINE l == loc[c]
           last == ~l.all \/ l.cpu = CPU_NUM - 1
           p == IF l.ret = "popped" THEN l.pid ELSE 0
           t == IF l.ret = "popped" THEN l.task ELSE NoTask
           more == [l EXCEPT !.cpu = l.cpu + 1]
           done == [Fresh EXCEPT !.home = l.home, !.work = l.work, !.pid = p, !.task = t]
           m == IF ~last THEN more ELSE done
           to == IF last THEN l.ret ELSE "store"
<1> USE DEF ControlInv
<1>1. /\ OwnState(c) /\ l \in Local /\ l.pid \in Process /\ l.home \in Process
      /\ l.task \in Task \cup {Handler, NoTask} /\ l.work \in Task \cup {NoTask}
      /\ l.cpu \in CPU /\ l.prio \in Level \cup {NoPriority}
  BY SMT DEF TypeOK, Local
<1>2. /\ pc[c] = "store" /\ pc' = [pc EXCEPT ![c] = to]
      /\ highest_prio' = [highest_prio EXCEPT ![l.pid][l.cpu] = l.prio]
      /\ UNCHANGED <<queueVars, cpuVars, taskVars, seen>>
  BY Zenon DEF store, StoreEntry, Goto
<1>3. loc' = [loc EXCEPT ![c] = m]
  BY Zenon DEF store, StoreEntry
<1>4. l.ret \in {"popped", "select", "requeue", "run", "handler", "handle"}
  BY <1>1, <1>2 DEF OwnState, Control
<1>5. to \in PC
  BY <1>4, SMT DEF PC
<1>6. /\ ~last => more \in Local
      /\ \A f \in {"home", "pid", "task", "ret", "work"} : more[f] = l[f]
  <2>1. ~last => l.cpu + 1 \in CPU
    BY <1>1, Numbers
  <2> HIDE DEF last, l
  <2> QED
    BY <1>1, <2>1, SMT DEF Local
<1>7. /\ done \in Local /\ done.home = l.home /\ done.pid = p /\ done.task = t
      /\ done.work = l.work /\ done.ret = "none"
  <2>1. p \in Process /\ t \in Task \cup {Handler, NoTask}
    BY <1>1, Numbers, SMT
  <2> HIDE DEF p, t
  <2>2. done \in Local
    BY <1>1, <2>1, FreshLocal, UpdatedMore, ZenonT(60)
  <2>3. /\ done.home = l.home /\ done.pid = p /\ done.task = t
        /\ done.work = l.work /\ done.ret = "none"
    BY SMT DEF Fresh
  <2> QED
    BY <2>2, <2>3
<1>8. highest_prio' \in [Process -> [CPU -> Level \cup {NoPriority}]]
  <2>1. highest_prio \in [Process -> [CPU -> Level \cup {NoPriority}]]
    BY DEF TypeOK
  <2>2. [highest_prio[l.pid] EXCEPT ![l.cpu] = l.prio] \in [CPU -> Level \cup {NoPriority}]
    BY <1>1, <2>1, SMT
  <2>3. highest_prio'
           = [highest_prio EXCEPT ![l.pid] = [highest_prio[l.pid] EXCEPT ![l.cpu] = l.prio]]
    BY <1>1, <1>2, SMT
  <2> QED
    BY <1>1, <2>1, <2>2, <2>3, Zenon
<1>9. m \in Local /\ m.home = l.home /\ m.work = l.work
  BY <1>6, <1>7
<1> HIDE DEF m, to, more, done
<1>10. /\ loc' \in [CPU -> Local] /\ loc'[c] = m
       /\ \A d \in CPU \ {c} : loc'[d] = loc[d]
  BY <1>3, <1>9, Writes, Zenon
<1>11. /\ pc' \in [CPU -> PC] /\ pc'[c] = to
       /\ \A d \in CPU \ {c} : pc'[d] = pc[d]
  BY <1>2, <1>5, Goes, Zenon
<1>12. TypeOK'
  <2>1. delayed' \subseteq Process \X CPU
    <3>1. <<l.pid, l.cpu>> \in Process \X CPU /\ delayed \subseteq Process \X CPU
      BY <1>1 DEF TypeOK
    <3>2. delayed' = IF l.late THEN delayed \cup {<<l.pid, l.cpu>>}
                     ELSE delayed \ {<<l.pid, l.cpu>>}
      BY Zenon DEF store, StoreEntry
    <3> QED
      BY <3>1, <3>2, Zenon
  <2> QED
    BY <1>2, <1>8, <1>10, <1>11, <2>1, SMTT(60)
       DEF TypeOK, queueVars, cpuVars, modeVars, spaceVars, taskVars
<1>13. Others(c)
  BY <1>2, <1>10, <1>11, SMT DEF Others, cpuVars, modeVars, spaceVars, tableVars, taskVars
<1>14. UNCHANGED <<current, traps, vspace, page_table, in_kernel, is_sleeping>>
  BY <1>2 DEF cpuVars, modeVars, spaceVars, tableVars, taskVars
<1>15. Resumes(c) = l.ret
  BY <1>2, SMT DEF Resumes, Operating
<1>16. ASSUME ~last PROVE OwnState(c)'
  <2>1. pc'[c] = "store" /\ loc'[c] = more
    BY <1>10, <1>11, <1>16 DEF m, to
  <2>2. Resumes(c)' = l.ret
    BY <1>6, <2>1, SMT DEF Resumes, Operating
  <2> QED
    BY <1>1, <1>2, <1>4, <1>6, <1>14, <1>15, <2>1, <2>2, SMT
       DEF OwnState, Control, Operating, InCharge, Popping, Spaces, Mode, Traps, InUserMode
<1>17. ASSUME last PROVE OwnState(c)'
  <2>1. pc'[c] = l.ret /\ loc'[c] = done
    BY <1>10, <1>11, <1>17 DEF m, to
  <2>2. Resumes(c)' = l.ret
    BY <1>4, <2>1, SMT DEF Resumes, Operating
  <2>3. InUserMode(c)' <=> InUserMode(c)
    BY <1>2, <1>4, <1>7, <1>14, <2>1, SMT DEF InUserMode
  <2>6. l.ret = "run" => done = Fresh
    <3>1. ASSUME l.ret = "run" PROVE l.home = 0 /\ l.work = NoTask /\ p = 0 /\ t = NoTask
      BY <1>1, <1>15, <3>1, SMT DEF OwnState, Control
    <3> HIDE DEF p, t, l
    <3> QED
      BY <3>1, Unwritten, Zenon DEF done
  <2>4. Control(c)' /\ InCharge(c)' /\ Popping(c)' /\ Spaces(c)' /\ Traps(c)'
    BY <1>1, <1>2, <1>4, <1>7, <1>14, <1>15, <2>1, <2>2, <2>6, SMT
       DEF OwnState, Control, Operating, InCharge, Popping, Spaces, Traps
  <2>5. Mode(c)'
    BY <1>1, <1>14, <2>3, Zenon DEF OwnState, Mode
  <2> QED
    BY <2>4, <2>5 DEF OwnState
<1>18. Proper' /\ Contexts'
  BY <1>2 DEF Proper, queueVars, tableVars, taskVars, Contexts
<1>19. Held(c)' = Held(c)
  <2>1. CASE ~last
    <3>1. pc'[c] = "store" /\ loc'[c] = more
      BY <1>10, <1>11, <2>1 DEF m, to
    <3>2. Resumes(c)' = l.ret
      BY <1>6, <3>1, SMT DEF Resumes, Operating
    <3> QED
      BY <1>6, <1>14, <1>15, <3>1, <3>2, SMT DEF Held
  <2>2. CASE last
    <3>1. pc'[c] = l.ret /\ loc'[c] = done
      BY <1>10, <1>11, <2>2 DEF m, to
    <3>2. Resumes(c)' = l.ret
      BY <1>4, <3>1, SMT DEF Resumes, Operating
    <3> QED
      BY <1>7, <1>14, <1>15, <3>1, <3>2, SMT DEF Held
  <2> QED
    BY <2>1, <2>2
<1> QED
  BY <1>19, <1>12, <1>13, <1>16, <1>17, <1>18, OtherCPUs

\* The popped task becomes the current one, in its address space and at its
\* privilege level; the kernel's own task only while no trap waits
\* (main_loop.rs:525-544, 632-722).
LEMMA RunPoppedStep ==
    ASSUME ControlInv, NEW c \in CPU, run_popped(c)
    PROVE  ControlInv' /\ Others(c) /\ Held(c)' = Held(c)
<1> DEFINE l == loc[c]
           space == IF l.task # Handler THEN pid_of[l.task] ELSE SpaceOfTrap(Head(traps[c]))
           resumed == IF l.task = Handler THEN [at |-> "handler", loc |-> Fresh]
                      ELSE context[l.task]
           to == resumed.at
           m == resumed.loc
           v == IF l.pid = 0 THEN space ELSE vspace[c]
           mapped == IF l.pid = 0 THEN SwitchTo(c, space) ELSE page_table[c]
<1> USE DEF ControlInv
<1>1. /\ OwnState(c) /\ l \in Local /\ l.pid \in Process
      /\ l.task \in Task \cup {Handler, NoTask}
      /\ vspace[c] \in Process /\ page_table[c] \in Process
  BY SMT DEF TypeOK, Local
<1>2. /\ pc[c] = "popped" /\ l.task # NoTask
      /\ pc' = [pc EXCEPT ![c] = to]
      /\ current' = [current EXCEPT ![c] = l.task]
      /\ vspace' = [vspace EXCEPT ![c] = IF l.pid = 0 THEN space ELSE @]
      /\ page_table' = [page_table EXCEPT ![c] = IF l.pid = 0 THEN SwitchTo(c, space) ELSE @]
      /\ in_kernel' = [in_kernel EXCEPT ![c] = l.pid = 0]
      /\ loc' = [loc EXCEPT ![c] = m]
      /\ context' = [t \in Task |-> IF t = l.task THEN Running ELSE context[t]]
      /\ UNCHANGED <<queueVars, tableVars, traps, is_sleeping, outside, seen>>
  BY Zenon DEF run_popped, Goto
<1>3. Resumes(c) = "popped"
  BY <1>2, SMT DEF Resumes, Operating
<1>4. /\ l.task \in Task => pid_of[l.task] = l.pid /\ (l.pid = 0 => traps[c] = <<>>)
      /\ l.task = Handler => l.pid = 0 /\ traps[c] # <<>>
      /\ l.pid # 0 => vspace[c] # 0
      /\ vspace[c] # 0 => page_table[c] # 0
  BY <1>1, <1>3 DEF OwnState, Popping, Spaces
<1>5. /\ m \in Local /\ to \in PC /\ to \in {"handler", "run"} \cup Operating
      /\ to = "handler" <=> l.task = Handler
      /\ to \notin Operating => m = Fresh
      /\ to \in Operating => /\ m.ret = "run" /\ m.task \in Task
                             /\ m.pid = pid_of[m.task]
      /\ m.home = 0 /\ m.work = NoTask
  <2>1. CASE l.task = Handler
    <3>1. to = "handler" /\ m = Fresh
      BY <2>1, SMT
    <3>2. Fresh.home = 0 /\ Fresh.work = NoTask
      BY SMT DEF Fresh
    <3> HIDE DEF to, m
    <3> QED
      BY <2>1, <3>1, <3>2, FreshLocal, SMT DEF Operating, PC
  <2>2. CASE l.task # Handler
    <3>1. l.task \in Task
      BY <1>1, <1>2, <2>2
    <3>2. to = context[l.task].at /\ m = context[l.task].loc
      BY <2>2
    <3>3. /\ context[l.task].at \in {"run", "mark", "peek", "store"}
          /\ context[l.task].loc \in Local
      BY <3>1 DEF TypeOK
    <3>4. /\ context[l.task].at = "run" => context[l.task].loc = Fresh
          /\ context[l.task].at # "run" =>
                /\ context[l.task].loc.home = 0 /\ context[l.task].loc.ret = "run"
                /\ context[l.task].loc.work = NoTask /\ context[l.task].loc.task \in Task
                /\ context[l.task].loc.pid = pid_of[context[l.task].loc.task]
      BY <3>1, Zenon DEF Contexts
    <3>5. Fresh.home = 0 /\ Fresh.work = NoTask
      BY SMT DEF Fresh
    <3> HIDE DEF to, m
    <3> QED
      BY <2>2, <3>2, <3>3, <3>4, <3>5, SMT DEF Operating, PC
  <2> QED
    BY <2>1, <2>2
<1>6. space \in Process
  <2>1. CASE l.task # Handler
    BY <1>1, <1>2, <2>1, PidAssumption
  <2>2. CASE l.task = Handler
    <3>1. Head(traps[c]) \in Task \cup {NoTask}
      BY <1>4, <2>2, SMT DEF TypeOK
    <3> QED
      BY <2>2, <3>1, PidAssumption, Numbers DEF SpaceOfTrap
  <2> QED
    BY <2>1, <2>2
<1>7. /\ v \in Process /\ mapped \in Process
      /\ v # 0 => mapped # 0
      /\ l.task \in Task => (v = 0 <=> pid_of[l.task] = 0)
  BY <1>1, <1>4, <1>6, HandlerAssumption, SMT DEF SwitchTo
<1> HIDE DEF resumed, to, m, space, v, mapped
<1>8. /\ loc' \in [CPU -> Local] /\ loc'[c] = m
      /\ \A d \in CPU \ {c} : loc'[d] = loc[d]
  BY <1>2, <1>5, Writes, Zenon
<1>9. /\ pc' \in [CPU -> PC] /\ pc'[c] = to
       /\ \A d \in CPU \ {c} : pc'[d] = pc[d]
  BY <1>2, <1>5, Goes, Zenon
<1>10. /\ vspace' \in [CPU -> Process] /\ vspace'[c] = v
       /\ page_table' \in [CPU -> Process] /\ page_table'[c] = mapped
       /\ \A d \in CPU \ {c} : vspace'[d] = vspace[d] /\ page_table'[d] = page_table[d]
  BY <1>2, <1>7, SMT DEF TypeOK, v, mapped
<1>11. /\ in_kernel' \in [CPU -> BOOLEAN]
       /\ in_kernel'[c] = (l.pid = 0)
       /\ \A d \in CPU \ {c} : in_kernel'[d] = in_kernel[d]
  BY <1>2, Zenon DEF TypeOK
<1>12. /\ current' \in [CPU -> Task \cup {Handler, NoTask}]
       /\ current'[c] = l.task
       /\ \A d \in CPU \ {c} : current'[d] = current[d]
  BY <1>1, <1>2, SMT DEF TypeOK
<1>13. TypeOK' /\ Contexts'
  <2>1. /\ Running \in [at : {"run", "mark", "peek", "store"}, loc : Local]
        /\ Running.at = "run" /\ Running.loc = Fresh
    BY FreshLocal, Zenon DEF Running
  <2>2. context' \in [Task -> [at : {"run", "mark", "peek", "store"}, loc : Local]]
    <3>1. context \in [Task -> [at : {"run", "mark", "peek", "store"}, loc : Local]]
      BY DEF TypeOK
    <3> QED
      BY <1>2, <2>1, <3>1, Zenon
  <2>3. TypeOK'
    BY <1>2, <1>8, <1>9, <1>10, <1>11, <1>12, <2>2, SMT DEF TypeOK, queueVars, tableVars
  <2>4. \A t \in Task : context'[t] = Running \/ context'[t] = context[t]
    BY <1>2, Zenon
  <2>5. Contexts'
    BY <2>1, <2>4, ZenonT(60) DEF Contexts
  <2> QED
    BY <2>3, <2>5
<1>14. Others(c)
  BY <1>2, <1>8, <1>9, <1>10, <1>11, <1>12, Zenon DEF Others
<1>15. /\ Resumes(c)' \in {"handler", "run"}
       /\ Resumes(c)' = "handler" <=> l.task = Handler
  BY <1>5, <1>8, <1>9, SMT DEF Resumes, Operating
<1>16. Fresh.home = 0 /\ Fresh.ret = "none" /\ Fresh.work = NoTask
  BY SMT DEF Fresh
<1>17. InUserMode(c)' <=> l.pid # 0
  <2>1. loc'[c].home = 0
    BY <1>5, <1>8
  <2>2. (pc'[c] = "run" \/ loc'[c].ret = "run") <=> l.task # Handler
    BY <1>5, <1>8, <1>9, <1>16, SMT DEF Operating
  <2> QED
    BY <1>1, <1>2, <1>4, <1>12, <2>1, <2>2, HandlerAssumption, SMT DEF InUserMode
<1>18. Mode(c)'
  BY <1>4, <1>7, <1>10, <1>11, <1>17, Zenon DEF Mode, v
<1>19. Control(c)' /\ InCharge(c)' /\ Popping(c)'
  BY <1>1, <1>2, <1>5, <1>8, <1>9, <1>12, <1>15, <1>16, HandlerAssumption, SMT
     DEF Control, Operating, InCharge, Popping
<1>20. Spaces(c)' /\ Traps(c)'
  BY <1>1, <1>2, <1>4, <1>5, <1>7, <1>8, <1>10, <1>12, <1>15, HandlerAssumption, SMT
     DEF Spaces, Traps
<1>21. Proper'
  BY <1>2 DEF Proper, queueVars
<1>22. Held(c)' = Held(c)
  BY <1>1, <1>2, <1>3, <1>12, <1>15, HandlerAssumption, SMT DEF Held
<1> QED
  BY <1>22, <1>13, <1>14, <1>18, <1>19, <1>20, <1>21, OtherCPUs DEF OwnState

\* A user's loop that popped nothing enters the kernel and pops from the
\* scheduler of the same address space (main_loop.rs:370-410).
LEMMA IntoKernelStep ==
    ASSUME ControlInv, NEW c \in CPU, into_kernel(c)
    PROVE  ControlInv' /\ Others(c) /\ Held(c)' = Held(c)
<1> DEFINE l == loc[c]
           m == [Fresh EXCEPT !.pid = vspace[c]]
<1> USE DEF ControlInv
<1>1. OwnState(c) /\ l \in Local /\ vspace[c] \in Process
  BY SMT DEF TypeOK
<1>2. /\ pc[c] = "popped" /\ pc' = [pc EXCEPT ![c] = "pop"] /\ "pop" \in PC
      /\ in_kernel' = [in_kernel EXCEPT ![c] = TRUE]
      /\ UNCHANGED <<queueVars, tableVars, traps, is_sleeping, spaceVars, current, taskVars,
                     seen>>
  BY SMT DEF into_kernel, Goto, PC
<1>3. loc' = [loc EXCEPT ![c] = m]
  BY Zenon DEF into_kernel
<1>4. m \in Local /\ m.home = 0 /\ m.ret = "none" /\ m.work = NoTask
  <2> HIDE DEF m
  <2>1. m \in Local
    BY <1>1, FreshLocal, Updated, Zenon DEF m
  <2>2. m.home = 0 /\ m.ret = "none" /\ m.work = NoTask
    BY SMT DEF Fresh, m
  <2> QED
    BY <2>1, <2>2
<1> HIDE DEF m
<1>5. /\ loc' \in [CPU -> Local] /\ loc'[c] = m
      /\ \A d \in CPU \ {c} : loc'[d] = loc[d]
  BY <1>3, <1>4, Writes, Zenon
<1>6. /\ pc' \in [CPU -> PC] /\ pc'[c] = "pop"
      /\ \A d \in CPU \ {c} : pc'[d] = pc[d]
  BY <1>2, Goes, Zenon
<1>7. /\ in_kernel' \in [CPU -> BOOLEAN] /\ in_kernel'[c] = TRUE
      /\ \A d \in CPU \ {c} : in_kernel'[d] = in_kernel[d]
  BY <1>2, Zenon DEF TypeOK
<1>8. TypeOK'
  BY <1>2, <1>5, <1>6, <1>7, SMT DEF TypeOK, queueVars, spaceVars, tableVars, taskVars
<1>9. Others(c)
  BY <1>2, <1>5, <1>6, <1>7, Zenon DEF Others, spaceVars, tableVars, taskVars
<1>10. Resumes(c)' = "pop" /\ Resumes(c) = "popped"
  BY <1>2, <1>6, SMT DEF Resumes, Operating
<1>11. ~InUserMode(c)'
  BY <1>4, <1>5, <1>6, SMT DEF InUserMode
<1>12. Mode(c)'
  BY <1>7, <1>11, Zenon DEF Mode
<1>13. Control(c)' /\ InCharge(c)' /\ Popping(c)' /\ Spaces(c)' /\ Traps(c)'
  BY <1>1, <1>2, <1>4, <1>5, <1>6, <1>10, SMT
     DEF OwnState, Control, Operating, InCharge, Popping, Spaces, Traps, spaceVars, tableVars,
         taskVars
<1>14. Proper' /\ Contexts'
  BY <1>2 DEF Proper, queueVars, tableVars, taskVars, Contexts
<1>15. Held(c)' = Held(c)
  <2>1. l.task = NoTask
    BY DEF into_kernel
  <2> QED
    BY <1>10, <2>1, HandlerAssumption, SMT DEF Held
<1> QED
  BY <1>15, <1>8, <1>9, <1>12, <1>13, <1>14, OtherCPUs DEF OwnState

\* Marking the CPU as sleeping, looking again, sleeping and waking up leave
\* every CPU as it was otherwise (main_loop.rs:418-442).
LEMMA WaitingStep ==
    ASSUME ControlInv, NEW c \in CPU,
           \/ wait_for_runnable_task(c)
           \/ stay_awake(c)
           \/ go_to_sleep(c)
           \/ wfi_returns(c)
    PROVE  ControlInv' /\ Others(c) /\ Held(c)' = Held(c)
<1> USE DEF ControlInv
<1>1. OwnState(c) /\ loc[c] \in Local
  BY SMT DEF TypeOK
<1> DEFINE From(from, to, m) == /\ pc[c] = from /\ pc' = [pc EXCEPT ![c] = to]
                                /\ loc' = [loc EXCEPT ![c] = m]
<1>2. \/ From("popped", "check", Fresh) /\ loc[c].home = 0
      \/ From("decide", "select", Fresh)
      \/ From("decide", "wfi", Fresh)
      \/ From("wfi", "select", loc[c])
  <2>1. CASE wait_for_runnable_task(c)
    BY <2>1, Zenon DEF wait_for_runnable_task, Goto
  <2>2. CASE stay_awake(c)
    BY <2>2, Zenon DEF stay_awake, Goto
  <2>3. CASE go_to_sleep(c)
    BY <2>3, Zenon DEF go_to_sleep, Goto
  <2>4. CASE wfi_returns(c)
    <3>1. loc' = [loc EXCEPT ![c] = loc[c]]
      BY <2>4, SMT DEF wfi_returns, TypeOK
    <3> QED
      BY <2>4, <3>1, Zenon DEF wfi_returns, Goto
  <2> QED
    BY <2>1, <2>2, <2>3, <2>4
<1>3. /\ pc[c] \in {"popped", "decide", "wfi"} /\ pc'[c] \in {"select", "check", "wfi"}
      /\ pc' \in [CPU -> PC] /\ \A d \in CPU \ {c} : pc'[d] = pc[d]
      /\ pc[c] = "popped" => loc[c].home = 0
  <2>1. \A from \in PC, to \in PC : \A m : From(from, to, m) =>
           /\ pc[c] = from
           /\ pc'[c] = to
           /\ pc' \in [CPU -> PC]
           /\ \A d \in CPU \ {c} : pc'[d] = pc[d]
    BY Goes, Zenon
  <2>2. {"popped", "decide", "wfi", "check", "select"} \subseteq PC
    BY SMT DEF PC
  <2> HIDE DEF From
  <2> QED
    BY <1>2, <2>1, <2>2, SMT
<1>4. /\ loc' \in [CPU -> Local] /\ \A d \in CPU \ {c} : loc'[d] = loc[d]
      /\ loc'[c] \in {loc[c], Fresh}
      /\ pc[c] = "popped" => loc'[c] = Fresh
  <2>1. \A from, to : \A m \in Local : From(from, to, m) =>
           /\ pc[c] = from
           /\ loc'[c] = m
           /\ loc' \in [CPU -> Local]
           /\ \A d \in CPU \ {c} : loc'[d] = loc[d]
    BY Writes, Zenon
  <2> HIDE DEF From
  <2> QED
    BY <1>2, <1>1, <2>1, FreshLocal, SMT
<1>5. UNCHANGED <<queueVars, tableVars, traps, modeVars, current, taskVars>>
  BY Zenon
     DEF wait_for_runnable_task, stay_awake, go_to_sleep, wfi_returns, cpuVars, tableVars,
         taskVars
<1>6. /\ is_sleeping' \in [CPU -> BOOLEAN]
      /\ \A d \in CPU \ {c} : is_sleeping'[d] = is_sleeping[d]
      /\ wait_for_runnable_task(c) => is_sleeping'[c]
      /\ go_to_sleep(c) => is_sleeping'[c] = is_sleeping[c]
  BY Zenon
     DEF wait_for_runnable_task, stay_awake, go_to_sleep, wfi_returns, TypeOK, cpuVars,
         tableVars, taskVars
<1>7. pc'[c] \in {"check", "wfi"} => is_sleeping'[c]
  <2>1. pc'[c] = "check" => wait_for_runnable_task(c)
    BY SMT DEF wait_for_runnable_task, stay_awake, go_to_sleep, wfi_returns, Goto, TypeOK
  <2>2. pc'[c] = "wfi" => go_to_sleep(c) /\ pc[c] = "decide"
    BY SMT DEF wait_for_runnable_task, stay_awake, go_to_sleep, wfi_returns, Goto, TypeOK
  <2> QED
    BY <1>1, <1>6, <2>1, <2>2, Zenon DEF OwnState, Control
<1>8. seen' \in [CPU -> SUBSET Task]
  <2>1. Published \in SUBSET Task
    BY DEF Published
  <2>2. seen' \in {seen, [seen EXCEPT ![c] = {}], [seen EXCEPT ![c] = Published]}
    BY Zenon DEF wait_for_runnable_task, stay_awake, go_to_sleep, wfi_returns
  <2>3. \A S \in SUBSET Task : [seen EXCEPT ![c] = S] \in [CPU -> SUBSET Task]
    BY Zenon DEF TypeOK
  <2> QED
    BY <2>1, <2>2, <2>3, Zenon DEF TypeOK
<1>9. TypeOK'
  BY <1>3, <1>4, <1>5, <1>6, <1>8, SMT
     DEF TypeOK, queueVars, modeVars, spaceVars, tableVars, taskVars
<1>10. Others(c)
  BY <1>3, <1>4, <1>5, <1>6, Zenon DEF Others, modeVars, spaceVars, tableVars, taskVars
<1>11. Resumes(c) = pc[c] /\ Resumes(c)' = pc'[c]
  BY <1>3, SMT DEF Resumes, Operating
<1>12. /\ loc'[c].home = 0 /\ loc'[c].ret = "none" /\ loc'[c].work = NoTask
       /\ loc[c].home = 0 /\ loc[c].ret = "none"
  BY <1>1, <1>3, <1>4, <1>11, SMT DEF OwnState, Control, Operating, Fresh
<1>13. ~InUserMode(c) /\ ~InUserMode(c)'
  BY <1>3, <1>12, SMT DEF InUserMode
<1>14. Mode(c)'
  BY <1>1, <1>5, <1>13, Zenon DEF OwnState, Mode, modeVars, tableVars, taskVars
<1>15. Control(c)' /\ InCharge(c)' /\ Popping(c)' /\ Spaces(c)' /\ Traps(c)'
  <2>1. Control(c)'
    BY <1>3, <1>11, <1>12, <1>7, Zenon DEF Control
  <2> QED
    BY <1>1, <1>3, <1>5, <1>11, <1>12, <2>1, SMT
       DEF OwnState, InCharge, Popping, Spaces, Traps, modeVars, spaceVars, tableVars, taskVars
<1>16. Proper' /\ Contexts'
  BY <1>5 DEF Proper, queueVars, tableVars, taskVars, Contexts
<1>17. Held(c)' = Held(c)
  <2>1. pc[c] = "popped" => loc[c].task = NoTask
    BY SMT DEF wait_for_runnable_task, stay_awake, go_to_sleep, wfi_returns, Goto
  <2> QED
    BY <1>3, <1>11, <2>1, HandlerAssumption, SMT DEF Held
<1> QED
  BY <1>17, <1>9, <1>10, <1>14, <1>15, <1>16, OtherCPUs DEF OwnState

\* push_task sets the level's bit (ready_queue.rs:63-66).
LEMMA MarkStep ==
    ASSUME ControlInv, NEW c \in CPU, mark(c)
    PROVE  ControlInv' /\ Others(c) /\ Held(c)' = Held(c)
<1> DEFINE l == loc[c]
           m == [l EXCEPT !.all = TRUE]
<1> USE DEF ControlInv
<1>1. OwnState(c) /\ l \in Local /\ l.pid \in Process
  BY SMT DEF TypeOK, Local
<1>2. /\ pc[c] = "mark" /\ pc' = [pc EXCEPT ![c] = "peek"] /\ "peek" \in PC
      /\ prio_bitmap' = [prio_bitmap EXCEPT ![l.pid] = SetBit(@, l.task)]
      /\ UNCHANGED <<queues, tableVars, cpuVars, taskVars, seen>>
  BY SMT DEF mark, Goto, PC
<1>3. loc' = [loc EXCEPT ![c] = m]
  <2>1. loc' = [loc EXCEPT ![c].all = TRUE]
    BY DEF mark
  <2> QED
    BY <1>1, <2>1, SMT
<1>4. /\ l.ret \in {"select", "run", "handler"}
      /\ l.task \in Task /\ l.pid = pid_of[l.task]
  BY <1>1, <1>2, SMT DEF OwnState, Control
<1>5. prio_bitmap' \in [Process -> SUBSET Level]
  <2>1. prio_bitmap \in [Process -> SUBSET Level]
    BY DEF TypeOK
  <2>2. SetBit(prio_bitmap[l.pid], l.task) \in SUBSET Level
    BY <1>1, <1>4, <2>1, PriorityAssumption DEF SetBit
  <2> QED
    BY <1>2, <2>1, <2>2, Zenon
<1>6. m \in Local /\ \A f \in {"home", "pid", "task", "ret", "work"} : m[f] = l[f]
  <2> HIDE DEF l
  <2>1. m \in Local
    BY <1>1, Updated, Zenon
  <2> QED
    BY <2>1, SMT
<1> HIDE DEF m
<1>7. /\ loc' \in [CPU -> Local] /\ loc'[c] = m
      /\ \A d \in CPU \ {c} : loc'[d] = loc[d]
  BY <1>3, <1>6, Writes, Zenon
<1>8. /\ pc' \in [CPU -> PC] /\ pc'[c] = "peek"
      /\ \A d \in CPU \ {c} : pc'[d] = pc[d]
  BY <1>2, Goes, Zenon
<1>9. TypeOK'
  BY <1>2, <1>5, <1>7, <1>8, SMT DEF TypeOK, cpuVars, modeVars, spaceVars, tableVars, taskVars
<1>10. Others(c)
  BY <1>2, <1>7, <1>8, SMT DEF Others, cpuVars, modeVars, spaceVars, tableVars, taskVars
<1>11. Resumes(c)' = l.ret /\ Resumes(c) = l.ret
  BY <1>2, <1>6, <1>7, <1>8, SMT DEF Resumes, Operating
<1>12. UNCHANGED <<current, traps, vspace, page_table, in_kernel, is_sleeping>>
  BY <1>2 DEF cpuVars, modeVars, spaceVars, tableVars, taskVars
<1>13. OwnState(c)'
  BY <1>1, <1>2, <1>4, <1>6, <1>7, <1>8, <1>11, <1>12, SMT
     DEF OwnState, Control, Operating, InCharge, Popping, Spaces, Mode, Traps, InUserMode
<1>14. Proper' /\ Contexts'
  BY <1>2 DEF Proper, Contexts, taskVars
<1>15. Held(c)' = Held(c)
  BY <1>4, <1>6, <1>7, <1>11, <1>12, SMT DEF Held
<1> QED
  BY <1>15, <1>9, <1>10, <1>13, <1>14, OtherCPUs

\* get_and_update_* read what the sources report (scheduler.rs:434-463).
LEMMA PeekStep ==
    ASSUME ControlInv, NEW c \in CPU, peek(c)
    PROVE  ControlInv' /\ Others(c) /\ Held(c)' = Held(c)
<1> DEFINE l == loc[c]
           q == SourcesPrio(l.pid, c)
           e == IF l.all THEN 0 ELSE c
           m == [l EXCEPT !.prio = q, !.cpu = e]
<1> USE DEF ControlInv
<1>1. OwnState(c) /\ l \in Local /\ l.pid \in Process
  BY SMT DEF TypeOK, Local
<1>2. /\ pc[c] = "peek" /\ pc' = [pc EXCEPT ![c] = "store"] /\ "store" \in PC
      /\ UNCHANGED <<queueVars, tableVars, cpuVars, taskVars, seen>>
  BY SMT DEF peek, Goto, PC
<1>3. loc' = [loc EXCEPT ![c] = m]
  BY Zenon DEF peek
<1>4. l.ret \in {"select", "requeue", "run", "handler", "handle"}
  BY <1>1, <1>2 DEF OwnState, Control
<1>5. q \in Level \cup {NoPriority} /\ e \in CPU
  BY <1>1, Highests, Numbers, SMT
<1>6. m \in Local /\ \A f \in {"home", "pid", "task", "ret", "work"} : m[f] = l[f]
  <2> HIDE DEF q, e, l
  <2>1. m \in Local
    BY <1>1, <1>5, UpdatedMore, Zenon
  <2> QED
    BY <2>1, SMT
<1> HIDE DEF m, q, e
<1>7. /\ TypeOK' /\ Others(c) /\ Proper' /\ Contexts'
      /\ pc'[c] = "store" /\ loc'[c] = m
      /\ UNCHANGED <<current, traps, vspace, page_table, in_kernel, is_sleeping>>
  BY <1>2, <1>3, <1>6, QuietStep, Zenon
<1>8. Resumes(c)' = l.ret /\ Resumes(c) = l.ret
  BY <1>2, <1>6, <1>7, SMT DEF Resumes, Operating
<1>9. OwnState(c)'
  BY <1>1, <1>2, <1>4, <1>6, <1>7, <1>8, SMT
     DEF OwnState, Control, Operating, InCharge, Popping, Spaces, Mode, Traps, InUserMode
<1>10. Held(c)' = Held(c)
  BY <1>4, <1>6, <1>7, <1>8, SMT DEF Held
<1> QED
  BY <1>10, <1>7, <1>9, OtherCPUs

\* What the callers of push_task have in common (scheduler.rs:355-383).
LEMMA PushStep ==
    ASSUME ControlInv, NEW c \in CPU, NEW t \in Task, NEW from, NEW ret \in PC,
           NEW home \in Process,
           push_task(c, t, from, ret, home),
           current' \in [CPU -> Task \cup {Handler, NoTask}],
           \A d \in CPU \ {c} : current'[d] = current[d],
           outside' \in SUBSET Task
    PROVE  /\ TypeOK' /\ Others(c) /\ Proper' /\ Contexts'
           /\ pc[c] = from /\ pc'[c] = "mark"
           /\ loc'[c].home = home /\ loc'[c].pid = pid_of[t] /\ loc'[c].task = t
           /\ loc'[c].ret = ret /\ loc'[c].work = NoTask
           /\ UNCHANGED <<traps, vspace, page_table, in_kernel>>
<1> DEFINE m == [Fresh EXCEPT !.home = home, !.pid = pid_of[t], !.task = t, !.ret = ret]
<1> USE DEF ControlInv
<1>1. /\ pc[c] = from /\ pc' = [pc EXCEPT ![c] = "mark"] /\ "mark" \in PC
      /\ queues' = [queues EXCEPT ![pid_of[t]] = PushBack(@, t)]
      /\ UNCHANGED <<prio_bitmap, tableVars, traps, is_sleeping, modeVars, context, seen>>
  BY SMT DEF push_task, Goto, PC
<1>2. loc' = [loc EXCEPT ![c] = m]
  BY Zenon DEF push_task
<1>3. /\ queues' \in [Process -> [Level -> Seq(Task)]] /\ Proper'
      /\ pid_of[t] \in Process
  BY <1>1, Pushed, Zenon
<1>4. /\ m \in Local /\ m.home = home /\ m.pid = pid_of[t] /\ m.task = t /\ m.ret = ret
      /\ m.work = NoTask
  <2>1. m \in Local
    BY <1>3, FreshLocal, UpdatedMore, Zenon
  <2>2. m.home = home /\ m.pid = pid_of[t] /\ m.task = t /\ m.ret = ret /\ m.work = NoTask
    BY SMT DEF Fresh
  <2> QED
    BY <2>1, <2>2
<1> HIDE DEF m
<1>5. /\ loc' \in [CPU -> Local] /\ loc'[c] = m
      /\ \A d \in CPU \ {c} : loc'[d] = loc[d]
  BY <1>2, <1>4, Writes, Zenon
<1>6. /\ pc' \in [CPU -> PC] /\ pc'[c] = "mark"
      /\ \A d \in CPU \ {c} : pc'[d] = pc[d]
  BY <1>1, Goes, Zenon
<1>7. TypeOK'
  BY <1>1, <1>3, <1>5, <1>6, SMT DEF TypeOK, modeVars, spaceVars, tableVars
<1>8. Others(c)
  BY <1>1, <1>5, <1>6, Zenon DEF Others, modeVars, spaceVars
<1>9. Contexts'
  BY <1>1 DEF Contexts
<1> QED
  BY <1>1, <1>3, <1>4, <1>5, <1>6, <1>7, <1>8, <1>9 DEF modeVars, spaceVars

\* A running task is left for a user's loop only where CURRENT_VSPACE names a
\* user process (main_loop.rs:835-850).
LEMMA HomeHasASpace ==
    ASSUME NEW c \in CPU, Control(c), InCharge(c), Spaces(c), Mode(c), pc[c] = "run",
           NextLoop(c) # 0
    PROVE  vspace[c] # 0
<1>1. ~in_kernel[c]
  BY DEF NextLoop
<1>2. InUserMode(c)
  BY <1>1, Zenon DEF Mode
<1>3. Resumes(c) = "run" /\ loc[c].home = 0
  BY SMT DEF Resumes, Operating, Control
<1>4. pid_of[current[c]] # 0
  BY <1>2, <1>3 DEF InUserMode
<1> QED
  BY <1>3, <1>4 DEF Spaces

\* A task that yields or was interrupted leaves the CPU's hands for the ready
\* queue (main_loop.rs:463-498).
LEMMA RequeueStep ==
    ASSUME ControlInv, NEW c \in CPU, yield(c) \/ requeue(c)
    PROVE  /\ ControlInv' /\ Others(c)
           /\ Held(c) = current[c] /\ Held(c)' = NoTask /\ current[c] \in Task
<1> DEFINE from == IF yield(c) THEN "run" ELSE "requeue"
           home == IF yield(c) THEN NextLoop(c) ELSE 0
           t == current[c]
<1>1. /\ TypeOK /\ OwnState(c) /\ outside \in SUBSET Task /\ page_table[c] \in Process
      /\ in_kernel[c] \in BOOLEAN
  BY SMT DEF ControlInv, TypeOK
<1>2. "select" \in PC /\ 0 \in Process
  BY Numbers, SMT DEF PC
<1>3. /\ push_task(c, t, from, "select", home)
      /\ current' = [current EXCEPT ![c] = NoTask] /\ outside' = outside
  BY Zenon DEF yield, requeue
<1>4. pc[c] = from /\ from \in {"run", "requeue"}
  BY <1>3 DEF push_task, Goto
<1>5. home \in Process /\ (in_kernel[c] => home = 0)
  BY <1>1, <1>2 DEF NextLoop
<1> HIDE DEF from, home
<1>6. Resumes(c) = pc[c]
  BY <1>4, SMT DEF Resumes, Operating
<1>7. t \in Task /\ loc[c].home = 0 /\ loc[c].ret = "none"
  BY <1>1, <1>4, <1>6, SMT DEF OwnState, InCharge, Control, Operating
<1>8. /\ TypeOK' /\ Others(c) /\ Proper' /\ Contexts'
      /\ pc[c] = from /\ pc'[c] = "mark"
      /\ loc'[c].home = home /\ loc'[c].pid = pid_of[t] /\ loc'[c].task = t
      /\ loc'[c].ret = "select" /\ loc'[c].work = NoTask
      /\ UNCHANGED <<traps, vspace, page_table, in_kernel>>
  <2>1. outside' \in SUBSET Task /\ t \in Task
    BY <1>1, <1>3, <1>7
  <2>2. /\ current' \in [CPU -> Task \cup {Handler, NoTask}]
        /\ \A d \in CPU \ {c} : current'[d] = current[d]
    BY <1>1, <1>3, Zenon DEF TypeOK
  <2>3. home \in Process
    BY <1>5
  <2> HIDE DEF t
  <2> QED
    <3>1. push_task(c, t, from, "select", home) /\ "select" \in PC
      BY <1>2, <1>3
    <3> QED
      BY <2>1, <2>2, <2>3, <3>1, PushStep, Zenon
<1>9. current'[c] = NoTask
  BY <1>1, <1>3, SMT DEF TypeOK
<1>10. Resumes(c)' = "select"
  BY <1>8, SMT DEF Resumes, Operating
<1>11. Control(c)' /\ InCharge(c)' /\ Popping(c)' /\ Spaces(c)' /\ Traps(c)'
  <2>1. home # 0 => vspace[c] # 0
    <3>1. CASE from = "requeue"
      BY <3>1, SMT DEF from, home
    <3>2. CASE from = "run"
      <4>1. home = NextLoop(c)
        BY <3>2, SMT DEF from, home
      <4> QED
        BY <1>1, <1>4, <3>2, <4>1, HomeHasASpace DEF OwnState
    <3> QED
      BY <1>4, <3>1, <3>2
  <2> QED
    BY <1>1, <1>7, <1>8, <1>9, <1>10, <2>1, SMT
       DEF OwnState, Control, Operating, InCharge, Popping, Spaces, Traps
<1>12. InUserMode(c)' <=> home # 0
  BY <1>8, SMT DEF InUserMode
<1>13. ~in_kernel[c] => home # 0
  <2>1. ASSUME ~in_kernel[c] PROVE home # 0
    <3>1. InUserMode(c) /\ page_table[c] # 0
      BY <1>1, <2>1, Zenon DEF OwnState, Mode
    <3>2. pc[c] = "run"
      BY <1>7, <3>1 DEF InUserMode
    <3>3. home = NextLoop(c)
      BY <1>4, <3>2, SMT DEF home, from
    <3> QED
      BY <2>1, <3>1, <3>3, Zenon DEF NextLoop
  <2> QED
    BY <2>1
<1>14. Mode(c)'
  BY <1>1, <1>5, <1>8, <1>12, <1>13, Zenon DEF OwnState, Mode
<1>15. Held(c) = current[c] /\ Held(c)' = NoTask
  BY <1>4, <1>6, <1>10, SMT DEF Held
<1> QED
  BY <1>7, <1>8, <1>11, <1>14, <1>15, OtherCPUs DEF OwnState, ControlInv

\* A running task wakes another one and keeps running.
LEMMA WakeStep ==
    ASSUME ControlInv, NEW c \in CPU, NEW t \in Task, wake(c, t)
    PROVE  ControlInv' /\ Others(c) /\ Held(c)' = Held(c)
<1>1. /\ TypeOK /\ OwnState(c) /\ outside \in SUBSET Task
      /\ "run" \in PC /\ 0 \in Process
  BY Numbers, SMTT(30) DEF ControlInv, TypeOK, PC
<1>2. push_task(c, t, "run", "run", 0) /\ UNCHANGED current /\ outside' \in SUBSET Task
  BY <1>1 DEF wake
<1>3. /\ TypeOK' /\ Others(c) /\ Proper' /\ Contexts'
      /\ pc[c] = "run" /\ pc'[c] = "mark"
      /\ loc'[c].home = 0 /\ loc'[c].pid = pid_of[t] /\ loc'[c].task = t
      /\ loc'[c].ret = "run" /\ loc'[c].work = NoTask
      /\ UNCHANGED <<traps, vspace, page_table, in_kernel>>
  <2>1. /\ current' \in [CPU -> Task \cup {Handler, NoTask}]
        /\ \A d \in CPU \ {c} : current'[d] = current[d]
    BY <1>1, <1>2 DEF TypeOK
  <2> QED
    BY <1>1, <1>2, <2>1, PushStep, Zenon
<1>4. Resumes(c) = "run" /\ Resumes(c)' = "run"
  BY <1>3, SMT DEF Resumes, Operating
<1>5. loc[c].home = 0
  BY <1>1, <1>4 DEF OwnState, Control
<1>6. Control(c)' /\ InCharge(c)' /\ Popping(c)' /\ Spaces(c)' /\ Traps(c)'
  BY <1>1, <1>2, <1>3, <1>4, SMT
     DEF OwnState, Control, Operating, InCharge, Popping, Spaces, Traps
<1>7. InUserMode(c)' <=> InUserMode(c)
  BY <1>2, <1>3, <1>5, SMT DEF InUserMode
<1>8. Mode(c)'
  BY <1>1, <1>3, <1>7, Zenon DEF OwnState, Mode
<1>9. Held(c)' = Held(c)
  BY <1>2, <1>4, SMT DEF Held
<1> QED
  BY <1>3, <1>6, <1>8, <1>9, OtherCPUs DEF OwnState, ControlInv

\* The trap handler makes a task ready, the one that trapped or one that the
\* interrupt woke, and has none in hand afterwards
\* (trap_wait_queue.rs:189-218).
LEMMA ServeStep ==
    ASSUME ControlInv, NEW c \in CPU, NEW t \in Task,
           interrupt_wakes(c, t) \/ (task_done(c) /\ t = loc[c].work)
    PROVE  ControlInv' /\ Others(c) /\ Held(c) = loc[c].work /\ Held(c)' = NoTask
<1>1. /\ TypeOK /\ OwnState(c) /\ outside \in SUBSET Task
      /\ "handler" \in PC /\ 0 \in Process
  BY Numbers, SMTT(30) DEF ControlInv, TypeOK, PC
<1>2. push_task(c, t, "handle", "handler", 0) /\ UNCHANGED current /\ outside' \in SUBSET Task
  BY <1>1 DEF interrupt_wakes, task_done
<1>3. /\ TypeOK' /\ Others(c) /\ Proper' /\ Contexts'
      /\ pc[c] = "handle" /\ pc'[c] = "mark"
      /\ loc'[c].home = 0 /\ loc'[c].pid = pid_of[t] /\ loc'[c].task = t
      /\ loc'[c].ret = "handler" /\ loc'[c].work = NoTask
      /\ UNCHANGED <<traps, vspace, page_table, in_kernel>>
  <2>1. /\ current' \in [CPU -> Task \cup {Handler, NoTask}]
        /\ \A d \in CPU \ {c} : current'[d] = current[d]
    BY <1>1, <1>2 DEF TypeOK
  <2> QED
    BY <1>1, <1>2, <2>1, PushStep, Zenon
<1>4. Resumes(c) = "handle" /\ Resumes(c)' = "handler"
  BY <1>3, SMT DEF Resumes, Operating
<1>5. loc[c].home = 0 /\ loc[c].ret = "none"
  BY <1>1, <1>3, <1>4, SMT DEF OwnState, Control, Operating
<1>6. Control(c)' /\ InCharge(c)' /\ Popping(c)' /\ Spaces(c)' /\ Traps(c)'
  BY <1>1, <1>2, <1>3, <1>4, SMT
     DEF OwnState, Control, Operating, InCharge, Popping, Spaces, Traps
<1>7. ~InUserMode(c)' /\ ~InUserMode(c)
  BY <1>3, <1>5, SMT DEF InUserMode
<1>8. Mode(c)'
  BY <1>1, <1>3, <1>7, Zenon DEF OwnState, Mode
<1>9. Held(c) = loc[c].work /\ Held(c)' = NoTask
  BY <1>4, SMT DEF Held
<1> QED
  BY <1>3, <1>6, <1>8, <1>9, OtherCPUs DEF OwnState, ControlInv

\* A served trap is a task's.
LEMMA WorkIsATask ==
    ASSUME ControlInv, NEW c \in CPU, task_done(c)
    PROVE  loc[c].work \in Task
BY SMT DEF ControlInv, task_done, TypeOK, Local

\* A CPU's trap queue changes, those of the others do not.
LEMMA TrapsStep ==
    ASSUME TypeOK, NEW c \in CPU, NEW q \in Seq(Task \cup {NoTask}),
           traps' = [traps EXCEPT ![c] = q]
    PROVE  /\ traps' \in [CPU -> Seq(Task \cup {NoTask})] /\ traps'[c] = q
           /\ \A d \in CPU \ {c} : traps'[d] = traps[d]
BY SMT DEF TypeOK

\* A CPU's current task changes, those of the others do not.
LEMMA Empties ==
    ASSUME TypeOK, NEW c \in CPU, NEW x \in Task \cup {Handler, NoTask},
           current' = [current EXCEPT ![c] = x]
    PROVE  /\ current' \in [CPU -> Task \cup {Handler, NoTask}] /\ current'[c] = x
           /\ \A d \in CPU \ {c} : current'[d] = current[d]
BY SMT DEF TypeOK

\* An interrupt queues a trap, and takes no task unless a running task is
\* mistaken for the wait context (main_loop.rs:128-203).
LEMMA InterruptStep ==
    ASSUME ControlInv, NEW c \in CPU, interrupt(c)
    PROVE  /\ ControlInv'
           /\ Others(c)
           /\ ((Resumes(c) = "run" => ~is_sleeping[c]) => Held(c)' = Held(c))
<1> DEFINE l == loc[c]
           r == IF is_sleeping[c] THEN "select" ELSE "requeue"
           x == IF is_sleeping[c] THEN NoTask ELSE current[c]
           m == [Fresh EXCEPT !.ret = r]
           q == Append(traps[c], NoTask)
<1>1. TypeOK
  BY DEF ControlInv
<1>2. /\ OwnState(c) /\ l \in Local /\ current[c] \in Task \cup {Handler, NoTask}
      /\ traps[c] \in Seq(Task \cup {NoTask})
  BY <1>1, SMT DEF ControlInv, TypeOK
<1>3. /\ pc[c] = "wfi" \/ pc[c] = "run" \/ (pc[c] \in Operating /\ l.ret = "run")
      /\ pc' = [pc EXCEPT ![c] = "peek"] /\ "peek" \in PC
      /\ traps' = [traps EXCEPT ![c] = q]
      /\ is_sleeping' = [is_sleeping EXCEPT ![c] = FALSE]
      /\ current' = [current EXCEPT ![c] = x]
      /\ in_kernel' = [in_kernel EXCEPT ![c] = TRUE]
      /\ UNCHANGED <<queueVars, tableVars, spaceVars, outside>>
  BY SMT DEF interrupt, InterruptiblePush, Operating, PC
<1>4. loc' = [loc EXCEPT ![c] = m]
  BY Zenon DEF interrupt
<1>5. seen' \in [CPU -> SUBSET Task]
  <2>1. seen' = [seen EXCEPT ![c] = {}]
    BY Zenon DEF interrupt
  <2> QED
    BY <1>1, <2>1, Zenon DEF TypeOK
<1>6. r \in {"select", "requeue"} /\ r \in PC /\ x \in Task \cup {Handler, NoTask}
  BY <1>2, SMT DEF PC
<1>7. /\ r = "select" => x = NoTask
      /\ r = "requeue" => x = current[c]
  BY SMT
<1>8. q \in Seq(Task \cup {NoTask})
  BY <1>2, SMT
<1>9. m \in Local /\ m.home = 0 /\ m.ret = r /\ m.work = NoTask
  <2> HIDE DEF r
  <2>1. m \in Local
    BY FreshLocal, <1>6, Updated, Zenon
  <2>2. m.home = 0 /\ m.ret = r /\ m.work = NoTask
    BY SMT DEF Fresh
  <2> QED
    BY <2>1, <2>2
<1> HIDE DEF m, r, x, q
<1>10. /\ loc' \in [CPU -> Local] /\ loc'[c] = m
      /\ \A d \in CPU \ {c} : loc'[d] = loc[d]
  BY <1>1, <1>4, <1>9, Writes, Zenon
<1>11. /\ pc' \in [CPU -> PC] /\ pc'[c] = "peek"
       /\ \A d \in CPU \ {c} : pc'[d] = pc[d]
  BY <1>1, <1>3, Goes, Zenon
<1>12. /\ traps' \in [CPU -> Seq(Task \cup {NoTask})]
       /\ \A d \in CPU \ {c} : traps'[d] = traps[d]
  BY <1>1, <1>3, <1>8, TrapsStep, Zenon
<1>13. /\ current' \in [CPU -> Task \cup {Handler, NoTask}] /\ current'[c] = x
       /\ \A d \in CPU \ {c} : current'[d] = current[d]
  BY <1>1, <1>3, <1>6, Empties, Zenon
<1>14. /\ in_kernel' \in [CPU -> BOOLEAN] /\ in_kernel'[c] = TRUE
       /\ is_sleeping' \in [CPU -> BOOLEAN]
       /\ \A d \in CPU \ {c} : in_kernel'[d] = in_kernel[d] /\ is_sleeping'[d] = is_sleeping[d]
  BY <1>1, <1>3, Zenon DEF TypeOK
<1>15. TypeOK' /\ Contexts'
  <2> DEFINE saved == [at |-> pc[c], loc |-> [l EXCEPT !.late = pc[c] = "store"]]
  <2>1. context' = [t \in Task |-> IF t = current[c] /\ ~is_sleeping[c] THEN saved
                                   ELSE context[t]]
    BY Zenon DEF interrupt
  <2>2. Contexts /\ context \in [Task -> [at : {"run", "mark", "peek", "store"}, loc : Local]]
    BY <1>1 DEF ControlInv, TypeOK
  <2>3. CASE is_sleeping[c]
    <3>1. \A t \in Task : context'[t] = context[t]
      BY <2>1, <2>3, Zenon
    <3>2. context' \in [Task -> [at : {"run", "mark", "peek", "store"}, loc : Local]]
      BY <2>1, <2>2, <2>3, SMT
    <3>3. TypeOK'
      BY <1>1, <1>3, <1>5, <1>10, <1>11, <1>12, <1>13, <1>14, <3>2, SMT
         DEF TypeOK, queueVars, spaceVars, tableVars
    <3> QED
      BY <2>2, <3>1, <3>3, Zenon DEF Contexts
  <2>4. CASE ~is_sleeping[c]
    <3>1. pc[c] # "wfi"
      BY <1>2, <2>4 DEF OwnState, Control
    <3>2. Resumes(c) = "run"
      BY <1>3, <3>1, SMT DEF Resumes, Operating
    <3>3. /\ [l EXCEPT !.late = pc[c] = "store"] \in Local
          /\ \A f \in {"home", "ret", "work", "task", "pid"} :
                [l EXCEPT !.late = pc[c] = "store"][f] = l[f]
      <4>1. [l EXCEPT !.late = pc[c] = "store"] \in Local
        BY <1>2, Updated, Zenon
      <4> QED
        BY <4>1, SMT
    <3>4. /\ l.home = 0 /\ l.work = NoTask
          /\ pc[c] \in Operating =>
                l.ret = "run" /\ l.task \in Task /\ l.pid = pid_of[l.task]
          /\ pc[c] = "run" => l = Fresh
      <4>1. Control(c)
        BY <1>2 DEF OwnState
      <4> HIDE DEF l
      <4>2. l.home = 0 /\ l.work = NoTask
        BY <3>2, <4>1, SMT DEF Control, l
      <4>3. pc[c] = "run" => l = Fresh
        BY <4>1, Zenon DEF Control, l
      <4>4. ASSUME pc[c] \in Operating
            PROVE  l.ret = "run" /\ l.task \in Task /\ l.pid = pid_of[l.task]
        <5>1. l.ret = "run"
          BY <3>2, <4>4, SMT DEF Resumes, l
        <5> QED
          BY <4>1, <4>4, <5>1 DEF Control, l
      <4> QED
        BY <4>2, <4>3, <4>4
    <3>5. ASSUME pc[c] = "run" PROVE [l EXCEPT !.late = pc[c] = "store"] = Fresh
      <4>1. (pc[c] = "store") = FALSE
        BY <3>5, SMT
      <4>3. l = Fresh
        BY <3>4, <3>5
      <4> HIDE DEF l
      <4> QED
        BY <4>1, <4>3, Unwritten, Zenon
    <3>6. pc[c] = "run" \/ pc[c] \in Operating
      BY <1>3, <3>1
    <3> DEFINE n == [l EXCEPT !.late = pc[c] = "store"]
    <3>7. saved.at = pc[c] /\ saved.loc = n /\ n \in Local
      BY <3>3
    <3>8. /\ n.home = l.home /\ n.ret = l.ret /\ n.work = l.work /\ n.task = l.task
          /\ n.pid = l.pid
          /\ pc[c] = "run" => n = Fresh
      BY <3>3, <3>5
    <3>9. saved \in [at : {"run", "mark", "peek", "store"}, loc : Local]
      BY <3>6, <3>7, SMT DEF Operating
    <3> HIDE DEF n, saved
    <3>10. context' \in [Task -> [at : {"run", "mark", "peek", "store"}, loc : Local]]
      BY <2>1, <2>2, <3>9, Zenon
    <3>11. TypeOK'
      BY <1>1, <1>3, <1>5, <1>10, <1>11, <1>12, <1>13, <1>14, <3>10, SMT
         DEF TypeOK, queueVars, spaceVars, tableVars
    <3>12. /\ saved.at = "run" => saved.loc = Fresh
           /\ saved.at # "run" =>
                 /\ saved.loc.home = 0 /\ saved.loc.ret = "run"
                 /\ saved.loc.work = NoTask /\ saved.loc.task \in Task
                 /\ saved.loc.pid = pid_of[saved.loc.task]
      BY <3>4, <3>6, <3>7, <3>8
    <3>13. \A t \in Task : context'[t] = saved \/ context'[t] = context[t]
      BY <2>1, Zenon
    <3>14. Contexts'
      BY <2>2, <3>12, <3>13, ZenonT(60) DEF Contexts
    <3> QED
      BY <3>11, <3>14
  <2> QED
    BY <2>3, <2>4
<1>16. Others(c)
  BY <1>3, <1>10, <1>11, <1>12, <1>13, <1>14, Zenon DEF Others, spaceVars, tableVars, taskVars
<1>17. /\ Resumes(c)' = r /\ Resumes(c) \in {"run", "wfi"}
       /\ Resumes(c) = "wfi" => pc[c] = "wfi"
  BY <1>3, <1>9, <1>10, <1>11, SMT DEF Resumes, Operating
<1>18. Resumes(c) = "run" => l.work = NoTask
  BY <1>2, SMT DEF OwnState, Control
<1>19. ~InUserMode(c)'
  BY <1>6, <1>9, <1>10, <1>11, SMT DEF InUserMode
<1>20. Mode(c)'
  BY <1>14, <1>19, Zenon DEF Mode
<1>21. r = "requeue" => Resumes(c) = "run"
  BY <1>2, <1>3, <1>17, Zenon DEF OwnState, Control, r
<1>22. Control(c)' /\ InCharge(c)' /\ Popping(c)' /\ Spaces(c)' /\ Traps(c)'
  BY <1>2, <1>3, <1>6, <1>7, <1>9, <1>10, <1>11, <1>13, <1>17, <1>21, SMT
     DEF OwnState, Control, Operating, InCharge, Popping, Spaces, Traps, spaceVars
<1>23. Proper'
  BY <1>3 DEF ControlInv, Proper, queueVars
<1>24. ASSUME Resumes(c) = "run" => ~is_sleeping[c] PROVE Held(c)' = Held(c)
  <2>1. Resumes(c) = "run" => r = "requeue"
    BY <1>24, Zenon DEF r
  <2> QED
    BY <1>6, <1>7, <1>13, <1>17, <1>21, <2>1, SMT DEF Held
<1> QED
  BY <1>24, <1>15, <1>16, <1>20, <1>22, <1>23, OtherCPUs DEF OwnState, ControlInv

\* An exception or a system call moves the running task into the CPU's trap
\* queue, unless the CPU is marked as sleeping (main_loop.rs:60-117).
LEMMA SyncTrapStep ==
    ASSUME ControlInv, NEW c \in CPU, sync_trap(c)
    PROVE  /\ ControlInv' /\ Others(c)
           /\ ~is_sleeping[c] =>
                 Held(c) = current[c] /\ Held(c)' = NoTask /\ current[c] \in Task
<1> DEFINE l == loc[c]
           m == [l EXCEPT !.ret = "select"]
           q == Append(traps[c], current[c])
<1>1. TypeOK
  BY DEF ControlInv
<1>2. /\ OwnState(c) /\ l \in Local /\ traps[c] \in Seq(Task \cup {NoTask})
      /\ pc[c] = "run" /\ Resumes(c) = "run"
  BY <1>1, SMT DEF ControlInv, TypeOK, sync_trap, Resumes, Operating
<1>3. /\ in_kernel' = [in_kernel EXCEPT ![c] = TRUE]
      /\ UNCHANGED <<queueVars, tableVars, is_sleeping, spaceVars, taskVars, seen>>
  BY Zenon DEF sync_trap
<1>4. /\ in_kernel' \in [CPU -> BOOLEAN] /\ in_kernel'[c] = TRUE
      /\ \A d \in CPU \ {c} : in_kernel'[d] = in_kernel[d]
  BY <1>1, <1>3, Zenon DEF TypeOK
<1>5. current[c] \in Task /\ l.home = 0 /\ l.ret = "none" /\ l.work = NoTask
  BY <1>2, SMT DEF OwnState, InCharge, Control, Operating
<1>6. q \in Seq(Task \cup {NoTask})
  BY <1>2, <1>5, SMT
<1>7. "select" \in PC /\ "peek" \in PC /\ "panic" \in PC
  BY SMT DEF PC
<1>8. m \in Local /\ m.home = l.home /\ m.ret = "select" /\ m.work = l.work
  <2> HIDE DEF l
  <2>1. m \in Local
    BY <1>2, <1>7, Updated, Zenon
  <2> QED
    BY <2>1
<1>9. Proper' /\ Contexts'
  BY <1>3 DEF ControlInv, Proper, queueVars, tableVars, taskVars, Contexts
<1>10. ASSUME is_sleeping[c] PROVE ControlInv' /\ Others(c)
  <2>1. pc' = [pc EXCEPT ![c] = "panic"] /\ UNCHANGED <<traps, current, loc>>
    BY <1>10, Zenon DEF sync_trap
  <2>2. /\ pc' \in [CPU -> PC] /\ pc'[c] = "panic"
        /\ \A d \in CPU \ {c} : pc'[d] = pc[d]
    BY <1>1, <1>7, <2>1, Goes, Zenon
  <2>3. TypeOK'
    BY <1>1, <1>3, <1>4, <2>1, <2>2, SMT DEF TypeOK, queueVars, spaceVars, tableVars, taskVars
  <2>4. Others(c)
    BY <1>3, <1>4, <2>1, <2>2, Zenon DEF Others, spaceVars, tableVars, taskVars
  <2>5. Resumes(c)' = "panic"
    BY <2>2, SMT DEF Resumes, Operating
  <2>6. ~InUserMode(c)'
    BY <1>5, <2>1, <2>2, SMT DEF InUserMode
  <2>7. Control(c)' /\ InCharge(c)' /\ Popping(c)' /\ Spaces(c)' /\ Traps(c)'
    BY <1>2, <1>3, <1>5, <2>1, <2>2, <2>5, SMT
       DEF OwnState, Control, Operating, InCharge, Popping, Spaces, Traps, spaceVars,
           tableVars, taskVars
  <2>8. Mode(c)'
    BY <1>4, <2>6, Zenon DEF Mode
  <2> QED
    BY <1>9, <2>3, <2>4, <2>7, <2>8, OtherCPUs DEF OwnState, ControlInv
<1>11. ASSUME ~is_sleeping[c]
       PROVE  ControlInv' /\ Others(c) /\ Held(c) = current[c] /\ Held(c)' = NoTask
  <2>1. /\ pc' = [pc EXCEPT ![c] = "peek"] /\ traps' = [traps EXCEPT ![c] = q]
        /\ current' = [current EXCEPT ![c] = NoTask]
    BY <1>11, Zenon DEF sync_trap
  <2>2. loc' = [loc EXCEPT ![c] = m]
    <3>1. loc' = [loc EXCEPT ![c].ret = "select"]
      BY <1>11, Zenon DEF sync_trap
    <3> QED
      BY <1>1, <1>2, <3>1, SMT
  <2> HIDE DEF m, q
  <2>3. /\ loc' \in [CPU -> Local] /\ loc'[c] = m
        /\ \A d \in CPU \ {c} : loc'[d] = loc[d]
    BY <1>1, <1>8, <2>2, Writes, Zenon
  <2>4. /\ pc' \in [CPU -> PC] /\ pc'[c] = "peek"
        /\ \A d \in CPU \ {c} : pc'[d] = pc[d]
    BY <1>1, <1>7, <2>1, Goes, Zenon
  <2>5. /\ traps' \in [CPU -> Seq(Task \cup {NoTask})]
        /\ \A d \in CPU \ {c} : traps'[d] = traps[d]
    BY <1>1, <1>6, <2>1, TrapsStep, Zenon
  <2>6. /\ current' \in [CPU -> Task \cup {Handler, NoTask}] /\ current'[c] = NoTask
        /\ \A d \in CPU \ {c} : current'[d] = current[d]
    BY <1>1, <2>1, Empties, Zenon
  <2>7. TypeOK'
    BY <1>1, <1>3, <1>4, <2>3, <2>4, <2>5, <2>6, SMT
       DEF TypeOK, queueVars, spaceVars, tableVars, taskVars
  <2>8. Others(c)
    BY <1>3, <1>4, <2>3, <2>4, <2>5, <2>6, Zenon DEF Others, spaceVars, tableVars, taskVars
  <2>9. Resumes(c)' = "select"
    BY <1>8, <2>3, <2>4, SMT DEF Resumes, Operating
  <2>10. ~InUserMode(c)'
    BY <1>5, <1>8, <2>3, <2>4, SMT DEF InUserMode
  <2>11. Control(c)' /\ InCharge(c)' /\ Popping(c)' /\ Spaces(c)' /\ Traps(c)'
    BY <1>2, <1>3, <1>5, <1>8, <2>3, <2>4, <2>6, <2>9, SMT
       DEF OwnState, Control, Operating, InCharge, Popping, Spaces, Traps, spaceVars,
           tableVars, taskVars
  <2>12. Mode(c)'
    BY <1>4, <2>10, Zenon DEF Mode
  <2>13. Held(c) = current[c] /\ Held(c)' = NoTask
    BY <1>2, <2>9, SMT DEF Held
  <2> QED
    BY <1>9, <2>7, <2>8, <2>11, <2>12, <2>13, OtherCPUs DEF OwnState, ControlInv
<1> QED
  BY <1>5, <1>10, <1>11

\* A task that blocks or exits leaves the CPU's hands for the OS's.
LEMMA BlockStep ==
    ASSUME ControlInv, NEW c \in CPU, block(c)
    PROVE  /\ ControlInv'
           /\ Others(c)
           /\ Held(c) = current[c]
           /\ Held(c)' = NoTask
           /\ current[c] \in Task
<1> DEFINE l == loc[c]
           home == NextLoop(c)
           m == [l EXCEPT !.home = home]
<1>1. TypeOK
  BY DEF ControlInv
<1>2. /\ OwnState(c) /\ l \in Local /\ pc[c] = "run" /\ Resumes(c) = "run"
      /\ page_table[c] \in Process /\ in_kernel[c] \in BOOLEAN
  BY <1>1, SMT DEF ControlInv, TypeOK, block, Goto, Resumes, Operating
<1>3. /\ pc' = [pc EXCEPT ![c] = "select"] /\ "select" \in PC
      /\ current' = [current EXCEPT ![c] = NoTask]
      /\ outside' = outside \cup {current[c]}
      /\ UNCHANGED <<queueVars, tableVars, traps, is_sleeping, modeVars, context, seen>>
  BY SMT DEF block, Goto, PC
<1>4. loc' = [loc EXCEPT ![c] = m]
  <2>1. loc' = [loc EXCEPT ![c].home = home]
    BY Zenon DEF block
  <2> HIDE DEF home
  <2> QED
    BY <1>1, <1>2, <2>1, SMT
<1>5. current[c] \in Task /\ l.home = 0 /\ l.ret = "none" /\ l.work = NoTask
  BY <1>2, SMT DEF OwnState, InCharge, Control, Operating
<1>6. home \in Process
  BY <1>2, Numbers DEF NextLoop
<1>7. in_kernel[c] <=> home = 0
  <2>1. ~in_kernel[c] => page_table[c] # 0
    BY <1>2 DEF OwnState, Mode
  <2> QED
    BY <2>1, Zenon DEF NextLoop
<1>20. home # 0 => vspace[c] # 0
  BY <1>2, HomeHasASpace DEF OwnState
<1> HIDE DEF home
<1>8. m \in Local /\ m.home = home /\ m.ret = l.ret /\ m.work = l.work
  <2> HIDE DEF l
  <2>1. m \in Local
    BY <1>2, <1>6, Updated, Zenon
  <2> QED
    BY <2>1
<1> HIDE DEF m
<1>9. /\ loc' \in [CPU -> Local] /\ loc'[c] = m
      /\ \A d \in CPU \ {c} : loc'[d] = loc[d]
  BY <1>1, <1>4, <1>8, Writes, Zenon
<1>10. /\ pc' \in [CPU -> PC] /\ pc'[c] = "select"
      /\ \A d \in CPU \ {c} : pc'[d] = pc[d]
  BY <1>1, <1>3, Goes, Zenon
<1>11. /\ current' \in [CPU -> Task \cup {Handler, NoTask}] /\ current'[c] = NoTask
       /\ \A d \in CPU \ {c} : current'[d] = current[d]
  BY <1>1, <1>3, Empties, Zenon
<1>12. TypeOK'
  BY <1>1, <1>3, <1>5, <1>9, <1>10, <1>11, SMT
     DEF TypeOK, queueVars, modeVars, spaceVars, tableVars
<1>13. Others(c)
  BY <1>3, <1>9, <1>10, <1>11, Zenon DEF Others, modeVars, spaceVars
<1>14. Resumes(c)' = "select"
  BY <1>10, SMT DEF Resumes, Operating
<1>15. InUserMode(c)' <=> home # 0
  BY <1>5, <1>8, <1>9, <1>10, SMT DEF InUserMode
<1>16. Mode(c)'
  <2>1. UNCHANGED <<in_kernel, page_table>>
    BY <1>3 DEF modeVars, spaceVars
  <2>2. in_kernel[c] = ~InUserMode(c)'
    BY <1>2, <1>7, <1>15, Zenon
  <2> QED
    BY <1>2, <2>1, <2>2, Zenon DEF OwnState, Mode
<1>17. Control(c)' /\ InCharge(c)' /\ Popping(c)' /\ Spaces(c)' /\ Traps(c)'
  BY <1>2, <1>3, <1>5, <1>8, <1>9, <1>10, <1>11, <1>14, <1>20, SMT
     DEF OwnState, Control, Operating, InCharge, Popping, Spaces, Traps, modeVars, spaceVars
<1>18. Proper' /\ Contexts'
  BY <1>3 DEF ControlInv, Proper, queueVars, Contexts
<1>19. Held(c) = current[c] /\ Held(c)' = NoTask
  BY <1>2, <1>14, SMT DEF Held
<1> QED
  BY <1>5, <1>19, <1>12, <1>13, <1>16, <1>17, <1>18, OtherCPUs DEF OwnState, ControlInv

\* A task that has exited in its system call leaves the handler's hands for the
\* OS's (trap_wait_queue.rs:189-229).
LEMMA TaskExitsStep ==
    ASSUME ControlInv, NEW c \in CPU, task_exits(c)
    PROVE  /\ ControlInv' /\ Others(c)
           /\ Held(c) = loc[c].work /\ Held(c)' = NoTask /\ loc[c].work \in Task
<1> DEFINE l == loc[c]
           m == [l EXCEPT !.work = NoTask]
<1>1. TypeOK
  BY DEF ControlInv
<1>2. /\ OwnState(c) /\ l \in Local /\ pc[c] = "handle" /\ Resumes(c) = "handle"
      /\ l.work \in Task
  BY <1>1, SMT DEF ControlInv, TypeOK, task_exits, Goto, Resumes, Operating, Local
<1>3. /\ pc' = [pc EXCEPT ![c] = "handler"] /\ "handler" \in PC
      /\ outside' = outside \cup {l.work}
      /\ UNCHANGED <<queueVars, tableVars, cpuVars, context, seen>>
  BY SMT DEF task_exits, Goto, PC
<1>4. loc' = [loc EXCEPT ![c] = m]
  <2>1. loc' = [loc EXCEPT ![c].work = NoTask]
    BY Zenon DEF task_exits
  <2> QED
    BY <1>1, <1>2, <2>1, SMT
<1>5. l.home = 0 /\ l.ret = "none"
  BY <1>2, SMT DEF OwnState, Control, Operating
<1>6. m \in Local /\ m.home = l.home /\ m.ret = l.ret /\ m.work = NoTask
  <2> HIDE DEF l
  <2>1. m \in Local
    BY <1>2, Updated, Zenon
  <2> QED
    BY <1>2, <2>1, SMT DEF Local
<1> HIDE DEF m
<1>7. /\ loc' \in [CPU -> Local] /\ loc'[c] = m
      /\ \A d \in CPU \ {c} : loc'[d] = loc[d]
  BY <1>1, <1>4, <1>6, Writes, Zenon
<1>8. /\ pc' \in [CPU -> PC] /\ pc'[c] = "handler"
      /\ \A d \in CPU \ {c} : pc'[d] = pc[d]
  BY <1>1, <1>3, Goes, Zenon
<1>9. TypeOK'
  BY <1>1, <1>2, <1>3, <1>7, <1>8, SMT
     DEF TypeOK, queueVars, cpuVars, modeVars, spaceVars, tableVars
<1>10. Others(c)
  BY <1>3, <1>7, <1>8, Zenon DEF Others, cpuVars, modeVars, spaceVars
<1>11. Resumes(c)' = "handler"
  BY <1>8, SMT DEF Resumes, Operating
<1>12. ~InUserMode(c) /\ ~InUserMode(c)'
  BY <1>2, <1>5, <1>6, <1>7, <1>8, SMT DEF InUserMode
<1>13. Mode(c)'
  <2>1. in_kernel'[c] = in_kernel[c] /\ in_kernel[c] = TRUE
    BY <1>2, <1>3, <1>12, Zenon DEF OwnState, Mode, cpuVars, modeVars
  <2> QED
    BY <1>12, <2>1, Zenon DEF Mode
<1>14. Control(c)' /\ InCharge(c)' /\ Popping(c)' /\ Spaces(c)' /\ Traps(c)'
  BY <1>2, <1>3, <1>5, <1>6, <1>7, <1>8, <1>11, SMT
     DEF OwnState, Control, Operating, InCharge, Popping, Spaces, Traps, cpuVars, modeVars,
         spaceVars
<1>15. Proper' /\ Contexts'
  BY <1>3 DEF ControlInv, Proper, queueVars, Contexts
<1>16. Held(c) = l.work /\ Held(c)' = NoTask
  BY <1>2, <1>11, SMT DEF Held
<1> QED
  BY <1>2, <1>9, <1>10, <1>13, <1>14, <1>15, <1>16, OtherCPUs DEF OwnState, ControlInv

\* The handler takes the task of the first trap into its hands, and has none
\* before (trap_wait_queue.rs:164-190).
LEMMA TakeTrapStep ==
    ASSUME ControlInv, NEW c \in CPU, take_trap(c)
    PROVE  ControlInv' /\ Others(c) /\ Held(c) = NoTask /\ Held(c)' = Head(traps[c])
<1> DEFINE l == loc[c]
           t == Head(traps[c])
           last == Len(traps[c]) = 1
           space == SpaceOfTrap(t)
           mapped == SwitchTo(c, space)
           to == IF last THEN "peek" ELSE "handle"
           r == IF last THEN "handle" ELSE l.ret
           m == [l EXCEPT !.work = t, !.ret = r]
           q == Tail(traps[c])
<1>1. TypeOK
  BY DEF ControlInv
<1>2. /\ OwnState(c) /\ l \in Local /\ traps[c] \in Seq(Task \cup {NoTask}) /\ traps[c] # <<>>
      /\ vspace[c] \in Process /\ page_table[c] \in Process
      /\ pc[c] = "handler" /\ Resumes(c) = "handler"
  BY <1>1, SMT DEF ControlInv, TypeOK, take_trap, Goto, Resumes, Operating
<1>3. /\ pc' = [pc EXCEPT ![c] = to]
      /\ traps' = [traps EXCEPT ![c] = q]
      /\ vspace' = [vspace EXCEPT ![c] = space]
      /\ page_table' = [page_table EXCEPT ![c] = mapped]
      /\ UNCHANGED <<queueVars, tableVars, is_sleeping, in_kernel, current, taskVars, seen>>
  BY Zenon DEF take_trap, Goto
<1>4. loc' = [loc EXCEPT ![c] = m]
  <2>1. loc' = [loc EXCEPT ![c] = [l EXCEPT !.work = t, !.ret = IF last THEN "handle" ELSE @]]
    BY Zenon DEF take_trap
  <2>2. m = [l EXCEPT !.work = t, !.ret = IF last THEN "handle" ELSE @]
    BY <1>2, SMT
  <2> HIDE DEF m
  <2> QED
    BY <2>1, <2>2, Zenon
<1>5. current[c] = Handler /\ l.home = 0 /\ l.ret = "none"
  BY <1>2, SMT DEF OwnState, InCharge, Control, Operating
<1>6. t \in Task \cup {NoTask} /\ q \in Seq(Task \cup {NoTask})
  BY <1>2, SMT
<1>7. space \in Process
  BY <1>6, PidAssumption, Numbers DEF SpaceOfTrap
<1>8. mapped \in Process /\ (space # 0 => mapped # 0)
  <2>1. vspace[c] # 0 => page_table[c] # 0
    BY <1>2 DEF OwnState, Spaces
  <2> HIDE DEF space
  <2> QED
    BY <1>2, <1>7, <2>1, SMT DEF SwitchTo
<1>9. /\ to \in PC
      /\ to = "peek" => r = "handle"
      /\ to # "peek" => to = "handle" /\ r = l.ret
      /\ "handle" \in PC
  BY SMT DEF PC
<1> HIDE DEF t, space, mapped, to, q
<1>10. m \in Local /\ m.home = l.home /\ m.ret = r
  <2>1. m.home = l.home /\ m.ret = r
    <3> HIDE DEF l, r
    <3> QED
      BY <1>2, SMT
  <2>2. r \in PC \cup {"none"}
    BY <1>5, <1>9, Zenon
  <2>3. m \in Local
    <3> HIDE DEF l, r
    <3> QED
      BY <1>2, <1>6, <2>2, UpdatedMore, Zenon
  <2> QED
    BY <2>1, <2>3
<1> HIDE DEF m, r
<1>11. /\ loc' \in [CPU -> Local] /\ loc'[c] = m
       /\ \A d \in CPU \ {c} : loc'[d] = loc[d]
  BY <1>1, <1>4, <1>10, Writes, Zenon
<1>12. /\ pc' \in [CPU -> PC] /\ pc'[c] = to
       /\ \A d \in CPU \ {c} : pc'[d] = pc[d]
  BY <1>1, <1>3, <1>9, Goes, Zenon
<1>13. /\ traps' \in [CPU -> Seq(Task \cup {NoTask})]
       /\ \A d \in CPU \ {c} : traps'[d] = traps[d]
  BY <1>1, <1>3, <1>6, TrapsStep, Zenon
<1>14. /\ vspace' \in [CPU -> Process] /\ vspace'[c] = space
       /\ page_table' \in [CPU -> Process] /\ page_table'[c] = mapped
       /\ \A d \in CPU \ {c} : vspace'[d] = vspace[d] /\ page_table'[d] = page_table[d]
  BY <1>1, <1>3, <1>7, <1>8, SMT DEF TypeOK
<1>15. TypeOK'
  BY <1>1, <1>3, <1>11, <1>12, <1>13, <1>14, SMT DEF TypeOK, queueVars, tableVars, taskVars
<1>16. Others(c)
  BY <1>3, <1>11, <1>12, <1>13, <1>14, Zenon DEF Others
<1>17. Resumes(c)' = "handle"
  BY <1>9, <1>10, <1>11, <1>12, SMT DEF Resumes, Operating
<1>18. ~InUserMode(c) /\ ~InUserMode(c)'
  BY <1>2, <1>5, <1>9, <1>10, <1>11, <1>12, SMT DEF InUserMode
<1>19. Mode(c)'
  <2>1. in_kernel'[c] = in_kernel[c] /\ in_kernel[c] = TRUE
    BY <1>2, <1>3, <1>18, Zenon DEF OwnState, Mode
  <2> QED
    BY <1>18, <2>1, Zenon DEF Mode
<1>20. Control(c)' /\ InCharge(c)' /\ Popping(c)' /\ Spaces(c)' /\ Traps(c)'
  BY <1>2, <1>3, <1>5, <1>8, <1>9, <1>10, <1>11, <1>12, <1>14, <1>17, SMT
     DEF OwnState, Control, Operating, InCharge, Popping, Spaces, Traps
<1>21. Proper' /\ Contexts'
  BY <1>3 DEF ControlInv, Proper, queueVars, tableVars, taskVars, Contexts
<1>22. Held(c) = NoTask /\ Held(c)' = t
  <2>1. m.work = t
    <3> HIDE DEF l
    <3> QED
      BY <1>2, SMT DEF Local, m
  <2> QED
    BY <1>2, <1>11, <1>17, <2>1, SMT DEF Held
<1> QED
  BY <1>22, <1>15, <1>16, <1>19, <1>20, <1>21, OtherCPUs DEF OwnState, ControlInv, t

\* The handler is done with an interrupt, or with all traps, and has no task
\* in hand (trap_wait_queue.rs:108-120 and 190-191).
LEMMA HandlerStep ==
    ASSUME ControlInv, NEW c \in CPU, interrupt_done(c) \/ reschedule_handler(c)
    PROVE  ControlInv' /\ Others(c) /\ Held(c)' = Held(c)
<1> DEFINE l == loc[c]
           to == IF pc[c] = "handle" THEN "handler" ELSE "select"
           x == IF pc[c] = "handle" THEN current[c] ELSE NoTask
<1>1. TypeOK
  BY DEF ControlInv
<1>2. OwnState(c) /\ l \in Local /\ current[c] \in Task \cup {Handler, NoTask}
  BY <1>1, SMT DEF ControlInv, TypeOK
<1>3. /\ pc[c] \in {"handle", "handler"} /\ pc' = [pc EXCEPT ![c] = to]
      /\ UNCHANGED <<queueVars, tableVars, traps, is_sleeping, modeVars, taskVars, loc, seen>>
      /\ pc[c] = "handle" => l.work = NoTask
  <2>1. CASE interrupt_done(c)
    BY <2>1, SMT DEF interrupt_done, Goto, cpuVars, tableVars, taskVars
  <2>2. CASE reschedule_handler(c)
    BY <2>2, SMT DEF reschedule_handler, Goto
  <2> QED
    BY <2>1, <2>2
<1>4. current' = [current EXCEPT ![c] = x]
  <2>1. CASE interrupt_done(c)
    BY <1>1, <2>1, SMT DEF interrupt_done, Goto, cpuVars, TypeOK, tableVars, taskVars
  <2>2. CASE reschedule_handler(c)
    BY <2>2, SMT DEF reschedule_handler, Goto
  <2> QED
    BY <2>1, <2>2
<1>5. /\ to \in PC /\ x \in Task \cup {Handler, NoTask}
      /\ to = "handler" => x = current[c] /\ l.work = NoTask /\ pc[c] = "handle"
      /\ to # "handler" => to = "select" /\ x = NoTask /\ pc[c] = "handler"
  BY <1>2, <1>3, SMT DEF PC
<1> HIDE DEF to, x
<1>6. /\ pc' \in [CPU -> PC] /\ pc'[c] = to
      /\ \A d \in CPU \ {c} : pc'[d] = pc[d]
  BY <1>1, <1>3, <1>5, Goes, Zenon
<1>7. /\ current' \in [CPU -> Task \cup {Handler, NoTask}] /\ current'[c] = x
      /\ \A d \in CPU \ {c} : current'[d] = current[d]
  BY <1>1, <1>4, <1>5, Empties, Zenon
<1>8. TypeOK'
  BY <1>1, <1>3, <1>6, <1>7, SMT DEF TypeOK, queueVars, modeVars, spaceVars, tableVars, taskVars
<1>9. Others(c)
  BY <1>3, <1>6, <1>7, Zenon DEF Others, modeVars, spaceVars, tableVars, taskVars
<1>10. Resumes(c) = pc[c] /\ Resumes(c)' = to
  BY <1>3, <1>5, <1>6, SMT DEF Resumes, Operating
<1>11. l.home = 0 /\ l.ret = "none"
  BY <1>2, <1>3, <1>10, SMT DEF OwnState, Control, Operating
<1>12. ~InUserMode(c) /\ ~InUserMode(c)'
  BY <1>3, <1>5, <1>6, <1>11, SMT DEF InUserMode
<1>13. Mode(c)'
  <2>1. in_kernel'[c] = in_kernel[c] /\ in_kernel[c] = TRUE
    BY <1>2, <1>3, <1>12, Zenon DEF OwnState, Mode, modeVars, tableVars, taskVars
  <2> QED
    BY <1>12, <2>1, Zenon DEF Mode
<1>14. Control(c)' /\ InCharge(c)' /\ Popping(c)' /\ Spaces(c)' /\ Traps(c)'
  BY <1>2, <1>3, <1>5, <1>6, <1>7, <1>10, <1>11, SMT
     DEF OwnState, Control, Operating, InCharge, Popping, Spaces, Traps, modeVars, spaceVars,
         tableVars, taskVars
<1>15. Proper' /\ Contexts'
  BY <1>3 DEF ControlInv, Proper, queueVars, tableVars, taskVars, Contexts
<1>16. Held(c)' = Held(c)
  BY <1>3, <1>5, <1>10, SMT DEF Held
<1> QED
  BY <1>16, <1>8, <1>9, <1>13, <1>14, <1>15, OtherCPUs DEF OwnState, ControlInv

\* Every step of a CPU preserves ControlInv.
LEMMA Frame ==
    ASSUME ControlInv, NEW c \in CPU, Step(c) \/ Choice(c)
    PROVE  ControlInv' /\ Others(c)
<1>1. CASE Step(c)
  BY <1>1, ReadEntryStep, PopTaskStep, ScanEmptyStep, ScanPopStep, ScanNoneStep, SettleStep,
     StoreStep, RunPoppedStep, IntoKernelStep, WaitingStep, MarkStep, PeekStep, RequeueStep,
     ServeStep, WorkIsATask, TaskExitsStep, TakeTrapStep, HandlerStep, Zenon DEF Step
<1>2. CASE Choice(c)
  BY <1>2, InterruptStep, SyncTrapStep, BlockStep, WaitingStep, RequeueStep, WakeStep,
     ServeStep, Zenon DEF Choice
<1> QED
  BY <1>1, <1>2

\* At each place of the code a CPU has in hand what that place works with,
\* and is at the privilege level and in the address space it assumes
\* (main_loop.rs:348-722, scheduler.rs:280-463).
THEOREM ControlInvariance == Spec => []ControlInv
<1>1. ControlInv /\ [Next]_vars => ControlInv'
  <2> SUFFICES ASSUME ControlInv, [Next]_vars PROVE ControlInv'
    OBVIOUS
  <2>1. ASSUME NEW c \in CPU, Step(c) \/ Choice(c) PROVE ControlInv'
    BY <2>1, Frame
  <2>2. CASE UNCHANGED vars
    <3>1. TypeOK'
      BY <2>2, SMT
         DEF ControlInv, vars, queueVars, cpuVars, modeVars, spaceVars, TypeOK, tableVars,
             taskVars
    <3>2. \A c \in CPU : OwnState(c)'
      BY <2>2
         DEF ControlInv, vars, queueVars, cpuVars, modeVars, spaceVars, OwnState, Control,
             Resumes, InCharge, Popping, Spaces, Mode, InUserMode, Traps, tableVars, taskVars
    <3>3. Proper' /\ Contexts'
      BY <2>2 DEF ControlInv, vars, queueVars, Proper, tableVars, taskVars, Contexts
    <3> QED
      BY <3>1, <3>2, <3>3 DEF ControlInv
  <2> QED
    BY <2>1, <2>2 DEF Next
<1> QED
  BY <1>1, InitControl, PTL DEF Spec

\* The state keeps its shape (scheduler.rs:52-84, current.rs:23-93).
THEOREM TypeCorrect == Spec => []TypeOK
BY ControlInvariance, PTL DEF ControlInv

\* IN_KERNEL tells each CPU's privilege level whenever the next loop, a stack
\* handler or a source's address is chosen by it (current.rs:49-67,
\* main_loop.rs:53-57, 316-321 and 835-850).
THEOREM PrivilegeKnown == Spec => []PrivilegeIsKnown
<1>1. ControlInv => PrivilegeIsKnown
  BY Zenon DEF ControlInv, OwnState, Mode, PrivilegeIsKnown
<1> QED
  BY <1>1, ControlInvariance, PTL

-----------------------------------------------------------------------------
(* Address spaces, and what is run while traps wait.                       *)

\* With one user process there is no other address space to run in, and each
\* of its tasks runs in its own (main_loop.rs:446-461).
THEOREM OneUserProcessRunsInItsSpace ==
    PROCESS_NUM <= 2 => (Spec => []RunsInItsAddressSpace)
<1> SUFFICES ASSUME PROCESS_NUM <= 2 PROVE Spec => []RunsInItsAddressSpace
  OBVIOUS
<1>1. ControlInv => RunsInItsAddressSpace
  <2> SUFFICES ASSUME ControlInv, NEW c \in CPU, pc[c] = "run"
               PROVE  /\ vspace[c] = pid_of[current[c]]
                      /\ pid_of[current[c]] # 0 => page_table[c] = pid_of[current[c]]
    BY Zenon DEF RunsInItsAddressSpace
  <2>1. /\ vspace[c] = 0 <=> pid_of[current[c]] = 0
        /\ vspace[c] # 0 => page_table[c] # 0
        /\ current[c] \in Task
    BY SMT DEF ControlInv, OwnState, InCharge, Spaces, Resumes, Operating
  <2>2. vspace[c] \in Process /\ page_table[c] \in Process /\ pid_of[current[c]] \in Process
    BY <2>1, PidAssumption DEF ControlInv, TypeOK
  <2>3. \A p, q \in Process : p # 0 /\ q # 0 => p = q
    BY CpuAssumption, SMT DEF Process
  <2> QED
    BY <2>1, <2>2, <2>3
<1> QED
  BY <1>1, ControlInvariance, PTL

\* A task of the kernel runs only while no trap waits on its CPU.
KernelTasksAfterTraps ==
    \A c \in CPU : pc[c] = "run" /\ pid_of[current[c]] = 0 => traps[c] = <<>>

\* The kernel's pop asks the trap queue first and it wins every tie, so no
\* kernel task runs while a trap waits; a user's task may, its scheduler has
\* no trap queue (scheduler.rs:112-123 and 293-312).
THEOREM TrapsBeforeKernelTasks == Spec => []KernelTasksAfterTraps
<1>1. ControlInv => KernelTasksAfterTraps
  BY SMT DEF ControlInv, OwnState, Traps, Resumes, Operating, KernelTasksAfterTraps
<1> QED
  BY <1>1, ControlInvariance, PTL

\* Without user processes no task at all runs while a trap waits, and one
\* slot of each trap queue is enough (scheduler.rs:112-123 and 293-312).
THEOREM NoUsersTrapsFirst == PROCESS_NUM = 1 => (Spec => []TrapsBeforeTasks)
<1> SUFFICES ASSUME PROCESS_NUM = 1 PROVE Spec => []TrapsBeforeTasks
  OBVIOUS
<1>1. ControlInv => TrapsBeforeTasks
  <2> SUFFICES ASSUME ControlInv, NEW c \in CPU, pc[c] = "run" PROVE traps[c] = <<>>
    BY Zenon DEF TrapsBeforeTasks
  <2>1. current[c] \in Task /\ (pid_of[current[c]] = 0 => traps[c] = <<>>)
    BY SMT DEF ControlInv, OwnState, InCharge, Traps, Resumes, Operating
  <2>2. pid_of[current[c]] = 0
    BY <2>1, PidAssumption, SMT DEF Process
  <2> QED
    BY <2>1, <2>2
<1> QED
  BY <1>1, ControlInvariance, PTL

-----------------------------------------------------------------------------
(* Sleeping.                                                               *)

\* A CPU is marked as sleeping only from the second look until a trap has
\* woken it (main_loop.rs:418-442 and 132-151).
Awake == \A c \in CPU : is_sleeping[c] => pc[c] \in {"check", "decide", "wfi"}

\* Only wait_irqs can return with the mark still set; if it does not, every
\* step preserves Awake, and the entry code's assertion holds
\* (main_loop.rs:59-67).
LEMMA AwakeStep ==
    ASSUME ControlInv, Awake, NoPanic, ~WFI_MAY_RETURN, NEW c \in CPU, Step(c) \/ Choice(c)
    PROVE  Awake' /\ NoPanic'
<1>1. TypeOK /\ OwnState(c)
  BY DEF ControlInv
<1>2. Others(c)
  BY Frame
<1>3. /\ is_sleeping'[c] => pc'[c] \in {"check", "decide", "wfi"}
      /\ pc'[c] # "panic"
  <2> DEFINE Good == /\ is_sleeping'[c] => pc'[c] \in {"check", "decide", "wfi"}
                     /\ pc'[c] # "panic"
  <2>1. is_sleeping[c] => pc[c] \in {"check", "decide", "wfi"}
    BY DEF Awake
  <2>2. CASE process_schedule(c) \/ check_again(c)
    BY <1>1, <2>1, <2>2, SMT
       DEF process_schedule, check_again, ReadEntry, Goto, TypeOK, cpuVars, tableVars, taskVars
  <2>3. CASE \/ pop_task(c) \/ scan_empty(c) \/ scan_pop(c) \/ scan_none(c) \/ settle(c)
             \/ into_kernel(c) \/ mark(c) \/ peek(c)
    BY <1>1, <2>1, <2>3, SMT
       DEF pop_task, PopTask, scan_empty, scan_pop, scan_none, settle, into_kernel,
           mark, peek, Goto, TypeOK, cpuVars, tableVars, taskVars
  <2>4. CASE store(c)
    <3>1. /\ loc[c].ret \in {"popped", "select", "requeue", "run", "handler", "handle"}
          /\ pc[c] = "store"
      BY <1>1, <2>4, SMT DEF store, StoreEntry, Goto, OwnState, Control
    <3> QED
      BY <1>1, <2>1, <2>4, <3>1, SMT
         DEF store, StoreEntry, Goto, TypeOK, cpuVars, tableVars, taskVars
  <2>5. CASE wait_for_runnable_task(c) \/ stay_awake(c) \/ go_to_sleep(c) \/ interrupt(c)
    BY <1>1, <2>1, <2>5, SMT
       DEF wait_for_runnable_task, stay_awake, go_to_sleep, interrupt, Goto, TypeOK
  <2>6. CASE requeue(c) \/ task_done(c) \/ yield(c) \/ \E t \in Task :
           wake(c, t) \/ interrupt_wakes(c, t)
    <3> DEFINE Pushes(from) == \E t, ret, home : push_task(c, t, from, ret, home)
    <3>1. Pushes("run") \/ Pushes("requeue") \/ Pushes("handle")
      <4>1. requeue(c) => Pushes("requeue")
        BY Zenon DEF requeue
      <4>2. task_done(c) => Pushes("handle")
        BY Zenon DEF task_done
      <4>3. yield(c) => Pushes("run")
        BY Zenon DEF yield
      <4>4. ASSUME NEW t \in Task, wake(c, t) PROVE Pushes("run")
        BY <4>4, Zenon DEF wake
      <4>5. ASSUME NEW t \in Task, interrupt_wakes(c, t) PROVE Pushes("handle")
        BY <4>5, Zenon DEF interrupt_wakes
      <4> HIDE DEF Pushes
      <4> QED
        BY <2>6, <4>1, <4>2, <4>3, <4>4, <4>5
    <3>2. /\ pc[c] \in {"run", "requeue", "handle"} /\ pc'[c] = "mark"
          /\ UNCHANGED is_sleeping
      <4>1. ASSUME NEW from, Pushes(from) PROVE /\ pc[c] = from /\ UNCHANGED is_sleeping
                                                /\ pc' = [pc EXCEPT ![c] = "mark"]
        BY <4>1, Zenon DEF push_task, Goto
      <4> HIDE DEF Pushes
      <4>2. pc \in [CPU -> PC]
        BY <1>1 DEF TypeOK
      <4> QED
        BY <3>1, <4>1, <4>2, SMT
    <3>3. ~is_sleeping[c]
      BY <2>1, <3>2
    <3> QED
      BY <3>2, <3>3
  <2>7. CASE take_trap(c) \/ interrupt_done(c) \/ reschedule_handler(c) \/ block(c)
             \/ task_exits(c)
    BY <1>1, <2>1, <2>7, SMT
       DEF take_trap, interrupt_done, task_exits, reschedule_handler, block, Goto, TypeOK,
           cpuVars, tableVars, taskVars
  <2>8. CASE sync_trap(c)
    <3>1. ~is_sleeping[c]
      BY <2>1, <2>8, SMT DEF sync_trap
    <3> QED
      BY <1>1, <2>8, <3>1, SMT DEF sync_trap, TypeOK
  <2>9. CASE wfi_returns(c)
    BY <2>9 DEF wfi_returns
  <2>10. CASE run_popped(c)
    <3>1. UNCHANGED is_sleeping /\ pc[c] = "popped"
      BY <2>10, Zenon DEF run_popped, Goto
    <3>2. pc'[c] \in {"handler", "run", "mark", "peek", "store"}
      <4> DEFINE to == IF loc[c].task = Handler THEN "handler" ELSE context[loc[c].task].at
      <4>1. pc' = [pc EXCEPT ![c] = to]
        BY <2>10, SMT DEF run_popped, Goto
      <4>2. to \in {"handler", "run", "mark", "peek", "store"}
        <5>1. loc[c].task \in Task \/ loc[c].task = Handler
          BY <1>1, <2>10, SMT DEF run_popped, TypeOK, Local
        <5> QED
          BY <1>1, <5>1 DEF TypeOK
      <4> HIDE DEF to
      <4> QED
        BY <1>1, <4>1, <4>2, SMT DEF TypeOK
    <3> QED
      BY <2>1, <3>1, <3>2
  <2> QED
    BY <2>2, <2>3, <2>4, <2>5, <2>6, <2>7, <2>8, <2>9, <2>10 DEF Step, Choice
<1> QED
  BY <1>2, <1>3, Zenon DEF Others, Awake, NoPanic

\* If WFI returns with a trap only, a CPU that runs is not marked as sleeping
\* (main_loop.rs:418-442).
THEOREM AwakeInvariance == ~WFI_MAY_RETURN => (Spec => [](Awake /\ NoPanic))
<1> SUFFICES ASSUME ~WFI_MAY_RETURN PROVE Spec => [](Awake /\ NoPanic)
  OBVIOUS
<1>1. Init => Awake /\ NoPanic
  BY SMT DEF Init, Awake, NoPanic
<1>2. ControlInv /\ (Awake /\ NoPanic) /\ [Next]_vars => (Awake /\ NoPanic)'
  <2>1. CASE UNCHANGED vars
    BY <2>1 DEF vars, cpuVars, Awake, NoPanic, tableVars, taskVars
  <2>2. CASE Next
    BY <2>2, AwakeStep, Zenon DEF Next
  <2> QED
    BY <2>1, <2>2
<1> QED
  BY <1>1, <1>2, ControlInvariance, PTL DEF Spec

\* Then the entry code never finds a running task on a CPU that is marked as
\* sleeping (the assertion at main_loop.rs:65).
THEOREM NoPanicIfWfiWaits == ~WFI_MAY_RETURN => (Spec => []NoPanic)
BY AwakeInvariance, PTL

-----------------------------------------------------------------------------
(* Where each task is.                                                     *)

\* The task waits in the ready queue of its process and its level.
InReady(t) == t \in Elements(queues[pid_of[t]][priority[t]])

\* The task waits in the CPU's trap queue.
Trapped(c, t) == t \in Elements(traps[c])

\* The task is somewhere, and nowhere else at the same time.
OnePlace(t) ==
    /\ InReady(t) \/ t \in outside \/ \E c \in CPU : Trapped(c, t) \/ Held(c) = t
    /\ InReady(t) => t \notin outside
    /\ \A c \in CPU : Trapped(c, t) \/ Held(c) = t => ~InReady(t) /\ t \notin outside
    /\ \A c, d \in CPU : Trapped(c, t) => Held(d) # t /\ (Trapped(d, t) => d = c)
    /\ \A c, d \in CPU : Held(c) = t /\ Held(d) = t => d = c

\* No task waits twice in a trap queue; NoTask, an interrupt, may.
TasksOnce(s) == \A i, j \in 1 .. Len(s) : s[i] \in Task /\ s[i] = s[j] => i = j

\* The second part of the inductive invariant.
PlaceInv ==
    /\ \A t \in Task : OnePlace(t)
    /\ \A p \in Process, q \in Level : NoDuplicates(queues[p][q])
    /\ \A c \in CPU : TasksOnce(traps[c])

\* At first the OS has every task.
LEMMA InitPlace == Init => PlaceInv
<1> SUFFICES ASSUME Init PROVE PlaceInv
  OBVIOUS
<1>1. \A p \in Process, q \in Level : queues[p][q] = <<>>
  BY SMT DEF Init, EmptyQueues
<1>2. \A c \in CPU : traps[c] = <<>> /\ Held(c) = NoTask
  BY SMT DEF Init, Held, Resumes, Operating
<1>3. ASSUME NEW t \in Task PROVE OnePlace(t)
  <2>1. pid_of[t] \in Process /\ priority[t] \in Level
    BY PidAssumption, PriorityAssumption
  <2>2. ~InReady(t)
    BY <1>1, <2>1, SMT DEF InReady, Elements
  <2>3. \A c \in CPU : ~Trapped(c, t) /\ Held(c) # t
    BY <1>2, NoTaskAssumption, SMT DEF Trapped, Elements
  <2>4. t \in outside
    BY DEF Init
  <2> QED
    BY <2>2, <2>3, <2>4 DEF OnePlace
<1>4. \A p \in Process, q \in Level : NoDuplicates(queues[p][q])
  BY <1>1, SMT DEF NoDuplicates
<1>5. \A c \in CPU : TasksOnce(traps[c])
  BY <1>2, SMT DEF TasksOnce
<1> QED
  BY <1>3, <1>4, <1>5 DEF PlaceInv

\* The others hold what they held.
LEMMA OthersHold ==
    ASSUME NEW c \in CPU, Others(c)
    PROVE  \A d \in CPU \ {c} : Held(d)' = Held(d) /\ \A t \in Task : Trapped(d, t)'
              <=> Trapped(d, t)
<1> TAKE d \in CPU \ {c}
<1>1. /\ pc'[d] = pc[d] /\ loc'[d] = loc[d] /\ current'[d] = current[d] /\ traps'[d] = traps[d]
  BY DEF Others
<1>2. Resumes(d)' = Resumes(d)
  BY <1>1 DEF Resumes
<1> QED
  BY <1>1, <1>2 DEF Held, Trapped

\* A task that does not move is in one place as before.
LEMMA Stays ==
    ASSUME NEW c \in CPU, Others(c), NEW t \in Task, OnePlace(t),
           InReady(t)' <=> InReady(t),
           t \in outside' <=> t \in outside,
           Trapped(c, t)' <=> Trapped(c, t),
           (Held(c)' = t) <=> (Held(c) = t)
    PROVE  OnePlace(t)'
<1>1. \A d \in CPU : (Trapped(d, t)' <=> Trapped(d, t)) /\ (Held(d)' = t <=> Held(d) = t)
  <2> TAKE d \in CPU
  <2>1. CASE d = c
    BY <2>1
  <2>2. CASE d # c
    BY <2>2, OthersHold
  <2> QED
    BY <2>1, <2>2
<1> QED
  BY <1>1 DEF OnePlace

\* A task that moves between a CPU's hands, its trap queue, the ready queues
\* and the OS is in one place again.
LEMMA Moves ==
    ASSUME NEW c \in CPU, Others(c), NEW t \in Task, OnePlace(t),
           InReady(t) \/ t \in outside \/ Trapped(c, t) \/ Held(c) = t,
           \/ InReady(t)' /\ t \notin outside' /\ ~Trapped(c, t)' /\ Held(c)' # t
           \/ ~InReady(t)' /\ t \in outside' /\ ~Trapped(c, t)' /\ Held(c)' # t
           \/ ~InReady(t)' /\ t \notin outside' /\ Trapped(c, t)' /\ Held(c)' # t
           \/ ~InReady(t)' /\ t \notin outside' /\ ~Trapped(c, t)' /\ Held(c)' = t
    PROVE  OnePlace(t)'
<1>1. ASSUME NEW d \in CPU, d # c PROVE ~Trapped(d, t)' /\ Held(d)' # t
  <2>1. ~Trapped(d, t) /\ Held(d) # t
    BY <1>1 DEF OnePlace
  <2> QED
    BY <1>1, <2>1, OthersHold
<1> QED
  BY <1>1 DEF OnePlace

\* push_task adds the task to the ready tasks, once, and no other.
LEMMA ReadyAfterPush ==
    ASSUME TypeOK, Proper, PlaceInv, NEW t \in Task, ~InReady(t),
           queues' = [queues EXCEPT ![pid_of[t]] = PushBack(@, t)]
    PROVE  /\ InReady(t)'
           /\ \A x \in Task \ {t} : InReady(x)' <=> InReady(x)
           /\ \A p \in Process, q \in Level : NoDuplicates(queues'[p][q])
<1> DEFINE p == pid_of[t]
           q == priority[t]
<1>1. /\ p \in Process /\ q \in Level
      /\ queues'[p][q] = Append(queues[p][q], t)
      /\ \A a \in Process, b \in Level : a # p \/ b # q => queues'[a][b] = queues[a][b]
  BY Pushed, Zenon
<1>2. /\ queues[p][q] \in Seq(Task)
      /\ NoDuplicates(queues[p][q])
      /\ t \notin Elements(queues[p][q])
  BY <1>1 DEF TypeOK, PlaceInv, InReady
<1> HIDE DEF p, q
<1>3. /\ Elements(Append(queues[p][q], t)) = Elements(queues[p][q]) \cup {t}
      /\ NoDuplicates(Append(queues[p][q], t))
  BY <1>2, AppendFacts
<1>4. InReady(t)'
  BY <1>1, <1>3, Zenon DEF InReady, p, q
<1>5. ASSUME NEW x \in Task \ {t} PROVE InReady(x)' <=> InReady(x)
  <2>1. pid_of[x] \in Process /\ priority[x] \in Level
    BY PidAssumption, PriorityAssumption
  <2>2. CASE pid_of[x] # p \/ priority[x] # q
    BY <1>1, <2>1, <2>2, Zenon DEF InReady
  <2>3. CASE pid_of[x] = p /\ priority[x] = q
    BY <1>1, <1>3, <2>3, Zenon DEF InReady
  <2> QED
    BY <2>2, <2>3
<1>6. ASSUME NEW a \in Process, NEW b \in Level PROVE NoDuplicates(queues'[a][b])
  <2>1. CASE a # p \/ b # q
    BY <1>1, <2>1, Zenon DEF PlaceInv
  <2>2. CASE a = p /\ b = q
    BY <1>1, <1>3, <2>2, Zenon
  <2> QED
    BY <2>1, <2>2
<1> QED
  BY <1>4, <1>5, <1>6

\* A pop takes the first task of a level out of the ready tasks, and no
\* other.
LEMMA ReadyAfterPop ==
    ASSUME TypeOK, Proper, PlaceInv, NEW p \in Process, NEW q \in Level, queues[p][q] # <<>>,
           queues' = [queues EXCEPT ![p] = PopFront(@, q)]
    PROVE  /\ \A t : t = Head(queues[p][q]) =>
                 /\ t \in Task /\ InReady(t) /\ ~InReady(t)'
                 /\ \A x \in Task \ {t} : InReady(x)' <=> InReady(x)
           /\ \A a \in Process, b \in Level : NoDuplicates(queues'[a][b])
<1>1. /\ Head(queues[p][q]) \in Task
      /\ pid_of[Head(queues[p][q])] = p /\ priority[Head(queues[p][q])] = q
      /\ queues'[p][q] = Tail(queues[p][q])
      /\ \A a \in Process, b \in Level : a # p \/ b # q => queues'[a][b] = queues[a][b]
  <2>1. queues[p][q] \in Seq(Task) /\ Head(queues[p][q]) \in Elements(queues[p][q])
    BY TailFacts, SMT DEF TypeOK
  <2>2. /\ Head(queues[p][q]) \in Task
        /\ pid_of[Head(queues[p][q])] = p /\ priority[Head(queues[p][q])] = q
    BY <2>1, SMT DEF Proper
  <2>3. /\ queues'[p][q] = Tail(queues[p][q])
        /\ \A a \in Process, b \in Level : a # p \/ b # q => queues'[a][b] = queues[a][b]
    BY SMT DEF TypeOK, PopFront
  <2> QED
    BY <2>2, <2>3
<1> SUFFICES ASSUME NEW t, t = Head(queues[p][q])
             PROVE  /\ t \in Task /\ InReady(t) /\ ~InReady(t)'
                    /\ \A x \in Task \ {t} : InReady(x)' <=> InReady(x)
                    /\ \A a \in Process, b \in Level : NoDuplicates(queues'[a][b])
  OBVIOUS
<1>2. /\ t \in Task /\ pid_of[t] = p /\ priority[t] = q
      /\ queues'[p][q] = Tail(queues[p][q])
      /\ \A a \in Process, b \in Level : a # p \/ b # q => queues'[a][b] = queues[a][b]
  BY <1>1
<1>3. queues[p][q] \in Seq(Task) /\ NoDuplicates(queues[p][q])
  BY DEF TypeOK, PlaceInv
<1>4. /\ Elements(queues[p][q]) = {t} \cup Elements(Tail(queues[p][q]))
      /\ NoDuplicates(Tail(queues[p][q])) /\ t \notin Elements(Tail(queues[p][q]))
  BY <1>3, TailFacts, Zenon
<1>5. InReady(t) /\ ~InReady(t)'
  BY <1>2, <1>4, Zenon DEF InReady
<1>6. ASSUME NEW x \in Task \ {t} PROVE InReady(x)' <=> InReady(x)
  <2>1. pid_of[x] \in Process /\ priority[x] \in Level
    BY PidAssumption, PriorityAssumption
  <2>2. CASE pid_of[x] # p \/ priority[x] # q
    BY <1>2, <2>1, <2>2, Zenon DEF InReady
  <2>3. CASE pid_of[x] = p /\ priority[x] = q
    BY <1>2, <1>4, <2>3, Zenon DEF InReady
  <2> QED
    BY <2>2, <2>3
<1>7. ASSUME NEW a \in Process, NEW b \in Level PROVE NoDuplicates(queues'[a][b])
  <2>1. CASE a # p \/ b # q
    BY <1>2, <2>1, Zenon DEF PlaceInv
  <2>2. CASE a = p /\ b = q
    BY <1>2, <1>4, <2>2, Zenon
  <2> QED
    BY <2>1, <2>2
<1> QED
  BY <1>2, <1>5, <1>6, <1>7

\* push_trap adds a task to the queue's, once (trap_wait_queue.rs:95-105).
LEMMA TrapQueued ==
    ASSUME NEW s \in Seq(Task \cup {NoTask}), NEW x \in Task \cup {NoTask}
    PROVE  /\ Elements(Append(s, x)) = Elements(s) \cup {x}
           /\ TasksOnce(s) /\ (x \in Task => x \notin Elements(s)) => TasksOnce(Append(s, x))
<1>1. /\ \A i \in 1 .. Len(s) : Append(s, x)[i] = s[i]
      /\ Append(s, x)[Len(s) + 1] = x
      /\ Len(s) \in Nat /\ Len(Append(s, x)) = Len(s) + 1
  BY SMT
<1>2. ASSUME TasksOnce(s), x \in Task => x \notin Elements(s) PROVE TasksOnce(Append(s, x))
  BY <1>1, <1>2, SMT DEF TasksOnce, Elements
<1> QED
  BY <1>2, AppendFacts

\* The handler takes one task, which is in the queue no more.
LEMMA TrapDequeued ==
    ASSUME NEW s \in Seq(Task \cup {NoTask}), s # <<>>, TasksOnce(s)
    PROVE  /\ Elements(s) = {Head(s)} \cup Elements(Tail(s))
           /\ TasksOnce(Tail(s))
           /\ Head(s) \in Task => Head(s) \notin Elements(Tail(s))
<1>1. /\ Len(Tail(s)) = Len(s) - 1 /\ Len(s) \in Nat \ {0} /\ Head(s) = s[1]
      /\ \A i \in 1 .. Len(Tail(s)) : Tail(s)[i] = s[i + 1]
  BY SMT
<1>2. TasksOnce(Tail(s))
  BY <1>1, SMT DEF TasksOnce
<1>3. Head(s) \in Task => Head(s) \notin Elements(Tail(s))
  BY <1>1, SMT DEF TasksOnce, Elements
<1> QED
  BY <1>2, <1>3, TailFacts

\* A step that moves no task.
LEMMA QuietPlaces ==
    ASSUME PlaceInv, NEW c \in CPU, Others(c), UNCHANGED <<queues, outside, traps>>,
           Held(c)' = Held(c)
    PROVE  PlaceInv'
<1>1. ASSUME NEW t \in Task PROVE OnePlace(t)'
  <2>1. OnePlace(t)
    BY DEF PlaceInv
  <2>2. (InReady(t)' <=> InReady(t)) /\ (Trapped(c, t)' <=> Trapped(c, t))
    BY DEF InReady, Trapped
  <2> QED
    BY <2>1, <2>2, Stays
<1> QED
  BY <1>1 DEF PlaceInv

\* A task goes into its ready queue, from the CPU's hands or the OS's.
LEMMA PushPlaces ==
    ASSUME ControlInv, PlaceInv, NEW c \in CPU, Others(c), NEW t \in Task,
           queues' = [queues EXCEPT ![pid_of[t]] = PushBack(@, t)], UNCHANGED traps,
           \/ Held(c) = t /\ Held(c)' = NoTask /\ outside' = outside
           \/ t \in outside /\ outside' = outside \ {t} /\ Held(c)' = Held(c)
    PROVE  PlaceInv'
<1>1. TypeOK /\ Proper /\ ~InReady(t) /\ NoTask \notin Task
  BY NoTaskAssumption DEF ControlInv, PlaceInv, OnePlace
<1>2. /\ InReady(t)'
      /\ \A x \in Task \ {t} : InReady(x)' <=> InReady(x)
      /\ \A p \in Process, q \in Level : NoDuplicates(queues'[p][q])
  BY <1>1, ReadyAfterPush, Zenon
<1>3. \A x \in Task : Trapped(c, x)' <=> Trapped(c, x)
  BY DEF Trapped
<1>4. OnePlace(t)'
  <2>1. OnePlace(t)
    BY DEF PlaceInv
  <2>2. t \in outside \/ Held(c) = t
    OBVIOUS
  <2>3. ~Trapped(c, t)
    BY <2>1, <2>2 DEF OnePlace
  <2>4. t \notin outside' /\ Held(c)' # t
    BY <1>1, <2>1 DEF OnePlace
  <2> QED
    BY <1>2, <1>3, <2>1, <2>2, <2>3, <2>4, Moves
<1>5. ASSUME NEW x \in Task, x # t PROVE OnePlace(x)'
  <2>1. OnePlace(x)
    BY DEF PlaceInv
  <2>2. (x \in outside' <=> x \in outside) /\ (Held(c)' = x <=> Held(c) = x)
    BY <1>1, <1>5
  <2>3. InReady(x)' <=> InReady(x)
    BY <1>2, <1>5
  <2> QED
    BY <1>3, <2>1, <2>2, <2>3, Stays
<1> QED
  BY <1>2, <1>4, <1>5 DEF PlaceInv

\* A task goes from its ready queue into the CPU's hands.
LEMMA PopPlaces ==
    ASSUME ControlInv, PlaceInv, NEW c \in CPU, Others(c), NEW p \in Process, NEW q \in Level,
           queues[p][q] # <<>>, queues' = [queues EXCEPT ![p] = PopFront(@, q)],
           UNCHANGED <<traps, outside>>,
           Held(c) = NoTask, Held(c)' = Head(queues[p][q])
    PROVE  PlaceInv'
<1> DEFINE t == Head(queues[p][q])
<1>1. TypeOK /\ Proper /\ NoTask \notin Task
  BY NoTaskAssumption DEF ControlInv
<1>2. /\ \A u : u = Head(queues[p][q]) =>
           /\ u \in Task /\ InReady(u) /\ ~InReady(u)'
           /\ \A x \in Task \ {u} : InReady(x)' <=> InReady(x)
      /\ \A a \in Process, b \in Level : NoDuplicates(queues'[a][b])
  BY <1>1, ReadyAfterPop
<1>3. PICK t0 : t0 = Head(queues[p][q])
  OBVIOUS
<1>4. /\ t0 \in Task /\ InReady(t0) /\ ~InReady(t0)'
      /\ \A x \in Task \ {t0} : InReady(x)' <=> InReady(x)
  BY <1>2, <1>3
<1>5. \A x \in Task : Trapped(c, x)' <=> Trapped(c, x)
  BY DEF Trapped
<1>6. OnePlace(t0)'
  <2>1. OnePlace(t0)
    BY <1>4 DEF PlaceInv
  <2>2. t0 \notin outside' /\ ~Trapped(c, t0)
    BY <1>4, <2>1 DEF OnePlace
  <2>3. Held(c)' = t0
    BY <1>3
  <2> QED
    BY <1>4, <1>5, <2>1, <2>2, <2>3, Moves
<1>7. ASSUME NEW x \in Task, x # t0 PROVE OnePlace(x)'
  <2>1. OnePlace(x)
    BY DEF PlaceInv
  <2>2. Held(c)' = x <=> Held(c) = x
    BY <1>1, <1>3, <1>7
  <2>3. InReady(x)' <=> InReady(x)
    BY <1>4, <1>7
  <2> QED
    BY <1>5, <2>1, <2>2, <2>3, Stays
<1> QED
  BY <1>2, <1>6, <1>7 DEF PlaceInv

\* A task goes from the CPU's hands into the OS's.
LEMMA BlockPlaces ==
    ASSUME ControlInv, PlaceInv, NEW c \in CPU, Others(c), UNCHANGED <<queues, traps>>,
           Held(c) \in Task, Held(c)' = NoTask, outside' = outside \cup {Held(c)}
    PROVE  PlaceInv'
<1>1. PICK t \in Task : Held(c) = t
  OBVIOUS
<1>2. \A x \in Task :
         (InReady(x)' <=> InReady(x)) /\ (Trapped(c, x)' <=> Trapped(c, x)) /\ Held(c)' # x
  BY NoTaskAssumption DEF InReady, Trapped
<1>3. OnePlace(t)'
  <2>1. OnePlace(t)
    BY DEF PlaceInv
  <2>2. ~InReady(t) /\ ~Trapped(c, t) /\ t \in outside'
    BY <1>1, <2>1 DEF OnePlace
  <2> QED
    BY <1>1, <1>2, <2>1, <2>2, Moves
<1>4. ASSUME NEW x \in Task, x # t PROVE OnePlace(x)'
  <2>1. OnePlace(x)
    BY DEF PlaceInv
  <2>2. (x \in outside' <=> x \in outside) /\ (Held(c)' = x <=> Held(c) = x)
    BY <1>1, <1>2, <1>4
  <2> QED
    BY <1>2, <2>1, <2>2, Stays
<1> QED
  BY <1>3, <1>4 DEF PlaceInv

\* A task goes from the CPU's hands into its trap queue, or an interrupt is
\* queued.
LEMMA TrapPlaces ==
    ASSUME ControlInv, PlaceInv, NEW c \in CPU, Others(c), UNCHANGED <<queues, outside>>,
           NEW x \in Task \cup {NoTask}, traps' = [traps EXCEPT ![c] = Append(@, x)],
           \/ x = NoTask /\ Held(c)' = Held(c)
           \/ x \in Task /\ Held(c) = x /\ Held(c)' = NoTask
    PROVE  PlaceInv'
<1>1. /\ traps[c] \in Seq(Task \cup {NoTask}) /\ TasksOnce(traps[c]) /\ NoTask \notin Task
      /\ traps'[c] = Append(traps[c], x)
      /\ \A d \in CPU \ {c} : traps'[d] = traps[d]
  BY NoTaskAssumption, SMT DEF ControlInv, TypeOK, PlaceInv
<1>2. x \in Task => OnePlace(x)
  BY DEF PlaceInv
<1>3. /\ Elements(traps'[c]) = Elements(traps[c]) \cup {x}
      /\ TasksOnce(traps'[c])
  <2>1. x \in Task => x \notin Elements(traps[c])
    BY <1>1, <1>2 DEF OnePlace, Trapped
  <2>2. /\ Elements(Append(traps[c], x)) = Elements(traps[c]) \cup {x}
        /\ TasksOnce(Append(traps[c], x))
    BY <1>1, <2>1, TrapQueued, Zenon
  <2> QED
    BY <1>1, <2>2
<1>4. \A t \in Task : InReady(t)' <=> InReady(t)
  BY DEF InReady
<1>5. ASSUME x \in Task PROVE OnePlace(x)'
  <2>1. Trapped(c, x)' /\ Held(c)' # x
    BY <1>1, <1>3, <1>5 DEF Trapped
  <2>2. ~InReady(x) /\ x \notin outside /\ Held(c) = x
    BY <1>1, <1>2, <1>5 DEF OnePlace
  <2> QED
    BY <1>2, <1>4, <1>5, <2>1, <2>2, Moves
<1>6. ASSUME NEW t \in Task, t # x PROVE OnePlace(t)'
  <2>1. OnePlace(t)
    BY DEF PlaceInv
  <2>2. (Trapped(c, t)' <=> Trapped(c, t)) /\ (Held(c)' = t <=> Held(c) = t)
    BY <1>1, <1>3, <1>6 DEF Trapped
  <2> QED
    BY <1>4, <2>1, <2>2, Stays
<1>7. ASSUME NEW d \in CPU PROVE TasksOnce(traps'[d])
  BY <1>1, <1>3 DEF PlaceInv
<1> QED
  BY <1>5, <1>6, <1>7 DEF PlaceInv

\* A task goes from the CPU's trap queue into its hands.
LEMMA TakePlaces ==
    ASSUME ControlInv, PlaceInv, NEW c \in CPU, Others(c), UNCHANGED <<queues, outside>>,
           traps[c] # <<>>, traps' = [traps EXCEPT ![c] = Tail(@)],
           Held(c) = NoTask, Held(c)' = Head(traps[c])
    PROVE  PlaceInv'
<1>1. /\ traps[c] \in Seq(Task \cup {NoTask}) /\ TasksOnce(traps[c]) /\ NoTask \notin Task
      /\ traps'[c] = Tail(traps[c])
      /\ \A d \in CPU \ {c} : traps'[d] = traps[d]
  BY NoTaskAssumption, SMT DEF ControlInv, TypeOK, PlaceInv
<1>2. PICK x : x = Head(traps[c])
  OBVIOUS
<1>3. /\ Elements(traps[c]) = {x} \cup Elements(traps'[c])
      /\ TasksOnce(traps'[c])
      /\ x \in Task => x \notin Elements(traps'[c])
  <2>1. /\ Elements(traps[c]) = {Head(traps[c])} \cup Elements(Tail(traps[c]))
        /\ TasksOnce(Tail(traps[c]))
        /\ Head(traps[c]) \in Task => Head(traps[c]) \notin Elements(Tail(traps[c]))
    BY <1>1, TrapDequeued, Zenon
  <2> QED
    BY <1>1, <1>2, <2>1
<1>4. \A t \in Task : InReady(t)' <=> InReady(t)
  BY DEF InReady
<1>5. ASSUME x \in Task PROVE OnePlace(x)'
  <2>1. Trapped(c, x) /\ ~Trapped(c, x)' /\ Held(c)' = x
    BY <1>2, <1>3, <1>5, Zenon DEF Trapped
  <2>2. OnePlace(x)
    BY <1>5 DEF PlaceInv
  <2>3. ~InReady(x) /\ x \notin outside
    BY <2>1, <2>2 DEF OnePlace
  <2> QED
    BY <1>4, <1>5, <2>1, <2>2, <2>3, Moves
<1>6. ASSUME NEW t \in Task, t # x PROVE OnePlace(t)'
  <2>1. OnePlace(t)
    BY DEF PlaceInv
  <2>2. Trapped(c, t)' <=> Trapped(c, t)
    BY <1>3, <1>6 DEF Trapped
  <2>3. Held(c)' = t <=> Held(c) = t
    BY <1>1, <1>2, <1>6
  <2> QED
    BY <1>4, <2>1, <2>2, <2>3, Stays
<1>7. ASSUME NEW d \in CPU PROVE TasksOnce(traps'[d])
  BY <1>1, <1>3 DEF PlaceInv
<1> QED
  BY <1>5, <1>6, <1>7 DEF PlaceInv

\* Each step moves at most one task and so preserves PlaceInv, as long as no
\* CPU that runs a task is marked as sleeping: an interrupt would drop it
\* (main_loop.rs:132-151).
LEMMA PlaceStep ==
    ASSUME ControlInv, PlaceInv, NEW c \in CPU, Step(c) \/ Choice(c),
           Resumes(c) = "run" => ~is_sleeping[c]
    PROVE  PlaceInv'
<1>1. Others(c) /\ TypeOK /\ OwnState(c)
  BY Frame DEF ControlInv
<1>2. CASE \/ process_schedule(c) \/ check_again(c) \/ pop_task(c) \/ scan_empty(c)
           \/ scan_none(c) \/ settle(c) \/ store(c) \/ run_popped(c) \/ into_kernel(c)
           \/ wait_for_runnable_task(c) \/ stay_awake(c) \/ go_to_sleep(c) \/ wfi_returns(c)
           \/ mark(c) \/ peek(c) \/ interrupt_done(c) \/ reschedule_handler(c)
  <2>1. Held(c)' = Held(c)
    BY <1>2, ReadEntryStep, PopTaskStep, ScanEmptyStep, ScanNoneStep, SettleStep, StoreStep,
       RunPoppedStep, IntoKernelStep, WaitingStep, MarkStep, PeekStep, HandlerStep, Zenon
  <2>2. UNCHANGED <<queues, outside, traps>>
    BY <1>2, Zenon
       DEF process_schedule, check_again, ReadEntry, pop_task, PopTask, scan_empty, scan_none,
           settle, store, StoreEntry, run_popped, into_kernel, wait_for_runnable_task,
           stay_awake, go_to_sleep, wfi_returns, mark, peek, interrupt_done, reschedule_handler,
           queueVars, cpuVars, tableVars, taskVars
  <2> QED
    BY <1>1, <2>1, <2>2, QuietPlaces
<1>3. CASE scan_pop(c)
  <2>1. /\ loc[c].pid \in Process /\ loc[c].prio \in Level
        /\ queues[loc[c].pid][loc[c].prio] # <<>>
        /\ queues' = [queues EXCEPT ![loc[c].pid] = PopFront(@, loc[c].prio)]
        /\ UNCHANGED <<traps, outside>>
    BY <1>1, <1>3, SMT DEF scan_pop, TypeOK, Local, cpuVars, tableVars, taskVars
  <2>2. Held(c) = NoTask /\ Held(c)' = Head(queues[loc[c].pid][loc[c].prio])
    BY <1>3, ScanPopStep
  <2> QED
    BY <1>1, <2>1, <2>2, PopPlaces
<1>4. CASE yield(c) \/ requeue(c)
  <2>1. PICK t \in Task : t = current[c] /\ Held(c) = t /\ Held(c)' = NoTask
    BY <1>4, RequeueStep
  <2>2. /\ queues' = [queues EXCEPT ![pid_of[t]] = PushBack(@, t)]
        /\ UNCHANGED <<traps, outside>>
    BY <1>4, <2>1, Zenon DEF yield, requeue, push_task
  <2> QED
    BY <1>1, <2>1, <2>2, PushPlaces
<1>5. ASSUME NEW t \in Task, wake(c, t) \/ interrupt_wakes(c, t) PROVE PlaceInv'
  <2>1. /\ queues' = [queues EXCEPT ![pid_of[t]] = PushBack(@, t)] /\ UNCHANGED traps
        /\ t \in outside /\ outside' = outside \ {t}
    BY <1>5, Zenon DEF wake, interrupt_wakes, push_task
  <2>2. Held(c)' = Held(c)
    <3>1. CASE wake(c, t)
      BY <3>1, WakeStep
    <3>2. CASE interrupt_wakes(c, t)
      BY <3>2, ServeStep DEF interrupt_wakes
    <3> QED
      BY <1>5, <3>1, <3>2
  <2> QED
    BY <1>1, <2>1, <2>2, PushPlaces
<1>6. CASE task_done(c)
  <2>1. PICK t \in Task : t = loc[c].work
    BY <1>6, WorkIsATask
  <2>2. Held(c) = t /\ Held(c)' = NoTask
    BY <1>6, <2>1, ServeStep
  <2>3. /\ queues' = [queues EXCEPT ![pid_of[t]] = PushBack(@, t)]
        /\ UNCHANGED <<traps, outside>>
    BY <1>6, <2>1, Zenon DEF task_done, push_task
  <2> QED
    BY <1>1, <2>2, <2>3, PushPlaces
<1>7. CASE block(c)
  <2>1. Held(c) = current[c] /\ Held(c) \in Task /\ Held(c)' = NoTask
    BY <1>7, BlockStep
  <2>2. outside' = outside \cup {current[c]} /\ UNCHANGED <<queues, traps>>
    BY <1>7, Zenon DEF block, queueVars, tableVars, taskVars
  <2> QED
    BY <1>1, <2>1, <2>2, BlockPlaces
<1>12. CASE task_exits(c)
  <2>1. Held(c) = loc[c].work /\ Held(c) \in Task /\ Held(c)' = NoTask
    BY <1>12, TaskExitsStep
  <2>2. outside' = outside \cup {loc[c].work} /\ UNCHANGED <<queues, traps>>
    BY <1>12, Zenon DEF task_exits, queueVars, cpuVars
  <2> QED
    BY <1>1, <2>1, <2>2, BlockPlaces
<1>8. CASE interrupt(c)
  <2>1. Held(c)' = Held(c)
    BY <1>8, InterruptStep
  <2>2. traps' = [traps EXCEPT ![c] = Append(@, NoTask)] /\ UNCHANGED <<queues, outside>>
    BY <1>8, Zenon DEF interrupt, queueVars, tableVars, taskVars
  <2> QED
    BY <1>1, <2>1, <2>2, TrapPlaces
<1>9. CASE sync_trap(c)
  <2>1. ~is_sleeping[c]
    BY <1>9, SMT DEF sync_trap, Resumes, Operating
  <2>2. Held(c) = current[c] /\ current[c] \in Task /\ Held(c)' = NoTask
    BY <1>9, <2>1, SyncTrapStep
  <2>3. traps' = [traps EXCEPT ![c] = Append(@, current[c])] /\ UNCHANGED <<queues, outside>>
    BY <1>9, <2>1, Zenon DEF sync_trap, queueVars, tableVars, taskVars
  <2> QED
    BY <1>1, <2>2, <2>3, TrapPlaces
<1>10. CASE take_trap(c)
  <2>1. Held(c) = NoTask /\ Held(c)' = Head(traps[c])
    BY <1>10, TakeTrapStep
  <2>2. /\ traps[c] # <<>> /\ traps' = [traps EXCEPT ![c] = Tail(@)]
        /\ UNCHANGED <<queues, outside>>
    BY <1>10, Zenon DEF take_trap, queueVars, tableVars, taskVars
  <2> QED
    BY <1>1, <2>1, <2>2, TakePlaces
<1> QED
  BY <1>2, <1>3, <1>4, <1>5, <1>6, <1>7, <1>8, <1>9, <1>10, <1>12, Zenon DEF Step, Choice

\* A stuttering step preserves it as well.
LEMMA PlaceStutters == PlaceInv /\ UNCHANGED vars => PlaceInv'
<1> SUFFICES ASSUME PlaceInv, UNCHANGED vars PROVE PlaceInv'
  OBVIOUS
<1>1. UNCHANGED <<queues, traps, outside, current, pc, loc>>
  BY DEF vars, queueVars, cpuVars, tableVars, taskVars
<1>2. \A t \in Task : OnePlace(t)'
  BY <1>1 DEF PlaceInv, OnePlace, InReady, Trapped, Held, Resumes
<1> QED
  BY <1>1, <1>2 DEF PlaceInv

-----------------------------------------------------------------------------
(* From PlaceInv to the numbers of places that EveryTaskInOnePlace counts. *)

\* InHand, which the property is stated with, is Held unless the CPU has
\* panicked.
LEMMA InHandIsHeld ==
    ASSUME ControlInv, NoPanic, NEW c \in CPU, NEW t \in Task
    PROVE  InHand(c, t) <=> Held(c) = t
<1>1. OwnState(c) /\ pc[c] \in PC /\ pc[c] # "panic" /\ loc[c] \in Local
  BY DEF ControlInv, TypeOK, NoPanic
<1>2. t # NoTask /\ t # Handler
  BY NoTaskAssumption, HandlerAssumption
<1>3. Resumes(c) \in {"select", "check", "decide", "pop", "popped", "wfi", "run", "requeue",
                      "handler", "handle"}
  BY <1>1, SMT DEF OwnState, Control, Operating, Resumes, PC
<1>4. /\ current[c] = t => Resumes(c) \in {"run", "requeue"}
      /\ loc[c].work = t => Resumes(c) = "handle"
  BY <1>1, <1>2, <1>3, SMT DEF OwnState, Control, InCharge
<1>5. loc[c].task = t =>
         (Resumes(c) = "popped" <=> \/ pc[c] \in {"settle", "popped"}
                                    \/ pc[c] = "store" /\ loc[c].ret = "popped")
  BY <1>1, <1>2, SMT DEF OwnState, Control, Popping, Operating, Resumes
<1>6. InHand(c, t) <=> \/ current[c] = t
                       \/ loc[c].work = t
                       \/ loc[c].task = t /\ Resumes(c) = "popped"
  BY <1>5 DEF InHand
<1>7. /\ Resumes(c) \in {"run", "requeue"} => loc[c].work # t
      /\ Resumes(c) = "handle" => current[c] # t
      /\ Resumes(c) = "popped" => loc[c].work # t /\ current[c] # t
      /\ Resumes(c) \notin {"run", "requeue", "handle"} => loc[c].work # t /\ current[c] # t
  BY <1>4
<1> QED
  BY <1>2, <1>6, <1>7, SMT DEF Held

\* A task has one slot in the ready queues if it is ready, none otherwise.
LEMMA QueueSlot ==
    ASSUME ControlInv, PlaceInv, NEW t \in Task
    PROVE  /\ QueueSlots(t) = {} <=> ~InReady(t)
           /\ \A a, b \in QueueSlots(t) : a = b
<1> DEFINE Slots(p, q) == {<<"queue", p, q, i>> :
                              i \in {j \in DOMAIN queues[p][q] : queues[p][q][j] = t}}
           Q == QueueSlots(t)
           p0 == pid_of[t]
           q0 == priority[t]
           s == queues[p0][q0]
<1>1. p0 \in Process /\ q0 \in Level
  BY PidAssumption, PriorityAssumption
<1>2. \A p \in Process, q \in Level : \A i : i \in DOMAIN queues[p][q]
         <=> i \in 1 .. Len(queues[p][q])
  BY SMT DEF ControlInv, TypeOK
<1>3. \A p \in Process, q \in Level : \A a :
         a \in Slots(p, q) <=>
            \E i \in 1 .. Len(queues[p][q]) : queues[p][q][i] = t /\ a = <<"queue", p, q, i>>
  BY <1>2, Zenon
<1> HIDE DEF Slots
<1>4. \A a : a \in Q <=> \E p \in Process, q \in Level : a \in Slots(p, q)
  <2>1. Q = UNION {Slots(p, q) : p \in Process, q \in Level}
    BY DEF QueueSlots, Slots
  <2> QED
    BY <2>1, SMT
<1>5. ASSUME NEW a \in Q PROVE \E i \in 1 .. Len(s) : s[i] = t /\ a = <<"queue", p0, q0, i>>
  <2>1. PICK p \in Process, q \in Level : a \in Slots(p, q)
    BY <1>4
  <2>2. PICK i \in 1 .. Len(queues[p][q]) : queues[p][q][i] = t /\ a = <<"queue", p, q, i>>
    BY <1>3, <2>1
  <2>3. t \in Elements(queues[p][q])
    BY <2>2 DEF Elements
  <2>4. p = p0 /\ q = q0
    BY <2>3 DEF ControlInv, Proper
  <2> QED
    BY <2>2, <2>4
<1>6. ASSUME NEW i \in 1 .. Len(s), s[i] = t PROVE <<"queue", p0, q0, i>> \in Q
  <2>1. <<"queue", p0, q0, i>> \in Slots(p0, q0)
    BY <1>1, <1>3, <1>6, Zenon
  <2> QED
    BY <1>1, <1>4, <2>1
<1>7. NoDuplicates(s)
  BY <1>1 DEF PlaceInv
<1> HIDE DEF Q, p0, q0
<1>8. InReady(t) <=> \E i \in 1 .. Len(s) : s[i] = t
  BY Zenon DEF InReady, Elements, p0, q0
<1>9. Q = {} <=> ~InReady(t)
  BY <1>5, <1>6, <1>8, Zenon
<1>10. \A a, b \in Q : a = b
  <2> TAKE a \in Q, b \in Q
  <2>1. PICK i \in 1 .. Len(s) : s[i] = t /\ a = <<"queue", p0, q0, i>>
    BY <1>5
  <2>2. PICK j \in 1 .. Len(s) : s[j] = t /\ b = <<"queue", p0, q0, j>>
    BY <1>5
  <2>3. i = j
    BY <1>7, <2>1, <2>2 DEF NoDuplicates
  <2> QED
    BY <2>1, <2>2, <2>3
<1> QED
  BY <1>9, <1>10 DEF Q

\* A task has one slot in the trap queues if it waits in one, none otherwise.
LEMMA TrapSlot ==
    ASSUME ControlInv, PlaceInv, NEW t \in Task
    PROVE  /\ TrapSlots(t) = {} <=> \A c \in CPU : ~Trapped(c, t)
           /\ \A a, b \in TrapSlots(t) : a = b
<1> DEFINE Slots(c) == {<<"trap", c, i>> : i \in {j \in DOMAIN traps[c] : traps[c][j] = t}}
           T == TrapSlots(t)
<1>1. \A c \in CPU : \A i : i \in DOMAIN traps[c] <=> i \in 1 .. Len(traps[c])
  BY SMT DEF ControlInv
<1>2. \A c \in CPU : \A a :
         a \in Slots(c) <=>
            \E i \in 1 .. Len(traps[c]) : traps[c][i] = t /\ a = <<"trap", c, i>>
  BY <1>1, Zenon
<1> HIDE DEF Slots
<1>3. \A a : a \in T <=> \E c \in CPU : a \in Slots(c)
  BY SMT DEF TrapSlots, Slots
<1>4. \A a : a \in T <=>
         \E c \in CPU : \E i \in 1 .. Len(traps[c]) : traps[c][i] = t /\ a = <<"trap", c, i>>
  BY <1>2, <1>3, ZenonT(60)
<1> HIDE DEF T
<1>5. \A c \in CPU : Trapped(c, t) <=> \E i \in 1 .. Len(traps[c]) : traps[c][i] = t
  BY Zenon DEF Trapped, Elements
<1>6. T = {} <=> \A c \in CPU : ~Trapped(c, t)
  BY <1>5, <1>4, Zenon
<1>7. \A a, b \in T : a = b
  <2> TAKE a \in T, b \in T
  <2>1. PICK c \in CPU : \E i \in 1 .. Len(traps[c]) : traps[c][i] = t /\ a = <<"trap", c, i>>
    BY <1>4
  <2>2. PICK i \in 1 .. Len(traps[c]) : traps[c][i] = t /\ a = <<"trap", c, i>>
    BY <2>1
  <2>3. PICK d \in CPU : \E j \in 1 .. Len(traps[d]) : traps[d][j] = t /\ b = <<"trap", d, j>>
    BY <1>4
  <2>4. PICK j \in 1 .. Len(traps[d]) : traps[d][j] = t /\ b = <<"trap", d, j>>
    BY <2>3
  <2>5. c = d
    BY <1>5, <2>2, <2>4, Zenon DEF PlaceInv, OnePlace
  <2>6. i = j
    BY <2>2, <2>4, <2>5 DEF PlaceInv, TasksOnce
  <2> QED
    BY <2>2, <2>4, <2>5, <2>6
<1> QED
  BY <1>6, <1>7 DEF T

\* The invariants are what the property counts.
LEMMA InOnePlace == ControlInv /\ PlaceInv /\ NoPanic => EveryTaskInOnePlace
<1> SUFFICES ASSUME ControlInv, PlaceInv, NoPanic, NEW t \in Task
             PROVE  /\ Cardinality(Places(t)) = 1
                    /\ \A p \in Process : t \in Queued(queues[p]) => p = pid_of[t]
  BY DEF EveryTaskInOnePlace
<1> DEFINE Q == QueueSlots(t)
           T == TrapSlots(t)
           H == {<<"hand", c>> : c \in {d \in CPU : InHand(d, t)}}
           O == {<<"outside", u>> : u \in outside \cap {t}}
<1>1. Places(t) = Q \cup T \cup H \cup O
  BY Zenon DEF Places
<1>2. (Q = {} <=> ~InReady(t)) /\ \A a, b \in Q : a = b
  BY QueueSlot
<1>3. (T = {} <=> \A c \in CPU : ~Trapped(c, t)) /\ \A a, b \in T : a = b
  BY TrapSlot
<1>4. OnePlace(t)
  BY DEF PlaceInv
<1>5. (H = {} <=> \A c \in CPU : Held(c) # t) /\ \A a, b \in H : a = b
  <2>1. \A c \in CPU : InHand(c, t) <=> Held(c) = t
    BY InHandIsHeld
  <2>2. \A c, d \in CPU : Held(c) = t /\ Held(d) = t => d = c
    BY <1>4 DEF OnePlace
  <2>3. \A a : a \in H <=> \E c \in CPU : Held(c) = t /\ a = <<"hand", c>>
    BY <2>1, Zenon
  <2> HIDE DEF H
  <2>4. H = {} <=> \A c \in CPU : Held(c) # t
    BY <2>3
  <2>5. \A a, b \in H : a = b
    BY <2>2, <2>3
  <2> QED
    BY <2>4, <2>5
<1>6. (O = {} <=> t \notin outside) /\ \A a, b \in O : a = b
  BY Zenon
<1> HIDE DEF Q, T, H, O
<1>7. /\ Q # {} \/ T # {} \/ H # {} \/ O # {}
      /\ Q # {} => T = {} /\ H = {} /\ O = {}
      /\ T # {} => H = {} /\ O = {}
      /\ H # {} => O = {}
  BY <1>2, <1>3, <1>4, <1>5, <1>6, Zenon DEF OnePlace
<1>8. /\ Places(t) # {}
      /\ \A a, b \in Places(t) : a = b
  BY <1>1, <1>2, <1>3, <1>5, <1>6, <1>7
<1>9. Cardinality(Places(t)) = 1
  <2>1. PICK x \in Places(t) : TRUE
    BY <1>8
  <2>2. Places(t) = {x}
    BY <1>8
  <2> QED
    BY <2>2, FS_Singleton
<1>10. ASSUME NEW p \in Process, t \in Queued(queues[p]) PROVE p = pid_of[t]
  <2>1. PICK q \in Level : t \in InQueue(queues[p], q)
    BY <1>10, Zenon DEF Queued
  <2>2. t \in Elements(queues[p][q])
    BY <2>1 DEF InQueue, Elements
  <2> QED
    BY <2>2 DEF ControlInv, Proper
<1> QED
  BY <1>9, <1>10

\* If WFI returns with a trap only, neither a trap, an interrupt, a yield nor
\* a wake-up loses a task or lets two CPUs have it (main_loop.rs:51-234 and
\* 465-498, trap_wait_queue.rs:164-238).
THEOREM EveryTaskHasOnePlace == ~WFI_MAY_RETURN => (Spec => []EveryTaskInOnePlace)
<1> SUFFICES ASSUME ~WFI_MAY_RETURN PROVE Spec => []EveryTaskInOnePlace
  OBVIOUS
<1>1. ControlInv /\ (Awake /\ NoPanic) /\ PlaceInv /\ [Next]_vars => PlaceInv'
  <2> SUFFICES ASSUME ControlInv, Awake, PlaceInv, [Next]_vars PROVE PlaceInv'
    OBVIOUS
  <2>1. CASE UNCHANGED vars
    BY <2>1, PlaceStutters
  <2>2. CASE Next
    <3>1. PICK c \in CPU : Step(c) \/ Choice(c)
      BY <2>2 DEF Next
    <3>2. Resumes(c) = "run" => ~is_sleeping[c]
      BY SMT DEF Awake, Resumes, Operating
    <3> QED
      BY <3>1, <3>2, PlaceStep
  <2> QED
    BY <2>1, <2>2
<1>2. Spec => [](Awake /\ NoPanic)
  BY AwakeInvariance
<1> QED
  BY <1>1, <1>2, InitPlace, ControlInvariance, InOnePlace, PTL DEF Spec

=============================================================================
