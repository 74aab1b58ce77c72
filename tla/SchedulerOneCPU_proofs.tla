----------------------- MODULE SchedulerOneCPU_proofs -----------------------
(***************************************************************************)
(* Proofs about Scheduler on one CPU, for any number of processes, tasks   *)
(* and levels, and whether or not WFI returns without a trap.              *)
(*                                                                         *)
(* With one CPU nobody pushes, scans or publishes between two steps of the *)
(* same operation, unless it is the push_task of a running task and an     *)
(* interrupt comes: then everything may happen before the push goes on     *)
(* with the task's next turn, and what it stores at last may be old.       *)
(* OneInv says place by place of the code, on top of ControlInv, what is   *)
(* true in spite of that: an occupied level has its bit, unless a push that*)
(* will set it is suspended; the published priority is at least as urgent  *)
(* as what waits, but for suspended pushes and for entries whose last store*)
(* was delayed; a scan has passed only empty levels; the chosen process has*)
(* the most urgent entry; no trap waits while a task is about to run.  If  *)
(* the kernel's tasks push with interrupts disabled, its own entry is never*)
(* stored late, and a CPU is marked as sleeping only while nothing is      *)
(* queued at the kernel.  The properties that TLC refutes with two CPUs    *)
(* follow.                                                                 *)
(*                                                                         *)
(* What the table is true about needs KERNEL_PUSH_IRQ or WFI_MAY_RETURN to *)
(* be FALSE, and the mark of a sleeping CPU needs KERNEL_PUSH_IRQ to be:   *)
(* else a CPU marked as sleeping may run a task, and the entry code takes  *)
(* the task's next interrupt for one of the wait (main_loop.rs:132-151).   *)
(***************************************************************************)
EXTENDS Scheduler_proofs

\* The tasks whose push_task has been interrupted and has not gone on yet, ...
Suspended(ctx) == {ctx[u].loc.task : u \in Task}

\* ... and those of them whose level's bit it has not set yet.
Unmarked(ctx) == {ctx[u].loc.task : u \in {v \in Task : ctx[v].at = "mark"}}

\* The priority is at least as urgent as the tasks that are queued at the
\* process, those of suspended pushes left out (scheduler.rs:434-461).
NoLess(p, x) ==
    \A q \in Level, t \in Task :
        t \in Elements(queues[p][q]) => t \in Suspended(context) \/ x <= q

\* At the kernel it is as urgent as the CPU's traps (trap_wait_queue.rs:241-248).
NoLessThanTraps(c, p, x) == p = 0 /\ traps[c] # <<>> => x <= HIGHEST_PRIORITY

\* The level of a queued task has its bit in the bitmap, or a push of the task
\* is about to set it (ready_queue.rs:57-66).
Visible(c) ==
    \A p \in Process, q \in Level, t \in Task :
        t \in Elements(queues[p][q]) =>
            \/ q \in prio_bitmap[p]
            \/ pc[c] = "mark" /\ loc[c].task = t
            \/ t \in Unmarked(context)

\* The table's entry of each process says so, except about the task that an
\* operation is pushing, the traps that one is about to report, and where an
\* interrupt has delayed a store; and so does the value that an operation is
\* about to store (scheduler.rs:417-432).
Told(c) ==
    /\ \A p \in Process, q \in Level, t \in Task :
          t \in Elements(queues[p][q]) =>
              \/ t \in Suspended(context)
              \/ <<p, c>> \in delayed
              \/ pc[c] \in Operating /\ loc[c].task = t /\ loc[c].pid = p
              \/ highest_prio[p][c] <= q
    /\ \/ pc[c] \in Operating /\ loc[c].pid = 0
       \/ NoLessThanTraps(c, 0, highest_prio[0][c])
    /\ pc[c] = "store" => /\ loc[c].late \/ NoLess(loc[c].pid, loc[c].prio)
                          /\ NoLessThanTraps(c, loc[c].pid, loc[c].prio)

\* Only a store is late, and a push that is suspended at its store will be;
\* the scan of the table is over in a suspended push, and the running task has
\* none.
Late(c) ==
    /\ loc[c].late => pc[c] = "store"
    /\ Resumes(c) = "run" => context[current[c]] = Running
    /\ \A u \in Task : /\ context[u].at = "store" => context[u].loc.late
                       /\ context[u].loc.late => context[u].at = "store"
                       /\ context[u].loc.idx = 0 /\ context[u].loc.best = ISIZE_MAX

\* The levels that the scan has passed are empty (ready_queue.rs:79-84).
Scanned(c) ==
    pc[c] \in {"scan", "settle"} =>
        \A q \in Level : q < loc[c].prio => queues[loc[c].pid][q] = <<>>

\* What the scan of the table has found so far: the entry chosen is the most
\* urgent of those read, and it is the kernel's if that one is as urgent;
\* elsewhere the scan's variables have their initial values
\* (process_info.rs:99-136).
Choosing(c) ==
    /\ pc[c] \in {"run", "wfi", "requeue", "handler", "handle"} => loc[c].pid = 0
    /\ pc[c] \notin {"select", "check"} => loc[c].idx = 0 /\ loc[c].best = ISIZE_MAX
    /\ pc[c] \in {"select", "check"} =>
          /\ \A p \in Process : p < loc[c].idx
                => highest_prio[loc[c].pid][c] <= highest_prio[p][c]
          /\ loc[c].best = IF loc[c].idx = 0 THEN ISIZE_MAX ELSE highest_prio[loc[c].pid][c]
          /\ loc[c].home = 0 /\ loc[c].idx > 0 /\ loc[c].pid # 0 =>
                highest_prio[loc[c].pid][c] < highest_prio[0][c]
    /\ pc[c] = "decide" =>
          \A p \in Process : highest_prio[loc[c].pid][c] <= highest_prio[p][c]

\* No trap waits on the CPU while a user's loop goes on, a task is about to
\* run, or a user's scheduler is popped (scheduler.rs:293-312,
\* main_loop.rs:500-597).
Clear(c) ==
    \/ loc[c].home # 0
    \/ Resumes(c) = "run"
    \/ Resumes(c) \in {"pop", "popped"} /\ loc[c].pid # 0
    => traps[c] = <<>>

\* The tasks that were published when the CPU announced its sleep still are,
\* and when it sleeps the entries of those left have been stored too late
\* (main_loop.rs:418-442).
Unseen(c) ==
    /\ seen[c] # {} => pc[c] \in {"check", "decide", "wfi"}
    /\ \A t \in seen[c] :
          /\ t \notin Suspended(context)
          /\ \E q \in Level : t \in Elements(queues[pid_of[t]][q])
          /\ pc[c] = "wfi" => <<pid_of[t], c>> \in delayed

\* If the kernel's tasks push with interrupts disabled, no push to the kernel's
\* scheduler is suspended, and no store to its entry is late.
OnTime(c) ==
    ~KERNEL_PUSH_IRQ =>
        /\ <<0, c>> \notin delayed
        /\ loc[c].late => loc[c].pid # 0
        /\ Resumes(c) = "run" /\ pc[c] # "run" /\ loc[c].pid = 0 => pid_of[current[c]] = 0
        /\ \A u \in Task : context[u].at # "run" => context[u].loc.pid # 0

\* Nothing but the scheduler of another process is left to look into, and the
\* table says that there is nothing.
Nothing(c) == /\ \A q \in Level : queues[0][q] = <<>>
              /\ \A p \in Process : highest_prio[p][c] > LOWEST_PRIORITY
              /\ traps[c] = <<>>

\* Then the CPU is marked as sleeping only during the second look, while it
\* sleeps, and from a WFI that returned without a trap until the loop has
\* come back to wait, with nothing to run all the time (main_loop.rs:418-442,
\* 59-67 and 132-151).
Idle(c) ==
    ~KERNEL_PUSH_IRQ /\ is_sleeping[c] =>
        \/ pc[c] \in {"check", "decide"}
        \/ /\ Resumes(c) \in {"wfi", "select", "pop", "popped"}
           /\ pc[c] \notin {"mark", "peek", "settle"}
           /\ loc[c].home = 0 /\ loc[c].pid = 0 /\ loc[c].task = NoTask
           /\ pc[c] = "store" => loc[c].prio = NoPriority
           /\ Nothing(c)

\* All of this for one CPU.
One(c) ==
    /\ Visible(c) /\ Told(c) /\ Late(c) /\ Scanned(c) /\ Choosing(c)
    /\ Clear(c) /\ Unseen(c) /\ OnTime(c) /\ Idle(c)

-----------------------------------------------------------------------------
(* OneInv is preserved by each action of the CPU.                          *)

\* A push whose bit is not set is one that has been interrupted
\* (scheduler.rs:355-383).
LEMMA UnmarkedIsSuspended == \A t : t \in Unmarked(context) => t \in Suspended(context)
BY DEF Unmarked, Suspended

\* An empty level is passed (ready_queue.rs:79-84).
LEMMA ScanEmptyOne ==
    ASSUME ControlInv, ControlInv', NEW c \in CPU, CPU = {c}, One(c), scan_empty(c)
    PROVE  One(c)'
<1> DEFINE l == loc[c]
<1>1. l \in Local /\ loc' \in [CPU -> Local]
  BY DEF ControlInv, TypeOK
<1>2. /\ pc[c] = "scan" /\ pc'[c] = "scan" /\ l.prio \in Level /\ queues[l.pid][l.prio] = <<>>
      /\ UNCHANGED <<queues, prio_bitmap, traps, tableVars, is_sleeping, seen, context,
                     current>>
  BY Zenon DEF scan_empty, queueVars, cpuVars, taskVars
<1>3. /\ loc'[c].prio = l.prio + 1 /\ loc'[c].pid = l.pid /\ loc'[c].home = l.home
      /\ loc'[c].task = l.task
      /\ loc'[c].ret = l.ret
      /\ loc'[c].idx = l.idx
      /\ loc'[c].best = l.best
      /\ loc'[c].late = l.late
  <2>1. loc'[c] = [l EXCEPT !.prio = @ + 1]
    BY <1>1, SMT DEF scan_empty
  <2> QED
    BY <2>1, SMT
<1>4. Visible(c)'
  BY <1>2, SMT DEF One, Visible
<1>5. Told(c)'
  BY <1>2, <1>3, SMT DEF One, Told, NoLess, NoLessThanTraps, tableVars
<1>6. Scanned(c)'
  BY <1>2, <1>3, LevelFacts, SMT DEF One, Scanned
<1>7. Choosing(c)'
  BY <1>2, <1>3, SMT DEF One, Choosing, tableVars
<1>8. Clear(c)' /\ Unseen(c)' /\ Idle(c)'
  BY <1>2, <1>3, SMT DEF One, Clear, Unseen, Idle, Resumes, Nothing, tableVars
<1>9. Late(c)' /\ OnTime(c)'
  BY <1>2, <1>3, SMT DEF One, Late, OnTime, Resumes, Operating, tableVars
<1> QED
  BY <1>4, <1>5, <1>6, <1>7, <1>8, <1>9 DEF One

\* All levels have been passed: there is no task, and NoPriority is true
\* (ready_queue.rs:116-118).
LEMMA ScanNoneOne ==
    ASSUME ControlInv, ControlInv', NEW c \in CPU, CPU = {c}, One(c), scan_none(c) PROVE One(c)'
<1> DEFINE l == loc[c]
<1>1. /\ pc[c] = "scan" /\ pc'[c] = "store" /\ l.prio = NoPriority /\ l.ret = "popped"
      /\ loc'[c] = l
      /\ UNCHANGED <<queues, prio_bitmap, traps, tableVars, is_sleeping, seen, context,
                     current>>
  BY SMT
     DEF scan_none, Goto, queueVars, cpuVars, taskVars, ControlInv, TypeOK, OwnState, Control
<1>2. \A q \in Level : queues[l.pid][q] = <<>>
  BY <1>1, LevelFacts, SMT DEF One, Scanned
<1>8. \A q \in Level : Elements(queues[l.pid][q]) = {}
  BY <1>2, SMT DEF Elements
<1>3. l.pid = 0 => traps[c] = <<>>
  BY <1>1, SMT DEF ControlInv, OwnState, Popping
<1>4. Visible(c)'
  BY <1>1, SMT DEF One, Visible
<1>5. Told(c)'
  <2>1. NoLess(l.pid, l.prio) /\ NoLessThanTraps(c, l.pid, l.prio)
    BY <1>8, <1>3, Zenon DEF NoLess, NoLessThanTraps
  <2>2. pc[c] \notin Operating
    BY <1>1, SMT DEF Operating
  <2> HIDE DEF l
  <2>3. UNCHANGED <<queues, traps, highest_prio, delayed, context>>
    BY <1>1, Zenon DEF tableVars
  <2>4. loc[c] = l
    BY DEF l
  <2> QED
    BY <1>1, <2>1, <2>2, <2>3, <2>4, SMT DEF One, Told, NoLess, NoLessThanTraps
<1>6. Scanned(c)' /\ Choosing(c)'
  BY <1>1, SMT DEF One, Scanned, Choosing, tableVars
<1>7. Clear(c)' /\ Unseen(c)' /\ Idle(c)'
  BY <1>1, SMT DEF One, Clear, Unseen, Idle, Resumes, Operating, Nothing, tableVars
<1>9. Late(c)' /\ OnTime(c)'
  BY <1>1, SMT DEF One, Late, OnTime, Resumes, Operating, tableVars
<1> QED
  BY <1>4, <1>5, <1>6, <1>7, <1>9 DEF One

\* The first task of the most urgent occupied level is taken
\* (ready_queue.rs:79-84).
LEMMA ScanPopOne ==
    ASSUME ControlInv, ControlInv', NEW c \in CPU, CPU = {c}, One(c), scan_pop(c) PROVE One(c)'
<1> DEFINE l == loc[c]
           t == Head(queues[l.pid][l.prio])
<1>1. l \in Local
  BY DEF ControlInv, TypeOK
<1>2. /\ pc[c] = "scan" /\ pc'[c] = "settle" /\ l.prio \in Level /\ l.pid \in Process
      /\ queues[l.pid][l.prio] # <<>>
      /\ queues' = [queues EXCEPT ![l.pid] = PopFront(@, l.prio)]
      /\ UNCHANGED <<prio_bitmap, traps, tableVars, is_sleeping, context, current>>
  <2>1. /\ pc[c] = "scan" /\ pc' = [pc EXCEPT ![c] = "settle"] /\ l.prio \in Level
        /\ queues[l.pid][l.prio] # <<>>
        /\ queues' = [queues EXCEPT ![l.pid] = PopFront(@, l.prio)]
        /\ UNCHANGED <<prio_bitmap, traps, tableVars, is_sleeping, context, current>>
    BY Zenon DEF scan_pop, Goto, cpuVars, taskVars
  <2>2. l.pid \in Process
    BY <1>1, SMT DEF Local
  <2>3. pc'[c] = "settle"
    BY <2>1, SMT DEF ControlInv, TypeOK
  <2> QED
    BY <2>1, <2>2, <2>3
<1>3. /\ loc'[c].prio = l.prio /\ loc'[c].pid = l.pid /\ loc'[c].home = l.home
      /\ loc'[c].task = t /\ loc'[c].ret = l.ret /\ loc'[c].idx = l.idx /\ loc'[c].best = l.best
      /\ loc'[c].late = l.late
  <2>1. loc' = [loc EXCEPT ![c].task = t] /\ loc \in [CPU -> Local]
    BY Zenon DEF scan_pop, ControlInv, TypeOK
  <2> HIDE DEF t
  <2>2. loc'[c] = [l EXCEPT !.task = t]
    BY <2>1, SMT
  <2> QED
    BY <2>2, SMT
<1>4. seen'[c] = seen[c] \ {t}
  BY Zenon DEF scan_pop
<1>5. /\ queues'[l.pid][l.prio] = Tail(queues[l.pid][l.prio])
      /\ \A p \in Process, q \in Level : p # l.pid \/ q # l.prio => queues'[p][q] = queues[p][q]
  <2>1. TypeOK /\ Proper
    BY DEF ControlInv
  <2>2. /\ l.prio \in Level /\ l.pid \in Process /\ queues[l.pid][l.prio] # <<>>
        /\ queues' = [queues EXCEPT ![l.pid] = PopFront(@, l.prio)]
    BY <1>2, Zenon
  <2> HIDE DEF l
  <2>3. queues'[l.pid][l.prio] = Tail(queues[l.pid][l.prio])
    BY <2>1, <2>2, Popped, Zenon
  <2>4. ASSUME NEW p \in Process, NEW q \in Level, p # l.pid \/ q # l.prio
        PROVE  queues'[p][q] = queues[p][q]
    <3> QED
      BY <2>2, <2>4, SMT DEF PopFront
  <2> QED
    BY <2>3, <2>4
<1>6. \A p \in Process, q \in Level : queues'[p][q] # <<>> => queues[p][q] # <<>>
  BY <1>2, <1>5, Zenon
<1>14. \A p \in Process, q \in Level :
         Elements(queues'[p][q]) \subseteq Elements(queues[p][q])
  <2>1. Elements(queues[l.pid][l.prio]) = {t} \cup Elements(Tail(queues[l.pid][l.prio]))
    <3>1. queues[l.pid][l.prio] \in Seq(Task)
      BY <1>2, SMT DEF ControlInv, TypeOK
    <3> QED
      BY <1>2, <3>1, TailFacts
  <2> QED
    BY <1>5, <2>1, Zenon
<1>8. Visible(c)'
  BY <1>2, <1>14, SMT DEF One, Visible
<1>9. Told(c)'
  BY <1>2, <1>14, SMT DEF One, Operating, Told, NoLess, NoLessThanTraps, tableVars
<1>15. Late(c)' /\ OnTime(c)'
  BY <1>2, <1>3, SMT DEF One, Late, OnTime, Resumes, Operating, tableVars
<1>10. Scanned(c)'
  <2>1. \A q \in Level : q < l.prio => queues[l.pid][q] = <<>>
    BY <1>2, SMT DEF One, Scanned
  <2> QED
    BY <1>2, <1>3, <1>6, <2>1, SMT DEF Scanned
<1>11. Choosing(c)'
  BY <1>2, <1>3, SMT DEF One, Choosing, tableVars
<1>12. Clear(c)' /\ Idle(c)'
  BY <1>2, <1>3, SMT DEF One, Clear, Idle, Resumes, Operating, Nothing, tableVars
<1>13. Unseen(c)'
  <2>1. seen[c] = {}
    BY <1>2, SMT DEF One, Unseen
  <2> QED
    BY <1>4, <2>1, Zenon DEF Unseen
<1> QED
  BY <1>8, <1>9, <1>10, <1>11, <1>12, <1>13, <1>15 DEF One

\* The next priority is found in the bitmap, after the level's bit has been
\* corrected (ready_queue.rs:84-115).
LEMMA SettleOne ==
    ASSUME ControlInv, ControlInv', NEW c \in CPU, CPU = {c}, One(c), settle(c) PROVE One(c)'
<1> DEFINE l == loc[c]
           qs == queues[l.pid]
           bits == prio_bitmap[l.pid]
           x == NextPrio(qs, bits, l.prio)
<1>1. /\ pc[c] = "settle" /\ pc'[c] = "store" /\ l.prio \in Level /\ l.pid \in Process
      /\ l.ret = "popped" /\ l.task \in Task
      /\ UNCHANGED <<queues, traps, tableVars, is_sleeping, seen, context, current>>
  BY SMT DEF settle, Goto, cpuVars, taskVars, ControlInv, TypeOK, OwnState, Control, Popping
<1>2. /\ loc'[c].prio = x /\ loc'[c].pid = l.pid /\ loc'[c].home = l.home
      /\ loc'[c].task = l.task
      /\ loc'[c].ret = l.ret
      /\ loc'[c].idx = l.idx
      /\ loc'[c].best = l.best
      /\ loc'[c].late = l.late
  <2>1. loc'[c] = [l EXCEPT !.prio = x]
    BY SMT DEF settle, ControlInv, TypeOK
  <2> HIDE DEF x
  <2> QED
    BY <2>1, SMT
<1>3. /\ prio_bitmap'[l.pid] = Settle(qs, bits, l.prio)
      /\ \A p \in Process : p # l.pid => prio_bitmap'[p] = prio_bitmap[p]
  <2> DEFINE new == Settle(qs, bits, l.prio)
  <2>1. prio_bitmap' = [prio_bitmap EXCEPT ![l.pid] = new]
    BY Zenon DEF settle
  <2>2. DOMAIN prio_bitmap = Process
    BY SMT DEF ControlInv, TypeOK
  <2> HIDE DEF new, l
  <2>3. /\ prio_bitmap'[l.pid] = new
        /\ \A p \in Process : p # l.pid => prio_bitmap'[p] = prio_bitmap[p]
    BY <1>1, <2>1, <2>2, Zenon
  <2> QED
    BY <2>3 DEF new
<1>4. l.pid = 0 => traps[c] = <<>>
  BY <1>1, SMT DEF ControlInv, OwnState, Popping, Resumes
<1>5. NoLess(l.pid, x)
  <2>1. \A q \in Level, y \in Task : y \in Elements(qs[q]) =>
           q \in bits \/ y \in Suspended(context)
    BY <1>1, UnmarkedIsSuspended, SMT DEF One, Visible
  <2>2. \A q \in Level : q < l.prio => qs[q] = <<>>
    BY <1>1, SMT DEF One, Scanned
  <2>3. bits \in SUBSET Level
    BY <1>1, SMT DEF ControlInv, TypeOK
  <2>4. \A q \in bits : Highest(bits) <= q
    BY <2>3, HighestLemma
  <2>5. \A q \in Level : qs[q] = <<>> => Elements(qs[q]) = {}
    BY SMT DEF Elements
  <2> SUFFICES ASSUME NEW q \in Level, NEW y \in Task, y \in Elements(qs[q]),
                      y \notin Suspended(context)
               PROVE  x <= q
    BY Zenon DEF NoLess
  <2>6. q \in bits /\ qs[q] # <<>>
    BY <2>1, <2>5, Zenon
  <2>7. CASE qs[l.prio] = <<>>
    <3>1. x = Highest(bits)
      BY <2>7 DEF NextPrio
    <3> QED
      BY <2>4, <2>6, <3>1
  <2>8. CASE qs[l.prio] # <<>>
    <3>1. x = l.prio
      BY <2>8 DEF NextPrio
    <3>2. ~(q < l.prio)
      BY <2>2, <2>6
    <3>3. q \in Int /\ l.prio \in Int
      BY <1>1, LevelFacts
    <3> QED
      BY <3>1, <3>2, <3>3, SMT
  <2> QED
    BY <2>7, <2>8
<1>6. Visible(c)'
  <2>1. \A q \in Level : qs[q] = <<>> => Elements(qs[q]) = {}
    BY SMT DEF Elements
  <2> QED
    BY <1>1, <1>3, <2>1, SMT DEF One, Visible, Settle
<1>7. Told(c)'
  BY <1>1, <1>2, <1>4, <1>5, SMT DEF One, Operating, Told, NoLess, NoLessThanTraps, tableVars
<1>8. Scanned(c)' /\ Choosing(c)'
  BY <1>1, <1>2, SMT DEF One, Scanned, Choosing, tableVars
<1>9. Clear(c)' /\ Unseen(c)' /\ Idle(c)'
  BY <1>1, <1>2, SMT DEF One, Clear, Unseen, Idle, Resumes, Operating, tableVars
<1>10. Late(c)' /\ OnTime(c)'
  BY <1>1, <1>2, SMT DEF One, Late, OnTime, Resumes, Operating, tableVars
<1> QED
  BY <1>6, <1>7, <1>8, <1>9, <1>10 DEF One

\* The entry is stored; from now on it is true of the process the operation
\* worked on (scheduler.rs:417-432).
LEMMA StoreOne ==
    ASSUME ControlInv, ControlInv', NEW c \in CPU, CPU = {c}, One(c), store(c) PROVE One(c)'
<1> DEFINE l == loc[c]
           popped == l.ret = "popped"
<1>1. l \in Local
  BY DEF ControlInv, TypeOK
<1>2. l.cpu = CPU_NUM - 1
  BY <1>1, Numbers, SMT DEF Local
<1>3. /\ pc[c] = "store" /\ pc'[c] = l.ret
      /\ l.ret \in {"popped", "select", "requeue", "run", "handler", "handle"}
      /\ l.pid \in Process /\ l.prio \in Level \cup {NoPriority} /\ l.cpu = c
      /\ UNCHANGED <<queues, prio_bitmap, traps, is_sleeping, seen, context, current>>
  BY <1>2, SMT
     DEF store, StoreEntry, Goto, cpuVars, queueVars, taskVars, ControlInv, TypeOK, OwnState,
         Control
<1>4. /\ loc'[c].pid = (IF popped THEN l.pid ELSE 0) /\ loc'[c].home = l.home
      /\ loc'[c].task = (IF popped THEN l.task ELSE NoTask) /\ loc'[c].ret = "none"
      /\ loc'[c].idx = 0 /\ loc'[c].best = ISIZE_MAX /\ loc'[c].late = FALSE
  <2>1. loc'[c] = [Fresh EXCEPT !.home = l.home, !.work = l.work,
                                !.pid = IF popped THEN l.pid ELSE 0,
                                !.task = IF popped THEN l.task ELSE NoTask]
    BY <1>2, SMT DEF store, StoreEntry, ControlInv, TypeOK
  <2> QED
    BY <2>1, SMT DEF Fresh
<1>5. /\ highest_prio'[l.pid][c] = l.prio
      /\ \A p \in Process : p # l.pid => highest_prio'[p][c] = highest_prio[p][c]
  <2>1. highest_prio' = [highest_prio EXCEPT ![l.pid][c] = l.prio]
    BY <1>3, Zenon DEF store, StoreEntry
  <2> QED
    BY <2>1, SMT DEF ControlInv, TypeOK
<1>11. delayed' = IF l.late THEN delayed \cup {<<l.pid, c>>} ELSE delayed \ {<<l.pid, c>>}
  BY <1>3, Zenon DEF store, StoreEntry
<1>12. \A p \in Process : p # l.pid => (<<p, c>> \in delayed' <=> <<p, c>> \in delayed)
  BY <1>11, Zenon
<1>13. /\ l.late => <<l.pid, c>> \in delayed'
       /\ ~l.late => <<l.pid, c>> \notin delayed'
  BY <1>11, Zenon
<1>6. Visible(c)'
  BY <1>3, SMT DEF One, Visible
<1>7. Told(c)'
  <2>1. \A p \in Process, q \in Level, t \in Task :
           t \in Elements(queues[p][q]) =>
              \/ t \in Suspended(context)
              \/ <<p, c>> \in delayed'
              \/ highest_prio'[p][c] <= q
    <3> SUFFICES ASSUME NEW p \in Process, NEW q \in Level, NEW t \in Task,
                        t \in Elements(queues[p][q]), t \notin Suspended(context),
                        <<p, c>> \notin delayed'
                 PROVE  highest_prio'[p][c] <= q
      OBVIOUS
    <3>1. CASE p = l.pid
      <4>1. ~l.late
        BY <1>13, <3>1
      <4> QED
        BY <1>3, <1>5, <3>1, <4>1, SMT DEF One, Told, NoLess
    <3>2. CASE p # l.pid
      BY <1>3, <1>5, <1>12, <3>2, SMT DEF One, Told
    <3> QED
      BY <3>1, <3>2
  <2>2. NoLessThanTraps(c, 0, highest_prio'[0][c])
    BY <1>3, <1>5, Numbers, SMT DEF One, Told, NoLessThanTraps
  <2>3. (pc[c] = "store")' => NoLessThanTraps(c, loc[c].pid, loc[c].prio)'
    BY <1>3, SMT
  <2> QED
    BY <1>3, <2>1, <2>2, SMT DEF Told, NoLessThanTraps
<1>8. Scanned(c)'
  BY <1>3, SMT DEF Scanned
<1>9. Choosing(c)'
  <2>1. \A p \in Process : ~(p < 0)
    BY SMT DEF Process
  <2> QED
    BY <1>3, <1>4, <2>1, SMT DEF Choosing
<1>10. Clear(c)' /\ Unseen(c)'
  BY <1>3, <1>4, SMT DEF One, Clear, Unseen, Resumes, Operating
<1>14. Late(c)'
  BY <1>3, <1>4, SMT DEF One, Late, Resumes, Operating
<1>15. OnTime(c)'
  BY <1>3, <1>4, <1>12, <1>13, Numbers, SMT DEF One, OnTime, Resumes, Operating
<1>16. Idle(c)'
  <2>1. SUFFICES ASSUME ~KERNEL_PUSH_IRQ, is_sleeping[c]
                 PROVE  /\ l.ret \in {"select", "popped"} /\ l.home = 0 /\ l.pid = 0
                        /\ l.task = NoTask /\ Nothing(c)'
    BY <1>3, <1>4, SMT DEF Idle, Resumes, Operating
  <2>2. /\ l.ret \in {"select", "popped"} /\ l.home = 0 /\ l.pid = 0 /\ l.task = NoTask
        /\ l.prio = NoPriority /\ Nothing(c)
    BY <1>3, <2>1, SMT DEF One, Idle, Resumes, Operating
  <2>3. NoPriority > LOWEST_PRIORITY
    BY LevelAssumption, SMT DEF NoPriority
  <2>4. \A p \in Process : highest_prio'[p][c] > LOWEST_PRIORITY
    BY <1>5, <2>2, <2>3, Zenon DEF Nothing
  <2>5. Nothing(c)'
    BY <1>3, <2>2, <2>4, Zenon DEF Nothing
  <2> QED
    BY <2>2, <2>5
<1> QED
  BY <1>6, <1>7, <1>8, <1>9, <1>10, <1>14, <1>15, <1>16 DEF One

\* The most urgent of the entries read is kept; a user's loop that prefers
\* the kernel does so before any user process, and a kernel's loop leaves the
\* kernel only for a strictly more urgent process (process_info.rs:99-136).
LEMMA ReadEntryOne ==
    ASSUME ControlInv, ControlInv', NEW c \in CPU, CPU = {c}, One(c),
           process_schedule(c) \/ check_again(c)
    PROVE  One(c)'
<1> DEFINE l == loc[c]
           h(p) == highest_prio[p][c]
           better == h(l.idx) < l.best \/ (h(l.idx) = l.best /\ l.idx = l.home)
           last == l.idx = PROCESS_NUM - 1
           pid1 == IF better THEN l.idx ELSE l.pid
           best1 == Lower(h(l.idx), l.best)
<1>1. /\ l \in Local /\ l.idx \in Process /\ l.pid \in Process
      /\ \A p \in Process : p \in Int /\ 0 <= p /\ p <= PROCESS_NUM - 1
      /\ \A p \in Process : h(p) \in Level \cup {NoPriority}
      /\ \A x \in Level \cup {NoPriority} : x \in Int /\ HIGHEST_PRIORITY <= x /\ x < ISIZE_MAX
  <2>1. l \in Local
    BY DEF ControlInv, TypeOK
  <2>2. \A p \in Process : h(p) \in Level \cup {NoPriority}
    BY SMT DEF ControlInv, TypeOK
  <2>3. \A p \in Process : p \in Int /\ 0 <= p /\ p <= PROCESS_NUM - 1
    BY SMT DEF Process
  <2>4. \A x \in Level \cup {NoPriority} : x \in Int /\ HIGHEST_PRIORITY <= x /\ x < ISIZE_MAX
    BY LevelAssumption, SMT DEF Level, NoPriority, ISIZE_MAX
  <2> QED
    BY <2>1, <2>2, <2>3, <2>4, SMT DEF Local
<1>2. /\ pc[c] \in {"select", "check"}
      /\ pc'[c] = IF last THEN IF pc[c] = "select" THEN "pop" ELSE "decide" ELSE pc[c]
      /\ UNCHANGED <<queues, prio_bitmap, traps, highest_prio, delayed, is_sleeping>>
      /\ UNCHANGED <<seen, context, current>>
  BY SMT
     DEF process_schedule, check_again, ReadEntry, Goto, queueVars, tableVars,
         cpuVars, taskVars, ControlInv, TypeOK
<1>3. /\ loc'[c].pid = pid1 /\ loc'[c].home = l.home /\ loc'[c].task = l.task
      /\ loc'[c].ret = l.ret /\ loc'[c].late = l.late
      /\ loc'[c].idx = (IF last THEN 0 ELSE l.idx + 1)
      /\ loc'[c].best = (IF last THEN ISIZE_MAX ELSE best1)
  <2>1. loc'[c] = [l EXCEPT !.pid = pid1,
                            !.best = IF last THEN ISIZE_MAX ELSE best1,
                            !.idx = IF last THEN 0 ELSE l.idx + 1]
    BY SMT DEF process_schedule, check_again, ReadEntry, ControlInv, TypeOK
  <2> HIDE DEF pid1, best1
  <2> QED
    BY <2>1, SMT
<1>4. /\ \A p \in Process : p < l.idx => h(l.pid) <= h(p)
      /\ l.best = IF l.idx = 0 THEN ISIZE_MAX ELSE h(l.pid)
      /\ l.home = 0 /\ l.idx > 0 /\ l.pid # 0 => h(l.pid) < h(0)
  BY <1>2, SMT DEF One, Choosing
<1>5. /\ pid1 \in Process
      /\ best1 = h(pid1)
      /\ \A p \in Process : p <= l.idx => h(pid1) <= h(p)
      /\ l.home = 0 /\ pid1 # 0 => h(pid1) < h(0)
  <2>1. h(l.idx) \in Int /\ h(l.pid) \in Int /\ h(l.idx) < ISIZE_MAX /\ 0 <= l.idx
    BY <1>1, SMT
  <2> HIDE DEF l, h
  <2>2. CASE l.idx = 0
    BY <1>1, <1>4, <2>2, SMT DEF Lower
  <2>3. CASE l.idx # 0
    <3>1. /\ l.idx \in Int /\ 0 < l.idx /\ l.best = h(l.pid) /\ h(l.pid) <= h(0)
          /\ \A p \in Process : p \in Int /\ h(p) \in Int
      BY <1>1, <1>4, <2>3, Numbers, SMT
    <3>2. CASE better
      <4>1. h(l.idx) <= h(l.pid) /\ (l.home = 0 => h(l.idx) < h(l.pid))
        BY <2>1, <3>1, <3>2, SMT
      <4>2. pid1 = l.idx /\ best1 = h(l.idx)
        BY <3>2, SMT DEF Lower
      <4>3. ASSUME NEW p \in Process, p <= l.idx PROVE h(l.idx) <= h(p)
        BY <1>4, <2>1, <3>1, <4>1, <4>3, SMT
      <4>4. l.home = 0 => h(l.idx) < h(0)
        BY <2>1, <3>1, <4>1, Numbers, SMT
      <4> QED
        BY <1>1, <4>2, <4>3, <4>4
    <3>3. CASE ~better
      <4>1. h(l.pid) <= h(l.idx)
        BY <2>1, <3>1, <3>3, SMT
      <4>2. pid1 = l.pid /\ best1 = h(l.pid)
        BY <3>1, <3>3, SMT DEF Lower
      <4>3. ASSUME NEW p \in Process, p <= l.idx PROVE h(l.pid) <= h(p)
        BY <1>4, <3>1, <4>1, <4>3, SMT
      <4> QED
        BY <1>1, <1>4, <4>2
    <3> QED
      BY <3>2, <3>3
  <2> QED
    BY <2>2, <2>3
<1> HIDE DEF pid1, best1
<1>6. Visible(c)'
  BY <1>2, SMT DEF One, Visible
<1>7. Told(c)'
  BY <1>2, SMT DEF One, Told, Operating, NoLess, NoLessThanTraps
<1>8. Scanned(c)'
  BY <1>2, SMT DEF Scanned
<1>9. Choosing(c)'
  BY <1>1, <1>2, <1>3, <1>5, SMT DEF Choosing
<1>10. Clear(c)'
  <2>1. SUFFICES ASSUME l.home = 0, pid1 # 0 PROVE traps[c] = <<>>
    BY <1>2, <1>3, SMT DEF One, Clear, Resumes, Operating
  <2>2. h(pid1) < h(0)
    BY <1>5, <2>1
  <2>3. traps[c] # <<>> => h(0) <= HIGHEST_PRIORITY
    BY <1>2, Numbers, SMT DEF One, Told, Operating, NoLessThanTraps
  <2>4. HIGHEST_PRIORITY <= h(pid1) /\ h(pid1) \in Int /\ h(0) \in Int
    BY <1>1, <1>5, Numbers, Zenon
  <2>5. HIGHEST_PRIORITY \in Int
    BY LevelAssumption, SMT
  <2> HIDE DEF h
  <2> QED
    BY <2>2, <2>3, <2>4, <2>5, SMT
<1>11. Unseen(c)'
  BY <1>2, <1>3, SMT DEF One, Unseen
<1>13. Idle(c)'
  <2> SUFFICES ASSUME ~KERNEL_PUSH_IRQ, is_sleeping[c], pc[c] = "select"
               PROVE  l.home = 0 /\ pid1 = 0 /\ l.task = NoTask /\ Nothing(c)
    BY <1>2, <1>3, SMT DEF Idle, Resumes, Operating, Nothing
  <2>1. l.home = 0 /\ l.task = NoTask /\ Nothing(c)
    BY SMT DEF One, Idle
  <2>2. h(pid1) \in Int /\ LOWEST_PRIORITY < h(pid1) /\ h(0) <= NoPriority /\ h(0) \in Int
    <3>1. \A p \in Process : h(p) \in Int /\ LOWEST_PRIORITY < h(p) /\ h(p) <= NoPriority
      BY <1>1, <2>1, LevelFacts, SMT DEF Nothing
    <3> HIDE DEF h
    <3> QED
      BY <1>5, <3>1, Numbers, Zenon
  <2>3. LOWEST_PRIORITY \in Int /\ NoPriority = LOWEST_PRIORITY + 1
    BY LevelAssumption, SMT DEF NoPriority
  <2> HIDE DEF h
  <2>4. ~(h(pid1) < h(0))
    BY <2>2, <2>3, SMT
  <2> QED
    BY <1>5, <2>1, <2>4
<1>12. Late(c)' /\ OnTime(c)'
  BY <1>2, <1>3, SMT DEF One, Late, OnTime, Resumes, Operating
<1> QED
  BY <1>6, <1>7, <1>8, <1>9, <1>10, <1>11, <1>12, <1>13 DEF One

\* The pop asks both sources: a trap wins every tie, and a scan starts at the
\* first level (scheduler.rs:280-340).
LEMMA PopTaskOne ==
    ASSUME ControlInv, ControlInv', NEW c \in CPU, CPU = {c}, One(c), pop_task(c) PROVE One(c)'
<1> DEFINE l == loc[c]
           from_queue == ReadyIsBetter(c)
           handler == ~from_queue /\ l.pid = 0 /\ traps[c] # <<>>
           q0 == IF from_queue \/ handler THEN HIGHEST_PRIORITY ELSE NoPriority
<1>1. l \in Local /\ l.pid \in Process
  BY SMT DEF ControlInv, TypeOK, Local
<1>2. /\ pc[c] = "pop"
      /\ pc'[c] = IF from_queue THEN "scan" ELSE "store"
      /\ UNCHANGED <<queues, prio_bitmap, traps, highest_prio, delayed, is_sleeping>>
      /\ UNCHANGED <<seen, context, current>>
  BY SMT DEF pop_task, PopTask, Goto, queueVars, tableVars, taskVars, ControlInv,
         TypeOK
<1>3. /\ loc'[c].pid = l.pid /\ loc'[c].home = (IF l.home = l.pid THEN l.home ELSE 0)
      /\ loc'[c].task = (IF handler THEN Handler ELSE NoTask) /\ loc'[c].ret = "popped"
      /\ loc'[c].late = l.late /\ loc'[c].prio = q0
      /\ loc'[c].idx = l.idx /\ loc'[c].best = l.best
  <2>1. loc'[c] = [l EXCEPT !.home = IF @ = l.pid THEN @ ELSE 0,
                            !.task = IF handler THEN Handler ELSE NoTask,
                            !.prio = q0,
                            !.all = from_queue,
                            !.cpu = IF from_queue THEN 0 ELSE c,
                            !.ret = "popped"]
    BY SMT DEF pop_task, PopTask, ControlInv, TypeOK
  <2> HIDE DEF q0, from_queue, handler
  <2> QED
    BY <2>1, SMT
<1>4. ~from_queue => NoLess(l.pid, q0) /\ NoLessThanTraps(c, l.pid, q0)
  <2>1. \A q \in Level, y \in Task : y \in Elements(queues[l.pid][q]) =>
           q \in prio_bitmap[l.pid] \/ y \in Suspended(context)
    BY <1>1, <1>2, UnmarkedIsSuspended, SMT DEF One, Visible
  <2>2. prio_bitmap[l.pid] \in SUBSET Level
    BY <1>1, SMT DEF ControlInv, TypeOK
  <2>3. \A q \in prio_bitmap[l.pid] : Highest(prio_bitmap[l.pid]) <= q
    BY <2>2, HighestLemma
  <2>4. Highest(prio_bitmap[l.pid]) \in Level \cup {NoPriority}
    BY <2>2, HighestLemma
  <2>5. CASE handler
    BY <2>5, LevelFacts, SMT DEF NoLess, NoLessThanTraps
  <2>6. CASE ~from_queue /\ ~handler
    <3>1. TrapPrio(l.pid, c) = NoPriority /\ NoLessThanTraps(c, l.pid, q0)
      BY <2>6 DEF TrapPrio, NoLessThanTraps
    <3>2. \A q \in prio_bitmap[l.pid] : FALSE
      BY <2>2, <2>3, <2>4, <2>6, <3>1, LevelFacts, SMT DEF ReadyIsBetter
    <3>3. NoLess(l.pid, q0)
      BY <2>1, <3>2, Zenon DEF NoLess
    <3> QED
      BY <3>1, <3>3
  <2> QED
    BY <2>5, <2>6
<1> HIDE DEF from_queue, q0
<1>5. Visible(c)'
  BY <1>2, SMT DEF One, Visible
<1>6. Told(c)'
  BY <1>2, <1>3, <1>4, SMT DEF One, Told, Operating, NoLess, NoLessThanTraps, Late
<1>7. Scanned(c)'
  <2>1. from_queue => \A q \in Level : ~(q < q0)
    BY LevelFacts, SMT DEF q0
  <2> QED
    BY <1>2, <1>3, <2>1, SMT DEF Scanned
<1>8. Choosing(c)'
  BY <1>2, <1>3, SMT DEF One, Choosing
<1>9. Clear(c)'
  BY <1>2, <1>3, SMT DEF One, Clear, Resumes, Operating
<1>10. Unseen(c)' /\ Idle(c)'
  <2>1. q0 = IF from_queue \/ handler THEN HIGHEST_PRIORITY ELSE NoPriority
    BY DEF q0
  <2>2. /\ handler => traps[c] # <<>>
        /\ pc'[c] = "store" => ~from_queue
    BY <1>2, SMT
  <2> HIDE DEF handler
  <2> QED
    BY <1>2, <1>3, <2>1, <2>2, SMT DEF One, Unseen, Idle, Resumes, Operating, Nothing
<1>11. Late(c)' /\ OnTime(c)'
  BY <1>2, <1>3, SMT DEF One, Late, OnTime, Resumes, Operating
<1> QED
  BY <1>5, <1>6, <1>7, <1>8, <1>9, <1>10, <1>11 DEF One

\* The popped task is run only if no trap waits (main_loop.rs:525-544 and
\* 632-722).
LEMMA RunPoppedOne ==
    ASSUME ControlInv, ControlInv', NEW c \in CPU, CPU = {c}, One(c), run_popped(c)
    PROVE  One(c)'
<1> DEFINE l == loc[c]
           resumed == IF l.task = Handler THEN [at |-> "handler", loc |-> Fresh]
                      ELSE context[l.task]
           m == resumed.loc
<1>1. /\ pc[c] = "popped" /\ l.task # NoTask /\ l.task \in Task \cup {Handler}
      /\ pc'[c] = resumed.at /\ loc'[c] = m /\ current'[c] = l.task
      /\ \A u \in Task : context'[u] = IF u = l.task THEN Running ELSE context[u]
      /\ UNCHANGED <<queues, prio_bitmap, traps, highest_prio, delayed, is_sleeping, seen>>
  <2>1. /\ pc[c] = "popped" /\ l.task # NoTask
        /\ pc' = [pc EXCEPT ![c] = resumed.at] /\ loc' = [loc EXCEPT ![c] = m]
        /\ current' = [current EXCEPT ![c] = l.task]
        /\ context' = [u \in Task |-> IF u = l.task THEN Running ELSE context[u]]
        /\ UNCHANGED <<queues, prio_bitmap, traps, highest_prio, delayed, is_sleeping, seen>>
    BY Zenon DEF run_popped, Goto, queueVars, tableVars
  <2>2. /\ pc \in [CPU -> PC] /\ loc \in [CPU -> Local]
        /\ l.task \in Task \cup {Handler, NoTask}
        /\ current \in [CPU -> Task \cup {Handler, NoTask}]
    BY SMT DEF ControlInv, TypeOK, Local
  <2> HIDE DEF m, l, resumed
  <2> QED
    BY <2>1, <2>2, Zenon
<1>2. l.task # Handler => traps[c] = <<>>
  <2>1. l.pid # 0 => traps[c] = <<>>
    BY <1>1, SMT DEF One, Clear, Resumes, Operating
  <2>2. l.task \in Task /\ l.pid = 0 => traps[c] = <<>>
    BY <1>1, SMT DEF ControlInv, OwnState, Popping, Resumes, Operating
  <2> QED
    BY <1>1, <2>1, <2>2
<1>3. ASSUME NEW u \in Task
      PROVE  /\ context[u].at = "run" => context[u].loc = Fresh
             /\ context[u].at # "run" =>
                   /\ context[u].at \in {"mark", "peek", "store"}
                   /\ context[u].loc.home = 0 /\ context[u].loc.ret = "run"
                   /\ context[u].loc.task \in Task
                   /\ context[u].loc.pid = pid_of[context[u].loc.task]
  BY SMT DEF ControlInv, Contexts, TypeOK
<1>4. /\ m.home = 0 /\ m.idx = 0 /\ m.best = ISIZE_MAX
      /\ resumed.at = "store" => m.late
      /\ m.late => resumed.at = "store"
      /\ resumed.at \in {"run", "handler", "mark", "peek", "store"}
      /\ resumed.at \in {"run", "handler"} =>
            m.pid = 0 /\ m.task = NoTask /\ m.ret = "none"
      /\ resumed.at \notin {"run", "handler"} =>
            /\ l.task # Handler /\ m.ret = "run" /\ m.task \in Task
            /\ m.pid = pid_of[m.task]
      /\ resumed.at = "handler" <=> l.task = Handler
  <2>1. /\ Fresh.home = 0 /\ Fresh.idx = 0 /\ Fresh.best = ISIZE_MAX /\ Fresh.late = FALSE
        /\ Fresh.pid = 0 /\ Fresh.task = NoTask /\ Fresh.ret = "none"
    BY SMT DEF Fresh
  <2>2. CASE l.task = Handler
    <3>1. resumed.at = "handler" /\ m = Fresh
      BY <2>2
    <3> QED
      BY <2>1, <2>2, <3>1
  <2>3. CASE l.task # Handler
    <3>1. l.task \in Task /\ resumed = context[l.task]
      BY <1>1, <2>3
    <3>2. Late(c)
      BY DEF One
    <3> QED
      BY <1>3, <2>1, <2>3, <3>1, <3>2, SMT DEF Late
  <2> QED
    BY <2>2, <2>3
<1>5. \A x : x \in Suspended(context) =>
               x \in Suspended(context') \/ (l.task # Handler /\ x = m.task)
  <2> SUFFICES ASSUME NEW u \in Task
               PROVE  \/ context[u].loc.task \in Suspended(context')
                      \/ l.task # Handler /\ context[u].loc.task = m.task
    BY Zenon DEF Suspended
  <2>1. CASE u = l.task
    BY <2>1, HandlerAssumption
  <2>2. CASE u # l.task
    BY <1>1, <2>2, Zenon DEF Suspended
  <2> QED
    BY <2>1, <2>2
<1>6. \A x : x \in Unmarked(context) =>
               x \in Unmarked(context') \/ (resumed.at = "mark" /\ x = m.task)
  <2> SUFFICES ASSUME NEW u \in Task, context[u].at = "mark"
               PROVE  \/ context[u].loc.task \in Unmarked(context')
                      \/ resumed.at = "mark" /\ context[u].loc.task = m.task
    BY Zenon DEF Unmarked
  <2>1. CASE u = l.task
    BY <2>1, HandlerAssumption
  <2>2. CASE u # l.task
    BY <1>1, <2>2, Zenon DEF Unmarked
  <2> QED
    BY <2>1, <2>2
<1> HIDE DEF m, resumed
<1>7. Visible(c)'
  BY <1>1, <1>6, SMT DEF One, Visible
<1>8. Told(c)'
  <2>1. ASSUME NEW p \in Process, NEW q \in Level, NEW t \in Task,
               t \in Elements(queues[p][q]), t \notin Suspended(context'),
               <<p, c>> \notin delayed, ~(highest_prio[p][c] <= q)
        PROVE  resumed.at \in Operating /\ m.task = t /\ m.pid = p
    <3>1. t \in Suspended(context)
      BY <1>1, <2>1, SMT DEF One, Told, Operating
    <3>2. m.task = t
      BY <1>5, <2>1, <3>1, Zenon
    <3>3. t # NoTask /\ pid_of[t] = p
      BY <2>1, NoTaskAssumption, Zenon DEF ControlInv, Proper
    <3> QED
      BY <1>4, <3>2, <3>3, SMT DEF Operating
  <2>2. \/ pc[c] \in Operating /\ loc[c].pid = 0
        \/ NoLessThanTraps(c, 0, highest_prio[0][c])
    BY DEF One, Told
  <2>3. NoLessThanTraps(c, 0, highest_prio[0][c])
    BY <1>1, <2>2, SMT DEF Operating
  <2>4. pc'[c] = "store" => m.late /\ traps[c] = <<>>
    BY <1>1, <1>2, <1>4, SMT
  <2> QED
    BY <1>1, <2>1, <2>3, <2>4, SMT DEF Told, NoLessThanTraps
<1>9. Scanned(c)' /\ Choosing(c)'
  BY <1>1, <1>4, SMT DEF Scanned, Choosing
<1>10. Clear(c)'
  BY <1>1, <1>2, <1>4, SMT DEF Clear, Resumes, Operating
<1>11. Unseen(c)' /\ Idle(c)'
  BY <1>1, SMT DEF One, Unseen, Idle, Resumes, Operating
<1>12. Late(c)'
  <2>1. Running.at = "run" /\ Running.loc = Fresh
    BY DEF Running
  <2>2. Fresh.idx = 0 /\ Fresh.best = ISIZE_MAX /\ Fresh.late = FALSE
    BY SMT DEF Fresh
  <2>3. \A u \in Task : context'[u] = Running \/ context'[u] = context[u]
    BY <1>1
  <2>4. \A u \in Task : /\ context'[u].at = "store" => context'[u].loc.late
                        /\ context'[u].loc.late => context'[u].at = "store"
                        /\ context'[u].loc.idx = 0 /\ context'[u].loc.best = ISIZE_MAX
    BY <2>1, <2>2, <2>3, SMT DEF One, Late
  <2>5. Resumes(c)' = "run" => context'[current'[c]] = Running
    BY <1>1, <1>4, SMT DEF Resumes, Operating
  <2> QED
    BY <1>1, <1>4, <2>4, <2>5, SMT DEF Late
<1>13. OnTime(c)'
  <2> SUFFICES ASSUME ~KERNEL_PUSH_IRQ PROVE OnTime(c)'
    BY DEF OnTime
  <2>1. OnTime(c)
    BY DEF One
  <2>2. resumed.at \notin {"run", "handler"} => m.pid # 0
    BY <1>1, <1>4, <2>1, SMT DEF OnTime, resumed, m
  <2>3. \A u \in Task : context'[u].at # "run" => context'[u].loc.pid # 0
    BY <1>1, <2>1, SMT DEF OnTime, Running
  <2> QED
    BY <1>1, <1>4, <2>1, <2>2, <2>3, SMT DEF OnTime, Resumes, Operating
<1> QED
  BY <1>7, <1>8, <1>9, <1>10, <1>11, <1>12, <1>13 DEF One

\* A user's loop that found nothing goes on in the kernel
\* (main_loop.rs:370-410).
LEMMA IntoKernelOne ==
    ASSUME ControlInv, ControlInv', NEW c \in CPU, CPU = {c}, One(c), into_kernel(c)
    PROVE  One(c)'
<1> DEFINE l == loc[c]
<1>1. /\ pc[c] = "popped" /\ pc'[c] = "pop" /\ l.task = NoTask /\ l.home # 0
      /\ UNCHANGED <<queues, prio_bitmap, traps, highest_prio, delayed, is_sleeping>>
      /\ UNCHANGED <<seen, context, current>>
  BY SMT DEF into_kernel, Goto, queueVars, tableVars, taskVars, ControlInv, TypeOK
<1>2. /\ loc'[c].home = 0 /\ loc'[c].task = NoTask /\ loc'[c].ret = "none"
      /\ loc'[c].idx = 0 /\ loc'[c].best = ISIZE_MAX /\ loc'[c].late = FALSE
  <2>1. loc'[c] = [Fresh EXCEPT !.pid = vspace[c]]
    BY SMT DEF into_kernel, ControlInv, TypeOK
  <2> QED
    BY <2>1, SMT DEF Fresh
<1>3. Visible(c)'
  BY <1>1, SMT DEF One, Visible
<1>4. Told(c)'
  BY <1>1, SMT DEF One, Told, Operating, NoLess, NoLessThanTraps
<1>5. Scanned(c)' /\ Choosing(c)'
  BY <1>1, <1>2, SMT DEF Scanned, Choosing
<1>6. Clear(c)'
  BY <1>1, SMT DEF One, Clear
<1>7. Unseen(c)' /\ Idle(c)'
  BY <1>1, <1>2, SMT DEF One, Unseen, Idle, Resumes, Operating, Nothing
<1>8. Late(c)' /\ OnTime(c)'
  BY <1>1, <1>2, SMT DEF One, Late, OnTime, Resumes, Operating
<1> QED
  BY <1>8, <1>3, <1>4, <1>5, <1>6, <1>7 DEF One

\* The CPU is marked as sleeping before it looks again
\* (main_loop.rs:418-431).
LEMMA WaitOne ==
    ASSUME ControlInv, ControlInv', NEW c \in CPU, CPU = {c}, One(c),
           wait_for_runnable_task(c)
    PROVE  One(c)'
<1>1. /\ pc[c] = "popped" /\ pc'[c] = "check"
      /\ UNCHANGED <<queues, prio_bitmap, traps, highest_prio, delayed, context, current>>
  BY SMT DEF wait_for_runnable_task, Goto, queueVars, tableVars, taskVars,
     ControlInv, TypeOK
<1>2. /\ loc'[c].home = 0 /\ loc'[c].idx = 0 /\ loc'[c].best = ISIZE_MAX /\ loc'[c].late = FALSE
  <2>1. loc'[c] = Fresh
    BY SMT DEF wait_for_runnable_task, ControlInv, TypeOK
  <2> QED
    BY <2>1, SMT DEF Fresh
<1>3. \A t \in seen'[c] : /\ t \notin Suspended(context)
                          /\ \E q \in Level : t \in Elements(queues[pid_of[t]][q])
  <2>1. seen'[c] = Published
    BY SMT DEF wait_for_runnable_task, ControlInv, TypeOK
  <2>2. ASSUME NEW t \in Published
        PROVE  /\ t \notin Suspended(context)
               /\ \E q \in Level : t \in Elements(queues[pid_of[t]][q])
    <3>1. PICK p \in Process : t \in Queued(queues[p])
      BY DEF Published
    <3>2. PICK q \in Level : t \in InQueue(queues[p], q)
      BY <3>1, Zenon DEF Queued
    <3>3. t \in Elements(queues[p][q])
      BY <3>2 DEF InQueue, Elements
    <3>4. pid_of[t] = p
      BY <3>3, Zenon DEF ControlInv, Proper
    <3>5. t \notin Suspended(context)
      BY Zenon DEF Published, Suspended
    <3> QED
      BY <3>3, <3>4, <3>5
  <2> QED
    BY <2>1, <2>2
<1>4. Visible(c)'
  BY <1>1, SMT DEF One, Visible
<1>5. Told(c)'
  BY <1>1, SMT DEF One, Told, Operating, NoLess, NoLessThanTraps
<1>6. Scanned(c)'
  BY <1>1, SMT DEF Scanned
<1>7. Choosing(c)'
  <2>1. \A p \in Process : ~(p < 0)
    BY SMT DEF Process
  <2> QED
    BY <1>1, <1>2, <2>1, SMT DEF Choosing
<1>8. Clear(c)'
  BY <1>1, <1>2, SMT DEF Clear, Resumes, Operating
<1>9. Unseen(c)' /\ Idle(c)'
  BY <1>1, <1>3, SMT DEF Unseen, Idle
<1>10. Late(c)' /\ OnTime(c)'
  BY <1>1, <1>2, SMT DEF One, Late, OnTime, Resumes, Operating
<1> QED
  BY <1>10, <1>4, <1>5, <1>6, <1>7, <1>8, <1>9 DEF One

\* The second look finds something: the mark is taken back
\* (main_loop.rs:433-440).
LEMMA StayAwakeOne ==
    ASSUME ControlInv, ControlInv', NEW c \in CPU, CPU = {c}, One(c), stay_awake(c)
    PROVE  One(c)'
<1>1. /\ pc[c] = "decide" /\ pc'[c] = "select"
      /\ UNCHANGED <<queues, prio_bitmap, traps, highest_prio, delayed, context, current>>
      /\ is_sleeping'[c] = FALSE /\ seen'[c] = {}
  BY SMT DEF stay_awake, Goto, queueVars, tableVars, taskVars, ControlInv, TypeOK
<1>2. /\ loc'[c].home = 0 /\ loc'[c].idx = 0 /\ loc'[c].best = ISIZE_MAX /\ loc'[c].late = FALSE
  <2>1. loc'[c] = Fresh
    BY SMT DEF stay_awake, ControlInv, TypeOK
  <2> QED
    BY <2>1, SMT DEF Fresh
<1>3. Visible(c)'
  BY <1>1, SMT DEF One, Visible
<1>4. Told(c)'
  BY <1>1, SMT DEF One, Told, Operating, NoLess, NoLessThanTraps
<1>5. Scanned(c)'
  BY <1>1, SMT DEF Scanned
<1>6. Choosing(c)'
  <2>1. \A p \in Process : ~(p < 0)
    BY SMT DEF Process
  <2> QED
    BY <1>1, <1>2, <2>1, SMT DEF Choosing
<1>7. Clear(c)'
  BY <1>1, <1>2, SMT DEF Clear, Resumes, Operating
<1>8. Unseen(c)' /\ Idle(c)'
  BY <1>1, SMT DEF Unseen, Idle
<1>9. Late(c)' /\ OnTime(c)'
  BY <1>1, <1>2, SMT DEF One, Late, OnTime, Resumes, Operating
<1> QED
  BY <1>9, <1>3, <1>4, <1>5, <1>6, <1>7, <1>8 DEF One

\* The second look finds no entry that is a level: nothing is queued
\* (main_loop.rs:433-441).
LEMMA SleepOne ==
    ASSUME ControlInv, ControlInv', NEW c \in CPU, CPU = {c}, One(c), go_to_sleep(c)
    PROVE  One(c)'
<1>1. /\ pc[c] = "decide" /\ pc'[c] = "wfi"
      /\ UNCHANGED <<queues, prio_bitmap, traps, highest_prio, delayed, is_sleeping>>
      /\ UNCHANGED <<seen, context, current>>
      /\ highest_prio[loc[c].pid][c] > LOWEST_PRIORITY
  BY SMT DEF go_to_sleep, Goto, queueVars, tableVars, cpuVars, taskVars, ControlInv, TypeOK
<1>2. /\ loc'[c].pid = 0 /\ loc'[c].home = 0 /\ loc'[c].idx = 0
      /\ loc'[c].best = ISIZE_MAX /\ loc'[c].task = NoTask /\ loc'[c].late = FALSE
  <2>1. loc'[c] = Fresh
    BY SMT DEF go_to_sleep, ControlInv, TypeOK
  <2> QED
    BY <2>1, SMT DEF Fresh
<1>3. /\ \A p \in Process : ~(highest_prio[p][c] <= LOWEST_PRIORITY)
      /\ \A p \in Process, q \in Level : ~(highest_prio[p][c] <= q)
      /\ \A p \in Process : highest_prio[p][c] > LOWEST_PRIORITY
  <2> DEFINE h(p) == highest_prio[p][c]
  <2>1. \A p \in Process : h(p) \in Int /\ h(loc[c].pid) <= h(p)
    <3>1. \A p \in Process : h(p) \in Level \cup {NoPriority}
      BY SMT DEF ControlInv, TypeOK
    <3>2. \A p \in Process : h(loc[c].pid) <= h(p)
      BY <1>1, SMT DEF One, Choosing
    <3> QED
      BY <3>1, <3>2, LevelFacts
  <2>2. h(loc[c].pid) > LOWEST_PRIORITY /\ loc[c].pid \in Process
    BY <1>1, SMT DEF ControlInv, TypeOK, Local
  <2>3. LOWEST_PRIORITY \in Int /\ \A q \in Level : q \in Int /\ q <= LOWEST_PRIORITY
    BY LevelAssumption, SMT DEF Level
  <2> HIDE DEF h
  <2>4. \A p \in Process : h(p) > LOWEST_PRIORITY
    BY <2>1, <2>2, <2>3, SMT
  <2>5. /\ \A p \in Process : ~(h(p) <= LOWEST_PRIORITY)
        /\ \A p \in Process, q \in Level : ~(h(p) <= q)
    BY <2>1, <2>3, <2>4, SMT
  <2> QED
    BY <2>4, <2>5 DEF h
<1>4. \A p \in Process, q \in Level, t \in Task :
         t \in Elements(queues[p][q]) => t \in Suspended(context) \/ <<p, c>> \in delayed
  BY <1>1, <1>3, SMT DEF One, Told, Operating
<1>5. traps[c] = <<>>
  <2>1. traps[c] # <<>> => highest_prio[0][c] <= HIGHEST_PRIORITY
    BY <1>1, SMT DEF One, Told, Operating, NoLessThanTraps
  <2> QED
    BY <1>3, <2>1, Numbers, Zenon
<1>6. ~KERNEL_PUSH_IRQ => Nothing(c)
  <2> SUFFICES ASSUME ~KERNEL_PUSH_IRQ, NEW q \in Level, queues[0][q] # <<>> PROVE FALSE
    BY <1>3, <1>5, Zenon DEF Nothing
  <2>1. queues[0][q] \in Seq(Task)
    BY Numbers, SMT DEF ControlInv, TypeOK
  <2>2. PICK t \in Task : t \in Elements(queues[0][q])
    <3> DEFINE w == queues[0][q]
    <3>1. w \in Seq(Task) /\ w # <<>>
      BY <2>1
    <3> HIDE DEF w
    <3>2. Head(w) \in Task /\ Elements(w) = {Head(w)} \cup Elements(Tail(w))
      BY <3>1, TailFacts
    <3>3. Head(w) \in Elements(w)
      BY <3>2, Zenon
    <3> QED
      BY <3>2, <3>3 DEF w
  <2>3. pid_of[t] = 0
    <3>1. Proper /\ 0 \in Process
      BY Numbers DEF ControlInv
    <3> QED
      BY <2>2, <3>1, Zenon DEF Proper
  <2>4. <<0, c>> \notin delayed
    BY Zenon DEF One, OnTime
  <2>5. PICK u \in Task : context[u].loc.task = t
    BY <1>4, <2>2, <2>4, Numbers, Zenon DEF Suspended
  <2>6. context[u].at = "run"
    BY <2>3, <2>5, SMT DEF One, OnTime, ControlInv, Contexts
  <2>7. context[u].loc.task = NoTask
    BY <2>6, SMT DEF ControlInv, Contexts, Fresh
  <2> QED
    BY <2>5, <2>7, NoTaskAssumption
<1>7. Visible(c)'
  BY <1>1, SMT DEF One, Visible
<1>8. Told(c)'
  BY <1>1, SMT DEF One, Told, Operating, NoLess, NoLessThanTraps
<1>9. Scanned(c)' /\ Choosing(c)'
  BY <1>1, <1>2, SMT DEF Scanned, Choosing
<1>10. Clear(c)'
  BY <1>1, <1>2, <1>5, SMT DEF Clear
<1>11. Idle(c)'
  BY <1>1, <1>2, <1>6, SMT DEF Idle, Resumes, Operating, Nothing
<1>12. Unseen(c)'
  <2> SUFFICES ASSUME NEW t \in seen[c]
               PROVE  /\ t \notin Suspended(context)
                      /\ \E q \in Level : t \in Elements(queues[pid_of[t]][q])
                      /\ <<pid_of[t], c>> \in delayed
    BY <1>1, Zenon DEF Unseen
  <2>1. /\ t \notin Suspended(context)
        /\ \E q \in Level : t \in Elements(queues[pid_of[t]][q])
    BY DEF One, Unseen
  <2>2. t \in Task /\ pid_of[t] \in Process
    BY PidAssumption, SMT DEF ControlInv, TypeOK
  <2> QED
    BY <1>4, <2>1, <2>2, Zenon
<1>13. Late(c)' /\ OnTime(c)'
  BY <1>1, <1>2, SMT DEF One, Late, OnTime, Resumes, Operating
<1> QED
  BY <1>7, <1>8, <1>9, <1>10, <1>11, <1>12, <1>13 DEF One

\* WFI returns without a trap: the mark stays, and still nothing is queued
\* (main_loop.rs:441).
LEMMA WfiReturnsOne ==
    ASSUME ControlInv, ControlInv', NEW c \in CPU, CPU = {c}, One(c), wfi_returns(c)
    PROVE  One(c)'
<1>1. /\ pc[c] = "wfi" /\ pc'[c] = "select" /\ seen'[c] = {}
      /\ UNCHANGED <<queues, prio_bitmap, traps, highest_prio, delayed, is_sleeping, loc>>
      /\ UNCHANGED <<context, current>>
  BY SMT DEF wfi_returns, Goto, queueVars, tableVars, cpuVars, taskVars, ControlInv, TypeOK
<1>2. Visible(c)'
  BY <1>1, SMT DEF One, Visible
<1>3. Told(c)'
  BY <1>1, SMT DEF One, Told, Operating, NoLess, NoLessThanTraps
<1>4. Scanned(c)'
  BY <1>1, SMT DEF Scanned
<1>5. Choosing(c)'
  <2>1. \A p \in Process : ~(p < 0)
    BY SMT DEF Process
  <2> QED
    BY <1>1, <2>1, SMT DEF One, Choosing
<1>6. Clear(c)' /\ Unseen(c)' /\ Idle(c)'
  BY <1>1, SMT DEF One, Clear, Unseen, Idle, Resumes, Operating, Nothing
<1>7. Late(c)' /\ OnTime(c)'
  BY <1>1, SMT DEF One, Late, OnTime, Resumes, Operating
<1> QED
  BY <1>7, <1>2, <1>3, <1>4, <1>5, <1>6 DEF One

\* push_task sets the level's bit (ready_queue.rs:63-66).
LEMMA MarkOne ==
    ASSUME ControlInv, ControlInv', NEW c \in CPU, CPU = {c}, One(c), mark(c) PROVE One(c)'
<1> DEFINE l == loc[c]
<1>1. /\ pc[c] = "mark" /\ pc'[c] = "peek"
      /\ UNCHANGED <<queues, traps, highest_prio, delayed, is_sleeping, seen, context, current>>
  BY SMT DEF mark, Goto, tableVars, cpuVars, taskVars, ControlInv, TypeOK
<1>2. /\ loc'[c].pid = l.pid /\ loc'[c].home = l.home
      /\ loc'[c].task = l.task
      /\ loc'[c].ret = l.ret
      /\ loc'[c].idx = l.idx
      /\ loc'[c].best = l.best
      /\ loc'[c].late = l.late
  <2>1. loc'[c] = [l EXCEPT !.all = TRUE]
    BY SMT DEF mark, ControlInv, TypeOK
  <2> QED
    BY <2>1, SMT
<1>3. /\ prio_bitmap'[l.pid] = prio_bitmap[l.pid] \cup {priority[l.task]}
      /\ \A p \in Process : p # l.pid => prio_bitmap'[p] = prio_bitmap[p]
  <2> DEFINE new == prio_bitmap[l.pid] \cup {priority[l.task]}
  <2>1. prio_bitmap' = [prio_bitmap EXCEPT ![l.pid] = new]
    BY Zenon DEF mark, SetBit
  <2>2. DOMAIN prio_bitmap = Process /\ l.pid \in Process
    BY SMT DEF ControlInv, TypeOK, Local
  <2> HIDE DEF new, l
  <2>3. /\ prio_bitmap'[l.pid] = new
        /\ \A p \in Process : p # l.pid => prio_bitmap'[p] = prio_bitmap[p]
    BY <2>1, <2>2, Zenon
  <2> QED
    BY <2>3 DEF new
<1>4. Visible(c)'
  <2>1. \A p \in Process, q \in Level, t \in Task :
           t \in Elements(queues[p][q]) /\ l.task = t => p = l.pid /\ q = priority[l.task]
    <3> SUFFICES ASSUME NEW p \in Process, NEW q \in Level,
                        NEW t \in Elements(queues[p][q]), l.task = t
                 PROVE  p = l.pid /\ q = priority[l.task]
      OBVIOUS
    <3>1. l.pid = pid_of[l.task]
      BY <1>1, SMT DEF ControlInv, OwnState, Control
    <3>2. Proper
      BY DEF ControlInv
    <3>3. pid_of[t] = p /\ priority[t] = q
      BY <3>2, ZenonT(60) DEF Proper
    <3> QED
      BY <3>1, <3>3
  <2> HIDE DEF l
  <2>2. l = loc[c]
    BY DEF l
  <2> QED
    BY <1>1, <1>3, <2>1, <2>2, SMT DEF One, Visible
<1>5. Told(c)'
  BY <1>1, <1>2, SMT DEF One, Told, Operating, NoLess, NoLessThanTraps
<1>6. Scanned(c)' /\ Choosing(c)'
  BY <1>1, <1>2, SMT DEF One, Scanned, Choosing
<1>7. Clear(c)' /\ Unseen(c)' /\ Idle(c)'
  BY <1>1, <1>2, SMT DEF One, Clear, Unseen, Idle, Resumes, Operating
<1>8. Late(c)' /\ OnTime(c)'
  BY <1>1, <1>2, SMT DEF One, Late, OnTime, Resumes, Operating
<1> QED
  BY <1>8, <1>4, <1>5, <1>6, <1>7 DEF One

\* get_and_update_* read what the sources report, which is true
\* (scheduler.rs:434-463).
LEMMA PeekOne ==
    ASSUME ControlInv, ControlInv', NEW c \in CPU, CPU = {c}, One(c), peek(c) PROVE One(c)'
<1> DEFINE l == loc[c]
           x == SourcesPrio(l.pid, c)
<1>1. l \in Local /\ l.pid \in Process
  BY SMT DEF ControlInv, TypeOK, Local
<1>2. /\ pc[c] = "peek" /\ pc'[c] = "store"
      /\ UNCHANGED <<queues, prio_bitmap, traps, highest_prio, delayed, is_sleeping>>
      /\ UNCHANGED <<seen, context, current>>
  BY SMT DEF peek, Goto, queueVars, tableVars, cpuVars, taskVars, ControlInv, TypeOK
<1>3. /\ loc'[c].prio = x /\ loc'[c].pid = l.pid /\ loc'[c].home = l.home
      /\ loc'[c].task = l.task
      /\ loc'[c].ret = l.ret
      /\ loc'[c].idx = l.idx
      /\ loc'[c].best = l.best
      /\ loc'[c].late = l.late
  <2>1. loc'[c] = [l EXCEPT !.prio = x, !.cpu = IF l.all THEN 0 ELSE c]
    BY SMT DEF peek, ControlInv, TypeOK
  <2> HIDE DEF x
  <2> QED
    BY <2>1, SMT
<1>4. NoLess(l.pid, x) /\ NoLessThanTraps(c, l.pid, x)
  <2>1. \A q \in Level, y \in Task : y \in Elements(queues[l.pid][q]) =>
           q \in prio_bitmap[l.pid] \/ y \in Suspended(context)
    BY <1>1, <1>2, UnmarkedIsSuspended, SMT DEF One, Visible
  <2>2. prio_bitmap[l.pid] \in SUBSET Level
    BY <1>1, SMT DEF ControlInv, TypeOK
  <2>3. \A q \in prio_bitmap[l.pid] : Highest(prio_bitmap[l.pid]) <= q
    BY <2>2, HighestLemma
  <2>4. Highest(prio_bitmap[l.pid]) \in Level \cup {NoPriority}
    BY <2>2, HighestLemma
  <2> DEFINE bits == prio_bitmap[l.pid]
             hi == Highest(bits)
             tr == TrapPrio(l.pid, c)
  <2>5. /\ hi \in Int /\ tr \in Int
        /\ l.pid = 0 /\ traps[c] # <<>> => tr = HIGHEST_PRIORITY
    BY <2>4, LevelFacts, SMT DEF TrapPrio
  <2>6. x = IF tr < hi THEN tr ELSE hi
    BY DEF SourcesPrio, Lower
  <2>7. NoLessThanTraps(c, l.pid, x)
    <3>1. HIGHEST_PRIORITY \in Int
      BY LevelFacts
    <3> HIDE DEF x, tr, hi, l
    <3> QED
      BY <2>5, <2>6, <3>1, SMT DEF NoLessThanTraps
  <2>8. \A q \in bits : x <= q
    <3>1. \A q \in bits : q \in Int /\ hi <= q
      BY <2>2, <2>3, LevelFacts, Zenon
    <3> HIDE DEF x, tr, hi, bits
    <3> QED
      BY <2>5, <2>6, <3>1, SMT
  <2>9. NoLess(l.pid, x)
    <3> HIDE DEF x
    <3> QED
      BY <2>1, <2>8, Zenon DEF NoLess
  <2> QED
    BY <2>7, <2>9
<1>5. Visible(c)'
  BY <1>2, SMT DEF One, Visible
<1>6. Told(c)'
  BY <1>2, <1>3, <1>4, SMT DEF One, Told, Operating, NoLess, NoLessThanTraps
<1>7. Scanned(c)' /\ Choosing(c)'
  BY <1>2, <1>3, SMT DEF One, Scanned, Choosing
<1>8. Clear(c)' /\ Unseen(c)' /\ Idle(c)'
  BY <1>2, <1>3, SMT DEF One, Clear, Unseen, Idle, Resumes, Operating
<1>9. Late(c)' /\ OnTime(c)'
  BY <1>2, <1>3, SMT DEF One, Late, OnTime, Resumes, Operating
<1> QED
  BY <1>9, <1>5, <1>6, <1>7, <1>8 DEF One

\* What the callers of push_task have in common: the task's level has no bit
\* only until the pusher sets it (scheduler.rs:355-383).
LEMMA PushOne ==
    ASSUME ControlInv, ControlInv', NEW c \in CPU, CPU = {c}, One(c),
           NEW t \in Task, NEW from \in {"run", "requeue", "handle"},
           NEW ret \in {"select", "run", "handler"}, NEW home \in Process,
           push_task(c, t, from, ret, home),
           home # 0 \/ ret = "run" => from = "run",
           ret = "run" => current'[c] = current[c] /\ pid_of[current[c]] \in {0, pid_of[t]}
    PROVE  One(c)'
<1> DEFINE p0 == pid_of[t]
           q0 == priority[t]
<1>1. /\ pc[c] = from /\ pc'[c] = "mark"
      /\ UNCHANGED <<prio_bitmap, traps, highest_prio, delayed, is_sleeping, seen, context>>
  <2>1. /\ pc[c] = from /\ pc' = [pc EXCEPT ![c] = "mark"]
        /\ UNCHANGED <<prio_bitmap, traps, highest_prio, delayed, is_sleeping, seen, context>>
    BY Zenon DEF push_task, Goto, tableVars
  <2>2. pc \in [CPU -> PC]
    BY DEF ControlInv, TypeOK
  <2> QED
    BY <2>1, <2>2, SMT
<1>2. /\ loc'[c].pid = p0 /\ loc'[c].home = home /\ loc'[c].task = t /\ loc'[c].ret = ret
      /\ loc'[c].idx = 0 /\ loc'[c].best = ISIZE_MAX /\ loc'[c].late = FALSE
  <2>1. loc' = [loc EXCEPT ![c] = [Fresh EXCEPT !.home = home, !.pid = p0, !.task = t,
                                                !.ret = ret]]
    BY Zenon DEF push_task
  <2>2. loc \in [CPU -> Local]
    BY DEF ControlInv, TypeOK
  <2>3. loc'[c] = [Fresh EXCEPT !.home = home, !.pid = p0, !.task = t, !.ret = ret]
    BY <2>1, <2>2, SMT
  <2> QED
    BY <2>3, SMT DEF Fresh
<1>3. /\ p0 \in Process /\ q0 \in Level
      /\ queues'[p0][q0] = Append(queues[p0][q0], t)
      /\ \A p \in Process, q \in Level : p # p0 \/ q # q0 => queues'[p][q] = queues[p][q]
  <2>1. queues' = [queues EXCEPT ![pid_of[t]] = PushBack(@, t)]
    BY Zenon DEF push_task
  <2>2. TypeOK /\ Proper
    BY DEF ControlInv
  <2> QED
    BY <2>1, <2>2, Pushed
<1>4. \A p \in Process, q \in Level :
         /\ Elements(queues[p][q]) \subseteq Elements(queues'[p][q])
         /\ \A y \in Elements(queues'[p][q]) :
               y \in Elements(queues[p][q]) \/ (y = t /\ p = p0)
  <2>1. queues[p0][q0] \in Seq(Task)
    BY <1>3, SMT DEF ControlInv, TypeOK
  <2>2. Elements(queues'[p0][q0]) = Elements(queues[p0][q0]) \cup {t}
    BY <1>3, <2>1, AppendFacts
  <2> HIDE DEF p0, q0
  <2> SUFFICES ASSUME NEW p \in Process, NEW q \in Level
               PROVE  /\ Elements(queues[p][q]) \subseteq Elements(queues'[p][q])
                      /\ \A y \in Elements(queues'[p][q]) :
                            y \in Elements(queues[p][q]) \/ (y = t /\ p = p0)
    OBVIOUS
  <2>3. CASE p = p0 /\ q = q0
    BY <2>2, <2>3, Zenon
  <2>4. CASE p # p0 \/ q # q0
    <3>1. queues'[p][q] = queues[p][q]
      BY <1>3, <2>4
    <3> QED
      BY <3>1, Zenon
  <2> QED
    BY <2>3, <2>4
<1> HIDE DEF p0, q0
<1>5. home # 0 \/ ret = "run" => traps[c] = <<>>
  BY <1>1, SMT DEF One, Clear, Resumes, Operating
<1>6. KERNEL_PUSH_IRQ \/ ~is_sleeping[c]
  BY <1>1, SMT DEF One, Idle, Resumes, Operating
<1>7. Visible(c)'
  BY <1>1, <1>2, <1>4, SMT DEF One, Visible
<1>8. Told(c)'
  <2>1. ASSUME NEW p \in Process, NEW q \in Level, NEW y \in Task, y \in Elements(queues'[p][q])
        PROVE  \/ y \in Suspended(context)
               \/ <<p, c>> \in delayed
               \/ y = t /\ p = p0
               \/ highest_prio[p][c] <= q
    <3>1. CASE y \in Elements(queues[p][q])
      BY <1>1, <3>1, SMT DEF One, Told, Operating
    <3>2. CASE y = t /\ p = p0
      BY <3>2
    <3> QED
      BY <1>4, <2>1, <3>1, <3>2
  <2>2. NoLessThanTraps(c, 0, highest_prio[0][c])
    BY <1>1, SMT DEF One, Told, Operating
  <2> QED
    BY <1>1, <1>2, <2>1, <2>2, SMT DEF Told, NoLessThanTraps, Operating
<1>9. Scanned(c)' /\ Choosing(c)'
  BY <1>1, <1>2, SMT DEF Scanned, Choosing
<1>10. Clear(c)' /\ Idle(c)'
  BY <1>1, <1>2, <1>5, <1>6, SMT DEF Clear, Idle, Resumes, Operating
<1>11. Unseen(c)'
  BY <1>1, SMT DEF One, Unseen
<1>12. Late(c)'
  BY <1>1, <1>2, SMT DEF One, Late, Resumes, Operating
<1>13. OnTime(c)'
  BY <1>1, <1>2, SMT DEF One, OnTime, Resumes, Operating, p0
<1> QED
  BY <1>7, <1>8, <1>9, <1>10, <1>11, <1>12, <1>13 DEF One

\* The callers: a task that yields or was interrupted, a running task that
\* wakes another, and the trap handler (main_loop.rs:463-498,
\* trap_wait_queue.rs:189-218).
LEMMA PushesOne ==
    ASSUME ControlInv, ControlInv', NEW c \in CPU, CPU = {c}, One(c),
           \/ requeue(c) \/ yield(c) \/ task_done(c)
           \/ \E t \in Task : wake(c, t) \/ interrupt_wakes(c, t)
    PROVE  One(c)'
<1>1. TypeOK /\ OwnState(c)
  BY DEF ControlInv
<1>2. 0 \in Process
  BY Numbers
<1>3. CASE requeue(c)
  <2>1. push_task(c, current[c], "requeue", "select", 0) /\ pc[c] = "requeue"
    BY <1>3, Zenon DEF requeue, push_task, Goto
  <2>2. current[c] \in Task
    BY <1>1, <2>1, SMT DEF OwnState, InCharge, Resumes, Operating
  <2> QED
    BY <1>2, <2>1, <2>2, PushOne, Zenon
<1>4. CASE yield(c)
  <2>1. push_task(c, current[c], "run", "select", NextLoop(c)) /\ pc[c] = "run"
    BY <1>4, Zenon DEF yield, push_task, Goto
  <2>2. current[c] \in Task
    BY <1>1, <2>1, SMT DEF OwnState, InCharge, Resumes, Operating
  <2>3. NextLoop(c) \in Process
    BY <1>1, <1>2, SMT DEF NextLoop, TypeOK
  <2> QED
    BY <2>1, <2>2, <2>3, PushOne, Zenon
<1>5. CASE task_done(c)
  <2>1. push_task(c, loc[c].work, "handle", "handler", 0) /\ loc[c].work # NoTask
    BY <1>5, Zenon DEF task_done
  <2>2. loc[c].work \in Task
    BY <1>1, <2>1, SMT DEF TypeOK, Local
  <2> QED
    BY <1>2, <2>1, <2>2, PushOne, Zenon
<1>6. ASSUME NEW t \in Task, wake(c, t) PROVE One(c)'
  <2>1. push_task(c, t, "run", "run", 0) /\ pc[c] = "run" /\ current' = current
    BY <1>6, Zenon DEF wake, push_task, Goto
  <2>2. pid_of[current[c]] \in {0, pid_of[t]}
    BY <1>6, <2>1, Zenon DEF wake
  <2> QED
    BY <1>2, <2>1, <2>2, PushOne, Zenon
<1>7. ASSUME NEW t \in Task, interrupt_wakes(c, t) PROVE One(c)'
  <2>1. push_task(c, t, "handle", "handler", 0)
    BY <1>7, Zenon DEF interrupt_wakes
  <2> QED
    BY <1>2, <2>1, PushOne, Zenon
<1> QED
  BY <1>3, <1>4, <1>5, <1>6, <1>7

\* An interrupt queues a trap and takes the mark back.  The push_task that it
\* stops is suspended until the task runs again (main_loop.rs:128-203).
LEMMA InterruptOne ==
    ASSUME ControlInv, ControlInv', NEW c \in CPU, CPU = {c}, One(c), interrupt(c),
           Resumes(c) = "run" => ~is_sleeping[c]
    PROVE  One(c)'
<1> DEFINE l == loc[c]
           r == IF is_sleeping[c] THEN "select" ELSE "requeue"
           saved == [at |-> pc[c], loc |-> [l EXCEPT !.late = pc[c] = "store"]]
           u0 == current[c]
<1>1. /\ pc'[c] = "peek" /\ is_sleeping'[c] = FALSE /\ seen'[c] = {}
      /\ UNCHANGED <<queues, prio_bitmap, highest_prio, delayed>>
      /\ \A u \in Task :
            context'[u] = IF u = u0 /\ ~is_sleeping[c] THEN saved ELSE context[u]
  <2>1. /\ pc' = [pc EXCEPT ![c] = "peek"] /\ is_sleeping' = [is_sleeping EXCEPT ![c] = FALSE]
        /\ seen' = [seen EXCEPT ![c] = {}]
        /\ context' = [u \in Task |->
                          IF u = u0 /\ ~is_sleeping[c] THEN saved ELSE context[u]]
        /\ UNCHANGED <<queues, prio_bitmap, highest_prio, delayed>>
    BY Zenon DEF interrupt, queueVars, tableVars
  <2>2. c \in DOMAIN pc /\ c \in DOMAIN is_sleeping /\ c \in DOMAIN seen
    BY SMT DEF ControlInv, TypeOK
  <2> HIDE DEF saved, u0
  <2> QED
    BY <2>1, <2>2, Zenon
<1>2. /\ pc[c] \in {"run", "wfi"} \/ InterruptiblePush(c)
      /\ pc[c] \in {"run", "wfi", "mark", "peek", "store"}
      /\ Resumes(c) \in {"run", "wfi"}
      /\ Resumes(c) = "run" => u0 \in Task /\ context[u0] = Running
      /\ pc[c] \in {"mark", "peek", "store"} => InterruptiblePush(c)
  <2>1. pc[c] \in {"run", "wfi"} \/ InterruptiblePush(c)
    BY Zenon DEF interrupt
  <2>2. Resumes(c) \in {"run", "wfi"}
    BY <2>1, SMT DEF InterruptiblePush, Resumes, Operating
  <2>3. Resumes(c) = "run" => u0 \in Task /\ context[u0] = Running
    BY SMT DEF ControlInv, OwnState, InCharge, One, Late
  <2> QED
    BY <2>1, <2>2, <2>3, SMT DEF InterruptiblePush
<1>3. /\ loc'[c].pid = 0 /\ loc'[c].home = 0 /\ loc'[c].ret = r /\ loc'[c].task = NoTask
      /\ loc'[c].idx = 0 /\ loc'[c].best = ISIZE_MAX /\ loc'[c].late = FALSE
  <2>1. loc'[c] = [Fresh EXCEPT !.ret = r]
    BY SMT DEF interrupt, ControlInv, TypeOK
  <2> HIDE DEF r
  <2> QED
    BY <2>1, SMT DEF Fresh
<1>4. /\ saved.at = pc[c] /\ saved.loc.task = l.task /\ saved.loc.pid = l.pid
      /\ saved.loc.idx = l.idx /\ saved.loc.best = l.best
      /\ saved.loc.late <=> pc[c] = "store"
  <2> DEFINE b == pc[c] = "store"
             m == [l EXCEPT !.late = b]
  <2>1. l \in Local
    BY DEF ControlInv, TypeOK
  <2> HIDE DEF l, b
  <2>2. m.task = l.task /\ m.pid = l.pid /\ m.idx = l.idx /\ m.best = l.best
    BY <2>1, SMT DEF Local
  <2>3. m.late = b
    <3>1. "late" \in DOMAIN l
      BY <2>1, SMT DEF Local
    <3> QED
      BY <3>1, Zenon
  <2> HIDE DEF m
  <2>4. saved.at = pc[c] /\ saved.loc = m
    BY DEF saved, m, b
  <2> QED
    BY <2>2, <2>3, <2>4, Zenon DEF b
<1>5. Running.loc.task = NoTask /\ Running.at = "run"
  BY SMT DEF Running, Fresh
<1>6. \A x \in Task : /\ x \in Suspended(context) => x \in Suspended(context')
                      /\ x \in Unmarked(context) => x \in Unmarked(context')
  <2> SUFFICES ASSUME NEW u \in Task, context[u].loc.task \in Task
               PROVE  context'[u] = context[u]
    BY Zenon DEF Suspended, Unmarked
  <2>1. context[u] # Running
    BY <1>5, NoTaskAssumption
  <2>2. CASE u = u0 /\ ~is_sleeping[c]
    <3>1. Resumes(c) # "wfi"
      BY <1>2, <2>2, SMT DEF ControlInv, OwnState, Control, Resumes, Operating
    <3> QED
      BY <1>2, <2>1, <2>2, <3>1
  <2> QED
    BY <1>1, <2>2
<1>7. Resumes(c) = "run" => /\ l.task \in Suspended(context')
                            /\ pc[c] = "mark" => l.task \in Unmarked(context')
  <2> SUFFICES ASSUME Resumes(c) = "run"
               PROVE  /\ l.task \in Suspended(context')
                      /\ pc[c] = "mark" => l.task \in Unmarked(context')
    OBVIOUS
  <2>1. u0 \in Task /\ context'[u0] = saved
    BY <1>1, <1>2
  <2> HIDE DEF saved, u0
  <2> QED
    BY <1>4, <2>1, Zenon DEF Suspended, Unmarked
<1> HIDE DEF saved
<1>8. Visible(c)'
  <2>1. pc[c] = "mark" => Resumes(c) = "run"
    BY <1>2, SMT DEF InterruptiblePush, Resumes, Operating
  <2> QED
    BY <1>1, <1>6, <1>7, <2>1, SMT DEF One, Visible
<1>9. Told(c)'
  <2>1. pc[c] \in Operating => Resumes(c) = "run"
    BY <1>2, SMT DEF InterruptiblePush, Resumes, Operating
  <2>2. /\ pc'[c] \in Operating /\ pc'[c] # "store" /\ loc'[c].pid = 0
    BY <1>1, <1>3, SMT DEF Operating
  <2> QED
    BY <1>1, <1>6, <1>7, <2>1, <2>2, SMT DEF One, Told
<1>10. Scanned(c)' /\ Choosing(c)' /\ Unseen(c)' /\ Idle(c)'
  BY <1>1, <1>3, SMT DEF Scanned, Choosing, Unseen, Idle
<1>11. Clear(c)'
  BY <1>1, <1>3, SMT DEF Clear, Resumes, Operating
<1>12. Late(c)'
  BY <1>1, <1>2, <1>3, <1>4, SMT DEF One, Late, Choosing, Resumes, Operating
<1>13. OnTime(c)'
  <2> SUFFICES ASSUME ~KERNEL_PUSH_IRQ PROVE OnTime(c)'
    BY DEF OnTime
  <2>1. OnTime(c)
    BY DEF One
  <2>2. pc[c] \in {"mark", "peek", "store"} => l.pid # 0
    BY <1>2, <2>1, SMT DEF OnTime, Resumes, Operating, InterruptiblePush
  <2>3. \A u \in Task : context'[u].at # "run" => context'[u].loc.pid # 0
    <3> SUFFICES ASSUME NEW u \in Task, context'[u].at # "run", context'[u] # context[u]
                 PROVE  context'[u].loc.pid # 0
      BY <2>1, Zenon DEF OnTime
    <3>1. context'[u] = saved /\ ~is_sleeping[c]
      BY <1>1
    <3>2. pc[c] # "wfi"
      BY <3>1, SMT DEF ControlInv, OwnState, Control
    <3>3. pc[c] # "run"
      BY <1>4, <3>1
    <3> QED
      BY <1>2, <1>4, <2>2, <3>1, <3>2, <3>3
  <2>4. Resumes(c)' # "run"
    BY <1>1, <1>3, SMT DEF Resumes, Operating
  <2> QED
    BY <1>1, <1>3, <2>1, <2>3, <2>4, SMT DEF OnTime
<1> QED
  BY <1>8, <1>9, <1>10, <1>11, <1>12, <1>13 DEF One

\* An exception or a system call queues a trap (main_loop.rs:60-117).
LEMMA SyncTrapOne ==
    ASSUME ControlInv, ControlInv', NEW c \in CPU, CPU = {c}, One(c), sync_trap(c)
    PROVE  One(c)'
<1> DEFINE l == loc[c]
<1>1. /\ pc[c] = "run"
      /\ UNCHANGED <<queues, prio_bitmap, highest_prio, delayed, is_sleeping, seen, context>>
  BY SMT DEF sync_trap, queueVars, tableVars, taskVars
<1>2. l = Fresh
  BY <1>1, SMT DEF ControlInv, OwnState, Control
<1>3. KERNEL_PUSH_IRQ \/ ~is_sleeping[c]
  BY <1>1, SMT DEF One, Idle, Resumes, Operating
<1>4. /\ pc'[c] \in {"peek", "panic"}
      /\ loc'[c].pid = 0 /\ loc'[c].home = 0
      /\ loc'[c].idx = 0 /\ loc'[c].best = ISIZE_MAX /\ loc'[c].late = FALSE
      /\ pc'[c] = "peek" => loc'[c].ret = "select"
      /\ pc'[c] = "panic" => traps' = traps
  <2>1. CASE is_sleeping[c]
    <3>1. pc'[c] = "panic" /\ loc'[c] = l /\ traps' = traps
      BY <2>1, SMT DEF sync_trap, ControlInv, TypeOK
    <3> QED
      BY <1>2, <3>1, SMT DEF Fresh
  <2>2. CASE ~is_sleeping[c]
    <3>1. pc'[c] = "peek" /\ loc'[c] = [l EXCEPT !.ret = "select"]
      BY <2>2, SMT DEF sync_trap, ControlInv, TypeOK
    <3> QED
      BY <1>2, <3>1, SMT DEF Fresh
  <2> QED
    BY <2>1, <2>2
<1>5. Visible(c)'
  BY <1>1, SMT DEF One, Visible
<1>6. Told(c)'
  BY <1>1, <1>4, SMT DEF One, Told, Operating, NoLessThanTraps
<1>7. Scanned(c)' /\ Choosing(c)'
  BY <1>1, <1>4, SMT DEF One, Scanned, Choosing
<1>8. Clear(c)'
  BY <1>4, SMT DEF Clear, Resumes, Operating
<1>9. Unseen(c)' /\ Idle(c)'
  BY <1>1, <1>3, <1>4, SMT DEF One, Unseen, Idle
<1>10. Late(c)' /\ OnTime(c)'
  BY <1>1, <1>4, SMT DEF One, Late, OnTime, Resumes, Operating
<1> QED
  BY <1>5, <1>6, <1>7, <1>8, <1>9, <1>10 DEF One

\* A task that blocks or exits leaves the loop's view as it was.
LEMMA BlockOne ==
    ASSUME ControlInv, ControlInv', NEW c \in CPU, CPU = {c}, One(c), block(c) PROVE One(c)'
<1> DEFINE l == loc[c]
<1>1. /\ pc[c] = "run" /\ pc'[c] = "select"
      /\ UNCHANGED <<queues, prio_bitmap, traps, highest_prio, delayed, is_sleeping>>
      /\ UNCHANGED <<seen, context>>
  BY SMT DEF block, Goto, queueVars, tableVars, ControlInv, TypeOK
<1>2. /\ loc'[c].pid = l.pid /\ loc'[c].ret = l.ret
      /\ loc'[c].idx = l.idx /\ loc'[c].best = l.best
      /\ loc'[c].late = l.late
  <2>1. loc'[c] = [l EXCEPT !.home = NextLoop(c)]
    BY SMT DEF block, ControlInv, TypeOK
  <2> QED
    BY <2>1, SMT
<1>3. Visible(c)'
  BY <1>1, SMT DEF One, Visible
<1>4. Told(c)'
  BY <1>1, SMT DEF One, Told, Operating, NoLessThanTraps
<1>5. Scanned(c)'
  BY <1>1, SMT DEF Scanned
<1>6. Choosing(c)'
  <2>1. \A p \in Process : ~(p < 0)
    BY SMT DEF Process
  <2> QED
    BY <1>1, <1>2, <2>1, SMT DEF One, Choosing
<1>7. traps[c] = <<>> /\ (KERNEL_PUSH_IRQ \/ ~is_sleeping[c])
  BY <1>1, SMT DEF One, Clear, Idle, Resumes, Operating
<1>8. Clear(c)' /\ Unseen(c)' /\ Idle(c)'
  BY <1>1, <1>7, SMT DEF One, Clear, Unseen, Idle
<1>9. Late(c)' /\ OnTime(c)'
  BY <1>1, <1>2, SMT DEF One, Late, OnTime, Resumes, Operating
<1> QED
  BY <1>3, <1>4, <1>5, <1>6, <1>8, <1>9 DEF One

\* The handler takes a trap, and publishes the priority anew after the last
\* one (trap_wait_queue.rs:164-190).
LEMMA TakeTrapOne ==
    ASSUME ControlInv, ControlInv', NEW c \in CPU, CPU = {c}, One(c), take_trap(c)
    PROVE  One(c)'
<1> DEFINE l == loc[c]
           last == Len(traps[c]) = 1
           t == Head(traps[c])
           r == IF last THEN "handle" ELSE l.ret
<1>1. /\ pc[c] = "handler" /\ traps[c] # <<>>
      /\ pc'[c] = IF last THEN "peek" ELSE "handle"
      /\ UNCHANGED <<queues, prio_bitmap, highest_prio, delayed, is_sleeping, seen, context>>
  BY SMT DEF take_trap, Goto, queueVars, tableVars, taskVars, ControlInv, TypeOK
<1>2. /\ loc'[c].pid = l.pid /\ loc'[c].home = l.home /\ loc'[c].ret = r
      /\ loc'[c].idx = l.idx /\ loc'[c].best = l.best
      /\ loc'[c].late = l.late
  <2>1. loc'[c] = [l EXCEPT !.work = t, !.ret = r]
    BY SMT DEF take_trap, ControlInv, TypeOK
  <2> HIDE DEF r, t
  <2> QED
    BY <2>1, SMT
<1>3. l.pid = 0 /\ l.home = 0 /\ l.ret = "none" /\ l.late = FALSE
  <2>1. l.late \in BOOLEAN
    BY SMT DEF ControlInv, TypeOK, Local
  <2> QED
    BY <1>1, <2>1, SMT
       DEF One, Choosing, Late, ControlInv, OwnState, Control, Resumes, Operating
<1>4. KERNEL_PUSH_IRQ \/ ~is_sleeping[c]
  BY <1>1, SMT DEF One, Idle, Resumes, Operating
<1>5. Visible(c)'
  BY <1>1, SMT DEF One, Visible
<1>6. Told(c)'
  BY <1>1, <1>2, <1>3, SMT DEF One, Told, Operating, NoLessThanTraps
<1>7. Scanned(c)' /\ Choosing(c)'
  BY <1>1, <1>2, SMT DEF One, Scanned, Choosing
<1>8. Clear(c)'
  BY <1>1, <1>2, <1>3, SMT DEF Clear, Resumes
<1>9. Unseen(c)' /\ Idle(c)'
  BY <1>1, <1>4, SMT DEF One, Unseen, Idle
<1>10. Late(c)' /\ OnTime(c)'
  BY <1>1, <1>2, <1>3, SMT DEF One, Late, OnTime, Resumes, Operating
<1> QED
  BY <1>5, <1>6, <1>7, <1>8, <1>9, <1>10 DEF One

\* The handler is done with an interrupt or with a task that has exited, or
\* with all traps (trap_wait_queue.rs:108-120, 190-191 and 201-229).
LEMMA HandlerOne ==
    ASSUME ControlInv, ControlInv', NEW c \in CPU, CPU = {c}, One(c),
           interrupt_done(c) \/ task_exits(c) \/ reschedule_handler(c)
    PROVE  One(c)'
<1> DEFINE l == loc[c]
<1>1. /\ \/ pc[c] = "handle" /\ pc'[c] = "handler"
         \/ pc[c] = "handler" /\ pc'[c] = "select"
      /\ UNCHANGED <<queues, prio_bitmap, traps, highest_prio, delayed, is_sleeping>>
      /\ UNCHANGED <<seen, context>>
  BY SMT
     DEF interrupt_done, task_exits, reschedule_handler, Goto, queueVars, tableVars, cpuVars,
         taskVars, ControlInv, TypeOK
<1>2. loc'[c] = l \/ loc'[c] = [l EXCEPT !.work = NoTask]
  BY SMT DEF interrupt_done, task_exits, reschedule_handler, ControlInv, TypeOK
<1>3. /\ loc'[c].pid = l.pid /\ loc'[c].home = l.home /\ loc'[c].ret = l.ret
      /\ loc'[c].idx = l.idx /\ loc'[c].best = l.best /\ loc'[c].late = l.late
      /\ loc'[c].task = l.task
  <2>1. l \in Local
    BY DEF ControlInv, TypeOK
  <2> HIDE DEF l
  <2> QED
    BY <1>2, <2>1, SMT DEF Local
<1>4. l.home = 0
  BY <1>1, SMT DEF ControlInv, OwnState, Control, Resumes, Operating
<1>5. KERNEL_PUSH_IRQ \/ ~is_sleeping[c]
  BY <1>1, SMT DEF One, Idle, Resumes, Operating
<1>6. Visible(c)'
  BY <1>1, SMT DEF One, Visible
<1>7. Told(c)'
  BY <1>1, SMT DEF One, Told, Operating, NoLessThanTraps
<1>8. Scanned(c)'
  BY <1>1, SMT DEF Scanned
<1>9. Choosing(c)'
  <2>1. \A p \in Process : ~(p < 0)
    BY SMT DEF Process
  <2> QED
    BY <1>1, <1>3, <2>1, SMT DEF One, Choosing
<1>10. Clear(c)'
  BY <1>1, <1>3, <1>4, SMT DEF Clear, Resumes, Operating
<1>11. Unseen(c)' /\ Idle(c)'
  BY <1>1, <1>5, SMT DEF One, Unseen, Idle
<1>12. Late(c)' /\ OnTime(c)'
  BY <1>1, <1>3, SMT DEF One, Late, OnTime, Resumes, Operating
<1> QED
  BY <1>6, <1>7, <1>8, <1>9, <1>10, <1>11, <1>12 DEF One

-----------------------------------------------------------------------------
(* OneInv is an invariant.                                                 *)

\* OneInv holds when the CPU enters raw_kschedule.
LEMMA InitOne ==
    ASSUME Init, NEW c \in CPU
    PROVE  One(c)
<1>1. /\ pc[c] = "select" /\ loc[c] = Fresh /\ traps[c] = <<>> /\ seen[c] = {}
      /\ is_sleeping[c] = FALSE /\ delayed = {}
      /\ \A p \in Process, q \in Level : queues[p][q] = <<>>
      /\ \A u \in Task : context[u] = Running
  BY SMT DEF Init, EmptyQueues
<1>2. /\ \A p \in Process : ~(p < 0)
      /\ \A p \in Process, q \in Level : Elements(queues[p][q]) = {}
  BY <1>1, SMT DEF Process, Elements
<1>3. /\ Running.at = "run" /\ Running.loc = Fresh
      /\ Fresh.idx = 0 /\ Fresh.best = ISIZE_MAX /\ Fresh.late = FALSE
      /\ Fresh.home = 0 /\ Fresh.pid = 0
  BY SMT DEF Running, Fresh
<1>4. Visible(c) /\ Told(c) /\ Scanned(c)
  <2>1. \A p \in Process, q \in Level, t \in Task : t \notin Elements(queues[p][q])
    BY <1>2, Zenon
  <2>2. Visible(c) /\ Scanned(c)
    BY <1>1, <2>1, SMT DEF Visible, Scanned
  <2>3. Told(c)
    BY <1>1, <2>1, SMT DEF Told, NoLessThanTraps
  <2> QED
    BY <2>2, <2>3
<1>5. Choosing(c) /\ Clear(c) /\ Unseen(c) /\ Idle(c)
  BY <1>1, <1>2, <1>3, SMT DEF Choosing, Clear, Unseen, Idle
<1>6. Late(c) /\ OnTime(c)
  BY <1>1, <1>3, SMT DEF Late, OnTime, Resumes, Operating
<1> QED
  BY <1>4, <1>5, <1>6 DEF One

\* Every step of the CPU preserves it.
LEMMA OneStep ==
    ASSUME ControlInv, ControlInv', NEW c \in CPU, CPU = {c}, One(c), Step(c) \/ Choice(c),
           Resumes(c) = "run" => ~is_sleeping[c]
    PROVE  One(c)'
<1>1. CASE Step(c)
  BY <1>1, ReadEntryOne, PopTaskOne, ScanEmptyOne, ScanPopOne, ScanNoneOne, SettleOne, StoreOne,
     RunPoppedOne, IntoKernelOne, WaitOne, StayAwakeOne, SleepOne, MarkOne, PeekOne, PushesOne,
     TakeTrapOne, HandlerOne, Zenon DEF Step
<1>2. CASE Choice(c)
  BY <1>2, InterruptOne, SyncTrapOne, PushesOne, BlockOne, WfiReturnsOne, Zenon DEF Choice
<1> QED
  BY <1>1, <1>2

\* The only CPU is CPU 0.
LEMMA OnlyCPU == CPU_NUM = 1 => CPU = {0}
BY SMT DEF CPU

\* The inductive invariant, together with ControlInv.
OneInv == \A c \in CPU : One(c)

\* A CPU that runs a task is not marked as sleeping, whether or not WFI
\* returned without a trap, if the kernel's tasks push with interrupts disabled.
LEMMA RunsAwake ==
    ASSUME OneInv, ~KERNEL_PUSH_IRQ, NEW c \in CPU, Resumes(c) = "run"
    PROVE  ~is_sleeping[c]
<1>1. Idle(c)
  BY DEF OneInv, One
<1> QED
  BY <1>1, SMT DEF Idle, Resumes, Operating

\* A stutter changes nothing that OneInv is about.
LEMMA OneStutters ==
    ASSUME NEW c \in CPU, One(c), UNCHANGED vars PROVE One(c)'
<1>1. /\ UNCHANGED <<queues, prio_bitmap, traps, highest_prio, delayed, is_sleeping>>
      /\ UNCHANGED <<seen, context, current, pc, loc>>
  BY DEF vars, queueVars, tableVars, cpuVars, taskVars
<1>2. Visible(c)' /\ Told(c)'
  BY <1>1, SMT DEF One, Visible, Told, NoLess, NoLessThanTraps
<1>3. Late(c)' /\ OnTime(c)'
  BY <1>1, SMT DEF One, Late, OnTime, Resumes
<1>4. Scanned(c)' /\ Choosing(c)'
  BY <1>1, SMT DEF One, Scanned, Choosing
<1>5. Clear(c)' /\ Unseen(c)' /\ Idle(c)'
  BY <1>1, SMT DEF One, Clear, Unseen, Idle, Nothing, Resumes
<1> QED
  BY <1>2, <1>3, <1>4, <1>5 DEF One

\* On one CPU, bitmaps are true whenever the code acts on them, published
\* priorities are, except where an interrupt has delayed their store, and the
\* mark of a sleeping CPU means that nothing is queued at the kernel
\* (ready_queue.rs:54-122, scheduler.rs:280-463, main_loop.rs:418-442).
THEOREM OneInvariance ==
    CPU_NUM = 1 /\ ~(KERNEL_PUSH_IRQ /\ WFI_MAY_RETURN) => (Spec => []OneInv)
<1> SUFFICES ASSUME CPU_NUM = 1, ~KERNEL_PUSH_IRQ \/ ~WFI_MAY_RETURN PROVE Spec => []OneInv
  OBVIOUS
<1>1. Init => OneInv
  BY InitOne DEF OneInv
<1>2. OneInv /\ ControlInv /\ ControlInv' /\ (~KERNEL_PUSH_IRQ \/ Awake) /\ [Next]_vars
      => OneInv'
  <2> SUFFICES ASSUME OneInv, ControlInv, ControlInv', ~KERNEL_PUSH_IRQ \/ Awake, [Next]_vars,
                      NEW c \in CPU
               PROVE  One(c)'
    BY DEF OneInv
  <2>1. CPU = {c} /\ One(c)
    BY OnlyCPU DEF OneInv
  <2>2. CASE UNCHANGED vars
    BY <2>1, <2>2, OneStutters
  <2>3. CASE Next
    <3>1. Step(c) \/ Choice(c)
      BY <2>1, <2>3 DEF Next
    <3>2. Resumes(c) = "run" => ~is_sleeping[c]
      <4>1. CASE ~KERNEL_PUSH_IRQ
        BY <4>1, RunsAwake
      <4>2. CASE Awake
        BY <4>2, SMT DEF Awake, Resumes, Operating
      <4> QED
        BY <4>1, <4>2
    <3> QED
      BY <2>1, <3>1, <3>2, OneStep
  <2> QED
    BY <2>2, <2>3
<1>3. CASE ~KERNEL_PUSH_IRQ
  <2>1. OneInv /\ ControlInv /\ ControlInv' /\ [Next]_vars => OneInv'
    BY <1>2, <1>3
  <2> QED
    BY <1>1, <2>1, ControlInvariance, PTL DEF Spec
<1>4. CASE ~WFI_MAY_RETURN
  <2>1. Spec => []Awake
    BY <1>4, AwakeInvariance, PTL
  <2>2. OneInv /\ ControlInv /\ ControlInv' /\ Awake /\ [Next]_vars => OneInv'
    BY <1>2
  <2> QED
    BY <1>1, <2>1, <2>2, ControlInvariance, PTL DEF Spec
<1> QED
  BY <1>3, <1>4

-----------------------------------------------------------------------------
(* What follows from it.                                                   *)

\* On one CPU, no entry of the table is less urgent than a trap or a published
\* task whenever the loop pops by it, sleeps by it, or runs a task, except an
\* entry whose store an interrupt has delayed (scheduler.rs:417-463,
\* process_info.rs:99-136).
THEOREM TheTableHidesNothing ==
    CPU_NUM = 1 /\ ~(KERNEL_PUSH_IRQ /\ WFI_MAY_RETURN) => (Spec => []TableHidesNothing)
<1>1. OneInv /\ ControlInv => TableHidesNothing
  <2> SUFFICES ASSUME OneInv, ControlInv, NEW c \in CPU,
                      pc[c] \in {"run", "handle", "pop", "decide", "wfi"}
               PROVE  /\ \A p \in Process :
                            <<p, c>> \in delayed \/ highest_prio[p][c] <= TrapPrio(p, c)
                      /\ \A t \in Published :
                            \/ <<pid_of[t], c>> \in delayed
                            \/ highest_prio[pid_of[t]][c] <= priority[t]
    BY Zenon DEF TableHidesNothing
  <2>1. ASSUME NEW p \in Process PROVE highest_prio[p][c] <= TrapPrio(p, c)
    <3>1. highest_prio[p][c] \in Level \cup {NoPriority}
      BY SMT DEF ControlInv, TypeOK
    <3>2. NoLessThanTraps(c, 0, highest_prio[0][c])
      BY SMT DEF OneInv, One, Told, Operating
    <3> QED
      BY <3>1, <3>2, LevelFacts, SMT DEF NoLessThanTraps, TrapPrio
  <2>2. ASSUME NEW t \in Published
        PROVE  <<pid_of[t], c>> \in delayed \/ highest_prio[pid_of[t]][c] <= priority[t]
    <3>1. PICK p \in Process : t \in Queued(queues[p])
      BY DEF Published
    <3>2. PICK q \in Level : t \in InQueue(queues[p], q)
      BY <3>1, Zenon DEF Queued
    <3>3. t \in Elements(queues[p][q]) /\ t \in Task
      BY <3>2 DEF InQueue, Elements, Published
    <3>4. pid_of[t] = p /\ priority[t] = q
      <4>1. Proper
        BY DEF ControlInv
      <4> QED
        BY <3>3, <4>1, ZenonT(60) DEF Proper
    <3>5. t \notin Suspended(context)
      BY Zenon DEF Published, Suspended
    <3>6. Told(c) /\ pc[c] \notin Operating
      BY SMT DEF OneInv, One, Operating
    <3> QED
      BY <3>3, <3>4, <3>5, <3>6, Zenon DEF Told
  <2> QED
    BY <2>1, <2>2
<1> QED
  BY <1>1, OneInvariance, ControlInvariance, PTL

\* On one CPU, a user's task is never chosen while a trap waits: the trap's
\* priority is published at the kernel, which wins the choice
\* (scheduler.rs:112-123, trap_wait_queue.rs:241-248).
THEOREM TrapsChooseTheKernel ==
    CPU_NUM = 1 /\ ~(KERNEL_PUSH_IRQ /\ WFI_MAY_RETURN) => (Spec => []TrapsBeforeUserTasks)
<1>1. OneInv => TrapsBeforeUserTasks
  BY SMT DEF OneInv, One, Clear, Resumes, Operating, TrapsBeforeUserTasks
<1> QED
  BY <1>1, OneInvariance, PTL

\* On one CPU, no task at all is run while a trap waits
\* (scheduler.rs:293-312, trap_wait_queue.rs:241-248).
THEOREM TrapsFirst ==
    CPU_NUM = 1 /\ ~(KERNEL_PUSH_IRQ /\ WFI_MAY_RETURN) => (Spec => []TrapsBeforeTasks)
<1>1. OneInv => TrapsBeforeTasks
  BY SMT DEF OneInv, One, Clear, Resumes, Operating, TrapsBeforeTasks
<1> QED
  BY <1>1, OneInvariance, PTL

\* On one CPU, it sleeps over a task that was published when it announced its
\* sleep only if an interrupt has delayed the store of its process's entry
\* (main_loop.rs:418-442).
THEOREM NoTaskIsSleptOver ==
    CPU_NUM = 1 /\ ~(KERNEL_PUSH_IRQ /\ WFI_MAY_RETURN) => (Spec => []NoSleepOverReadyTask)
<1>1. OneInv => NoSleepOverReadyTask
  BY Zenon DEF OneInv, One, Unseen, NoSleepOverReadyTask
<1> QED
  BY <1>1, OneInvariance, PTL

\* A task goes on where it was or in a push_task, so resuming it is no panic.
LEMMA ResumesSomewhere ==
    ASSUME ControlInv, NEW c \in CPU, run_popped(c) PROVE pc'[c] # "panic"
<1> DEFINE at == IF loc[c].task = Handler THEN "handler" ELSE context[loc[c].task].at
<1>1. pc' = [pc EXCEPT ![c] = at] /\ loc[c].task # NoTask
  <2>1. at = (IF loc[c].task = Handler THEN [at |-> "handler", loc |-> Fresh]
              ELSE context[loc[c].task]).at
    BY SMT
  <2> HIDE DEF at
  <2> QED
    BY <2>1, Zenon DEF run_popped, Goto
<1>2. loc[c].task # Handler => loc[c].task \in Task
  BY <1>1, SMT DEF ControlInv, TypeOK, Local
<1>3. at # "panic"
  <2>1. \A t \in Task : context[t].at \in {"run", "mark", "peek", "store"}
    BY SMT DEF ControlInv, TypeOK
  <2> QED
    BY <1>2, <2>1, SMT
<1>4. pc \in [CPU -> PC]
  BY DEF ControlInv, TypeOK
<1> HIDE DEF at
<1> QED
  BY <1>1, <1>3, <1>4, SMT

\* The entry code's assertion about a sleeping CPU is the only way to panic
\* (main_loop.rs:59-67).
LEMMA PanicStep ==
    ASSUME ControlInv, NEW c \in CPU, Step(c) \/ Choice(c), pc[c] = "run" => ~is_sleeping[c]
    PROVE  pc'[c] # "panic"
<1>1. TypeOK /\ OwnState(c)
  BY DEF ControlInv
<1>2. CASE \/ process_schedule(c) \/ check_again(c) \/ pop_task(c) \/ scan_empty(c)
           \/ scan_pop(c)
           \/ scan_none(c) \/ settle(c) \/ into_kernel(c)
  BY <1>1, <1>2, SMT
     DEF process_schedule, check_again, ReadEntry, pop_task, PopTask, scan_empty, scan_pop,
         scan_none, settle, into_kernel, Goto, TypeOK, OwnState, Control
<1>11. CASE run_popped(c)
  BY <1>11, ResumesSomewhere
<1>3. CASE store(c)
  BY <1>1, <1>3, SMT DEF store, StoreEntry, Goto, OwnState, Control
<1>4. CASE \/ wait_for_runnable_task(c) \/ stay_awake(c) \/ go_to_sleep(c) \/ wfi_returns(c)
           \/ mark(c) \/ peek(c) \/ take_trap(c) \/ interrupt_done(c) \/ reschedule_handler(c)
           \/ interrupt(c) \/ block(c) \/ task_exits(c)
  BY <1>1, <1>4, SMT
     DEF wait_for_runnable_task, stay_awake, go_to_sleep, wfi_returns, mark, peek, take_trap,
         interrupt_done, task_exits, reschedule_handler, interrupt, block, Goto, TypeOK
<1>5. CASE sync_trap(c)
  BY <1>1, <1>5, SMT DEF sync_trap, TypeOK
<1>6. ASSUME NEW t, NEW from, NEW ret, NEW home, push_task(c, t, from, ret, home)
      PROVE  pc'[c] # "panic"
  <2>1. pc' = [pc EXCEPT ![c] = "mark"] /\ pc \in [CPU -> PC]
    BY <1>1, <1>6, Zenon DEF push_task, Goto, TypeOK
  <2> QED
    BY <2>1, SMT
<1>7. CASE requeue(c)
  BY <1>6, <1>7, Zenon DEF requeue
<1>8. CASE task_done(c)
  BY <1>6, <1>8, Zenon DEF task_done
<1>9. CASE yield(c)
  BY <1>6, <1>9, Zenon DEF yield
<1>10. ASSUME NEW t \in Task, wake(c, t) \/ interrupt_wakes(c, t) PROVE pc'[c] # "panic"
  BY <1>6, <1>10, Zenon DEF wake, interrupt_wakes
<1> QED
  BY <1>2, <1>3, <1>4, <1>5, <1>7, <1>8, <1>9, <1>10, <1>11, Zenon DEF Step, Choice

\* On one CPU, the assertion at main_loop.rs:65 holds even if WFI returns
\* without a trap, if the kernel's tasks push with interrupts disabled: the
\* loop then finds nothing to run and comes back to wait_for_runnable_task.
THEOREM NoPanicOnOneCPU == CPU_NUM = 1 /\ ~KERNEL_PUSH_IRQ => (Spec => []NoPanic)
<1> SUFFICES ASSUME CPU_NUM = 1, ~KERNEL_PUSH_IRQ PROVE Spec => []NoPanic
  OBVIOUS
<1>1. Init => NoPanic
  BY SMT DEF Init, NoPanic
<1>2. OneInv /\ ControlInv /\ NoPanic /\ [Next]_vars => NoPanic'
  <2> SUFFICES ASSUME OneInv, ControlInv, NoPanic, [Next]_vars, NEW c \in CPU
               PROVE  pc'[c] # "panic"
    BY Zenon DEF NoPanic
  <2>1. CASE UNCHANGED vars
    BY <2>1 DEF vars, NoPanic
  <2>2. CASE Next
    <3>1. Step(c) \/ Choice(c)
      BY <2>2, OnlyCPU DEF Next
    <3>2. pc[c] = "run" => Resumes(c) = "run"
      BY SMT DEF Resumes, Operating
    <3> QED
      BY <3>1, <3>2, PanicStep, RunsAwake
  <2> QED
    BY <2>1, <2>2
<1> QED
  BY <1>1, <1>2, OneInvariance, ControlInvariance, PTL DEF Spec

\* On one CPU, each task is in one place even if WFI returns without a trap:
\* no task is run that the entry code would mistake for the wait context
\* (main_loop.rs:132-151).
THEOREM OnePlaceOnOneCPU == CPU_NUM = 1 /\ ~KERNEL_PUSH_IRQ => (Spec => []EveryTaskInOnePlace)
<1> SUFFICES ASSUME CPU_NUM = 1, ~KERNEL_PUSH_IRQ PROVE Spec => []EveryTaskInOnePlace
  OBVIOUS
<1>1. OneInv /\ ControlInv /\ PlaceInv /\ [Next]_vars => PlaceInv'
  <2> SUFFICES ASSUME OneInv, ControlInv, PlaceInv, [Next]_vars PROVE PlaceInv'
    OBVIOUS
  <2>1. CASE UNCHANGED vars
    BY <2>1, PlaceStutters
  <2>2. CASE Next
    <3>1. PICK c \in CPU : Step(c) \/ Choice(c)
      BY <2>2 DEF Next
    <3> QED
      BY <3>1, RunsAwake, PlaceStep
  <2> QED
    BY <2>1, <2>2
<1> QED
  BY <1>1, InitPlace, OneInvariance, ControlInvariance, NoPanicOnOneCPU, InOnePlace, PTL
     DEF Spec

=============================================================================
