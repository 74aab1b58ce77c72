-------------------------- MODULE StackHandler_proofs --------------------------
(***************************************************************************)
(* Proofs about StackHandler for any number of CPUs, tasks and stacks and  *)
(* any size of the pools.                                                  *)
(*                                                                         *)
(* The inductive invariant comes in parts that build on each other: what a *)
(* CPU holds at each place of the code (ControlInv), in whose hands each   *)
(* stack is (PlaceInv), what may panic (PanicInv), and where each CPU      *)
(* executes (ExecutesInv).  EveryStackInOnePlace follows from the first    *)
(* two.  OwnerInv says what the refinement mapping's CHOOSE chooses; with  *)
(* it every step of Next is a step of StackOwnership or changes nothing    *)
(* there.                                                                  *)
(***************************************************************************)
EXTENDS StackHandler, FiniteSetTheorems, TLAPS

\* What a CPU holds at each place of the code.
Control(c) ==
    /\ pc[c] # "boot" => trap_stack[c] # NoStack
    /\ pc[c] = "boot" => /\ current_stack[c] = NoStack
                         /\ trap_stack[c] = NoStack
                         /\ free_stacks[c] = {}
    /\ pc[c] \in {"boot", "sched", "leave", "user", "utrap"} => current[c] = NoTask
    /\ pc[c] \in {"run_task", "run", "restore", "entry", "put", "requeue", "trap"}
          => current[c] \in Task
    /\ pc[c] = "wfi" => current[c] = c
    /\ pc[c] = "irq" => current[c] \in Task \cup {c}
    /\ pc[c] \in {"entry", "trap", "irq", "leave", "user", "utrap"}
          => current_stack[c] = NoStack
    /\ pc[c] \in {"run", "restore", "put", "requeue"} => current_stack[c] # NoStack
    /\ pc[c] \in {"run", "restore"} => thread_stack[current[c]] = NoStack
    /\ pc[c] \in {"entry", "trap", "irq"} => thread_stack[current[c]] # NoStack
    /\ thread_stack[c] # NoStack => pc[c] = "irq" /\ current[c] = c
    /\ current[c] \in CPU => current[c] = c

\* A task is on one CPU or ready, and has left no context if it is neither.
TasksApart ==
    /\ \A c \in CPU : current[c] \notin ready
    /\ \A c, d \in CPU : current[c] = current[d] /\ current[c] \in Task => c = d
    /\ \A t \in Task : thread_stack[t] # NoStack => Exists(t)

\* The first part of the inductive invariant, TypeOK included.
ControlInv ==
    /\ TypeOK
    /\ \A c \in CPU : Control(c)
    /\ TasksApart

\* No stack has two holders ...
HeldAtMostOnce ==
    /\ \A c \in CPU : \A s \in unused :
          /\ s \notin free_stacks[c] /\ s # current_stack[c] /\ s # trap_stack[c]
          /\ pc[c] = "boot" => s # InitStack[c]
    /\ \A x \in Task \cup CPU : thread_stack[x] \notin unused
    /\ \A c, d \in CPU : \A s \in free_stacks[c] :
          /\ s \in free_stacks[d] => c = d
          /\ s # current_stack[d] /\ s # trap_stack[d]
          /\ pc[d] = "boot" => s # InitStack[d]
    /\ \A c \in CPU, x \in Task \cup CPU : thread_stack[x] \notin free_stacks[c]
    /\ \A c, d \in CPU : current_stack[c] # NoStack =>
          /\ current_stack[c] = current_stack[d] => c = d
          /\ current_stack[c] # trap_stack[d]
          /\ pc[d] = "boot" => current_stack[c] # InitStack[d]
    /\ \A c, d \in CPU : trap_stack[c] # NoStack =>
          /\ trap_stack[c] = trap_stack[d] => c = d
          /\ pc[d] = "boot" => trap_stack[c] # InitStack[d]
    /\ \A c \in CPU, x \in Task \cup CPU : thread_stack[x] # NoStack =>
          /\ thread_stack[x] # current_stack[c] /\ thread_stack[x] # trap_stack[c]
          /\ pc[c] = "boot" => thread_stack[x] # InitStack[c]
    /\ \A x, y \in Task \cup CPU :
          thread_stack[x] # NoStack /\ thread_stack[x] = thread_stack[y] => x = y

\* ... and none has no holder.
HeldAtLeastOnce ==
    \A s \in Stack :
        \/ s \in unused
        \/ \E c \in CPU : \/ s \in free_stacks[c] \/ s = current_stack[c]
                          \/ s = trap_stack[c]
                          \/ pc[c] = "boot" /\ s = InitStack[c]
        \/ \E x \in Task \cup CPU : s = thread_stack[x]

\* So each stack has exactly one holder; the second part of the invariant.
PlaceInv == HeldAtMostOnce /\ HeldAtLeastOnce

\* Where each CPU executes.
Executes(c) ==
    /\ pc[c] = "boot" => sp[c] = InitStack[c]
    /\ pc[c] \in {"sched", "run_task", "wfi"} =>
          sp[c] = IF current_stack[c] # NoStack THEN current_stack[c] ELSE trap_stack[c]
    /\ pc[c] \in {"run", "put", "requeue"} => sp[c] = current_stack[c]
    /\ pc[c] = "entry" => sp[c] = thread_stack[current[c]]
    /\ pc[c] \in {"trap", "irq", "utrap"} => sp[c] = trap_stack[c]
    /\ pc[c] = "user" => sp[c] = NoStack
    /\ pc[c] \in {"restore", "leave"} => sp[c] \in free_stacks[c] \cup {trap_stack[c]}

\* Each CPU executes where the place of the code says.
ExecutesInv == \A c \in CPU : Executes(c)

\* A CPU panics, or waits without a stack that could save the wait, only if
\* utok_schedule can find nothing to run.
PanicInv ==
    \A c \in CPU :
        pc[c] = "panic" \/ (pc[c] = "wfi" /\ current_stack[c] = NoStack) => UTOK_MAY_WAIT

-----------------------------------------------------------------------------
\* An allocation finds a stack in the own pool, or, if that is empty, the OS's.
LEMMA FoundLemma ==
    ASSUME TypeOK, NEW c \in CPU, Available(c) # {}
    PROVE  /\ Found(c) \in Stack /\ Found(c) # NoStack
           /\ free_stacks[c] # {} => Found(c) \in free_stacks[c]
           /\ free_stacks[c] = {} => Found(c) \in unused
<1>1. Found(c) \in Available(c)
  BY Zenon DEF Found
<1> QED
  BY <1>1, StackAssumption, SMT DEF TypeOK, Available

\* After resched, thread_entry moves to an empty stack (main_loop.rs:253).
LEMMA MovesToEmptyStack ==
    ASSUME NEW c \in CPU, Control(c), thread_entry(c)
    PROVE  to_empty_stack(c)
BY SMT DEF Control, thread_entry, is_coroutine, Goto

\* CURRENT_TASK and the handler's Options are what the code at each place
\* relies on: a context is saved while there is a current stack, run_task
\* resumes a thread with a stack, and no two CPUs run the same task
\* (main_loop.rs:51-269 and 632-709, handler.rs:136-200).
THEOREM ControlInvariance == Spec => []ControlInv
<1> USE StackAssumption, TaskAssumption
<1>1. Init => ControlInv
  BY SMT DEF Init, ControlInv, TypeOK, Control, TasksApart, PC
<1>2. ControlInv /\ [Next]_vars => ControlInv'
  <2> SUFFICES ASSUME ControlInv, [Next]_vars
               PROVE  ControlInv'
    OBVIOUS
  <2> USE DEF ControlInv
  <2>1. ASSUME NEW c \in CPU, kernel_init(c) PROVE ControlInv'
    <3>1. /\ Found(c) \in Stack \ {NoStack} /\ InitStack[c] \in Stack \ {NoStack}
          /\ pc[c] = "boot" /\ current[c] = NoTask
      BY <2>1, FoundLemma, SMT DEF kernel_init, alloc_stack, Goto, Control
    <3>2. /\ TypeOK'
          /\ pc'[c] \in {"run", "sched"}
      BY <2>1, <3>1, SMT DEF kernel_init, TypeOK, PC, Goto, alloc_stack
    <3>3. Control(c)'
      BY <2>1, <3>1, <3>2, SMT DEF kernel_init, Control, TypeOK, Goto, TasksApart
    <3>4. ASSUME NEW d \in CPU \ {c} PROVE Control(d)'
      BY <2>1, <3>4, SMT DEF kernel_init, Control, TypeOK, Goto, alloc_stack
    <3>5. TasksApart'
      BY <2>1, <3>1, SMT DEF kernel_init, TasksApart, TypeOK, Exists
    <3> QED
      BY <3>2, <3>3, <3>4, <3>5
  <2>2. ASSUME NEW c \in CPU, resched(c) PROVE ControlInv'
    BY <2>2, SMT
       DEF resched, Control, TypeOK, TasksApart, PC, Exists, Goto, stackVars, TakeCurrentStack
  <2>3. ASSUME NEW c \in CPU, thread_entry(c) PROVE ControlInv'
    <3>1. to_empty_stack(c)
      BY <2>3, MovesToEmptyStack
    <3> QED
      BY <3>1, FoundLemma, SMT
         DEF to_empty_stack, Control, TypeOK, TasksApart, PC, Exists, Goto, alloc_stack,
             taskVars
  <2>4. ASSUME NEW c \in CPU, poll_returns(c) PROVE ControlInv'
    BY <2>4, SMT
       DEF poll_returns, Control, TypeOK, TasksApart, PC, Exists, Goto, stackVars, cpuVars,
           taskVars
  <2>5. ASSUME NEW c \in CPU, trap(c) PROVE ControlInv'
    BY <2>5, SMT
       DEF trap, Control, TypeOK, TasksApart, PC, Exists, Goto, stackVars, TakeCurrentStack
  <2>6. ASSUME NEW c \in CPU, interrupt(c) PROVE ControlInv'
    BY <2>6, SMT
       DEF interrupt, Control, TypeOK, TasksApart, PC, Exists, Goto, stackVars, TakeCurrentStack
  <2>7. ASSUME NEW c \in CPU, trap_entry(c) PROVE ControlInv'
    BY <2>7, FoundLemma, SMT
       DEF trap_entry, Control, TypeOK, TasksApart, PC, Exists, Goto, alloc_stack, taskVars,
           SwapTrapStack
  <2>8. ASSUME NEW c \in CPU, wake_up(c) PROVE ControlInv'
    BY <2>8, SMT
       DEF wake_up, Control, TypeOK, TasksApart, PC, Exists, Goto, stackVars, SwapTrapStack
  <2>9. ASSUME NEW c \in CPU, put(c) PROVE ControlInv'
    BY <2>9, SMT DEF put, Control, TypeOK, TasksApart, PC, Exists, stackVars, cpuVars
  <2>10. ASSUME NEW c \in CPU, free(c) PROVE ControlInv'
    BY <2>10, SMT DEF free, Control, TypeOK, TasksApart, PC, Exists, Goto, cpuVars
  <2>11. ASSUME NEW c \in CPU, ktask_schedule(c) PROVE ControlInv'
    BY <2>11, SMT
       DEF ktask_schedule, Control, TypeOK, TasksApart, PC, Exists, Goto, stackVars, cpuVars
  <2>12. ASSUME NEW c \in CPU, run_coroutine(c) PROVE ControlInv'
    BY <2>12, FoundLemma, SMT
       DEF run_coroutine, is_coroutine, Control, TypeOK, TasksApart, PC, Exists, Goto,
           alloc_stack, stackVars,
           taskVars
  <2>13. ASSUME NEW c \in CPU, run_thread(c) PROVE ControlInv'
    BY <2>13, SMT DEF run_thread, Control, TypeOK, TasksApart, PC, Exists, Goto, dealloc_stack
  <2>14. ASSUME NEW c \in CPU, restore_context(c) PROVE ControlInv'
    BY <2>14, SMT
       DEF restore_context, Control, TypeOK, TasksApart, PC, Exists, Goto, stackVars, taskVars
  <2>15. ASSUME NEW c \in CPU, krun_utask(c) PROVE ControlInv'
    BY <2>15, SMT
       DEF krun_utask, Control, TypeOK, TasksApart, PC, Exists, Goto, taskVars, dealloc_stack
  <2>16. ASSUME NEW c \in CPU, into_user(c) PROVE ControlInv'
    BY <2>16, SMT
       DEF into_user, Control, TypeOK, TasksApart, PC, Exists, Goto, stackVars, taskVars
  <2>17. ASSUME NEW c \in CPU, user_trap(c) PROVE ControlInv'
    BY <2>17, SMT
       DEF user_trap, Control, TypeOK, TasksApart, PC, Exists, Goto, stackVars, taskVars
  <2>18. ASSUME NEW c \in CPU, user_trap_entry(c) PROVE ControlInv'
    BY <2>18, FoundLemma, SMT
       DEF user_trap_entry, Control, TypeOK, TasksApart, PC, Exists, Goto, alloc_stack,
           taskVars, SwapTrapStack
  <2>19. ASSUME NEW c \in CPU, into_kernel(c) PROVE ControlInv'
    BY <2>19, SMT
       DEF into_kernel, Control, TypeOK, TasksApart, PC, Exists, Goto, stackVars, taskVars
  <2>20. ASSUME NEW c \in CPU, wait_for_runnable_task(c) PROVE ControlInv'
    BY <2>20, SMT
       DEF wait_for_runnable_task, Control, TypeOK, TasksApart, PC, Exists, Goto, stackVars,
           cpuVars
  <2>21. ASSUME NEW t \in Task, spawn(t) PROVE ControlInv'
    BY <2>21, SMT DEF spawn, Control, TypeOK, TasksApart, Exists, cpuVars
  <2>22. ASSUME UNCHANGED vars PROVE ControlInv'
    BY <2>22, SMT DEF vars, Control, TypeOK, TasksApart, Exists, stackVars, cpuVars, taskVars
  <2> QED
    BY <2>1, <2>2, <2>3, <2>4, <2>5, <2>6, <2>7, <2>8, <2>9, <2>10, <2>11, <2>12, <2>13, <2>14,
       <2>15, <2>16, <2>17, <2>18, <2>19, <2>20, <2>21, <2>22, Zenon DEF Next
<1> QED
  BY <1>1, <1>2, PTL DEF Spec

-----------------------------------------------------------------------------
\* Allocating, putting away, saving, resuming and swapping for the next trap
\* keep each stack in one place (handler.rs:102-278, main_loop.rs:131-187).
THEOREM PlaceInvariance == Spec => []PlaceInv
<1> USE StackAssumption, TaskAssumption
<1>1. Init => PlaceInv
  BY SMT DEF Init, PlaceInv, HeldAtMostOnce, HeldAtLeastOnce
<1>2. ControlInv /\ PlaceInv /\ [Next]_vars => PlaceInv'
  <2> SUFFICES ASSUME ControlInv, PlaceInv, [Next]_vars
               PROVE  PlaceInv'
    OBVIOUS
  <2> USE DEF ControlInv, PlaceInv
  <2>1. ASSUME NEW c \in CPU, kernel_init(c) PROVE PlaceInv'
    <3>1. HeldAtMostOnce'
      BY <2>1, FoundLemma, SMT DEF kernel_init, HeldAtMostOnce, TypeOK, Goto, alloc_stack
    <3>2. HeldAtLeastOnce'
      BY <2>1, SMT DEF kernel_init, HeldAtLeastOnce, Control, TypeOK, Goto, alloc_stack
    <3> QED
      BY <3>1, <3>2
  <2>2. ASSUME NEW c \in CPU, resched(c) PROVE PlaceInv'
    <3>1. HeldAtMostOnce'
      BY <2>2, SMT DEF resched, HeldAtMostOnce, TypeOK, Goto, stackVars, TakeCurrentStack
    <3>2. HeldAtLeastOnce'
      BY <2>2, SMT
         DEF resched, HeldAtLeastOnce, Control, TypeOK, Goto, stackVars, TakeCurrentStack
    <3> QED
      BY <3>1, <3>2
  <2>3. ASSUME NEW c \in CPU, thread_entry(c) PROVE PlaceInv'
    <3>0. to_empty_stack(c)
      BY <2>3, MovesToEmptyStack
    <3>1. HeldAtMostOnce'
      BY <3>0, FoundLemma, SMT
         DEF to_empty_stack, HeldAtMostOnce, TypeOK, Goto, alloc_stack, taskVars
    <3>2. HeldAtLeastOnce'
      BY <3>0, SMT
         DEF to_empty_stack, HeldAtLeastOnce, Control, TypeOK, Goto, alloc_stack, taskVars
    <3> QED
      BY <3>1, <3>2
  <2>4. ASSUME NEW c \in CPU, poll_returns(c) PROVE PlaceInv'
    <3>1. HeldAtMostOnce'
      BY <2>4, SMT DEF poll_returns, HeldAtMostOnce, Goto, stackVars, cpuVars, taskVars
    <3>2. HeldAtLeastOnce'
      BY <2>4, SMT DEF poll_returns, HeldAtLeastOnce, Goto, stackVars, cpuVars, taskVars
    <3> QED
      BY <3>1, <3>2
  <2>5. ASSUME NEW c \in CPU, trap(c) PROVE PlaceInv'
    <3>1. HeldAtMostOnce'
      BY <2>5, SMT DEF trap, HeldAtMostOnce, TypeOK, Goto, stackVars, TakeCurrentStack
    <3>2. HeldAtLeastOnce'
      BY <2>5, SMT DEF trap, HeldAtLeastOnce, Control, TypeOK, Goto, stackVars, TakeCurrentStack
    <3> QED
      BY <3>1, <3>2
  <2>6. ASSUME NEW c \in CPU, interrupt(c) PROVE PlaceInv'
    <3>1. HeldAtMostOnce'
      BY <2>6, SMT DEF interrupt, HeldAtMostOnce, TypeOK, Goto, stackVars, TakeCurrentStack
    <3>2. HeldAtLeastOnce'
      BY <2>6, SMT
         DEF interrupt, HeldAtLeastOnce, Control, TypeOK, Goto, stackVars, TakeCurrentStack
    <3> QED
      BY <3>1, <3>2
  <2>7. ASSUME NEW c \in CPU, trap_entry(c) PROVE PlaceInv'
    <3>1. HeldAtMostOnce'
      <4>1. /\ current_stack[c] = NoStack /\ trap_stack[c] # NoStack /\ Found(c) # trap_stack[c]
            /\ trap_stack' = [trap_stack EXCEPT ![c] = Found(c)]
            /\ current_stack' = [current_stack EXCEPT ![c] = trap_stack[c]]
            /\ \A d \in CPU : pc'[d] = "boot" => pc[d] = "boot" /\ d # c
        BY <2>7, FoundLemma, SMT
           DEF trap_entry, SwapTrapStack, Goto, Control, TypeOK, HeldAtMostOnce, alloc_stack
      <4> QED
        BY <2>7, <4>1, FoundLemma, SMT
           DEF trap_entry, HeldAtMostOnce, TypeOK, alloc_stack, taskVars
    <3>2. HeldAtLeastOnce'
      BY <2>7, SMT
         DEF trap_entry, HeldAtLeastOnce, Control, TypeOK, Goto, alloc_stack, taskVars,
             SwapTrapStack
    <3> QED
      BY <3>1, <3>2
  <2>8. ASSUME NEW c \in CPU, wake_up(c) PROVE PlaceInv'
    <3>1. HeldAtMostOnce'
      BY <2>8, SMT DEF wake_up, HeldAtMostOnce, TypeOK, Goto, stackVars, SwapTrapStack
    <3>2. HeldAtLeastOnce'
      BY <2>8, SMT DEF wake_up, HeldAtLeastOnce, Control, TypeOK, Goto, stackVars, SwapTrapStack
    <3> QED
      BY <3>1, <3>2
  <2>9. ASSUME NEW c \in CPU, put(c) PROVE PlaceInv'
    <3>1. HeldAtMostOnce'
      BY <2>9, SMT DEF put, HeldAtMostOnce, stackVars, cpuVars
    <3>2. HeldAtLeastOnce'
      BY <2>9, SMT DEF put, HeldAtLeastOnce, stackVars, cpuVars
    <3> QED
      BY <3>1, <3>2
  <2>10. ASSUME NEW c \in CPU, free(c) PROVE PlaceInv'
    <3>1. HeldAtMostOnce'
      BY <2>10, SMT DEF free, HeldAtMostOnce, Control, TypeOK, Goto, cpuVars
    <3>2. HeldAtLeastOnce'
      BY <2>10, SMT DEF free, HeldAtLeastOnce, Goto, cpuVars
    <3> QED
      BY <3>1, <3>2
  <2>11. ASSUME NEW c \in CPU, ktask_schedule(c) PROVE PlaceInv'
    <3>1. HeldAtMostOnce'
      BY <2>11, SMT DEF ktask_schedule, HeldAtMostOnce, Goto, stackVars, cpuVars
    <3>2. HeldAtLeastOnce'
      BY <2>11, SMT DEF ktask_schedule, HeldAtLeastOnce, Goto, stackVars, cpuVars
    <3> QED
      BY <3>1, <3>2
  <2>12. ASSUME NEW c \in CPU, run_coroutine(c) PROVE PlaceInv'
    <3>1. HeldAtMostOnce'
      <4>1. CASE current_stack[c] # NoStack
        BY <2>12, <4>1, SMT
           DEF run_coroutine, is_coroutine, HeldAtMostOnce, TypeOK, Goto, stackVars, taskVars
      <4>2. CASE current_stack[c] = NoStack
        <5>1. alloc_stack(c) /\ pc'[c] # "boot"
          BY <2>12, <4>2, SMT DEF run_coroutine, is_coroutine, TypeOK, Goto
        <5> QED
          BY <2>12, <4>2, <5>1, FoundLemma, SMT
             DEF run_coroutine, is_coroutine, HeldAtMostOnce, TypeOK, Goto, alloc_stack,
                 taskVars
      <4> QED
        BY <4>1, <4>2
    <3>2. HeldAtLeastOnce'
      BY <2>12, SMT
         DEF run_coroutine, is_coroutine, HeldAtLeastOnce, TypeOK, Goto, alloc_stack,
             stackVars, taskVars
    <3> QED
      BY <3>1, <3>2
  <2>13. ASSUME NEW c \in CPU, run_thread(c) PROVE PlaceInv'
    <3>1. HeldAtMostOnce'
      BY <2>13, SMT DEF run_thread, HeldAtMostOnce, Control, TypeOK, Goto, dealloc_stack
    <3>2. HeldAtLeastOnce'
      <4>1. \A x \in unused : x \in unused'
        BY <2>13, SMT DEF run_thread, dealloc_stack
      <4>2. \A x \in free_stacks[c] : x \in free_stacks'[c] \cup unused'
        BY <2>13, SMT DEF run_thread, dealloc_stack
      <4>3. current_stack[c] \in free_stacks'[c] \cup unused' \cup {NoStack}
        BY <2>13, SMT DEF run_thread, dealloc_stack, TypeOK
      <4>4. \A d \in CPU \ {c} : /\ free_stacks'[d] = free_stacks[d]
                                 /\ current_stack'[d] = current_stack[d]
        BY <2>13, SMT DEF run_thread, dealloc_stack
      <4> QED
        BY <2>13, <4>1, <4>2, <4>3, <4>4, SMT DEF run_thread, HeldAtLeastOnce, TypeOK, Goto
    <3> QED
      BY <3>1, <3>2
  <2>14. ASSUME NEW c \in CPU, restore_context(c) PROVE PlaceInv'
    <3>1. HeldAtMostOnce'
      BY <2>14, SMT DEF restore_context, HeldAtMostOnce, Goto, stackVars, taskVars
    <3>2. HeldAtLeastOnce'
      BY <2>14, SMT DEF restore_context, HeldAtLeastOnce, Goto, stackVars, taskVars
    <3> QED
      BY <3>1, <3>2
  <2>15. ASSUME NEW c \in CPU, krun_utask(c) PROVE PlaceInv'
    <3>1. HeldAtMostOnce'
      BY <2>15, SMT DEF krun_utask, HeldAtMostOnce, TypeOK, Goto, taskVars, dealloc_stack
    <3>2. HeldAtLeastOnce'
      <4>1. \A x \in unused : x \in unused'
        BY <2>15, SMT DEF krun_utask, dealloc_stack
      <4>2. \A x \in free_stacks[c] : x \in free_stacks'[c] \cup unused'
        BY <2>15, SMT DEF krun_utask, dealloc_stack
      <4>3. current_stack[c] \in free_stacks'[c] \cup unused' \cup {NoStack}
        BY <2>15, SMT DEF krun_utask, dealloc_stack, TypeOK
      <4>4. \A d \in CPU \ {c} : /\ free_stacks'[d] = free_stacks[d]
                                 /\ current_stack'[d] = current_stack[d]
        BY <2>15, SMT DEF krun_utask, dealloc_stack
      <4> QED
        BY <2>15, <4>1, <4>2, <4>3, <4>4, SMT DEF krun_utask, HeldAtLeastOnce, Goto, taskVars
    <3> QED
      BY <3>1, <3>2
  <2>16. ASSUME NEW c \in CPU, into_user(c) PROVE PlaceInv'
    <3>1. HeldAtMostOnce'
      BY <2>16, SMT DEF into_user, HeldAtMostOnce, Goto, stackVars, taskVars
    <3>2. HeldAtLeastOnce'
      BY <2>16, SMT DEF into_user, HeldAtLeastOnce, Goto, stackVars, taskVars
    <3> QED
      BY <3>1, <3>2
  <2>17. ASSUME NEW c \in CPU, user_trap(c) PROVE PlaceInv'
    <3>1. HeldAtMostOnce'
      BY <2>17, SMT DEF user_trap, HeldAtMostOnce, Goto, stackVars, taskVars
    <3>2. HeldAtLeastOnce'
      BY <2>17, SMT DEF user_trap, HeldAtLeastOnce, Goto, stackVars, taskVars
    <3> QED
      BY <3>1, <3>2
  <2>18. ASSUME NEW c \in CPU, user_trap_entry(c) PROVE PlaceInv'
    <3>1. HeldAtMostOnce'
      BY <2>18, FoundLemma, SMT
         DEF user_trap_entry, HeldAtMostOnce, TypeOK, Goto, alloc_stack, taskVars, SwapTrapStack
    <3>2. HeldAtLeastOnce'
      BY <2>18, SMT
         DEF user_trap_entry, HeldAtLeastOnce, Control, TypeOK, Goto, alloc_stack, taskVars,
             SwapTrapStack
    <3> QED
      BY <3>1, <3>2
  <2>19. ASSUME NEW c \in CPU, into_kernel(c) PROVE PlaceInv'
    <3>1. HeldAtMostOnce'
      BY <2>19, SMT DEF into_kernel, HeldAtMostOnce, Goto, stackVars, taskVars
    <3>2. HeldAtLeastOnce'
      BY <2>19, SMT DEF into_kernel, HeldAtLeastOnce, Goto, stackVars, taskVars
    <3> QED
      BY <3>1, <3>2
  <2>20. ASSUME NEW c \in CPU, wait_for_runnable_task(c) PROVE PlaceInv'
    <3>1. HeldAtMostOnce'
      BY <2>20, SMT DEF wait_for_runnable_task, HeldAtMostOnce, Goto, stackVars, cpuVars
    <3>2. HeldAtLeastOnce'
      BY <2>20, SMT DEF wait_for_runnable_task, HeldAtLeastOnce, Goto, stackVars, cpuVars
    <3> QED
      BY <3>1, <3>2
  <2>21. ASSUME NEW t \in Task, spawn(t) PROVE PlaceInv'
    <3>1. HeldAtMostOnce'
      BY <2>21, SMT DEF spawn, HeldAtMostOnce, TypeOK, cpuVars
    <3>2. HeldAtLeastOnce'
      <4> DEFINE s == CHOOSE x \in unused : TRUE
      <4>1. unused # {} => s \in unused
        BY Zenon
      <4> HIDE DEF s
      <4>2. \/ UNCHANGED thread_stack /\ UNCHANGED unused
            \/ /\ unused # {} /\ unused' = unused \ {s}
               /\ thread_stack' = [thread_stack EXCEPT ![t] = s] /\ ~Exists(t)
        BY <2>21, Zenon DEF spawn, s
      <4> QED
        BY <2>21, <4>1, <4>2, SMT DEF spawn, HeldAtLeastOnce, TypeOK, TasksApart, cpuVars
    <3> QED
      BY <3>1, <3>2
  <2>22. ASSUME UNCHANGED vars PROVE PlaceInv'
    BY <2>22, SMT DEF vars, HeldAtMostOnce, HeldAtLeastOnce, stackVars, cpuVars, taskVars
  <2> QED
    BY <2>1, <2>2, <2>3, <2>4, <2>5, <2>6, <2>7, <2>8, <2>9, <2>10, <2>11, <2>12, <2>13, <2>14,
       <2>15, <2>16, <2>17, <2>18, <2>19, <2>20, <2>21, <2>22, Zenon DEF Next
<1> QED
  BY <1>1, <1>2, ControlInvariance, PTL DEF Spec

\* In that state there is exactly one element in Holders(s).
LEMMA OneHolder ==
    ASSUME TypeOK, PlaceInv, NEW s \in Stack
    PROVE  Cardinality(Holders(s)) = 1
<1> USE StackAssumption
<1> DEFINE U == {<<"unused", s>> : x \in unused \cap {s}}
           P == {<<"pool", c>> : c \in {d \in CPU : s \in free_stacks[d]}}
           C == {<<"current", c>> : c \in {d \in CPU : current_stack[d] = s}}
           T == {<<"trap", c>> : c \in {d \in CPU : trap_stack[d] = s}}
           S == {<<"saved", x>> : x \in {y \in Task \cup CPU : thread_stack[y] = s}}
           B == {<<"boot", c>> : c \in {d \in CPU : pc[d] = "boot" /\ InitStack[d] = s}}
<1>0. Holders(s) = U \cup P \cup C \cup T \cup S \cup B
  BY Zenon DEF Holders
<1>1. \E h : h \in Holders(s)
  <2>1. s \in unused => <<"unused", s>> \in U
    BY Zenon
  <2>2. \A c \in CPU : s \in free_stacks[c] => <<"pool", c>> \in P
    BY Zenon
  <2>3. \A c \in CPU : s = current_stack[c] => <<"current", c>> \in C
    BY Zenon
  <2>4. \A c \in CPU : s = trap_stack[c] => <<"trap", c>> \in T
    BY Zenon
  <2>5. \A x \in Task \cup CPU : s = thread_stack[x] => <<"saved", x>> \in S
    BY Zenon
  <2>6. \A c \in CPU : pc[c] = "boot" /\ s = InitStack[c] => <<"boot", c>> \in B
    BY Zenon
  <2> HIDE DEF U, P, C, T, S, B
  <2> QED
    BY <1>0, <2>1, <2>2, <2>3, <2>4, <2>5, <2>6, Zenon DEF PlaceInv, HeldAtLeastOnce
<1>2. ASSUME NEW g \in Holders(s), NEW h \in Holders(s) PROVE g = h
  <2>1. CASE s \in unused
    BY <1>0, <1>2, <2>1, SMT DEF PlaceInv, HeldAtMostOnce
  <2>2. CASE \E c \in CPU : s \in free_stacks[c]
    BY <1>0, <1>2, <2>2, SMT DEF PlaceInv, HeldAtMostOnce
  <2>3. CASE \E c \in CPU : s = current_stack[c]
    BY <1>0, <1>2, <2>3, SMT DEF PlaceInv, HeldAtMostOnce
  <2>4. CASE \E c \in CPU : s = trap_stack[c]
    BY <1>0, <1>2, <2>4, SMT DEF PlaceInv, HeldAtMostOnce
  <2>5. CASE \E x \in Task \cup CPU : s = thread_stack[x]
    BY <1>0, <1>2, <2>5, SMT DEF PlaceInv, HeldAtMostOnce
  <2>6. CASE \E c \in CPU : pc[c] = "boot" /\ s = InitStack[c]
    BY <1>0, <1>2, <2>6, SMT DEF PlaceInv, HeldAtMostOnce
  <2> QED
    BY <2>1, <2>2, <2>3, <2>4, <2>5, <2>6, Zenon DEF PlaceInv, HeldAtLeastOnce
<1>3. PICK h \in Holders(s) : TRUE
  BY <1>1
<1>4. Holders(s) = {h}
  BY <1>2
<1> QED
  BY <1>4, FS_Singleton, Zenon

\* No stack is lost or handed out twice, for any number of CPUs, tasks and
\* stacks and any size of the pools (handler.rs:119-134, 161, 174, 248-274).
THEOREM EveryStackHasOneHolder == Spec => []EveryStackInOnePlace
<1>1. ControlInv /\ PlaceInv => EveryStackInOnePlace
  BY OneHolder, Zenon DEF EveryStackInOnePlace, ControlInv
<1> QED
  BY <1>1, ControlInvariance, PlaceInvariance, PTL

\* The handler's variables keep their types (handler.rs:92-100).
THEOREM TypeCorrect == Spec => []TypeOK
<1>1. ControlInv => TypeOK
  BY Zenon DEF ControlInv
<1> QED
  BY <1>1, ControlInvariance, PTL

-----------------------------------------------------------------------------
\* A stack that is about to become the current one is current on no other
\* CPU: the check in set_current_stack succeeds (handler.rs:142-157).
LEMMA NotUsedElsewhere ==
    ASSUME ControlInv, PlaceInv, NEW c \in CPU
    PROVE  /\ Available(c) # {} => ~UsedElsewhere(c, Found(c))
           /\ trap_stack[c] # NoStack => ~UsedElsewhere(c, trap_stack[c])
           /\ \A x \in Task \cup CPU :
                 thread_stack[x] # NoStack => ~UsedElsewhere(c, thread_stack[x])
BY FoundLemma, SMT DEF ControlInv, PlaceInv, HeldAtMostOnce, UsedElsewhere

\* The handler's and trap_entry's checks can fail in one way only: a CPU waits
\* for an interrupt without a current stack, which takes a utok_schedule that
\* finds nothing to run (handler.rs:142-157, main_loop.rs:85-87 and 185-186).
THEOREM OnlyTheWaitPanics == Spec => []PanicInv
<1>1. Init => PanicInv
  BY SMT DEF Init, PanicInv
<1>2. ControlInv /\ PlaceInv /\ PanicInv /\ [Next]_vars => PanicInv'
  <2> SUFFICES ASSUME ControlInv, PlaceInv, PanicInv, [Next]_vars
               PROVE  PanicInv'
    OBVIOUS
  <2> USE DEF ControlInv, PanicInv
  <2>1. ASSUME NEW c \in CPU, kernel_init(c) PROVE PanicInv'
    BY <2>1, SMT DEF kernel_init, TypeOK, Goto
  <2>2. ASSUME NEW c \in CPU, resched(c) PROVE PanicInv'
    BY <2>2, SMT DEF resched, Control, Goto, TakeCurrentStack
  <2>3. ASSUME NEW c \in CPU, thread_entry(c) PROVE PanicInv'
    <3>1. to_empty_stack(c)
      BY <2>3, MovesToEmptyStack
    <3> QED
      BY <3>1, NotUsedElsewhere, SMT DEF to_empty_stack, Goto, alloc_stack
  <2>4. ASSUME NEW c \in CPU, poll_returns(c) PROVE PanicInv'
    BY <2>4, SMT DEF poll_returns, Goto, cpuVars
  <2>5. ASSUME NEW c \in CPU, trap(c) PROVE PanicInv'
    BY <2>5, SMT DEF trap, Control, Goto, TakeCurrentStack
  <2>6. ASSUME NEW c \in CPU, interrupt(c) PROVE PanicInv'
    BY <2>6, SMT DEF interrupt, Control, TypeOK, Goto, TakeCurrentStack
  <2>7. ASSUME NEW c \in CPU, trap_entry(c) PROVE PanicInv'
    BY <2>7, NotUsedElsewhere, SMT DEF trap_entry, Control, TypeOK, Goto, SwapTrapStack
  <2>8. ASSUME NEW c \in CPU, wake_up(c) PROVE PanicInv'
    BY <2>8, NotUsedElsewhere, SMT DEF wake_up, Control, Goto, SwapTrapStack
  <2>9. ASSUME NEW c \in CPU, put(c) PROVE PanicInv'
    BY <2>9, SMT DEF put, cpuVars
  <2>10. ASSUME NEW c \in CPU, free(c) PROVE PanicInv'
    BY <2>10, SMT DEF free, Goto, cpuVars
  <2>11. ASSUME NEW c \in CPU, ktask_schedule(c) PROVE PanicInv'
    BY <2>11, SMT DEF ktask_schedule, Goto, cpuVars
  <2>12. ASSUME NEW c \in CPU, run_coroutine(c) PROVE PanicInv'
    BY <2>12, NotUsedElsewhere, SMT DEF run_coroutine, is_coroutine, TypeOK, Goto, alloc_stack
  <2>13. ASSUME NEW c \in CPU, run_thread(c) PROVE PanicInv'
    BY <2>13, NotUsedElsewhere, SMT DEF run_thread, Control, Goto
  <2>14. ASSUME NEW c \in CPU, restore_context(c) PROVE PanicInv'
    BY <2>14, SMT DEF restore_context, Goto
  <2>15. ASSUME NEW c \in CPU, krun_utask(c) PROVE PanicInv'
    BY <2>15, SMT DEF krun_utask, Goto
  <2>16. ASSUME NEW c \in CPU, into_user(c) PROVE PanicInv'
    BY <2>16, SMT DEF into_user, Goto
  <2>17. ASSUME NEW c \in CPU, user_trap(c) PROVE PanicInv'
    BY <2>17, SMT DEF user_trap, Goto
  <2>18. ASSUME NEW c \in CPU, user_trap_entry(c) PROVE PanicInv'
    BY <2>18, NotUsedElsewhere, SMT DEF user_trap_entry, Control, Goto, SwapTrapStack
  <2>19. ASSUME NEW c \in CPU, into_kernel(c) PROVE PanicInv'
    BY <2>19, SMT DEF into_kernel, Goto
  <2>20. ASSUME NEW c \in CPU, wait_for_runnable_task(c) PROVE PanicInv'
    BY <2>20, SMT DEF wait_for_runnable_task, Goto, cpuVars
  <2>21. ASSUME NEW t \in Task, spawn(t) PROVE PanicInv'
    BY <2>21, SMT DEF spawn, cpuVars
  <2>22. ASSUME UNCHANGED vars PROVE PanicInv'
    BY <2>22, SMT DEF vars, cpuVars
  <2> QED
    BY <2>1, <2>2, <2>3, <2>4, <2>5, <2>6, <2>7, <2>8, <2>9, <2>10, <2>11, <2>12, <2>13, <2>14,
       <2>15, <2>16, <2>17, <2>18, <2>19, <2>20, <2>21, <2>22, Zenon DEF Next
<1> QED
  BY <1>1, <1>2, ControlInvariance, PlaceInvariance, PTL DEF Spec

\* So none of them fails as long as utok_schedule always finds something to
\* run (main_loop.rs:395-417).
THEOREM NoPanicIfNoWait == ~UTOK_MAY_WAIT => (Spec => []NoPanic)
<1> SUFFICES ASSUME ~UTOK_MAY_WAIT PROVE Spec => []NoPanic
  OBVIOUS
<1>1. PanicInv => NoPanic
  BY DEF PanicInv, NoPanic
<1> QED
  BY <1>1, OnlyTheWaitPanics, PTL

-----------------------------------------------------------------------------
\* No pool is full, so every stack that a CPU puts away stays in its pool and
\* none is freed while the CPU is still on it (handler.rs:119-134).
Room == \A c \in CPU : Cardinality(free_stacks[c]) < STACK_POOL_SIZE

\* A pool that is not full has room for one more stack.
LEMMA RoomForOne ==
    ASSUME TypeOK, Room, NEW c \in CPU, NEW s \in Stack
    PROVE  Cardinality(free_stacks[c] \ {s}) < STACK_POOL_SIZE
<1>1. IsFiniteSet(free_stacks[c])
  <2>1. free_stacks[c] \subseteq Stack
    BY DEF TypeOK
  <2> QED
    BY <2>1, StackAssumption, FS_Subset
<1>2. /\ IsFiniteSet(free_stacks[c] \ {s})
      /\ Cardinality(free_stacks[c] \ {s}) <= Cardinality(free_stacks[c])
  BY <1>1, FS_Subset
<1>3. Cardinality(free_stacks[c]) \in Nat /\ Cardinality(free_stacks[c] \ {s}) \in Nat
  BY <1>1, <1>2, FS_CardinalityType
<1> QED
  BY <1>2, <1>3, PoolSizeAssumption, SMT DEF Room

\* If the pools have room for all stacks there are, none is ever full: the
\* stack for a CPU's next trap, or the one it boots on, is in no pool.
LEMMA FewStacks ==
    ASSUME ControlInv, PlaceInv, Cardinality(Stack) <= STACK_POOL_SIZE
    PROVE  Room
<1> USE StackAssumption
<1>1. SUFFICES ASSUME NEW c \in CPU PROVE Cardinality(free_stacks[c]) < STACK_POOL_SIZE
  BY DEF Room
<1>2. PICK s \in Stack : s \notin free_stacks[c]
  BY SMT DEF ControlInv, Control, TypeOK, PlaceInv, HeldAtMostOnce
<1>3. IsFiniteSet(Stack \ {s}) /\ Cardinality(Stack \ {s}) = Cardinality(Stack) - 1
  BY FS_RemoveElement
<1>4. free_stacks[c] \subseteq Stack \ {s}
  BY <1>2, SMT DEF ControlInv, TypeOK
<1>5. /\ IsFiniteSet(free_stacks[c])
      /\ Cardinality(free_stacks[c]) <= Cardinality(Stack \ {s})
  BY <1>3, <1>4, FS_Subset
<1>6. Cardinality(Stack) \in Nat /\ Cardinality(free_stacks[c]) \in Nat
  BY <1>5, FS_CardinalityType
<1> QED
  BY <1>3, <1>5, <1>6, PoolSizeAssumption, SMT

\* Then dealloc_stack frees nothing (handler.rs:126-134).
LEMMA PutAway ==
    ASSUME TypeOK, Room, NEW c \in CPU, NEW s \in Stack \cup {NoStack}, dealloc_stack(c, s)
    PROVE  /\ free_stacks' = [free_stacks EXCEPT ![c] = @ \cup ({s} \ {NoStack})]
           /\ UNCHANGED unused
<1>1. CASE s \in Stack
  BY <1>1, RoomForOne, Zenon DEF dealloc_stack
<1>2. CASE s = NoStack
  <2>1. {s} \ {NoStack} = {}
    BY <1>2
  <2>2. /\ free_stacks[c] \ {} = free_stacks[c] /\ free_stacks[c] \cup {} = free_stacks[c]
        /\ unused \cup {} = unused
    OBVIOUS
  <2> QED
    BY <2>1, <2>2, Zenon DEF dealloc_stack
<1> QED
  BY <1>1, <1>2

\* A CPU executes on its current stack or, when it has none, on a trap stack
\* or on one that it has just put into its own pool: get_thread_stack and
\* krun_utask give up the stack they still stand on (handler.rs:248-274).
THEOREM ExecutesInvariance == Spec /\ []Room => []ExecutesInv
<1> USE StackAssumption, TaskAssumption
<1>1. Init => ExecutesInv
  BY SMT DEF Init, ExecutesInv, Executes
<1>2. ControlInv /\ PlaceInv /\ Room /\ ExecutesInv /\ [Next]_vars => ExecutesInv'
  <2> SUFFICES ASSUME ControlInv, PlaceInv, Room, ExecutesInv, [Next]_vars
               PROVE  ExecutesInv'
    OBVIOUS
  <2> USE DEF ControlInv, ExecutesInv
  <2>1. ASSUME NEW c \in CPU, kernel_init(c) PROVE ExecutesInv'
    BY <2>1, SMT DEF kernel_init, Executes, TypeOK, Goto, alloc_stack
  <2>2. ASSUME NEW c \in CPU, resched(c) PROVE ExecutesInv'
    BY <2>2, SMT DEF resched, Executes, Control, TypeOK, Goto, stackVars, TakeCurrentStack
  <2>3. ASSUME NEW c \in CPU, thread_entry(c) PROVE ExecutesInv'
    <3>1. to_empty_stack(c)
      BY <2>3, MovesToEmptyStack
    <3> QED
      BY <3>1, SMT DEF to_empty_stack, Executes, TypeOK, Goto, alloc_stack, taskVars
  <2>4. ASSUME NEW c \in CPU, poll_returns(c) PROVE ExecutesInv'
    BY <2>4, SMT DEF poll_returns, Executes, Goto, stackVars, cpuVars, taskVars
  <2>5. ASSUME NEW c \in CPU, trap(c) PROVE ExecutesInv'
    BY <2>5, SMT DEF trap, Executes, Control, TypeOK, Goto, stackVars, TakeCurrentStack
  <2>6. ASSUME NEW c \in CPU, interrupt(c) PROVE ExecutesInv'
    BY <2>6, SMT DEF interrupt, Executes, Control, TypeOK, Goto, stackVars, TakeCurrentStack
  <2>7. ASSUME NEW c \in CPU, trap_entry(c) PROVE ExecutesInv'
    BY <2>7, SMT DEF trap_entry, Executes, TypeOK, Goto, alloc_stack, taskVars, SwapTrapStack
  <2>8. ASSUME NEW c \in CPU, wake_up(c) PROVE ExecutesInv'
    BY <2>8, SMT DEF wake_up, Executes, Control, TypeOK, Goto, stackVars, SwapTrapStack
  <2>9. ASSUME NEW c \in CPU, put(c) PROVE ExecutesInv'
    BY <2>9, SMT DEF put, Executes, Control, stackVars, cpuVars
  <2>10. ASSUME NEW c \in CPU, free(c) PROVE ExecutesInv'
    BY <2>10, SMT DEF free, Executes, Control, TasksApart, Goto, cpuVars
  <2>11. ASSUME NEW c \in CPU, ktask_schedule(c) PROVE ExecutesInv'
    BY <2>11, SMT DEF ktask_schedule, Executes, Goto, stackVars, cpuVars
  <2>12. ASSUME NEW c \in CPU, run_coroutine(c) PROVE ExecutesInv'
    BY <2>12, SMT
       DEF run_coroutine, is_coroutine, Executes, TypeOK, Goto, alloc_stack, stackVars, taskVars
  <2>13. ASSUME NEW c \in CPU, run_thread(c) PROVE ExecutesInv'
    BY <2>13, PutAway, SMT DEF run_thread, Executes, Control, TypeOK, TasksApart, Goto
  <2>14. ASSUME NEW c \in CPU, restore_context(c) PROVE ExecutesInv'
    BY <2>14, SMT DEF restore_context, Executes, TypeOK, Goto, stackVars, taskVars
  <2>15. ASSUME NEW c \in CPU, krun_utask(c) PROVE ExecutesInv'
    BY <2>15, PutAway, SMT DEF krun_utask, Executes, TypeOK, Goto, taskVars
  <2>16. ASSUME NEW c \in CPU, into_user(c) PROVE ExecutesInv'
    BY <2>16, SMT DEF into_user, Executes, TypeOK, Goto, stackVars, taskVars
  <2>17. ASSUME NEW c \in CPU, user_trap(c) PROVE ExecutesInv'
    BY <2>17, SMT DEF user_trap, Executes, TypeOK, Goto, stackVars, taskVars
  <2>18. ASSUME NEW c \in CPU, user_trap_entry(c) PROVE ExecutesInv'
    BY <2>18, SMT
       DEF user_trap_entry, Executes, TypeOK, Goto, alloc_stack, taskVars, SwapTrapStack
  <2>19. ASSUME NEW c \in CPU, into_kernel(c) PROVE ExecutesInv'
    BY <2>19, SMT DEF into_kernel, Executes, Control, TypeOK, Goto, stackVars, taskVars
  <2>20. ASSUME NEW c \in CPU, wait_for_runnable_task(c) PROVE ExecutesInv'
    BY <2>20, SMT DEF wait_for_runnable_task, Executes, Goto, stackVars, cpuVars
  <2>21. ASSUME NEW t \in Task, spawn(t) PROVE ExecutesInv'
    BY <2>21, SMT DEF spawn, Executes, TypeOK, TasksApart, Control, cpuVars
  <2>22. ASSUME UNCHANGED vars PROVE ExecutesInv'
    BY <2>22, SMT DEF vars, Executes, stackVars, cpuVars, taskVars
  <2> QED
    BY <2>1, <2>2, <2>3, <2>4, <2>5, <2>6, <2>7, <2>8, <2>9, <2>10, <2>11, <2>12, <2>13, <2>14,
       <2>15, <2>16, <2>17, <2>18, <2>19, <2>20, <2>21, <2>22, Zenon DEF Next
<1> QED
  BY <1>1, <1>2, ControlInvariance, PlaceInvariance, PTL DEF Spec

-----------------------------------------------------------------------------
\* OwnedBy, disjunct by disjunct, and the tasks whose contexts lie on a stack.
Owns(c, s) ==
    \/ s \in free_stacks[c]
    \/ s = current_stack[c] \/ s = trap_stack[c] \/ s = thread_stack[c]
    \/ current[c] \in Task /\ s = thread_stack[current[c]]
    \/ pc[c] = "boot" /\ s = InitStack[c]

\* A context lies on s that no CPU is about to save or to resume.
LeftOn(t, s) == thread_stack[t] = s /\ \A c \in CPU : current[c] # t

\* What Owner, the refinement mapping, says of a state.
OwnerInv ==
    /\ Owner \in [Stack -> CPU \cup Task \cup {NoTask}]
    /\ \A s \in Stack, c \in CPU : Owner[s] = c <=> Owns(c, s)
    /\ \A s \in Stack, t \in Task : Owner[s] = t <=> LeftOn(t, s)

\* As each stack is in one place, CHOOSE has one candidate.
LEMMA OwnerFacts ==
    ASSUME ControlInv, PlaceInv
    PROVE  OwnerInv
<1> USE StackAssumption, TaskAssumption
<1> USE DEF ControlInv, PlaceInv
<1>1. ASSUME NEW s \in Stack, NEW c \in CPU PROVE s \in OwnedBy(c) <=> Owns(c, s)
  BY <1>1, SMT DEF OwnedBy, Owns
<1>2. ASSUME NEW s \in Stack, NEW c \in CPU, NEW d \in CPU, Owns(c, s), Owns(d, s) PROVE c = d
  BY <1>2, SMT DEF Owns, HeldAtMostOnce, TasksApart
<1>3. ASSUME NEW s \in Stack, NEW c \in CPU, NEW t \in Task, Owns(c, s), thread_stack[t] = s
      PROVE  current[c] = t
  BY <1>3, SMT DEF Owns, HeldAtMostOnce
<1>4. ASSUME NEW s \in Stack, NEW t \in Task, NEW u \in Task,
             thread_stack[t] = s, thread_stack[u] = s
      PROVE  t = u
  BY <1>4, SMT DEF HeldAtMostOnce
<1>5. ASSUME NEW s \in Stack, NEW c \in CPU, NEW t \in Task, current[c] = t, thread_stack[t] = s
      PROVE  Owns(c, s)
  BY <1>5 DEF Owns
<1> HIDE DEF ControlInv, PlaceInv
<1>6. ASSUME NEW s \in Stack
      PROVE  /\ Owner[s] \in CPU \cup Task \cup {NoTask}
             /\ \A c \in CPU : Owner[s] = c <=> Owns(c, s)
             /\ \A t \in Task : Owner[s] = t <=> LeftOn(t, s)
  <2>1. CASE \E c \in CPU : Owns(c, s)
    <3>1. PICK c \in CPU : Owns(c, s)
      BY <2>1
    <3>2. Owner[s] = CHOOSE d \in CPU : s \in OwnedBy(d)
      BY <3>1, <1>1, Zenon DEF Owner
    <3>3. Owner[s] = c
      BY <3>1, <3>2, <1>1, <1>2, Zenon
    <3>4. \A t \in Task : ~LeftOn(t, s)
      BY <3>1, <1>3 DEF LeftOn
    <3> QED
      BY <3>1, <3>3, <3>4, <1>2
  <2>2. CASE (\A c \in CPU : ~Owns(c, s)) /\ \E t \in Task : thread_stack[t] = s
    <3>1. PICK t \in Task : thread_stack[t] = s
      BY <2>2
    <3>2. Owner[s] = CHOOSE u \in Task : thread_stack[u] = s
      BY <2>2, <1>1, Zenon DEF Owner
    <3>3. Owner[s] = t
      BY <3>1, <3>2, <1>4, Zenon
    <3>4. \A u \in Task : LeftOn(u, s) <=> u = t
      BY <2>2, <3>1, <1>4, <1>5, Zenon DEF LeftOn
    <3> QED
      BY <2>2, <3>3, <3>4
  <2>3. CASE (\A c \in CPU : ~Owns(c, s)) /\ ~ \E t \in Task : thread_stack[t] = s
    <3>1. Owner[s] = NoTask
      BY <2>3, <1>1, Zenon DEF Owner
    <3> QED
      BY <2>3, <3>1, Zenon DEF LeftOn
  <2> QED
    BY <2>1, <2>2, <2>3
<1>7. Owner = [s \in Stack |-> Owner[s]]
  BY Zenon DEF Owner
<1> QED
  BY <1>6, <1>7, Zenon DEF OwnerInv

\* The refinement mapping is what it is meant to be in every state.
THEOREM OwnerInvariance == Spec => []OwnerInv
BY OwnerFacts, ControlInvariance, PlaceInvariance, PTL

\* Nothing changes in who owns s.
Same(s) ==
    /\ \A c \in CPU : Owns(c, s)' <=> Owns(c, s)
    /\ \A t \in Task : LeftOn(t, s)' <=> LeftOn(t, s)

\* A step changes the owners of those stacks only about which it says so.
LEMMA SameOwner ==
    ASSUME OwnerInv, OwnerInv'
    PROVE  /\ (\A s \in Stack : Same(s)) => Owner' = Owner
           /\ \A x \in Stack :
                 (\A s \in Stack \ {x} : Same(s)) => Owner' = [Owner EXCEPT ![x] = Owner'[x]]
<1> DEFINE T == CPU \cup Task \cup {NoTask}
<1>1. ASSUME NEW s \in Stack, Same(s) PROVE Owner'[s] = Owner[s]
  BY <1>1, Zenon DEF OwnerInv, Same
<1>2. Owner \in [Stack -> T] /\ Owner' \in [Stack -> T]
  BY DEF OwnerInv
<1> HIDE DEF T
<1>3. (\A s \in Stack : Owner'[s] = Owner[s]) => Owner' = Owner
  BY <1>2, SMT
<1>4. \A x \in Stack :
         (\A s \in Stack \ {x} : Owner'[s] = Owner[s])
            => Owner' = [Owner EXCEPT ![x] = Owner'[x]]
  BY <1>2, SMT
<1> QED
  BY <1>1, <1>3, <1>4, Zenon

\* Every step of the handler, of main_loop.rs and of the OS's entries is a step
\* of StackOwnership or leaves its variables as they are.
LEMMA RefinedStep ==
    ASSUME ControlInv, PlaceInv, ExecutesInv, OwnerInv, ControlInv', PlaceInv', OwnerInv',
           Room, [Next]_vars
    PROVE  [Ownership!Next]_(Ownership!vars)
<1> USE DEF ControlInv
<1> DEFINE Refined == [Ownership!Next]_(Ownership!vars)
           SameOwners == \A s \in Stack : Same(s)
<1>1. ASSUME UNCHANGED Owner, UNCHANGED sp PROVE Refined
  BY <1>1, Zenon DEF Ownership!vars
<1>2. ASSUME NEW c \in CPU, NEW s \in Stack \cup {NoStack}, UNCHANGED Owner,
             sp' = [sp EXCEPT ![c] = s], s = NoStack \/ Owner[s] = c
      PROVE  Refined
  BY <1>2, Zenon DEF Ownership!Next, Ownership!Move
<1>3. ASSUME NEW c \in CPU, NEW s \in Stack, Owner' = [Owner EXCEPT ![s] = c],
             Owner[s] = NoTask, sp' = sp \/ sp' = [sp EXCEPT ![c] = s]
      PROVE  Refined
  <2>1. sp = [sp EXCEPT ![c] = sp[c]]
    BY SMT DEF TypeOK
  <2> QED
    BY <1>3, <2>1, Zenon DEF Ownership!Next, Ownership!Claim, Ownership!Give
<1>4. ASSUME NEW c \in CPU, NEW s \in Stack, NEW t \in Task, UNCHANGED sp,
             \/ Owner[s] = c /\ Owner' = [Owner EXCEPT ![s] = t] /\ sp[c] # s
             \/ Owner[s] = t /\ Owner' = [Owner EXCEPT ![s] = c]
      PROVE  Refined
  BY <1>4, Zenon DEF Ownership!Next, Ownership!Save, Ownership!Resume, Ownership!Give
<1>5. ASSUME NEW c \in CPU, NEW s \in Stack, UNCHANGED sp, sp[c] # s,
             Owner[s] = c, Owner' = [Owner EXCEPT ![s] = NoTask]
      PROVE  Refined
  BY <1>5, Zenon DEF Ownership!Next, Ownership!Release, Ownership!Give
<1>6. ASSUME NEW t \in Task, NEW s \in Stack, UNCHANGED sp,
             Owner[s] = NoTask, Owner' = [Owner EXCEPT ![s] = t]
      PROVE  Refined
  BY <1>6, Zenon DEF Ownership!Next, Ownership!Spawn, Ownership!Give
<1>7. ASSUME NEW c \in CPU, poll_returns(c) PROVE Refined
  <2>1. (\A s \in Stack : Same(s)) /\ UNCHANGED sp
    BY <1>7, SMT DEF poll_returns, Same, Owns, LeftOn, Control, stackVars, cpuVars, taskVars
  <2> QED
    BY <2>1, SameOwner, <1>1
<1>8. ASSUME NEW c \in CPU, resched(c) PROVE Refined
  <2>1. (\A s \in Stack : Same(s)) /\ UNCHANGED sp
    BY <1>8, SMT
       DEF resched, Same, Owns, LeftOn, Control, TasksApart, Goto, stackVars, TakeCurrentStack
  <2> QED
    BY <2>1, SameOwner, <1>1
<1>9. ASSUME NEW c \in CPU, wake_up(c) PROVE Refined
  <2>1. (\A s \in Stack : Same(s)) /\ UNCHANGED sp
    BY <1>9, TaskAssumption, SMT
       DEF wake_up, Same, Owns, LeftOn, Control, TypeOK, stackVars, SwapTrapStack
  <2> QED
    BY <2>1, SameOwner, <1>1
<1>10. ASSUME NEW c \in CPU, run_thread(c) PROVE Refined
  <2>1. (\A s \in Stack : Same(s)) /\ UNCHANGED sp
    BY <1>10, PutAway, SMT DEF run_thread, Same, Owns, LeftOn, Control, TypeOK, TasksApart
  <2> QED
    BY <2>1, SameOwner, <1>1
<1>11. ASSUME NEW c \in CPU, krun_utask(c) PROVE Refined
  <2>1. (\A s \in Stack : Same(s)) /\ UNCHANGED sp
    BY <1>11, PutAway, SMT DEF krun_utask, Same, Owns, LeftOn, Control, TypeOK, taskVars
  <2> QED
    BY <2>1, SameOwner, <1>1
<1>12. ASSUME NEW c \in CPU, wait_for_runnable_task(c) PROVE Refined
  <2>1. (\A s \in Stack : Same(s)) /\ UNCHANGED sp
    BY <1>12, StackAssumption, SMT
       DEF wait_for_runnable_task, Same, Owns, LeftOn, Control, TasksApart, Exists, stackVars,
           cpuVars
  <2> QED
    BY <2>1, SameOwner, <1>1
<1>13. ASSUME NEW c \in CPU, trap(c) PROVE Refined
  <2>1. \A s \in Stack : Same(s)
    BY <1>13, SMT
       DEF trap, Same, Owns, LeftOn, Control, TasksApart, Goto, stackVars, TakeCurrentStack
  <2>2. sp' = [sp EXCEPT ![c] = trap_stack[c]] /\ trap_stack[c] \in Stack \cup {NoStack}
        /\ (trap_stack[c] = NoStack \/ Owns(c, trap_stack[c]))
    BY <1>13, SMT DEF trap, Owns, TypeOK
  <2>3. trap_stack[c] = NoStack \/ Owner[trap_stack[c]] = c
    BY <2>2, Zenon DEF OwnerInv
  <2> QED
    BY <2>1, <2>2, <2>3, SameOwner, <1>2
<1>14. ASSUME NEW c \in CPU, interrupt(c) PROVE Refined
  <2>1. \A s \in Stack : Same(s)
    BY <1>14, SMT
       DEF interrupt, Same, Owns, LeftOn, Control, TypeOK, TasksApart, Goto, stackVars,
           TakeCurrentStack
  <2>2. sp' = [sp EXCEPT ![c] = trap_stack[c]] /\ trap_stack[c] \in Stack \cup {NoStack}
        /\ (trap_stack[c] = NoStack \/ Owns(c, trap_stack[c]))
    BY <1>14, SMT DEF interrupt, Owns, TypeOK
  <2>3. trap_stack[c] = NoStack \/ Owner[trap_stack[c]] = c
    BY <2>2, Zenon DEF OwnerInv
  <2> QED
    BY <2>1, <2>2, <2>3, SameOwner, <1>2
<1>15. ASSUME NEW c \in CPU, restore_context(c) PROVE Refined
  <2>1. \A s \in Stack : Same(s)
    BY <1>15, SMT DEF restore_context, Same, Owns, LeftOn, Control, stackVars, taskVars
  <2>2. sp' = [sp EXCEPT ![c] = current_stack[c]] /\ current_stack[c] \in Stack \cup {NoStack}
        /\ (current_stack[c] = NoStack \/ Owns(c, current_stack[c]))
    BY <1>15, SMT DEF restore_context, Owns, TypeOK
  <2>3. current_stack[c] = NoStack \/ Owner[current_stack[c]] = c
    BY <2>2, Zenon DEF OwnerInv
  <2> QED
    BY <2>1, <2>2, <2>3, SameOwner, <1>2
<1>16. ASSUME NEW c \in CPU, into_user(c) PROVE Refined
  <2>1. \A s \in Stack : Same(s)
    BY <1>16, SMT DEF into_user, Same, Owns, LeftOn, Control, stackVars, taskVars
  <2>2. sp' = [sp EXCEPT ![c] = NoStack] /\ NoStack \in Stack \cup {NoStack}
        /\ (NoStack = NoStack \/ Owns(c, NoStack))
    BY <1>16, SMT DEF into_user
  <2>3. NoStack = NoStack \/ Owner[NoStack] = c
    BY <2>2, Zenon
  <2> QED
    BY <2>1, <2>2, <2>3, SameOwner, <1>2
<1>17. ASSUME NEW c \in CPU, user_trap(c) PROVE Refined
  <2>1. \A s \in Stack : Same(s)
    BY <1>17, SMT DEF user_trap, Same, Owns, LeftOn, Control, stackVars, taskVars
  <2>2. sp' = [sp EXCEPT ![c] = trap_stack[c]] /\ trap_stack[c] \in Stack \cup {NoStack}
        /\ (trap_stack[c] = NoStack \/ Owns(c, trap_stack[c]))
    BY <1>17, SMT DEF user_trap, Owns, TypeOK
  <2>3. trap_stack[c] = NoStack \/ Owner[trap_stack[c]] = c
    BY <2>2, Zenon DEF OwnerInv
  <2> QED
    BY <2>1, <2>2, <2>3, SameOwner, <1>2
<1>18. ASSUME NEW c \in CPU, into_kernel(c) PROVE Refined
  <2>1. \A s \in Stack : Same(s)
    BY <1>18, SMT DEF into_kernel, Same, Owns, LeftOn, Control, stackVars, taskVars
  <2>2. sp' = [sp EXCEPT ![c] = trap_stack[c]] /\ trap_stack[c] \in Stack \cup {NoStack}
        /\ (trap_stack[c] = NoStack \/ Owns(c, trap_stack[c]))
    BY <1>18, SMT DEF into_kernel, Owns, TypeOK
  <2>3. trap_stack[c] = NoStack \/ Owner[trap_stack[c]] = c
    BY <2>2, Zenon DEF OwnerInv
  <2> QED
    BY <2>1, <2>2, <2>3, SameOwner, <1>2
<1>19. ASSUME NEW s \in unused PROVE s \in Stack /\ Owner[s] = NoTask
  <2>1. s \in Stack /\ (\A c \in CPU : ~Owns(c, s)) /\ (\A t \in Task : ~LeftOn(t, s))
    BY SMT DEF TypeOK, PlaceInv, HeldAtMostOnce, Owns, LeftOn
  <2> QED
    BY <2>1, SMT DEF OwnerInv
<1>20. ASSUME NEW c \in CPU, kernel_init(c) PROVE Refined
  <2>0. /\ alloc_stack(c)
        /\ UNCHANGED sp
    BY <1>20, SMT DEF kernel_init
  <2>1. PICK s \in Stack : s = Found(c)
    BY <2>0, FoundLemma DEF alloc_stack
  <2>2. (\A x \in Stack \ {s} : Same(x)) /\ Owns(c, s)'
    BY <1>20, <2>1, TaskAssumption, StackAssumption, SMT
       DEF kernel_init, Same, Owns, LeftOn, Control, TypeOK, alloc_stack, Goto
  <2>3. Owner' = [Owner EXCEPT ![s] = c]
    <3>1. Owner'[s] = c
      BY <2>2, Zenon DEF OwnerInv
    <3> QED
      BY <2>2, <3>1, SameOwner
  <2>4. CASE free_stacks[c] = {}
    <3>1. Owner[s] = NoTask
      BY <2>0, <2>1, <2>4, <1>19, FoundLemma DEF alloc_stack
    <3> QED
      BY <2>0, <2>1, <2>3, <3>1, <1>3
  <2>5. CASE free_stacks[c] # {}
    <3>1. Owner[s] = c
      BY <2>0, <2>1, <2>5, FoundLemma DEF alloc_stack, OwnerInv, Owns
    <3>2. UNCHANGED Owner
      BY <2>3, <3>1, SMT DEF OwnerInv
    <3> QED
      BY <2>0, <2>1, <3>1, <3>2, <1>1
  <2> QED
    BY <2>4, <2>5
<1>21. ASSUME NEW c \in CPU, trap_entry(c) PROVE Refined
  <2>0. /\ alloc_stack(c)
        /\ UNCHANGED sp
    BY <1>21, SMT DEF trap_entry, SwapTrapStack
  <2>1. PICK s \in Stack : s = Found(c)
    BY <2>0, FoundLemma DEF alloc_stack
  <2>2. (\A x \in Stack \ {s} : Same(x)) /\ Owns(c, s)'
    BY <1>21, <2>1, SMT
       DEF trap_entry, Same, Owns, LeftOn, Control, TypeOK, alloc_stack, Goto, taskVars,
           SwapTrapStack
  <2>3. Owner' = [Owner EXCEPT ![s] = c]
    <3>1. Owner'[s] = c
      BY <2>2, Zenon DEF OwnerInv
    <3> QED
      BY <2>2, <3>1, SameOwner
  <2>4. CASE free_stacks[c] = {}
    <3>1. Owner[s] = NoTask
      BY <2>0, <2>1, <2>4, <1>19, FoundLemma DEF alloc_stack
    <3> QED
      BY <2>0, <2>1, <2>3, <3>1, <1>3
  <2>5. CASE free_stacks[c] # {}
    <3>1. Owner[s] = c
      BY <2>0, <2>1, <2>5, FoundLemma DEF alloc_stack, OwnerInv, Owns
    <3>2. UNCHANGED Owner
      BY <2>3, <3>1, SMT DEF OwnerInv
    <3> QED
      BY <2>0, <2>1, <3>1, <3>2, <1>1
  <2> QED
    BY <2>4, <2>5
<1>22. ASSUME NEW c \in CPU, user_trap_entry(c) PROVE Refined
  <2>0. /\ alloc_stack(c)
        /\ UNCHANGED sp
    BY <1>22, SMT DEF user_trap_entry, SwapTrapStack
  <2>1. PICK s \in Stack : s = Found(c)
    BY <2>0, FoundLemma DEF alloc_stack
  <2>2. (\A x \in Stack \ {s} : Same(x)) /\ Owns(c, s)'
    BY <1>22, <2>1, SMT
       DEF user_trap_entry, Same, Owns, LeftOn, Control, TypeOK, alloc_stack, Goto, taskVars,
           SwapTrapStack
  <2>3. Owner' = [Owner EXCEPT ![s] = c]
    <3>1. Owner'[s] = c
      BY <2>2, Zenon DEF OwnerInv
    <3> QED
      BY <2>2, <3>1, SameOwner
  <2>4. CASE free_stacks[c] = {}
    <3>1. Owner[s] = NoTask
      BY <2>0, <2>1, <2>4, <1>19, FoundLemma DEF alloc_stack
    <3> QED
      BY <2>0, <2>1, <2>3, <3>1, <1>3
  <2>5. CASE free_stacks[c] # {}
    <3>1. Owner[s] = c
      BY <2>0, <2>1, <2>5, FoundLemma DEF alloc_stack, OwnerInv, Owns
    <3>2. UNCHANGED Owner
      BY <2>3, <3>1, SMT DEF OwnerInv
    <3> QED
      BY <2>0, <2>1, <3>1, <3>2, <1>1
  <2> QED
    BY <2>4, <2>5
<1>23. ASSUME NEW c \in CPU, thread_entry(c) PROVE Refined
  <2>entry. to_empty_stack(c)
    BY <1>23, MovesToEmptyStack
  <2>0. /\ alloc_stack(c)
        /\ sp' = [sp EXCEPT ![c] = Found(c)]
    BY <2>entry, SMT DEF to_empty_stack
  <2>1. PICK s \in Stack : s = Found(c)
    BY <2>0, FoundLemma DEF alloc_stack
  <2>2. (\A x \in Stack \ {s} : Same(x)) /\ Owns(c, s)'
    BY <2>entry, <2>1, SMT
       DEF to_empty_stack, Same, Owns, LeftOn, Control, TypeOK, alloc_stack, Goto, taskVars
  <2>3. Owner' = [Owner EXCEPT ![s] = c]
    <3>1. Owner'[s] = c
      BY <2>2, Zenon DEF OwnerInv
    <3> QED
      BY <2>2, <3>1, SameOwner
  <2>4. CASE free_stacks[c] = {}
    <3>1. Owner[s] = NoTask
      BY <2>0, <2>1, <2>4, <1>19, FoundLemma DEF alloc_stack
    <3> QED
      BY <2>0, <2>1, <2>3, <3>1, <1>3
  <2>5. CASE free_stacks[c] # {}
    <3>1. Owner[s] = c
      BY <2>0, <2>1, <2>5, FoundLemma DEF alloc_stack, OwnerInv, Owns
    <3>2. UNCHANGED Owner
      BY <2>3, <3>1, SMT DEF OwnerInv
    <3> QED
      BY <2>0, <2>1, <3>1, <3>2, <1>2
  <2> QED
    BY <2>4, <2>5
<1>24. ASSUME NEW c \in CPU, run_coroutine(c) PROVE Refined
  <2>1. CASE current_stack[c] # NoStack
    <3>1. \A s \in Stack : Same(s)
      BY <1>24, <2>1, SMT
         DEF run_coroutine, is_coroutine, Same, Owns, LeftOn, Control, stackVars, taskVars
    <3>2. sp' = [sp EXCEPT ![c] = current_stack[c]] /\ current_stack[c] \in Stack
      BY <1>24, <2>1, SMT DEF run_coroutine, is_coroutine, TypeOK
    <3>3. Owner[current_stack[c]] = c
      <4>1. Owns(c, current_stack[c])
        BY Zenon DEF Owns
      <4> QED
        BY <3>2, <4>1, Zenon DEF OwnerInv
    <3> QED
      BY <3>1, <3>2, <3>3, SameOwner, <1>2
  <2>2. CASE current_stack[c] = NoStack
    <3>0. /\ alloc_stack(c)
          /\ current_stack' = [current_stack EXCEPT ![c] = Found(c)]
          /\ sp' = [sp EXCEPT ![c] = Found(c)]
      BY <1>24, <2>2, SMT DEF run_coroutine, is_coroutine, TypeOK
    <3>1. PICK s \in Stack : s = Found(c)
      BY <3>0, FoundLemma DEF alloc_stack
    <3>2. (\A x \in Stack \ {s} : Same(x)) /\ Owns(c, s)'
      BY <1>24, <2>2, <3>0, <3>1, SMT
         DEF run_coroutine, is_coroutine, Same, Owns, LeftOn, Control, TypeOK, alloc_stack,
             taskVars
    <3>3. Owner' = [Owner EXCEPT ![s] = c]
      <4>1. Owner'[s] = c
        BY <3>2, Zenon DEF OwnerInv
      <4> QED
        BY <3>2, <4>1, SameOwner
    <3>4. CASE free_stacks[c] = {}
      <4>1. Owner[s] = NoTask
        BY <3>0, <3>1, <3>4, <1>19, FoundLemma DEF alloc_stack
      <4> QED
        BY <3>0, <3>1, <3>3, <4>1, <1>3
    <3>5. CASE free_stacks[c] # {}
      <4>1. Owner[s] = c
        BY <3>0, <3>1, <3>5, FoundLemma DEF alloc_stack, OwnerInv, Owns
      <4>2. UNCHANGED Owner
        BY <3>3, <4>1, SMT DEF OwnerInv
      <4> QED
        BY <3>0, <3>1, <4>1, <4>2, <1>2
    <3> QED
      BY <3>4, <3>5
  <2> QED
    BY <2>1, <2>2
<1>25. ASSUME NEW c \in CPU, put(c) PROVE Refined
  <2>1. PICK t \in Task, s \in Stack \cup {NoStack} : t = current[c] /\ s = thread_stack[t]
    BY <1>25, SMT DEF put, TypeOK
  <2>2. \A x \in Stack \ {s} : Same(x)
    BY <1>25, <2>1, TaskAssumption, SMT DEF put, Same, Owns, LeftOn, stackVars, cpuVars
  <2>3. UNCHANGED sp
    BY <1>25 DEF put, cpuVars
  <2>4. CASE s = NoStack
    BY <2>2, <2>3, <2>4, StackAssumption, SameOwner, <1>1
  <2>5. CASE s \in Stack
    <3>1. Owns(c, s) /\ sp[c] # s
      BY <1>25, <2>1, <2>5, StackAssumption, SMT
         DEF put, Owns, ExecutesInv, Executes, PlaceInv, HeldAtMostOnce
    <3>2. LeftOn(t, s)'
      BY <1>25, <2>1, <2>5, SMT DEF put, LeftOn, TasksApart
    <3>3. Owner[s] = c /\ Owner'[s] = t
      BY <2>5, <3>1, <3>2, Zenon DEF OwnerInv
    <3>4. Owner' = [Owner EXCEPT ![s] = t]
      BY <2>2, <2>5, <3>3, SameOwner
    <3> QED
      BY <2>3, <2>5, <3>1, <3>3, <3>4, <1>4
  <2> QED
    BY <2>4, <2>5
<1>26. ASSUME NEW c \in CPU, free(c) PROVE Refined
  <2>1. PICK t \in Task, s \in Stack \cup {NoStack} : t = current[c] /\ s = thread_stack[t]
    BY <1>26, SMT DEF free, Control, TypeOK, Goto
  <2>2. \A x \in Stack \ {s} : Same(x)
    BY <1>26, <2>1, TaskAssumption, StackAssumption, SMT
       DEF free, Same, Owns, LeftOn, Control, cpuVars
  <2>3. UNCHANGED sp
    BY <1>26 DEF free, cpuVars
  <2>4. CASE s = NoStack
    BY <2>2, <2>3, <2>4, StackAssumption, SameOwner, <1>1
  <2>5. CASE s \in Stack
    <3>1. Owns(c, s) /\ sp[c] # s
      BY <1>26, <2>1, <2>5, StackAssumption, SMT
         DEF free, Goto, Owns, ExecutesInv, Executes, PlaceInv, HeldAtMostOnce
    <3>2. s \in unused'
      BY <1>26, <2>1, <2>5, StackAssumption, SMT DEF free
    <3>3. (\A d \in CPU : ~Owns(d, s)') /\ (\A u \in Task : ~LeftOn(u, s)')
      BY <2>5, <3>2, SMT DEF PlaceInv, HeldAtMostOnce, Owns, LeftOn
    <3>4. Owner[s] = c /\ Owner'[s] = NoTask
      BY <2>5, <3>1, <3>3, SMT DEF OwnerInv
    <3>5. Owner' = [Owner EXCEPT ![s] = NoTask]
      BY <2>2, <2>5, <3>4, SameOwner
    <3> QED
      BY <2>3, <2>5, <3>1, <3>4, <3>5, <1>5
  <2> QED
    BY <2>4, <2>5
<1>27. ASSUME NEW c \in CPU, ktask_schedule(c) PROVE Refined
  <2>1. PICK t \in ready : current' = [current EXCEPT ![c] = t]
    BY <1>27 DEF ktask_schedule
  <2>2. PICK s \in Stack \cup {NoStack} : s = thread_stack[t]
    BY SMT DEF TypeOK
  <2>3. \A x \in Stack \ {s} : Same(x)
    BY <1>27, <2>1, <2>2, TaskAssumption, SMT
       DEF ktask_schedule, Same, Owns, LeftOn, Control, Goto, stackVars, cpuVars
  <2>4. UNCHANGED sp
    BY <1>27 DEF ktask_schedule, cpuVars
  <2>5. CASE s = NoStack
    BY <2>3, <2>4, <2>5, StackAssumption, SameOwner, <1>1
  <2>6. CASE s \in Stack
    <3>1. LeftOn(t, s) /\ Owns(c, s)'
      BY <1>27, <2>1, <2>2, SMT DEF ktask_schedule, LeftOn, Owns, TasksApart, TypeOK
    <3>2. Owner[s] = t /\ Owner'[s] = c
      BY <2>6, <3>1, Zenon DEF OwnerInv, TypeOK
    <3>3. Owner' = [Owner EXCEPT ![s] = c]
      BY <2>3, <2>6, <3>2, SameOwner
    <3> QED
      BY <2>4, <2>6, <3>2, <3>3, <1>4, Zenon DEF TypeOK
  <2> QED
    BY <2>5, <2>6
<1>28. ASSUME NEW t \in Task, spawn(t) PROVE Refined
  <2>1. UNCHANGED <<free_stacks, current_stack, trap_stack, sp, current, pc>> /\ ~Exists(t)
    BY <1>28 DEF spawn, cpuVars
  <2>2. CASE UNCHANGED thread_stack
    <3>1. \A x \in Stack : Same(x)
      BY <2>1, <2>2, SMT DEF Same, Owns, LeftOn
    <3> QED
      BY <2>1, <3>1, SameOwner, <1>1
  <2>3. CASE ~UNCHANGED thread_stack
    <3>1. PICK s \in unused : thread_stack' = [thread_stack EXCEPT ![t] = s]
      <4>1. unused # {} => (CHOOSE x \in unused : TRUE) \in unused
        BY Zenon
      <4> QED
        BY <1>28, <2>3, <4>1, Zenon DEF spawn
    <3>2. s \in Stack /\ Owner[s] = NoTask
      BY <1>19
    <3>3. (\A x \in Stack \ {s} : Same(x)) /\ LeftOn(t, s)'
      BY <2>1, <3>1, StackAssumption, SMT DEF Same, Owns, LeftOn, Exists, TasksApart, TypeOK
    <3>4. Owner' = [Owner EXCEPT ![s] = t]
      <4>1. Owner'[s] = t
        BY <3>2, <3>3, Zenon DEF OwnerInv
      <4> QED
        BY <3>2, <3>3, <4>1, SameOwner
    <3> QED
      BY <2>1, <3>2, <3>4, <1>6
  <2> QED
    BY <2>2, <2>3
<1>29. ASSUME UNCHANGED vars PROVE Refined
  <2>1. \A x \in Stack : Same(x)
    BY <1>29, SMT DEF vars, stackVars, cpuVars, taskVars, Same, Owns, LeftOn
  <2>2. UNCHANGED sp
    BY <1>29 DEF vars, cpuVars
  <2> QED
    BY <2>1, <2>2, SameOwner, <1>1
<1> HIDE DEF Refined
<1> QED
  BY <1>7, <1>8, <1>9, <1>10, <1>11, <1>12, <1>13, <1>14, <1>15, <1>16, <1>17, <1>18, <1>20,
     <1>21, <1>22, <1>23, <1>24, <1>25, <1>26, <1>27, <1>28, <1>29, Zenon DEF Next, Refined

\* As long as no pool is full, no CPU executes on a stack that somebody else
\* has, and a context is saved on a stack that its CPU has left before it is
\* resumed (handler.rs:119-274, main_loop.rs:51-269 and 632-709).  Once one is
\* full, dealloc_stack frees the stack under the CPU (handler.rs:131).
THEOREM HandlerImplementsOwnership == Spec /\ []Room => ImplementsOwnership
<1>1. Init /\ OwnerInv => Ownership!Init
  <2> SUFFICES ASSUME Init, OwnerInv PROVE Ownership!Init
    OBVIOUS
  <2> DEFINE First(s) == IF \E c \in CPU : s = InitStack[c]
                         THEN CHOOSE c \in CPU : s = InitStack[c]
                         ELSE NoTask
  <2>1. ASSUME NEW s \in Stack PROVE Owner[s] = First(s)
    <3>1. \A c \in CPU : Owner[s] = c <=> s = InitStack[c]
      BY <2>1, StackAssumption, SMT DEF Init, OwnerInv, Owns
    <3>2. \A t \in Task : Owner[s] # t
      BY <2>1, StackAssumption, SMT DEF Init, OwnerInv, LeftOn
    <3>3. CASE \E c \in CPU : s = InitStack[c]
      BY <3>1, <3>3, Zenon
    <3>4. CASE ~ \E c \in CPU : s = InitStack[c]
      BY <3>1, <3>2, <3>4, SMT DEF OwnerInv
    <3> QED
      BY <3>3, <3>4
  <2> HIDE DEF First
  <2>2. Owner = [s \in Stack |-> First(s)]
    BY <2>1, SMT DEF OwnerInv
  <2> QED
    BY <2>2, Zenon DEF First, Init, Ownership!Init
<1>2. /\ ControlInv /\ PlaceInv /\ ExecutesInv /\ OwnerInv
      /\ ControlInv' /\ PlaceInv' /\ OwnerInv'
      /\ Room /\ [Next]_vars
      => [Ownership!Next]_(Ownership!vars)
  BY RefinedStep
<1> QED
  BY <1>1, <1>2, ControlInvariance, PlaceInvariance, ExecutesInvariance, OwnerInvariance, PTL
     DEF Spec, ImplementsOwnership, Ownership!Spec

\* So it does if there are at most as many stacks as one pool takes: nothing
\* then depends on how the tasks are spread over the CPUs.
THEOREM FewStacksImplementOwnership ==
    Cardinality(Stack) <= STACK_POOL_SIZE => (Spec => ImplementsOwnership)
<1> SUFFICES ASSUME Cardinality(Stack) <= STACK_POOL_SIZE PROVE Spec => ImplementsOwnership
  OBVIOUS
<1>1. ControlInv /\ PlaceInv => Room
  BY FewStacks
<1> QED
  BY <1>1, ControlInvariance, PlaceInvariance, HandlerImplementsOwnership, PTL

=============================================================================
