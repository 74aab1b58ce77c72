------------------------ MODULE TrapHandling_proofs -------------------------
(***************************************************************************)
(* Proofs about TrapHandling for any number of CPUs, tasks and handlers,   *)
(* any size of the pool and any number of handlers that wait amid a trap.  *)
(*                                                                         *)
(* One inductive invariant, Inv, carries all results.  It says what a CPU  *)
(* has in hand at each place of the code (Control), which TaskState it     *)
(* finds there (States), which state goes with which claim                 *)
(* (StatesOfClaims), that claims are unique and of one kind (Unique,       *)
(* Disjoint), and that who exists is on a CPU or has a claim, both only    *)
(* while it is Blocking (Somewhere).  The atomic match_set_state calls     *)
(* make it inductive: a waker, the CPU that saves the context and the      *)
(* search of the pool may each change a Blocking task, and the state that  *)
(* each finds tells which of them is to queue it.                          *)
(***************************************************************************)
EXTENDS TrapHandling, FiniteSetTheorems, TLAPS

\* No element occurs twice in the sequence.
NoDuplicates(s) == \A i, j \in 1 .. Len(s) : s[i] = s[j] => i = j

\* The tasks on CPUs; then the kinds of claims, as sets of tasks.  In the
\* ready queue, ...
OnCPU == {x \in All : \E c \in CPU : current[c] = x}

\* In the ready queue.
Queued == RangeOf(ready)

\* In the pool.
Idle == RangeOf(idle)

\* In some CPU's trap queue.
Trapped == {x \in Task : \E c \in CPU : x \in RangeOf(traps[c])}

\* Having its trap handled.
Served == {x \in Task : \E h \in Handler : work[h] = x}

\* Popped by some CPU and not yet resumed.
Picked == {x \in All : \E c \in CPU : picked[c] = x}

\* The tasks and handlers that have a claim: something is going to run them,
\* or to end their wait.
Claimed == Queued \cup Idle \cup waiters \cup woken \cup Trapped \cup Served \cup Picked

\* Where a CPU is in the code, and what it has in hand there.  Its trap queue
\* holds one trap at most: none arrives before the last one has been taken
\* (trap_wait_queue.rs:164-190).
Control(c) ==
    /\ pc[c] \in {"sched", "take", "spin", "resume", "wfi"} => current[c] = NoTask
    /\ pc[c] \in {"run", "push_trap", "preempt"} => current[c] \in Task
    /\ pc[c] = "panic" => current[c] \in Handler
    /\ pc[c] = "spin" => picked[c] \in Handler /\ work[picked[c]] = NoWork
    /\ pc[c] \in {"settle", "push_task", "dealloc"} => work[current[c]] \in Task
    /\ pc[c] = "handle" => work[current[c]] # NoWork
    /\ pc[c] \in {"handler", "pool", "panic"} => work[current[c]] = NoWork
    /\ Len(traps[c]) <= 1
    /\ traps[c] # <<>> =>
          /\ pc[c] \in {"sched", "take", "spin", "resume", "handler", "preempt", "requeue"}
          /\ pc[c] = "resume" => picked[c] \in Handler /\ work[picked[c]] = NoWork

\* The state of the task that a CPU has in hand (interface.rs:205-248).
States(c) ==
    /\ pc[c] \in {"run", "preempt", "handler", "handle", "settle", "push_task", "dealloc"}
          => state[current[c]] = "Running"
    /\ pc[c] = "push_trap" => state[current[c]] = "Blocked"
    /\ pc[c] = "requeue" => state[current[c]] = "Ready"
    /\ pc[c] = "free" => state[current[c]] = "Exited"
    /\ pc[c] \in {"leave", "phase2"} => state[current[c]] # "Blocked"
    /\ pc[c] \in {"pool", "panic"} => state[current[c]] = "Blocking"
    /\ pc[c] \in {"push_trap", "preempt", "requeue", "phase2", "free"} => saved[current[c]]
    /\ pc[c] = "settle" => state[work[current[c]]] \in {"Blocked", "Exited"}
    /\ pc[c] = "push_task" => state[work[current[c]]] = "Ready"
    /\ pc[c] = "dealloc" => state[work[current[c]]] = "Exited"
    /\ pc[c] = "resume" => state[picked[c]] = "Ready"
    /\ pc[c] = "spin" => state[picked[c]] \in {"Blocked", "Blocking"}

\* What the state of a task that is not on a CPU says of its claim: Ready if
\* it is queued or about to be, Blocked or Blocking if something has to
\* happen first.
StatesOfClaims ==
    /\ \A x \in Queued \cup woken : state[x] = "Ready"
    /\ \A x \in Idle \cup waiters : state[x] \in {"Blocked", "Blocking"}
    /\ \A x \in Trapped : state[x] = "Blocked"
    /\ \A h \in Handler : work[h] \in Task =>
          \/ state[work[h]] = "Blocked"
          \/ \E c \in CPU : current[c] = h /\ pc[c] \in {"settle", "push_task", "dealloc"}
    /\ \A x \in All : state[x] = "Blocking" =>
          \E c \in CPU : current[c] = x /\ pc[c] \in {"leave", "phase2", "pool", "panic"}
    /\ \A h \in Handler : h \in Idle \cup absent => work[h] = NoWork
    /\ \A x \in All : x \notin OnCPU => saved[x]
    /\ \A h \in Handler : state[h] # "Exited"

\* There is one claim of each kind, and a task is on one CPU, ...
Unique ==
    /\ NoDuplicates(ready) /\ NoDuplicates(idle)
    /\ \A c, d \in CPU, x \in Task : x \in RangeOf(traps[c]) /\ x \in RangeOf(traps[d]) => c = d
    /\ \A g, h \in Handler : work[g] \in Task /\ work[g] = work[h] => g = h
    /\ \A c, d \in CPU : picked[c] \in All /\ picked[c] = picked[d] => c = d
    /\ \A c, d \in CPU : current[c] \in All /\ current[c] = current[d] => c = d

\* ... and a claim is of one kind.
Disjoint ==
    /\ Queued \cap (Idle \cup waiters \cup woken \cup Trapped \cup Served \cup Picked) = {}
    /\ Idle \cap (waiters \cup woken \cup Trapped \cup Served \cup Picked) = {}
    /\ waiters \cap (woken \cup Trapped \cup Served \cup Picked) = {}
    /\ woken \cap (Trapped \cup Served \cup Picked) = {}
    /\ Trapped \cap (Served \cup Picked) = {}
    /\ Served \cap Picked = {}

\* Who exists is on a CPU or has a claim, or both while it is Blocking.
Somewhere ==
    /\ \A x \in All : x \in absent <=> x \notin Claimed /\ x \notin OnCPU
    /\ \A c \in CPU : current[c] \in Claimed => state[current[c]] = "Blocking"
    /\ \A c \in CPU : pc[c] \in {"leave", "phase2", "panic"} /\ state[current[c]] = "Blocking"
          => current[c] \in Claimed
    /\ \A c \in CPU : pc[c] = "pool" => current[c] \notin Claimed
    /\ \A c \in CPU : pc[c] = "panic" => current[c] \in Idle \cup Picked

\* The inductive invariant.
Inv ==
    /\ TypeOK
    /\ \A c \in CPU : Control(c) /\ States(c)
    /\ StatesOfClaims
    /\ Unique
    /\ Disjoint
    /\ Somewhere

-----------------------------------------------------------------------------
(* Sequences as FIFOs, and what an assignment does to a set of claims.     *)

\* Putting an element at the end of a queue.
LEMMA AppendFacts ==
    ASSUME NEW S, NEW s \in Seq(S), NEW x \in S
    PROVE  /\ Append(s, x) \in Seq(S) /\ Len(Append(s, x)) = Len(s) + 1 /\ Append(s, x) # <<>>
           /\ RangeOf(Append(s, x)) = RangeOf(s) \cup {x}
           /\ NoDuplicates(s) /\ x \notin RangeOf(s) => NoDuplicates(Append(s, x))
<1>1. /\ Append(s, x) \in Seq(S) /\ Len(Append(s, x)) = Len(s) + 1 /\ Append(s, x) # <<>>
      /\ \A i \in 1 .. Len(s) : Append(s, x)[i] = s[i]
      /\ Append(s, x)[Len(s) + 1] = x
      /\ Len(s) \in Nat
  BY SMT
<1>2. RangeOf(Append(s, x)) = RangeOf(s) \cup {x}
  <2>1. RangeOf(s) \cup {x} \subseteq RangeOf(Append(s, x))
    BY <1>1, SMT DEF RangeOf
  <2>2. ASSUME NEW i \in 1 .. Len(Append(s, x)) PROVE Append(s, x)[i] \in RangeOf(s) \cup {x}
    <3> QED
      BY DEF RangeOf
  <2> QED
    BY <2>1, <2>2, Zenon DEF RangeOf
<1>3. ASSUME NoDuplicates(s), x \notin RangeOf(s) PROVE NoDuplicates(Append(s, x))
  BY <1>3, SMT DEF NoDuplicates, RangeOf
<1> QED
  BY <1>2, <1>3

\* Taking the first element out of a queue.
LEMMA TailFacts ==
    ASSUME NEW S, NEW s \in Seq(S), s # <<>>
    PROVE  /\ Head(s) \in S /\ Tail(s) \in Seq(S) /\ Len(Tail(s)) = Len(s) - 1
           /\ RangeOf(s) = {Head(s)} \cup RangeOf(Tail(s))
           /\ NoDuplicates(s) => NoDuplicates(Tail(s)) /\ Head(s) \notin RangeOf(Tail(s))
           /\ Len(s) <= 1 => Tail(s) = <<>>
<1>1. /\ Head(s) \in S /\ Tail(s) \in Seq(S) /\ Len(Tail(s)) = Len(s) - 1
      /\ Len(s) \in Nat \ {0} /\ Head(s) = s[1]
      /\ \A i \in 1 .. Len(Tail(s)) : Tail(s)[i] = s[i + 1]
  BY SMT
<1>2. RangeOf(s) = {Head(s)} \cup RangeOf(Tail(s))
  <2>1. Head(s) \in RangeOf(s)
    BY SMT DEF RangeOf
  <2>2. ASSUME NEW i \in 1 .. Len(Tail(s)) PROVE Tail(s)[i] \in RangeOf(s)
    <3>1. i + 1 \in 1 .. Len(s)
      BY SMT
    <3> QED
      BY <1>1, <3>1, Zenon DEF RangeOf
  <2>3. ASSUME NEW i \in 1 .. Len(s) PROVE s[i] \in {Head(s)} \cup RangeOf(Tail(s))
    <3>1. CASE i = 1
      BY <3>1
    <3>2. CASE i # 1
      <4>1. i - 1 \in 1 .. Len(Tail(s)) /\ (i - 1) + 1 = i
        BY <3>2, SMT
      <4> QED
        BY <1>1, <4>1, Zenon DEF RangeOf
    <3> QED
      BY <3>2
  <2> QED
    BY <2>1, <2>2, <2>3, Zenon DEF RangeOf
<1>3. ASSUME NoDuplicates(s) PROVE NoDuplicates(Tail(s)) /\ Head(s) \notin RangeOf(Tail(s))
  BY <1>3, SMT DEF NoDuplicates, RangeOf
<1> QED
  BY <1>2, <1>3

\* The empty queue has no elements.
LEMMA EmptyFacts == RangeOf(<<>>) = {} /\ NoDuplicates(<<>>) /\ Len(<<>>) = 0
BY SMT DEF RangeOf, NoDuplicates

\* At first the pool holds the handlers that TrapWaitQueue::init has created,
\* and nobody else exists (trap_wait_queue.rs:75-92).
LEMMA InitInv == Init => Inv
<1> SUFFICES ASSUME Init PROVE Inv
  OBVIOUS
<1> USE SetAssumption, PoolAssumption, EmptyFacts
<1>1. TypeOK
  BY SMT DEF Init, TypeOK, PC, TaskState
<1>2. \A c \in CPU : Control(c) /\ States(c)
  BY SMT DEF Init, Control, States
<1>3. /\ Queued = {} /\ waiters = {} /\ woken = {} /\ Trapped = {} /\ Served = {} /\ Picked = {}
      /\ Idle = RangeOf(FirstHandlers) /\ OnCPU = {}
  BY SMT DEF Init, Queued, Idle, Trapped, Served, Picked, OnCPU, All
<1>4. RangeOf(FirstHandlers) \subseteq Handler
  BY SMT DEF RangeOf
<1>5. StatesOfClaims
  BY <1>4, <1>3, SMT DEF Init, StatesOfClaims, All
<1>6. NoDuplicates(FirstHandlers)
  BY SMT DEF NoDuplicates
<1>7. Unique
  BY <1>6, SMT DEF Init, Unique, All
<1>8. Disjoint
  BY <1>3, SMT DEF Disjoint
<1>9. Somewhere
  <2>1. Claimed = RangeOf(FirstHandlers)
    BY <1>3 DEF Claimed
  <2> QED
    BY <1>4, <1>3, <2>1, SMT DEF Init, Somewhere
<1> QED
  BY <1>1, <1>2, <1>5, <1>7, <1>8, <1>9 DEF Inv

\* A task in someone's hand is in the set of such tasks.
LEMMA Members ==
    /\ \A h \in Handler : work[h] \in Task => work[h] \in Served
    /\ \A c \in CPU : picked[c] \in All => picked[c] \in Picked
    /\ \A c \in CPU : current[c] \in All => current[c] \in OnCPU
    /\ \A c \in CPU, x \in Task : x \in RangeOf(traps[c]) => x \in Trapped
BY SMT DEF Served, Picked, OnCPU, Trapped

\* NoTask has no claim.
LEMMA NotATask ==
    ASSUME TypeOK
    PROVE  NoTask \notin All /\ NoTask \notin Claimed
BY SetAssumption, SMT DEF TypeOK, All, Claimed, Queued, Idle, Trapped, Served, Picked, RangeOf

\* A CPU that is not about to resume a task has picked none.
LEMMA NotPicked ==
    ASSUME TypeOK, NEW c \in CPU, pc[c] \notin {"spin", "resume"}
    PROVE  picked[c] = NoTask
BY SMT DEF TypeOK

\* A kind of claim changes only with its variable.
LEMMA SameKinds ==
    /\ ready' = ready => Queued' = Queued
    /\ idle' = idle => Idle' = Idle
    /\ traps' = traps => Trapped' = Trapped
    /\ work' = work => Served' = Served
    /\ picked' = picked => Picked' = Picked
    /\ current' = current => OnCPU' = OnCPU
BY SMT DEF Queued, Idle, Trapped, Served, Picked, OnCPU

\* A CPU puts its task away.
LEMMA LeavesCPU ==
    ASSUME TypeOK, Unique, NEW c \in CPU, current' = [current EXCEPT ![c] = NoTask]
    PROVE  OnCPU' = OnCPU \ {current[c]}
BY SetAssumption, SMT DEF TypeOK, Unique, OnCPU, All

\* A CPU picks a task.
LEMMA IsPicked ==
    ASSUME TypeOK, NEW c \in CPU, NEW x \in All, picked[c] = NoTask,
           picked' = [picked EXCEPT ![c] = x]
    PROVE  Picked' = Picked \cup {x}
BY SetAssumption, SMT DEF TypeOK, Picked, All

\* A handler is done with its trap.
LEMMA WorkDone ==
    ASSUME TypeOK, Unique, NEW h \in Handler, work' = [work EXCEPT ![h] = NoWork]
    PROVE  Served' = Served \ {work[h]}
BY SetAssumption, SMT DEF TypeOK, Unique, Served

\* push_task: a task goes to the ready queue.
LEMMA Enqueued ==
    ASSUME TypeOK, NEW x \in All, ready' = Append(ready, x)
    PROVE  /\ ready' \in Seq(All)
           /\ Queued' = Queued \cup {x}
           /\ NoDuplicates(ready) /\ x \notin Queued => NoDuplicates(ready')
BY AppendFacts, SMT DEF TypeOK, Queued

\* push_trap: a task that trapped goes to the CPU's empty trap queue, an
\* interrupt is no task (trap_wait_queue.rs:95-105).
LEMMA TrapAdded ==
    ASSUME TypeOK, NEW c \in CPU, traps[c] = <<>>, NEW x \in Task \cup {NoTask},
           traps' = [traps EXCEPT ![c] = Append(@, x)]
    PROVE  /\ traps' \in [CPU -> Seq(Task \cup {NoTask})]
           /\ Len(traps'[c]) = 1
           /\ RangeOf(traps'[c]) = {x}
           /\ \A d \in CPU \ {c} : traps'[d] = traps[d]
           /\ Trapped' = Trapped \cup ({x} \cap Task)
<1>1. traps'[c] = <<x>> /\ \A d \in CPU \ {c} : traps'[d] = traps[d]
  BY SMT DEF TypeOK
<1>2. <<x>> \in Seq(Task \cup {NoTask}) /\ Len(<<x>>) = 1 /\ RangeOf(<<x>>) = {x}
  BY SMT DEF RangeOf
<1>3. traps' \in [CPU -> Seq(Task \cup {NoTask})]
  BY SMT DEF TypeOK
<1>4. Trapped' = Trapped \cup ({x} \cap Task)
  BY <1>1, <1>2, EmptyFacts, SMT DEF Trapped
<1> QED
  BY <1>2, <1>3, <1>4, SMT

\* The handler takes the CPU's only trap (trap_wait_queue.rs:168-175).
LEMMA TrapTaken ==
    ASSUME TypeOK, Unique, NEW c \in CPU, traps[c] # <<>>, Len(traps[c]) <= 1,
           traps' = [traps EXCEPT ![c] = Tail(@)]
    PROVE  /\ traps' \in [CPU -> Seq(Task \cup {NoTask})]
           /\ traps'[c] = <<>> /\ Head(traps[c]) \in Task \cup {NoTask}
           /\ Head(traps[c]) \in Task => Head(traps[c]) \in Trapped
           /\ \A d \in CPU \ {c} : traps'[d] = traps[d]
           /\ Trapped' = Trapped \ {Head(traps[c])}
<1> DEFINE T == Task \cup {NoTask}
<1>1. traps[c] \in Seq(T)
  BY DEF TypeOK
<1>2. /\ Tail(traps[c]) = <<>> /\ Head(traps[c]) \in T
      /\ Head(traps[c]) \in RangeOf(traps[c]) /\ RangeOf(traps[c]) \subseteq {Head(traps[c])}
  <2> HIDE DEF T
  <2>1. /\ Tail(traps[c]) = <<>> /\ Head(traps[c]) \in T
        /\ RangeOf(traps[c]) = {Head(traps[c])} \cup RangeOf(Tail(traps[c]))
    BY <1>1, TailFacts, Zenon
  <2> QED
    BY <2>1, EmptyFacts
<1>3. traps'[c] = <<>> /\ \A d \in CPU \ {c} : traps'[d] = traps[d]
  BY SMT DEF TypeOK
<1>4. traps' \in [CPU -> Seq(Task \cup {NoTask})]
  BY SMT DEF TypeOK
<1>5. Trapped' = Trapped \ {Head(traps[c])}
  <2>1. ASSUME NEW t \in Task, NEW d \in CPU, t \in RangeOf(traps'[d])
        PROVE  t \in Trapped /\ t # Head(traps[c])
    <3>1. d # c /\ t \in RangeOf(traps[d])
      BY <1>3, <2>1, EmptyFacts
    <3> QED
      BY <1>2, <3>1, Zenon DEF Trapped, Unique
  <2>2. ASSUME NEW t \in Task, NEW d \in CPU, t \in RangeOf(traps[d]), t # Head(traps[c])
        PROVE  t \in Trapped'
    BY <1>2, <2>2, SMT DEF Trapped
  <2> QED
    BY <2>1, <2>2, Zenon DEF Trapped
<1> QED
  BY <1>2, <1>4, <1>5, SMT DEF Trapped

-----------------------------------------------------------------------------
(* What the invariant says of a task that is in some CPU's or handler's    *)
(* hand.                                                                   *)

\* The current task of a CPU is on no other, and has no claim unless it is
\* Blocking.
LEMMA InHand ==
    ASSUME Inv, NEW c \in CPU, current[c] \in All
    PROVE  /\ current[c] \in OnCPU /\ current[c] \notin absent
           /\ \A d \in CPU : current[d] = current[c] => d = c
           /\ state[current[c]] # "Blocking" => current[c] \notin Claimed
<1>1. current[c] \in OnCPU
  BY Members
<1>2. current[c] \notin absent /\ (state[current[c]] # "Blocking" => current[c] \notin Claimed)
  BY <1>1, SMT DEF Inv, Somewhere
<1>3. \A d \in CPU : current[d] = current[c] => d = c
  BY SMT DEF Inv, Unique
<1> QED
  BY <1>1, <1>2, <1>3

\* A task that is being served has no other claim, and is on no CPU unless it
\* is Blocking.
LEMMA InWork ==
    ASSUME Inv, NEW h \in Handler, work[h] \in Task
    PROVE  /\ work[h] \in All
           /\ work[h] \in Served
           /\ work[h] \in Claimed
           /\ work[h] \notin absent
           /\ work[h] \notin Queued \cup Idle \cup waiters \cup woken \cup Trapped \cup Picked
           /\ \A g \in Handler : work[g] = work[h] => g = h
           /\ state[work[h]] # "Blocking" => work[h] \notin OnCPU
<1>1. work[h] \in Served /\ work[h] \in All
  BY Members DEF All
<1>2. work[h] \in Claimed
  BY <1>1 DEF Claimed
<1>3. work[h] \notin Queued \cup Idle \cup waiters \cup woken \cup Trapped \cup Picked
  BY <1>1 DEF Inv, Disjoint
<1>4. work[h] \notin absent /\ (state[work[h]] # "Blocking" => work[h] \notin OnCPU)
  BY <1>1, <1>2, SMT DEF Inv, Somewhere, OnCPU
<1>5. \A g \in Handler : work[g] = work[h] => g = h
  BY SMT DEF Inv, Unique
<1> QED
  BY <1>1, <1>2, <1>3, <1>4, <1>5

\* Nor has a task that has been picked.
LEMMA InPicked ==
    ASSUME Inv, NEW c \in CPU, picked[c] \in All
    PROVE  /\ picked[c] \in Picked /\ picked[c] \in Claimed /\ picked[c] \notin absent
           /\ picked[c] \notin Queued \cup Idle \cup waiters \cup woken \cup Trapped \cup Served
           /\ \A d \in CPU : picked[d] = picked[c] => d = c
           /\ state[picked[c]] # "Blocking" => picked[c] \notin OnCPU
<1>1. picked[c] \in Picked
  BY Members
<1>2. picked[c] \in Claimed
  BY <1>1 DEF Claimed
<1>3. picked[c] \notin Queued \cup Idle \cup waiters \cup woken \cup Trapped \cup Served
  BY <1>1 DEF Inv, Disjoint
<1>4. picked[c] \notin absent /\ (state[picked[c]] # "Blocking" => picked[c] \notin OnCPU)
  BY <1>2, SMT DEF Inv, Somewhere, OnCPU
<1>5. \A d \in CPU : picked[d] = picked[c] => d = c
  BY SMT DEF Inv, Unique
<1> QED
  BY <1>1, <1>2, <1>3, <1>4, <1>5

-----------------------------------------------------------------------------
(* The invariant, action by action; after what an action changes, one step *)
(* for each part that the change can disturb.                              *)

\* Traps, wake-ups, the saving of contexts, the lending of handlers and the
\* serving of traps preserve the invariant in whatever order they come
\* (main_loop.rs:51-234 and 277-326, trap_wait_queue.rs:95-297).
LEMMA StepInv ==
    ASSUME Inv, [Next]_vars
    PROVE  Inv'
<1> USE SetAssumption, PoolAssumption
<1> USE DEF Inv
<1>1. ASSUME NEW c \in CPU, push_trap(c) PROVE Inv'
  <2>1. /\ current[c] \in Task
        /\ current[c] \in All
        /\ traps[c] = <<>>
    BY <1>1, SMT DEF push_trap, Goto, Control, All
  <2>2. /\ state[current[c]] = "Blocked"
        /\ saved[current[c]]
    BY <1>1, SMT DEF push_trap, Goto, States
  <2>3. /\ current[c] \in OnCPU /\ current[c] \notin absent
        /\ \A d \in CPU : current[d] = current[c] => d = c
        /\ current[c] \notin Claimed
    BY <2>1, <2>2, InHand
  <2>4. /\ traps' \in [CPU -> Seq(Task \cup {NoTask})]
        /\ Len(traps'[c]) = 1
        /\ RangeOf(traps'[c]) = {current[c]}
        /\ \A d \in CPU \ {c} : traps'[d] = traps[d]
        /\ Trapped' = Trapped \cup ({current[c]} \cap Task)
    BY <1>1, <2>1, TrapAdded, Zenon DEF push_trap
  <2>5. Trapped' = Trapped \cup {current[c]}
    BY <2>1, <2>4, SMT
  <2>6. UNCHANGED <<Queued, Idle, Served, Picked>>
    BY <1>1, SameKinds, Zenon DEF push_trap
  <2>7. OnCPU' = OnCPU \ {current[c]}
    BY <1>1, LeavesCPU, Zenon DEF push_trap
  <2>8. Claimed' = Claimed \cup {current[c]}
    BY <1>1, <2>1, <2>4, <2>6, SMT DEF push_trap, Claimed
  <2>9. TypeOK'
    BY <1>1, <2>1, SMT DEF push_trap, Goto, TypeOK, PC
  <2>10. ASSUME NEW d \in CPU PROVE Control(d)'
    BY <1>1, SMT DEF push_trap, Goto, Control, TypeOK
  <2>11. ASSUME NEW d \in CPU PROVE States(d)'
    BY <1>1, <2>1, SMT DEF push_trap, Goto, States, TypeOK
  <2>12. StatesOfClaims'
    BY <1>1, <2>2, <2>4, <2>6, <2>7, SMT DEF push_trap, Goto, StatesOfClaims
  <2>13. Unique'
    <3>1. \A d, e \in CPU, x \in Task : x \in RangeOf(traps'[d]) /\ x \in RangeOf(traps'[e])
             => d = e
      BY <2>1, <2>3, <2>4, <2>5, Members, SMT DEF Unique, Claimed
    <3>2. NoDuplicates(ready') /\ NoDuplicates(idle')
      BY <1>1, SMT DEF Unique, push_trap
    <3>3. \A g, h \in Handler : work'[g] \in Task /\ work'[g] = work'[h] => g = h
      BY <1>1, SMT DEF Unique, push_trap
    <3>4. \A d, e \in CPU : picked'[d] \in All /\ picked'[d] = picked'[e] => d = e
      BY <1>1, SMT DEF Unique, push_trap
    <3>5. \A d, e \in CPU : current'[d] \in All /\ current'[d] = current'[e] => d = e
      BY <1>1, NotATask, SMT DEF Unique, push_trap
    <3> QED
      BY <3>1, <3>2, <3>3, <3>4, <3>5, Zenon DEF Unique
  <2>14. Disjoint'
    BY <1>1, <2>3, <2>4, <2>6, SMT DEF push_trap, Disjoint, Claimed
  <2>15. Somewhere'
    <3>1. \A y \in All : y \in absent' <=> y \notin Claimed' /\ y \notin OnCPU'
      BY <1>1, <2>3, <2>7, <2>8, SMT DEF push_trap, Somewhere
    <3>2. ASSUME NEW d \in CPU
          PROVE  /\ current'[d] \in Claimed' => state'[current'[d]] = "Blocking"
                 /\ pc'[d] \in {"leave", "phase2", "panic"} /\ state'[current'[d]] = "Blocking"
                       => current'[d] \in Claimed'
                 /\ pc'[d] = "pool" => current'[d] \notin Claimed'
                 /\ pc'[d] = "panic" => current'[d] \in Idle' \cup Picked'
      <4>1. CASE d = c
        BY <1>1, <2>1, <2>8, NotATask, <4>1, SMT DEF push_trap, Goto, TypeOK
      <4>2. CASE d # c
        BY <1>1, <2>3, <2>6, <2>8, <4>2, SMT DEF push_trap, Goto, Somewhere
      <4> QED
        BY <4>1, <4>2
    <3> QED
      BY <3>1, <3>2 DEF Somewhere
  <2> QED
    BY <2>9, <2>10, <2>11, <2>12, <2>13, <2>14, <2>15
<1>2. ASSUME NEW c \in CPU, preempt(c) PROVE Inv'
  <2>1. /\ current[c] \in All
        /\ state[current[c]] = "Running"
    BY <1>2, SMT DEF preempt, Goto, States, TypeOK
  <2>2. /\ current[c] \in OnCPU /\ current[c] \notin absent
        /\ \A d \in CPU : current[d] = current[c] => d = c
        /\ current[c] \notin Claimed
    BY <2>1, InHand
  <2>3. UNCHANGED <<Queued, Idle, Trapped, Served, Picked, OnCPU>>
    BY <1>2, SameKinds, Zenon DEF preempt
  <2>4. Claimed' = Claimed
    BY <1>2, <2>3, SMT DEF preempt, Claimed
  <2>5. TypeOK'
    BY <1>2, SMT DEF preempt, Goto, SetState, TypeOK, PC, TaskState
  <2>6. ASSUME NEW d \in CPU PROVE Control(d)'
    BY <1>2, <2>1, SMT DEF preempt, Goto, Control
  <2>7. ASSUME NEW d \in CPU PROVE States(d)'
    BY <1>2, <2>2, SMT DEF preempt, Goto, SetState, States, TypeOK
  <2>8. StatesOfClaims'
    BY <1>2, <2>1, <2>3, SMT DEF preempt, Goto, SetState, StatesOfClaims
  <2>9. Unique'
    BY <1>2, SMT DEF preempt, Unique
  <2>10. Disjoint'
    BY <1>2, <2>3, SMT DEF preempt, Disjoint
  <2>11. Somewhere'
    BY <1>2, <2>1, <2>3, <2>4, SMT DEF preempt, Goto, SetState, Somewhere
  <2> QED
    BY <2>5, <2>6, <2>7, <2>8, <2>9, <2>10, <2>11
<1>3. ASSUME NEW c \in CPU, leave(c) PROVE Inv'
  <2>1. UNCHANGED <<Queued, Idle, Trapped, Served, Picked, OnCPU>>
    BY <1>3, SameKinds, Zenon DEF leave
  <2>2. Claimed' = Claimed
    BY <1>3, <2>1, SMT DEF leave, Claimed
  <2>3. TypeOK'
    BY <1>3, SMT DEF leave, Goto, TypeOK, PC
  <2>4. ASSUME NEW d \in CPU PROVE Control(d)'
    BY <1>3, SMT DEF leave, Goto, Control
  <2>5. ASSUME NEW d \in CPU PROVE States(d)'
    BY <1>3, SMT DEF leave, Goto, States, TypeOK
  <2>6. StatesOfClaims'
    BY <1>3, <2>1, SMT DEF leave, Goto, StatesOfClaims
  <2>7. Unique'
    BY <1>3, SMT DEF leave, Unique
  <2>8. Disjoint'
    BY <1>3, <2>1, SMT DEF leave, Disjoint
  <2>9. Somewhere'
    BY <1>3, <2>1, <2>2, SMT DEF leave, Goto, Somewhere
  <2> QED
    BY <2>3, <2>4, <2>5, <2>6, <2>7, <2>8, <2>9
<1>4. ASSUME NEW c \in CPU, phase2(c), state[current[c]] = "Blocking" PROVE Inv'
  <2>1. /\ current[c] \in All
        /\ saved[current[c]]
    BY <1>4, SMT DEF phase2, Goto, States, TypeOK
  <2>2. /\ current[c] \in OnCPU /\ current[c] \notin absent
        /\ \A d \in CPU : current[d] = current[c] => d = c
        /\ current[c] \in Claimed
    BY <1>4, <2>1, InHand, SMT DEF phase2, Goto, Somewhere
  <2>3. UNCHANGED <<Queued, Idle, Trapped, Served, Picked>>
    BY <1>4, SameKinds, Zenon DEF phase2
  <2>4. OnCPU' = OnCPU \ {current[c]}
    BY <1>4, LeavesCPU, Zenon DEF phase2
  <2>5. Claimed' = Claimed
    BY <1>4, <2>3, SMT DEF phase2, Claimed
  <2>6. TypeOK'
    BY <1>4, SMT DEF phase2, Goto, SetState, TypeOK, PC, TaskState
  <2>7. ASSUME NEW d \in CPU PROVE Control(d)'
    BY <1>4, SMT DEF phase2, Goto, Control, TypeOK
  <2>8. ASSUME NEW d \in CPU PROVE States(d)'
    BY <1>4, <2>2, SMT DEF phase2, Goto, SetState, States, TypeOK
  <2>9. StatesOfClaims'
    BY <1>4, <2>3, <2>4, SMT DEF phase2, Goto, SetState, States, TypeOK, All, StatesOfClaims
  <2>10. Unique'
    BY <1>4, SMT DEF phase2, All, Unique
  <2>11. Disjoint'
    BY <1>4, <2>3, SMT DEF phase2, Disjoint
  <2>12. Somewhere'
    <3>1. \A y \in All : y \in absent' <=> y \notin Claimed' /\ y \notin OnCPU'
      BY <1>4, <2>2, <2>4, <2>5, SMT DEF phase2, Somewhere
    <3>2. ASSUME NEW d \in CPU
          PROVE  /\ current'[d] \in Claimed' => state'[current'[d]] = "Blocking"
                 /\ pc'[d] \in {"leave", "phase2", "panic"} /\ state'[current'[d]] = "Blocking"
                       => current'[d] \in Claimed'
                 /\ pc'[d] = "pool" => current'[d] \notin Claimed'
                 /\ pc'[d] = "panic" => current'[d] \in Idle' \cup Picked'
      <4>1. CASE d = c
        BY <1>4, <2>5, NotATask, <4>1, SMT DEF phase2, Goto, TypeOK
      <4>2. CASE d # c
        BY <1>4, <2>2, <2>3, <2>5, <4>2, SMT DEF phase2, Goto, SetState, Somewhere
      <4> QED
        BY <4>1, <4>2
    <3> QED
      BY <3>1, <3>2 DEF Somewhere
  <2> QED
    BY <2>6, <2>7, <2>8, <2>9, <2>10, <2>11, <2>12
<1>5. ASSUME NEW c \in CPU, phase2(c), state[current[c]] = "Running" PROVE Inv'
  <2>1. /\ current[c] \in All
        /\ saved[current[c]]
    BY <1>5, SMT DEF phase2, Goto, States, TypeOK
  <2>2. /\ current[c] \in OnCPU /\ current[c] \notin absent
        /\ \A d \in CPU : current[d] = current[c] => d = c
        /\ current[c] \notin Claimed
    BY <1>5, <2>1, InHand, SMT
  <2>3. UNCHANGED <<Queued, Idle, Trapped, Served, Picked>>
    BY <1>5, SameKinds, Zenon DEF phase2
  <2>4. OnCPU' = OnCPU \ {current[c]}
    BY <1>5, LeavesCPU, Zenon DEF phase2
  <2>5. Claimed' = Claimed \cup {current[c]}
    BY <1>5, <2>3, SMT DEF phase2, Claimed
  <2>6. TypeOK'
    BY <1>5, SMT DEF phase2, Goto, SetState, TypeOK, PC, TaskState
  <2>7. ASSUME NEW d \in CPU PROVE Control(d)'
    BY <1>5, SMT DEF phase2, Goto, Control, TypeOK
  <2>8. ASSUME NEW d \in CPU PROVE States(d)'
    BY <1>5, <2>2, SMT DEF phase2, Goto, SetState, States, TypeOK
  <2>9. StatesOfClaims'
    BY <1>5, <2>3, <2>4, SMT DEF phase2, Goto, SetState, States, TypeOK, All, StatesOfClaims
  <2>10. Unique'
    BY <1>5, SMT DEF phase2, All, Unique
  <2>11. Disjoint'
    BY <1>5, <2>2, <2>3, SMT DEF phase2, Disjoint, Claimed
  <2>12. Somewhere'
    <3>1. \A y \in All : y \in absent' <=> y \notin Claimed' /\ y \notin OnCPU'
      BY <1>5, <2>2, <2>4, <2>5, SMT DEF phase2, Somewhere
    <3>2. ASSUME NEW d \in CPU
          PROVE  /\ current'[d] \in Claimed' => state'[current'[d]] = "Blocking"
                 /\ pc'[d] \in {"leave", "phase2", "panic"} /\ state'[current'[d]] = "Blocking"
                       => current'[d] \in Claimed'
                 /\ pc'[d] = "pool" => current'[d] \notin Claimed'
                 /\ pc'[d] = "panic" => current'[d] \in Idle' \cup Picked'
      <4>1. CASE d = c
        BY <1>5, <2>5, NotATask, <4>1, SMT DEF phase2, Goto, TypeOK
      <4>2. CASE d # c
        BY <1>5, <2>2, <2>3, <2>5, <4>2, SMT DEF phase2, Goto, SetState, Somewhere
      <4> QED
        BY <4>1, <4>2
    <3> QED
      BY <3>1, <3>2 DEF Somewhere
  <2> QED
    BY <2>6, <2>7, <2>8, <2>9, <2>10, <2>11, <2>12
<1>6. ASSUME NEW c \in CPU, phase2(c), state[current[c]] \notin {"Blocking", "Running"}
      PROVE  Inv'
  <2>1. state[current[c]] \in {"Ready", "Exited"}
    BY <1>6, SMT DEF phase2, Goto, States, TypeOK, TaskState
  <2>2. current' = current /\ state' = state /\ waiters' = waiters
    BY <1>6, SMT DEF phase2, SetState, TypeOK
  <2>3. UNCHANGED <<Queued, Idle, Trapped, Served, Picked, OnCPU>>
    BY <1>6, <2>2, SameKinds, Zenon DEF phase2
  <2>4. Claimed' = Claimed
    BY <1>6, <2>3, SMT DEF phase2, Claimed
  <2>5. TypeOK'
    <3>1. /\ pc' \in [CPU -> PC]
          /\ pc'[c] \in {"requeue", "free"}
          /\ \A d \in CPU \ {c} : pc'[d] = pc[d]
      BY <1>6, <2>1, SMT DEF phase2, Goto, TypeOK, PC
    <3>2. UNCHANGED <<state, ready, traps, idle, waiters, woken, absent, work, picked, current,
                      saved>>
      BY <1>6, <2>2, Zenon DEF phase2
    <3>3. ASSUME NEW d \in CPU
          PROVE  /\ pc'[d]
                       \in {"run", "push_trap", "preempt", "requeue", "leave", "phase2", "free"}
                       => current[d] \in All
                 /\ pc'[d] \in {"handler", "handle", "settle", "push_task", "dealloc", "pool"}
                       => current[d] \in Handler
                 /\ pc'[d] \in {"spin", "resume"} <=> picked[d] # NoTask
      BY <1>6, <2>1, SMT DEF phase2, Goto, TypeOK
    <3> QED
      BY <3>1, <3>2, <3>3, Zenon DEF TypeOK
  <2>6. ASSUME NEW d \in CPU PROVE Control(d)'
    BY <1>6, <2>1, SMT DEF phase2, Goto, Control
  <2>7. ASSUME NEW d \in CPU PROVE States(d)'
    BY <1>6, <2>1, <2>2, SMT DEF phase2, Goto, States
  <2>8. StatesOfClaims'
    BY <1>6, <2>2, <2>3, SMT DEF phase2, Goto, StatesOfClaims
  <2>9. Unique'
    BY <1>6, SMT DEF phase2, Unique
  <2>10. Disjoint'
    BY <1>6, <2>3, SMT DEF phase2, Disjoint
  <2>11. Somewhere'
    BY <1>6, <2>1, <2>2, <2>3, <2>4, SMT DEF phase2, Goto, Somewhere
  <2> QED
    BY <2>5, <2>6, <2>7, <2>8, <2>9, <2>10, <2>11
<1>7. ASSUME NEW c \in CPU, requeue(c) PROVE Inv'
  <2>1. /\ current[c] \in All
        /\ state[current[c]] = "Ready"
        /\ saved[current[c]]
    BY <1>7, SMT DEF requeue, Goto, States, TypeOK
  <2>2. /\ current[c] \in OnCPU /\ current[c] \notin absent
        /\ \A d \in CPU : current[d] = current[c] => d = c
        /\ current[c] \notin Claimed
    BY <2>1, InHand
  <2>3. /\ ready' \in Seq(All)
        /\ Queued' = Queued \cup {current[c]}
        /\ NoDuplicates(ready) /\ current[c] \notin Queued => NoDuplicates(ready')
    BY <1>7, <2>1, Enqueued, Zenon DEF requeue
  <2>4. NoDuplicates(ready')
    BY <2>2, <2>3, SMT DEF Unique, Claimed
  <2>5. UNCHANGED <<Idle, Trapped, Served, Picked>>
    BY <1>7, SameKinds, Zenon DEF requeue
  <2>6. OnCPU' = OnCPU \ {current[c]}
    BY <1>7, LeavesCPU, Zenon DEF requeue
  <2>7. Claimed' = Claimed \cup {current[c]}
    BY <1>7, <2>3, <2>5, SMT DEF requeue, Claimed
  <2>8. TypeOK'
    BY <1>7, SMT DEF requeue, Goto, TypeOK, PC
  <2>9. ASSUME NEW d \in CPU PROVE Control(d)'
    BY <1>7, SMT DEF requeue, Goto, Control, TypeOK
  <2>10. ASSUME NEW d \in CPU PROVE States(d)'
    BY <1>7, SMT DEF requeue, Goto, States, TypeOK
  <2>11. StatesOfClaims'
    BY <1>7, <2>1, <2>3, <2>4, <2>5, <2>6, Members, SMT DEF requeue, Goto, StatesOfClaims
  <2>12. Unique'
    BY <1>7, <2>4, SMT DEF requeue, All, Unique
  <2>13. Disjoint'
    BY <1>7, <2>2, <2>3, <2>5, SMT DEF requeue, Disjoint, Claimed
  <2>14. Somewhere'
    <3>1. \A y \in All : y \in absent' <=> y \notin Claimed' /\ y \notin OnCPU'
      BY <1>7, <2>2, <2>6, <2>7, SMT DEF requeue, Somewhere
    <3>2. ASSUME NEW d \in CPU
          PROVE  /\ current'[d] \in Claimed' => state'[current'[d]] = "Blocking"
                 /\ pc'[d] \in {"leave", "phase2", "panic"} /\ state'[current'[d]] = "Blocking"
                       => current'[d] \in Claimed'
                 /\ pc'[d] = "pool" => current'[d] \notin Claimed'
                 /\ pc'[d] = "panic" => current'[d] \in Idle' \cup Picked'
      <4>1. CASE d = c
        BY <1>7, <2>7, NotATask, <4>1, SMT DEF requeue, Goto, TypeOK
      <4>2. CASE d # c
        BY <1>7, <2>2, <2>5, <2>7, <4>2, SMT DEF requeue, Goto, Somewhere
      <4> QED
        BY <4>1, <4>2
    <3> QED
      BY <3>1, <3>2 DEF Somewhere
  <2> QED
    BY <2>8, <2>9, <2>10, <2>11, <2>12, <2>13, <2>14
<1>8. ASSUME NEW c \in CPU, free(c) PROVE Inv'
  <2>1. current[c] \in Task
    BY <1>8, SMT DEF free, Goto, States, StatesOfClaims, TypeOK, All
  <2>2. /\ current[c] \in All
        /\ state[current[c]] = "Exited"
        /\ saved[current[c]]
    BY <1>8, SMT DEF free, Goto, States, TypeOK
  <2>3. /\ current[c] \in OnCPU /\ current[c] \notin absent
        /\ \A d \in CPU : current[d] = current[c] => d = c
        /\ current[c] \notin Claimed
    BY <2>2, InHand
  <2>4. UNCHANGED <<Queued, Idle, Trapped, Served, Picked>>
    BY <1>8, SameKinds, Zenon DEF free
  <2>5. OnCPU' = OnCPU \ {current[c]}
    BY <1>8, LeavesCPU, Zenon DEF free
  <2>6. Claimed' = Claimed
    BY <1>8, <2>4, SMT DEF free, Claimed
  <2>7. TypeOK'
    BY <1>8, SMT DEF free, Goto, TypeOK, PC
  <2>8. ASSUME NEW d \in CPU PROVE Control(d)'
    BY <1>8, SMT DEF free, Goto, Control, TypeOK
  <2>9. ASSUME NEW d \in CPU PROVE States(d)'
    BY <1>8, SMT DEF free, Goto, States, TypeOK
  <2>10. StatesOfClaims'
    <3>1. \A x \in Queued' \cup woken' : state'[x] = "Ready"
      BY <1>8, <2>4, SMT DEF free, StatesOfClaims
    <3>2. \A x \in Idle' \cup waiters' : state'[x] \in {"Blocked", "Blocking"}
      BY <1>8, <2>4, SMT DEF free, StatesOfClaims
    <3>3. \A x \in Trapped' : state'[x] = "Blocked"
      BY <1>8, <2>4, SMT DEF free, StatesOfClaims
    <3>4. ASSUME NEW g \in Handler, work'[g] \in Task
          PROVE  \/ state'[work'[g]] = "Blocked"
                 \/ \E d \in CPU :
                       current'[d] = g /\ pc'[d] \in {"settle", "push_task", "dealloc"}
      <4>1. /\ work[g] = work'[g]
            /\ state'[work'[g]] = state[work[g]]
        BY <1>8, SMT DEF free
      <4>2. CASE state[work[g]] = "Blocked"
        BY <4>1, <4>2
      <4>3. CASE state[work[g]] # "Blocked"
        <5>1. PICK d \in CPU : current[d] = g /\ pc[d] \in {"settle", "push_task", "dealloc"}
          BY <3>4, <4>1, <4>3, Zenon DEF StatesOfClaims
        <5>2. current'[d] = current[d] /\ pc'[d] = pc[d]
          BY <1>8, <5>1, SMT DEF free, Goto
        <5> QED
          BY <5>1, <5>2
      <4> QED
        BY <4>2, <4>3
    <3>5. ASSUME NEW x \in All, state'[x] = "Blocking"
          PROVE  \E d \in CPU :
                    current'[d] = x /\ pc'[d] \in {"leave", "phase2", "pool", "panic"}
      BY <1>8, <3>5, SMT DEF free, Goto, StatesOfClaims
    <3>6. \A g \in Handler : g \in Idle' \cup absent' => work'[g] = NoWork
      BY <1>8, <2>1, <2>4, SMT DEF free, StatesOfClaims
    <3>7. \A x \in All : x \notin OnCPU' => saved'[x]
      BY <1>8, <2>2, <2>5, SMT DEF free, StatesOfClaims
    <3>8. \A g \in Handler : state'[g] # "Exited"
      BY <1>8, SMT DEF free, StatesOfClaims
    <3> QED
      BY <3>1, <3>2, <3>3, <3>4, <3>5, <3>6, <3>7, <3>8, Zenon DEF StatesOfClaims
  <2>11. Unique'
    BY <1>8, SMT DEF free, All, Unique
  <2>12. Disjoint'
    BY <1>8, <2>4, SMT DEF free, Disjoint
  <2>13. Somewhere'
    <3>1. \A y \in All : y \in absent' <=> y \notin Claimed' /\ y \notin OnCPU'
      BY <1>8, <2>2, <2>5, <2>6, SMT DEF free, Somewhere
    <3>2. ASSUME NEW d \in CPU
          PROVE  /\ current'[d] \in Claimed' => state'[current'[d]] = "Blocking"
                 /\ pc'[d] \in {"leave", "phase2", "panic"} /\ state'[current'[d]] = "Blocking"
                       => current'[d] \in Claimed'
                 /\ pc'[d] = "pool" => current'[d] \notin Claimed'
                 /\ pc'[d] = "panic" => current'[d] \in Idle' \cup Picked'
      <4>1. CASE d = c
        BY <1>8, <2>3, <2>6, NotATask, <4>1, SMT DEF free, Goto
      <4>2. CASE d # c
        BY <1>8, <2>4, <2>6, <4>2, SMT DEF free, Goto, Somewhere
      <4> QED
        BY <4>1, <4>2
    <3> QED
      BY <3>1, <3>2 DEF Somewhere
  <2> QED
    BY <2>7, <2>8, <2>9, <2>10, <2>11, <2>12, <2>13
<1>9. ASSUME NEW c \in CPU, sched(c), traps[c] = <<>> /\ ready # <<>> PROVE Inv'
  <2>1. /\ ready' = Tail(ready) /\ picked' = [picked EXCEPT ![c] = Head(ready)]
        /\ pc[c] = "sched" /\ pc' = [pc EXCEPT ![c] = "resume"]
        /\ UNCHANGED <<state, traps, idle, waiters, woken, absent, work, current, saved>>
    BY <1>9, Zenon DEF sched, Goto
  <2>2. /\ Head(ready) \in All /\ Head(ready) \in Queued
        /\ Tail(ready) \in Seq(All)
        /\ Queued = {Head(ready)} \cup RangeOf(Tail(ready))
        /\ NoDuplicates(Tail(ready)) /\ Head(ready) \notin RangeOf(Tail(ready))
    BY <1>9, TailFacts, SMT DEF TypeOK, Unique, Queued
  <2>3. Queued' = Queued \ {Head(ready)}
    BY <2>1, <2>2, SMT DEF Queued
  <2>4. /\ Head(ready) \in Claimed
        /\ Head(ready) \notin Idle \cup waiters \cup woken \cup Trapped \cup Served \cup Picked
    BY <2>2, SMT DEF Claimed, Disjoint
  <2>5. state[Head(ready)] = "Ready"
    BY <2>2, SMT DEF StatesOfClaims
  <2>6. picked[c] = NoTask
    BY <2>1, NotPicked, SMT
  <2>7. /\ Head(ready) \notin absent
        /\ Head(ready) \notin OnCPU
    BY <2>2, <2>4, <2>5, SMT DEF OnCPU, Somewhere
  <2>8. UNCHANGED <<Idle, Trapped, Served, OnCPU>>
    BY <2>1, SameKinds, Zenon
  <2>9. Picked' = Picked \cup {Head(ready)}
    BY <2>1, <2>2, <2>6, IsPicked, Zenon
  <2>10. Claimed' = Claimed
    BY <2>1, <2>2, <2>3, <2>8, <2>9, SMT DEF Claimed
  <2>11. TypeOK'
    BY <1>9, <2>1, <2>5, SMT DEF TypeOK, PC, All
  <2>12. ASSUME NEW d \in CPU PROVE Control(d)'
    BY <1>9, <2>1, SMT DEF Control
  <2>13. ASSUME NEW d \in CPU PROVE States(d)'
    BY <2>1, <2>5, SMT DEF States, TypeOK
  <2>14. StatesOfClaims'
    BY <2>1, <2>3, <2>4, <2>5, <2>6, <2>7, <2>8, <2>9, Members, SMT
       DEF RangeOf, All, StatesOfClaims
  <2>15. Unique'
    <3>1. \A d, e \in CPU, x \in Task : x \in RangeOf(traps'[d]) /\ x \in RangeOf(traps'[e])
             => d = e
      BY <2>1, SMT DEF Unique
    <3>2. NoDuplicates(ready') /\ NoDuplicates(idle')
      BY <2>1, <2>2, SMT DEF Unique
    <3>3. \A g, h \in Handler : work'[g] \in Task /\ work'[g] = work'[h] => g = h
      BY <2>1, SMT DEF Unique
    <3>4. \A d, e \in CPU : picked'[d] \in All /\ picked'[d] = picked'[e] => d = e
      BY <2>1, <2>4, Members, SMT DEF Unique
    <3>5. \A d, e \in CPU : current'[d] \in All /\ current'[d] = current'[e] => d = e
      BY <2>1, SMT DEF Unique
    <3> QED
      BY <3>1, <3>2, <3>3, <3>4, <3>5, Zenon DEF Unique
  <2>16. Disjoint'
    BY <2>1, <2>2, <2>3, <2>8, <2>9, SMT DEF Disjoint
  <2>17. Somewhere'
    BY <2>1, <2>8, <2>9, <2>10, SMT DEF Somewhere
  <2> QED
    BY <2>11, <2>12, <2>13, <2>14, <2>15, <2>16, <2>17
<1>10. ASSUME NEW c \in CPU, sched(c), ~(traps[c] = <<>> /\ ready # <<>>) PROVE Inv'
  <2>1. UNCHANGED <<Queued, Idle, Trapped, Served, Picked, OnCPU>>
    BY <1>10, SameKinds, Zenon DEF sched
  <2>2. Claimed' = Claimed
    BY <1>10, <2>1, SMT DEF sched, Claimed
  <2>3. TypeOK'
    BY <1>10, SMT DEF sched, Goto, TypeOK, PC
  <2>4. ASSUME NEW d \in CPU PROVE Control(d)'
    BY <1>10, SMT DEF sched, Goto, Control
  <2>5. ASSUME NEW d \in CPU PROVE States(d)'
    BY <1>10, SMT DEF sched, Goto, States
  <2>6. StatesOfClaims'
    BY <1>10, <2>1, SMT DEF sched, Goto, StatesOfClaims
  <2>7. Unique'
    BY <1>10, SMT DEF sched, Unique
  <2>8. Disjoint'
    BY <1>10, <2>1, SMT DEF sched, Disjoint
  <2>9. Somewhere'
    BY <1>10, <2>1, <2>2, SMT DEF sched, Goto, Somewhere
  <2> QED
    BY <2>3, <2>4, <2>5, <2>6, <2>7, <2>8, <2>9
<1>11. ASSUME NEW c \in CPU, take(c), state[Head(idle)] = "Blocked" PROVE Inv'
  <2>1. /\ Head(idle) \in Handler /\ Head(idle) \in Idle
        /\ Tail(idle) \in Seq(Handler)
        /\ Idle = {Head(idle)} \cup RangeOf(Tail(idle))
        /\ NoDuplicates(Tail(idle)) /\ Head(idle) \notin RangeOf(Tail(idle))
    BY <1>11, TailFacts, SMT DEF take, TypeOK, Unique, Idle
  <2>2. idle' = Tail(idle)
    BY <1>11, Zenon DEF take
  <2>3. Idle' = Idle \ {Head(idle)}
    BY <2>1, <2>2, SMT DEF Idle
  <2>4. /\ Head(idle) \in All /\ Head(idle) \in Claimed
        /\ Head(idle) \notin Queued \cup waiters \cup woken \cup Trapped \cup Served \cup Picked
    BY <2>1, SMT DEF All, Claimed, Disjoint
  <2>5. /\ state[Head(idle)] = "Blocked"
        /\ work[Head(idle)] = NoWork
    BY <1>11, <2>1, SMT DEF StatesOfClaims
  <2>6. picked[c] = NoTask
    BY <1>11, NotPicked, SMT DEF take, Goto
  <2>7. /\ Head(idle) \notin absent
        /\ Head(idle) \notin OnCPU
    BY <1>11, <2>4, SMT DEF OnCPU, Somewhere
  <2>8. UNCHANGED <<Queued, Trapped, Served, OnCPU>>
    BY <1>11, SameKinds, Zenon DEF take
  <2>9. Picked' = Picked \cup {Head(idle)}
    BY <1>11, <2>4, <2>6, IsPicked, Zenon DEF take
  <2>10. Claimed' = Claimed
    BY <1>11, <2>1, <2>3, <2>8, <2>9, SMT DEF take, Claimed
  <2>11. TypeOK'
    BY <1>11, <2>4, SMT DEF take, Goto, SetState, TypeOK, PC, TaskState
  <2>12. ASSUME NEW d \in CPU PROVE Control(d)'
    BY <1>11, <2>5, SMT DEF take, Goto, Control, TypeOK
  <2>13. ASSUME NEW d \in CPU PROVE States(d)'
    BY <1>11, <2>4, <2>5, <2>7, Members, SMT DEF take, Goto, SetState, States, TypeOK
  <2>14. StatesOfClaims'
    BY <1>11, <2>3, <2>4, <2>8, SMT
       DEF take, Goto, SetState, Control, TypeOK, All, StatesOfClaims
  <2>15. Unique'
    BY <1>11, <2>1, <2>4, Members, SMT DEF take, Unique
  <2>16. Disjoint'
    BY <1>11, <2>1, <2>3, <2>8, <2>9, SMT DEF take, Disjoint
  <2>17. Somewhere'
    BY <1>11, <2>3, <2>8, <2>9, <2>10, SMT DEF take, Goto, SetState, Somewhere
  <2> QED
    BY <2>11, <2>12, <2>13, <2>14, <2>15, <2>16, <2>17
<1>12. ASSUME NEW c \in CPU, take(c), state[Head(idle)] # "Blocked" PROVE Inv'
  <2>1. /\ Head(idle) \in Handler /\ Head(idle) \in Idle
        /\ Tail(idle) \in Seq(Handler)
        /\ Idle = {Head(idle)} \cup RangeOf(Tail(idle))
        /\ NoDuplicates(Tail(idle)) /\ Head(idle) \notin RangeOf(Tail(idle))
    BY <1>12, TailFacts, SMT DEF take, TypeOK, Unique, Idle
  <2>2. idle' = Tail(idle)
    BY <1>12, Zenon DEF take
  <2>3. Idle' = Idle \ {Head(idle)}
    BY <2>1, <2>2, SMT DEF Idle
  <2>4. /\ Head(idle) \in All /\ Head(idle) \in Claimed
        /\ Head(idle) \notin Queued \cup waiters \cup woken \cup Trapped \cup Served \cup Picked
    BY <2>1, SMT DEF All, Claimed, Disjoint
  <2>5. /\ state[Head(idle)] = "Blocking"
        /\ work[Head(idle)] = NoWork
    BY <1>12, <2>1, SMT DEF StatesOfClaims
  <2>6. picked[c] = NoTask
    BY <1>12, <2>5, NotPicked, SMT DEF take, Goto
  <2>7. UNCHANGED <<Queued, Trapped, Served, OnCPU>>
    BY <1>12, SameKinds, Zenon DEF take
  <2>8. Picked' = Picked \cup {Head(idle)}
    BY <1>12, <2>4, <2>6, IsPicked, Zenon DEF take
  <2>9. Claimed' = Claimed
    BY <1>12, <2>1, <2>3, <2>7, <2>8, SMT DEF take, Claimed
  <2>10. TypeOK'
    BY <1>12, <2>4, <2>5, SMT DEF take, Goto, SetState, TypeOK, PC
  <2>11. ASSUME NEW d \in CPU PROVE Control(d)'
    BY <1>12, <2>5, SMT DEF take, Goto, Control, TypeOK
  <2>12. ASSUME NEW d \in CPU PROVE States(d)'
    BY <1>12, <2>5, SMT DEF take, Goto, SetState, States, TypeOK
  <2>13. StatesOfClaims'
    BY <1>12, <2>3, <2>7, SMT DEF take, Goto, SetState, Control, TypeOK, All, StatesOfClaims
  <2>14. Unique'
    BY <1>12, <2>1, <2>4, Members, SMT DEF take, Unique
  <2>15. Disjoint'
    BY <1>12, <2>1, <2>3, <2>7, <2>8, SMT DEF take, Disjoint
  <2>16. Somewhere'
    BY <1>12, <2>3, <2>5, <2>7, <2>8, <2>9, SMT DEF take, Goto, SetState, Somewhere
  <2> QED
    BY <2>10, <2>11, <2>12, <2>13, <2>14, <2>15, <2>16
<1>13. ASSUME NEW c \in CPU, take_new(c) PROVE Inv'
  <2>1. PICK h \in absent \cap Handler :
        /\ absent' = absent \ {h}
        /\ state' = [state EXCEPT ![h] = "Ready"]
        /\ picked' = [picked EXCEPT ![c] = h]
    BY <1>13, Zenon DEF take_new, SetState
  <2>2. h \in All /\ h \notin Claimed /\ h \notin OnCPU
    BY SMT DEF All, Somewhere
  <2>3. saved[h] /\ work[h] = NoWork
    BY <2>2, SMT DEF StatesOfClaims
  <2>4. /\ \A d \in CPU : picked[d] # h /\ current[d] # h
        /\ \A g \in Handler : work[g] \in Task => work[g] # h
    BY <2>2, Members, SMT DEF Claimed
  <2>5. picked[c] = NoTask
    BY <1>13, NotPicked, SMT DEF take_new, Goto
  <2>6. UNCHANGED <<Queued, Idle, Trapped, Served, OnCPU>>
    BY <1>13, SameKinds, Zenon DEF take_new
  <2>7. Picked' = Picked \cup {h}
    BY <2>1, <2>2, <2>5, IsPicked, Zenon
  <2>8. Claimed' = Claimed \cup {h}
    BY <1>13, <2>6, <2>7, SMT DEF take_new, Claimed
  <2>9. TypeOK'
    BY <1>13, <2>1, SMT DEF take_new, Goto, TypeOK, PC, TaskState
  <2>10. ASSUME NEW d \in CPU PROVE Control(d)'
    BY <1>13, <2>1, <2>3, SMT DEF take_new, Goto, Control, TypeOK
  <2>11. ASSUME NEW d \in CPU PROVE States(d)'
    <3>1. CASE d = c
      BY <1>13, <2>1, <2>4, SMT DEF take_new, Goto, States, TypeOK
    <3>2. CASE d # c
      <4> QED
        BY <1>13, <2>1, <2>4, <3>2, SMT DEF take_new, Goto, States, Control
    <3> QED
      BY <3>1, <3>2
  <2>12. StatesOfClaims'
    <3>1. \A x \in Queued' \cup woken' : state'[x] = "Ready"
      BY <1>13, <2>1, <2>6, SMT DEF take_new, StatesOfClaims
    <3>2. \A x \in Idle' \cup waiters' : state'[x] \in {"Blocked", "Blocking"}
      BY <1>13, <2>1, <2>2, <2>6, SMT DEF take_new, StatesOfClaims, Claimed
    <3>3. \A x \in Trapped' : state'[x] = "Blocked"
      BY <2>1, <2>2, <2>6, SMT DEF StatesOfClaims, Claimed
    <3>4. ASSUME NEW g \in Handler, work'[g] \in Task
          PROVE  \/ state'[work'[g]] = "Blocked"
                 \/ \E d \in CPU :
                       current'[d] = g /\ pc'[d] \in {"settle", "push_task", "dealloc"}
      <4>1. /\ work[g] = work'[g]
            /\ state'[work'[g]] = state[work[g]]
        BY <1>13, <2>1, <3>4, SMT DEF take_new
      <4>2. CASE state[work[g]] = "Blocked"
        BY <4>1, <4>2
      <4>3. CASE state[work[g]] # "Blocked"
        <5>1. PICK d \in CPU : current[d] = g /\ pc[d] \in {"settle", "push_task", "dealloc"}
          BY <3>4, <4>1, <4>3, Zenon DEF StatesOfClaims
        <5>2. current'[d] = current[d] /\ pc'[d] = pc[d]
          BY <1>13, <5>1, SMT DEF take_new, Goto
        <5> QED
          BY <5>1, <5>2
      <4> QED
        BY <4>2, <4>3
    <3>5. ASSUME NEW x \in All, state'[x] = "Blocking"
          PROVE  \E d \in CPU :
                    current'[d] = x /\ pc'[d] \in {"leave", "phase2", "pool", "panic"}
      <4>1. state[x] = "Blocking"
        BY <2>1, <3>5, SMT
      <4>2. PICK d \in CPU : current[d] = x /\ pc[d] \in {"leave", "phase2", "pool", "panic"}
        BY <4>1, Zenon DEF StatesOfClaims
      <4>3. current'[d] = x /\ pc'[d] = pc[d]
        BY <1>13, <4>2, SMT DEF take_new, Goto
      <4> QED
        BY <4>2, <4>3
    <3>6. \A g \in Handler : g \in Idle' \cup absent' => work'[g] = NoWork
      BY <1>13, <2>6, SMT DEF take_new, StatesOfClaims
    <3>7. \A x \in All : x \notin OnCPU' => saved'[x]
      BY <1>13, <2>6, SMT DEF take_new, StatesOfClaims
    <3>8. \A g \in Handler : state'[g] # "Exited"
      BY <2>1, SMT DEF StatesOfClaims
    <3> QED
      BY <3>1, <3>2, <3>3, <3>4, <3>5, <3>6, <3>7, <3>8, Zenon DEF StatesOfClaims
  <2>13. Unique'
    BY <1>13, <2>1, <2>4, SMT DEF take_new, Unique
  <2>14. Disjoint'
    BY <1>13, <2>2, <2>6, <2>7, SMT DEF take_new, Disjoint, Claimed
  <2>15. Somewhere'
    BY <1>13, <2>1, <2>4, <2>6, <2>7, <2>8, SMT DEF take_new, Goto, Somewhere
  <2> QED
    BY <2>9, <2>10, <2>11, <2>12, <2>13, <2>14, <2>15
<1>14. ASSUME NEW c \in CPU, spin(c) PROVE Inv'
  <2>1. /\ picked[c] \in Handler
        /\ picked[c] \in All
        /\ state[picked[c]] = "Blocked"
    BY <1>14, SMT DEF spin, Goto, Control, TypeOK
  <2>2. /\ picked[c] \notin Queued \cup Idle \cup waiters \cup woken \cup Trapped \cup Served
        /\ picked[c] \in Picked /\ picked[c] \notin OnCPU /\ picked[c] \notin absent
        /\ \A d \in CPU : picked[d] = picked[c] => d = c
    BY <2>1, InPicked, SMT
  <2>3. UNCHANGED <<Queued, Idle, Trapped, Served, Picked, OnCPU>>
    BY <1>14, SameKinds, Zenon DEF spin
  <2>4. Claimed' = Claimed
    BY <1>14, <2>3, SMT DEF spin, Claimed
  <2>5. TypeOK'
    BY <1>14, SMT DEF spin, Goto, SetState, TypeOK, PC, TaskState
  <2>6. ASSUME NEW d \in CPU PROVE Control(d)'
    BY <1>14, SMT DEF spin, Goto, Control
  <2>7. ASSUME NEW d \in CPU PROVE States(d)'
    BY <1>14, <2>1, <2>2, Members, SMT DEF spin, Goto, SetState, States, TypeOK
  <2>8. StatesOfClaims'
    BY <1>14, <2>1, <2>2, <2>3, SMT DEF spin, Goto, SetState, StatesOfClaims
  <2>9. Unique'
    BY <1>14, SMT DEF spin, Unique
  <2>10. Disjoint'
    BY <1>14, <2>3, SMT DEF spin, Disjoint
  <2>11. Somewhere'
    BY <1>14, <2>3, <2>4, SMT DEF spin, Goto, SetState, Somewhere
  <2> QED
    BY <2>5, <2>6, <2>7, <2>8, <2>9, <2>10, <2>11
<1>15. ASSUME NEW c \in CPU, resume(c) PROVE Inv'
  <2>1. /\ picked[c] \in All
        /\ state[picked[c]] = "Ready"
        /\ current[c] = NoTask
    BY <1>15, SMT DEF resume, Goto, Control, States, TypeOK
  <2>2. /\ picked[c] \notin Queued \cup Idle \cup waiters \cup woken \cup Trapped \cup Served
        /\ picked[c] \in Picked /\ picked[c] \notin OnCPU /\ picked[c] \notin absent
        /\ \A d \in CPU : picked[d] = picked[c] => d = c
    BY <2>1, InPicked, SMT
  <2>3. UNCHANGED <<Queued, Idle, Trapped, Served>>
    BY <1>15, SameKinds, Zenon DEF resume
  <2>4. Picked' = Picked \ {picked[c]}
    BY <1>15, <2>2, SMT DEF resume, TypeOK, Picked, All
  <2>5. OnCPU' = OnCPU \cup {picked[c]}
    BY <1>15, <2>1, SMT DEF resume, TypeOK, OnCPU, All
  <2>6. Claimed' = Claimed \ {picked[c]}
    BY <1>15, <2>2, <2>3, <2>4, SMT DEF resume, Claimed
  <2>7. TypeOK'
    BY <1>15, SMT DEF resume, Goto, SetState, TypeOK, PC, All, TaskState
  <2>8. ASSUME NEW d \in CPU PROVE Control(d)'
    BY <1>15, <2>1, SMT DEF resume, Goto, Control, TypeOK
  <2>9. ASSUME NEW d \in CPU PROVE States(d)'
    BY <1>15, <2>2, Members, SMT DEF resume, Goto, SetState, Control, States, TypeOK
  <2>10. StatesOfClaims'
    BY <1>15, <2>1, <2>2, <2>3, <2>5, SMT DEF resume, Goto, SetState, All, StatesOfClaims
  <2>11. Unique'
    BY <1>15, <2>2, Members, SMT DEF resume, All, Unique
  <2>12. Disjoint'
    BY <1>15, <2>3, <2>4, SMT DEF resume, Disjoint
  <2>13. Somewhere'
    BY <1>15, <2>1, <2>2, <2>3, <2>4, <2>5, <2>6, SMT DEF resume, Goto, SetState, Somewhere
  <2> QED
    BY <2>7, <2>8, <2>9, <2>10, <2>11, <2>12, <2>13
<1>16. ASSUME NEW c \in CPU, take_trap(c) PROVE Inv'
  <2>1. /\ current[c] \in All
        /\ Len(traps[c]) <= 1
        /\ current[c] \in Handler
        /\ work[current[c]] = NoWork
        /\ state[current[c]] = "Running"
    BY <1>16, SMT DEF take_trap, Goto, Control, States, TypeOK
  <2>2. /\ current[c] \in OnCPU /\ current[c] \notin absent
        /\ \A d \in CPU : current[d] = current[c] => d = c
        /\ current[c] \notin Claimed
    BY <2>1, InHand
  <2>3. /\ Head(traps[c]) \in Task \cup {NoTask}
        /\ Head(traps[c]) \in Task => Head(traps[c]) \in Trapped
        /\ traps' \in [CPU -> Seq(Task \cup {NoTask})]
        /\ traps'[c] = <<>>
        /\ \A d \in CPU \ {c} : traps'[d] = traps[d]
        /\ Trapped' = Trapped \ {Head(traps[c])}
    BY <1>16, <2>1, TrapTaken, Zenon DEF take_trap
  <2>4. /\ Trapped \subseteq Task
        /\ Served \subseteq Task
        /\ RangeOf(traps'[c]) = {}
    BY <2>3, EmptyFacts, SMT DEF Trapped, Served
  <2>5. \A h \in Handler : Head(traps[c]) \in Task => work[h] # Head(traps[c])
    BY <2>3, SMT DEF Disjoint, Served
  <2>6. /\ current[c] \notin Idle
        /\ \A d \in CPU : picked[d] # current[c]
    BY <2>1, <2>2, Members, SMT DEF Claimed
  <2>7. UNCHANGED <<Queued, Idle, Picked, OnCPU>>
    BY <1>16, SameKinds, Zenon DEF take_trap
  <2>8. Served' = Served \cup ({Head(traps[c])} \cap Task)
    BY <1>16, <2>1, SMT DEF take_trap, TypeOK, Served
  <2>9. Claimed' = Claimed
    BY <1>16, <2>3, <2>4, <2>7, <2>8, SMT DEF take_trap, Claimed
  <2>10. TypeOK'
    BY <1>16, SMT DEF take_trap, Goto, TypeOK, PC
  <2>11. ASSUME NEW d \in CPU PROVE Control(d)'
    <3>1. CASE d = c
      BY <1>16, <2>2, <2>6, SMT DEF take_trap, Goto, Control, TypeOK
    <3>2. CASE d # c
      <4> QED
        BY <1>16, <2>2, <2>6, <3>2, SMT DEF take_trap, Goto, Control
    <3> QED
      BY <3>1, <3>2
  <2>12. ASSUME NEW d \in CPU PROVE States(d)'
    BY <1>16, <2>2, SMT DEF take_trap, Goto, States, All
  <2>13. StatesOfClaims'
    <3>1. \A x \in Queued' \cup woken' : state'[x] = "Ready"
      BY <1>16, <2>7, SMT DEF take_trap, StatesOfClaims
    <3>2. \A x \in Idle' \cup waiters' : state'[x] \in {"Blocked", "Blocking"}
      BY <1>16, <2>7, SMT DEF take_trap, StatesOfClaims
    <3>3. \A x \in Trapped' : state'[x] = "Blocked"
      BY <1>16, <2>3, SMT DEF take_trap, StatesOfClaims
    <3>4. ASSUME NEW g \in Handler, work'[g] \in Task
          PROVE  \/ state'[work'[g]] = "Blocked"
                 \/ \E d \in CPU :
                       current'[d] = g /\ pc'[d] \in {"settle", "push_task", "dealloc"}
      <4>1. CASE g = current[c]
        <5>1. work'[g] = Head(traps[c])
          BY <1>16, <4>1, SMT DEF take_trap, TypeOK
        <5> QED
          BY <1>16, <2>3, <5>1, <3>4, SMT DEF take_trap, StatesOfClaims
      <4>2. CASE g # current[c]
        <5>1. work[g] = work'[g]
          BY <1>16, <4>2, SMT DEF take_trap
        <5>2. CASE state[work[g]] = "Blocked"
          BY <1>16, <5>1, <5>2 DEF take_trap
        <5>3. CASE state[work[g]] # "Blocked"
          <6>1. PICK d \in CPU : current[d] = g /\ pc[d] \in {"settle", "push_task", "dealloc"}
            BY <3>4, <5>1, <5>3, Zenon DEF StatesOfClaims
          <6>2. current'[d] = current[d] /\ pc'[d] = pc[d]
            BY <1>16, <6>1, SMT DEF take_trap, Goto
          <6> QED
            BY <6>1, <6>2
        <5> QED
          BY <5>2, <5>3
      <4> QED
        BY <4>1, <4>2
    <3>5. ASSUME NEW x \in All, state'[x] = "Blocking"
          PROVE  \E d \in CPU :
                    current'[d] = x /\ pc'[d] \in {"leave", "phase2", "pool", "panic"}
      BY <1>16, <3>5, SMT DEF take_trap, Goto, StatesOfClaims
    <3>6. \A g \in Handler : g \in Idle' \cup absent' => work'[g] = NoWork
      BY <1>16, <2>1, <2>2, <2>7, SMT DEF take_trap, StatesOfClaims
    <3>7. \A x \in All : x \notin OnCPU' => saved'[x]
      BY <1>16, <2>7, SMT DEF take_trap, StatesOfClaims
    <3>8. \A g \in Handler : state'[g] # "Exited"
      BY <1>16, SMT DEF take_trap, StatesOfClaims
    <3> QED
      BY <3>1, <3>2, <3>3, <3>4, <3>5, <3>6, <3>7, <3>8, Zenon DEF StatesOfClaims
  <2>14. Unique'
    <3>1. \A d, e \in CPU, x \in Task : x \in RangeOf(traps'[d]) /\ x \in RangeOf(traps'[e])
             => d = e
      BY <2>1, <2>2, <2>3, <2>4, <2>5, Members, SMT DEF Unique, All
    <3>2. NoDuplicates(ready') /\ NoDuplicates(idle')
      BY <1>16, SMT DEF Unique, take_trap
    <3>3. \A g, h \in Handler : work'[g] \in Task /\ work'[g] = work'[h] => g = h
      BY <1>16, <2>5, SMT DEF Unique, take_trap
    <3>4. \A d, e \in CPU : picked'[d] \in All /\ picked'[d] = picked'[e] => d = e
      BY <1>16, SMT DEF Unique, take_trap
    <3>5. \A d, e \in CPU : current'[d] \in All /\ current'[d] = current'[e] => d = e
      BY <1>16, SMT DEF Unique, take_trap
    <3> QED
      BY <3>1, <3>2, <3>3, <3>4, <3>5, Zenon DEF Unique
  <2>15. Disjoint'
    BY <1>16, <2>3, <2>7, <2>8, SMT DEF take_trap, Disjoint
  <2>16. Somewhere'
    BY <1>16, <2>7, <2>9, SMT DEF take_trap, Goto, Somewhere
  <2> QED
    BY <2>10, <2>11, <2>12, <2>13, <2>14, <2>15, <2>16
<1>17. ASSUME NEW c \in CPU, interrupt_done(c) PROVE Inv'
  <2>1. /\ current[c] \in Handler
        /\ current[c] \in All
        /\ state[current[c]] = "Running"
        /\ work[current[c]] \notin Task
    BY <1>17, SMT DEF interrupt_done, Goto, States, TypeOK
  <2>2. /\ current[c] \in OnCPU /\ current[c] \notin absent
        /\ \A d \in CPU : current[d] = current[c] => d = c
        /\ current[c] \notin Claimed
    BY <2>1, InHand
  <2>3. work[current[c]] \notin Served
    BY <2>1, SMT DEF Served
  <2>4. UNCHANGED <<Queued, Idle, Trapped, Picked, OnCPU>>
    BY <1>17, SameKinds, Zenon DEF interrupt_done
  <2>5. Served' = Served \ {work[current[c]]}
    BY <1>17, <2>1, WorkDone, Zenon DEF interrupt_done
  <2>6. Claimed' = Claimed
    BY <1>17, <2>3, <2>4, <2>5, SMT DEF interrupt_done, Claimed
  <2>7. TypeOK'
    BY <1>17, SMT DEF interrupt_done, Goto, TypeOK, PC
  <2>8. ASSUME NEW d \in CPU PROVE Control(d)'
    BY <1>17, <2>2, SMT DEF interrupt_done, Goto, Control, TypeOK
  <2>9. ASSUME NEW d \in CPU PROVE States(d)'
    BY <1>17, <2>2, SMT DEF interrupt_done, Goto, States, All
  <2>10. StatesOfClaims'
    BY <1>17, <2>4, SMT DEF interrupt_done, Goto, StatesOfClaims
  <2>11. Unique'
    BY <1>17, SMT DEF interrupt_done, Unique
  <2>12. Disjoint'
    BY <1>17, <2>4, <2>5, SMT DEF interrupt_done, Disjoint
  <2>13. Somewhere'
    BY <1>17, <2>4, <2>6, SMT DEF interrupt_done, Goto, Somewhere
  <2> QED
    BY <2>7, <2>8, <2>9, <2>10, <2>11, <2>12, <2>13
<1>18. ASSUME NEW c \in CPU, task_done(c) PROVE Inv'
  <2>1. PICK e \in {state[work[current[c]]], "Exited"} :
        /\ state' = [state EXCEPT ![work[current[c]]] = e]
    BY <1>18, Zenon DEF task_done, SetState
  <2>2. /\ current[c] \in Handler
        /\ work[current[c]] \in Task
        /\ current[c] \in All
    BY <1>18, SMT DEF task_done, Goto, Control, TypeOK
  <2>3. state[current[c]] = "Running"
    BY <1>18, SMT DEF task_done, Goto, States
  <2>4. /\ current[c] \in OnCPU /\ current[c] \notin absent
        /\ \A d \in CPU : current[d] = current[c] => d = c
        /\ current[c] \notin Claimed
    BY <2>2, <2>3, InHand
  <2>5. state[work[current[c]]] = "Blocked"
    BY <1>18, <2>2, <2>4, SMT DEF task_done, Goto, StatesOfClaims
  <2>6. /\ work[current[c]] \in All
        /\ work[current[c]] \in Served
        /\ work[current[c]] \in Claimed
        /\ work[current[c]] \notin absent /\ work[current[c]] \notin OnCPU
        /\ work[current[c]] \notin Queued \cup Idle \cup waiters \cup woken \cup Trapped
              \cup Picked
        /\ \A g \in Handler : work[g] = work[current[c]] => g = current[c]
    BY <2>2, <2>5, InWork, SMT
  <2>7. UNCHANGED <<Queued, Idle, Trapped, Served, Picked, OnCPU>>
    BY <1>18, SameKinds, Zenon DEF task_done
  <2>8. Claimed' = Claimed
    BY <1>18, <2>7, SMT DEF task_done, Claimed
  <2>9. TypeOK'
    BY <1>18, <2>1, <2>5, <2>6, SMT DEF task_done, Goto, TypeOK, PC, TaskState
  <2>10. ASSUME NEW d \in CPU PROVE Control(d)'
    BY <1>18, <2>2, SMT DEF task_done, Goto, Control
  <2>11. ASSUME NEW d \in CPU PROVE States(d)'
    BY <1>18, <2>1, <2>5, <2>6, Members, SMT DEF task_done, Goto, States
  <2>12. StatesOfClaims'
    BY <1>18, <2>1, <2>3, <2>6, <2>7, SMT DEF task_done, Goto, TypeOK, StatesOfClaims
  <2>13. Unique'
    BY <1>18, SMT DEF task_done, Unique
  <2>14. Disjoint'
    BY <1>18, <2>7, SMT DEF task_done, Disjoint
  <2>15. Somewhere'
    BY <1>18, <2>1, <2>5, <2>7, <2>8, SMT DEF task_done, Goto, Somewhere
  <2> QED
    BY <2>9, <2>10, <2>11, <2>12, <2>13, <2>14, <2>15
<1>19. ASSUME NEW c \in CPU, settle(c) PROVE Inv'
  <2>1. /\ current[c] \in Handler
        /\ work[current[c]] \in Task
        /\ current[c] \in All
    BY <1>19, SMT DEF settle, Goto, Control, TypeOK
  <2>2. state[current[c]] = "Running"
    BY <1>19, SMT DEF settle, Goto, States
  <2>3. /\ current[c] \in OnCPU /\ current[c] \notin absent
        /\ \A d \in CPU : current[d] = current[c] => d = c
        /\ current[c] \notin Claimed
    BY <2>1, <2>2, InHand
  <2>4. state[work[current[c]]] \in {"Blocked", "Exited"}
    BY <1>19, SMT DEF settle, Goto, States
  <2>5. /\ work[current[c]] \in All
        /\ work[current[c]] \in Served
        /\ work[current[c]] \in Claimed
        /\ work[current[c]] \notin absent /\ work[current[c]] \notin OnCPU
        /\ work[current[c]] \notin Queued \cup Idle \cup waiters \cup woken \cup Trapped
              \cup Picked
        /\ \A g \in Handler : work[g] = work[current[c]] => g = current[c]
    BY <2>1, <2>4, InWork, SMT
  <2>6. UNCHANGED <<Queued, Idle, Trapped, Served, Picked, OnCPU>>
    BY <1>19, SameKinds, Zenon DEF settle
  <2>7. Claimed' = Claimed
    BY <1>19, <2>6, SMT DEF settle, Claimed
  <2>8. TypeOK'
    BY <1>19, <2>5, SMT DEF settle, Goto, SetState, TypeOK, PC, TaskState
  <2>9. ASSUME NEW d \in CPU PROVE Control(d)'
    BY <1>19, <2>4, SMT DEF settle, Goto, Control
  <2>10. ASSUME NEW d \in CPU PROVE States(d)'
    BY <1>19, <2>3, <2>5, Members, SMT DEF settle, Goto, SetState, States, TypeOK
  <2>11. StatesOfClaims'
    BY <1>19, <2>4, <2>5, <2>6, SMT DEF settle, Goto, SetState, StatesOfClaims
  <2>12. Unique'
    BY <1>19, SMT DEF settle, Unique
  <2>13. Disjoint'
    BY <1>19, <2>6, SMT DEF settle, Disjoint
  <2>14. Somewhere'
    BY <1>19, <2>4, <2>6, <2>7, SMT DEF settle, Goto, SetState, Somewhere
  <2> QED
    BY <2>8, <2>9, <2>10, <2>11, <2>12, <2>13, <2>14
<1>20. ASSUME NEW c \in CPU, push_task(c) PROVE Inv'
  <2>1. /\ current[c] \in Handler
        /\ work[current[c]] \in Task
        /\ current[c] \in All
    BY <1>20, SMT DEF push_task, Goto, Control, TypeOK
  <2>2. state[current[c]] = "Running"
    BY <1>20, SMT DEF push_task, Goto, States
  <2>3. /\ current[c] \in OnCPU /\ current[c] \notin absent
        /\ \A d \in CPU : current[d] = current[c] => d = c
        /\ current[c] \notin Claimed
    BY <2>1, <2>2, InHand
  <2>4. state[work[current[c]]] = "Ready"
    BY <1>20, SMT DEF push_task, Goto, States
  <2>5. /\ work[current[c]] \in All
        /\ work[current[c]] \in Served
        /\ work[current[c]] \in Claimed
        /\ work[current[c]] \notin absent /\ work[current[c]] \notin OnCPU
        /\ work[current[c]] \notin Queued \cup Idle \cup waiters \cup woken \cup Trapped
              \cup Picked
        /\ \A g \in Handler : work[g] = work[current[c]] => g = current[c]
    BY <2>1, <2>4, InWork, SMT
  <2>6. /\ ready' \in Seq(All)
        /\ Queued' = Queued \cup {work[current[c]]}
        /\ NoDuplicates(ready) /\ work[current[c]] \notin Queued => NoDuplicates(ready')
    BY <1>20, <2>5, Enqueued, Zenon DEF push_task
  <2>7. UNCHANGED <<Idle, Trapped, Picked, OnCPU>>
    BY <1>20, SameKinds, Zenon DEF push_task
  <2>8. Served' = Served \ {work[current[c]]}
    BY <1>20, <2>1, WorkDone, Zenon DEF push_task
  <2>9. Claimed' = Claimed
    BY <1>20, <2>5, <2>6, <2>7, <2>8, SMT DEF push_task, Claimed
  <2>10. TypeOK'
    BY <1>20, <2>5, SMT DEF push_task, Goto, TypeOK, PC
  <2>11. ASSUME NEW d \in CPU PROVE Control(d)'
    BY <1>20, <2>3, SMT DEF push_task, Goto, Control, TypeOK
  <2>12. ASSUME NEW d \in CPU PROVE States(d)'
    BY <1>20, <2>3, SMT DEF push_task, Goto, States, TypeOK, All
  <2>13. StatesOfClaims'
    BY <1>20, <2>2, <2>4, <2>6, <2>7, SMT DEF push_task, Goto, TypeOK, StatesOfClaims
  <2>14. Unique'
    BY <1>20, <2>5, <2>6, SMT DEF push_task, Unique
  <2>15. Disjoint'
    BY <1>20, <2>5, <2>6, <2>7, <2>8, SMT DEF push_task, Disjoint
  <2>16. Somewhere'
    BY <1>20, <2>7, <2>9, SMT DEF push_task, Goto, Somewhere
  <2> QED
    BY <2>10, <2>11, <2>12, <2>13, <2>14, <2>15, <2>16
<1>21. ASSUME NEW c \in CPU, dealloc(c) PROVE Inv'
  <2>1. /\ current[c] \in Handler
        /\ work[current[c]] \in Task
        /\ current[c] \in All
    BY <1>21, SMT DEF dealloc, Goto, Control, TypeOK
  <2>2. state[current[c]] = "Running"
    BY <1>21, SMT DEF dealloc, Goto, States
  <2>3. /\ current[c] \in OnCPU /\ current[c] \notin absent
        /\ \A d \in CPU : current[d] = current[c] => d = c
        /\ current[c] \notin Claimed
    BY <2>1, <2>2, InHand
  <2>4. state[work[current[c]]] = "Exited"
    BY <1>21, SMT DEF dealloc, Goto, States
  <2>5. /\ work[current[c]] \in All
        /\ work[current[c]] \in Served
        /\ work[current[c]] \in Claimed
        /\ work[current[c]] \notin absent /\ work[current[c]] \notin OnCPU
        /\ work[current[c]] \notin Queued \cup Idle \cup waiters \cup woken \cup Trapped
              \cup Picked
        /\ \A g \in Handler : work[g] = work[current[c]] => g = current[c]
    BY <2>1, <2>4, InWork, SMT
  <2>6. UNCHANGED <<Queued, Idle, Trapped, Picked, OnCPU>>
    BY <1>21, SameKinds, Zenon DEF dealloc
  <2>7. Served' = Served \ {work[current[c]]}
    BY <1>21, <2>1, WorkDone, Zenon DEF dealloc
  <2>8. Claimed' = Claimed \ {work[current[c]]}
    BY <1>21, <2>5, <2>6, <2>7, SMT DEF dealloc, Claimed
  <2>9. TypeOK'
    BY <1>21, <2>5, SMT DEF dealloc, Goto, TypeOK, PC
  <2>10. ASSUME NEW d \in CPU PROVE Control(d)'
    BY <1>21, <2>3, SMT DEF dealloc, Goto, Control, TypeOK
  <2>11. ASSUME NEW d \in CPU PROVE States(d)'
    BY <1>21, <2>3, SMT DEF dealloc, Goto, States, TypeOK, All
  <2>12. StatesOfClaims'
    BY <1>21, <2>1, <2>2, <2>6, SMT DEF dealloc, Goto, TypeOK, StatesOfClaims
  <2>13. Unique'
    BY <1>21, SMT DEF dealloc, Unique
  <2>14. Disjoint'
    BY <1>21, <2>6, <2>7, SMT DEF dealloc, Disjoint
  <2>15. Somewhere'
    BY <1>21, <2>4, <2>5, <2>6, <2>8, SMT DEF dealloc, Goto, Somewhere
  <2> QED
    BY <2>9, <2>10, <2>11, <2>12, <2>13, <2>14, <2>15
<1>22. ASSUME NEW c \in CPU, reschedule_handler(c) PROVE Inv'
  <2>1. /\ current[c] \in All
        /\ current[c] \in Handler
        /\ state[current[c]] = "Running"
    BY <1>22, SMT DEF reschedule_handler, Goto, States, TypeOK
  <2>2. /\ current[c] \in OnCPU /\ current[c] \notin absent
        /\ \A d \in CPU : current[d] = current[c] => d = c
        /\ current[c] \notin Claimed
    BY <2>1, InHand
  <2>3. UNCHANGED <<Queued, Idle, Trapped, Served, Picked, OnCPU>>
    BY <1>22, SameKinds, Zenon DEF reschedule_handler
  <2>4. Claimed' = Claimed
    BY <1>22, <2>3, SMT DEF reschedule_handler, Claimed
  <2>5. TypeOK'
    BY <1>22, SMT DEF reschedule_handler, Goto, SetState, TypeOK, PC, TaskState
  <2>6. ASSUME NEW d \in CPU PROVE Control(d)'
    BY <1>22, SMT DEF reschedule_handler, Goto, Control
  <2>7. ASSUME NEW d \in CPU PROVE States(d)'
    BY <1>22, <2>2, SMT DEF reschedule_handler, Goto, SetState, States, TypeOK
  <2>8. StatesOfClaims'
    BY <1>22, <2>1, <2>3, SMT
       DEF reschedule_handler, Goto, SetState, Control, TypeOK, StatesOfClaims
  <2>9. Unique'
    BY <1>22, SMT DEF reschedule_handler, Unique
  <2>10. Disjoint'
    BY <1>22, <2>3, SMT DEF reschedule_handler, Disjoint
  <2>11. Somewhere'
    BY <1>22, <2>2, <2>3, <2>4, SMT DEF reschedule_handler, Goto, SetState, Somewhere
  <2> QED
    BY <2>5, <2>6, <2>7, <2>8, <2>9, <2>10, <2>11
<1>23. ASSUME NEW c \in CPU, pool(c) PROVE Inv'
  <2>1. /\ current[c] \in Handler
        /\ current[c] \in All
        /\ state[current[c]] = "Blocking"
        /\ work[current[c]] = NoWork
    BY <1>23, SMT DEF pool, Goto, Control, States, TypeOK
  <2>2. /\ current[c] \in OnCPU /\ current[c] \notin absent
        /\ \A d \in CPU : current[d] = current[c] => d = c
    BY <2>1, InHand
  <2>3. current[c] \notin Claimed
    BY <1>23, SMT DEF pool, Goto, Somewhere
  <2>4. /\ idle' \in Seq(Handler)
        /\ Idle' = Idle \cup {current[c]}
        /\ NoDuplicates(idle')
    BY <1>23, <2>1, <2>3, AppendFacts, SMT DEF pool, TypeOK, Unique, Claimed, Idle
  <2>5. UNCHANGED <<Queued, Trapped, Served, Picked, OnCPU>>
    BY <1>23, SameKinds, Zenon DEF pool
  <2>6. Claimed' = Claimed \cup {current[c]}
    BY <1>23, <2>4, <2>5, SMT DEF pool, Claimed
  <2>7. TypeOK'
    BY <1>23, SMT DEF pool, Goto, TypeOK, PC
  <2>8. ASSUME NEW d \in CPU PROVE Control(d)'
    BY <1>23, <2>1, SMT DEF pool, Goto, Control
  <2>9. ASSUME NEW d \in CPU PROVE States(d)'
    BY <1>23, SMT DEF pool, Goto, States
  <2>10. StatesOfClaims'
    BY <1>23, <2>1, <2>2, <2>3, <2>4, <2>5, Members, SMT DEF pool, Goto, Control, StatesOfClaims
  <2>11. Unique'
    BY <1>23, <2>4, SMT DEF pool, Unique
  <2>12. Disjoint'
    BY <1>23, <2>3, <2>4, <2>5, SMT DEF pool, Disjoint, Claimed
  <2>13. Somewhere'
    BY <1>23, <2>1, <2>2, <2>4, <2>5, <2>6, SMT DEF pool, Goto, TypeOK, Somewhere
  <2> QED
    BY <2>7, <2>8, <2>9, <2>10, <2>11, <2>12, <2>13
<1>24. ASSUME NEW c \in CPU, sync_trap(c) PROVE Inv'
  <2>1. /\ current[c] \in All
        /\ current[c] \in Task
        /\ state[current[c]] = "Running"
    BY <1>24, SMT DEF sync_trap, Goto, Control, States, TypeOK
  <2>2. /\ current[c] \in OnCPU /\ current[c] \notin absent
        /\ \A d \in CPU : current[d] = current[c] => d = c
        /\ current[c] \notin Claimed
    BY <2>1, InHand
  <2>3. UNCHANGED <<Queued, Idle, Trapped, Served, Picked, OnCPU>>
    BY <1>24, SameKinds, Zenon DEF sync_trap
  <2>4. Claimed' = Claimed
    BY <1>24, <2>3, SMT DEF sync_trap, Claimed
  <2>5. TypeOK'
    BY <1>24, SMT DEF sync_trap, Goto, SetState, TypeOK, PC, TaskState
  <2>6. ASSUME NEW d \in CPU PROVE Control(d)'
    BY <1>24, <2>1, SMT DEF sync_trap, Goto, Control
  <2>7. ASSUME NEW d \in CPU PROVE States(d)'
    BY <1>24, <2>2, SMT DEF sync_trap, Goto, SetState, States, TypeOK
  <2>8. StatesOfClaims'
    BY <1>24, <2>1, <2>3, SMT DEF sync_trap, Goto, SetState, StatesOfClaims
  <2>9. Unique'
    BY <1>24, SMT DEF sync_trap, Unique
  <2>10. Disjoint'
    BY <1>24, <2>3, SMT DEF sync_trap, Disjoint
  <2>11. Somewhere'
    BY <1>24, <2>1, <2>3, <2>4, SMT DEF sync_trap, Goto, SetState, Somewhere
  <2> QED
    BY <2>5, <2>6, <2>7, <2>8, <2>9, <2>10, <2>11
<1>25. ASSUME NEW c \in CPU, interrupt(c) PROVE Inv'
  <2>1. traps[c] = <<>>
    BY <1>25, SMT DEF interrupt, Control
  <2>2. pc[c] = "run" => current[c] \in All
    BY SMT DEF TypeOK
  <2>3. /\ pc[c] = "wfi" => current[c] = NoTask
        /\ pc[c] = "run"
              => state[current[c]] = "Running" /\ current[c] \in Task /\ current[c] \in All
    BY <2>2, SMT DEF Control, States
  <2>4. /\ traps' \in [CPU -> Seq(Task \cup {NoTask})]
        /\ Len(traps'[c]) = 1
        /\ RangeOf(traps'[c]) = {NoTask}
        /\ \A d \in CPU \ {c} : traps'[d] = traps[d]
        /\ Trapped' = Trapped \cup ({NoTask} \cap Task)
    BY <1>25, <2>1, TrapAdded, Zenon DEF interrupt
  <2>5. \A x \in All : saved[x] => saved'[x]
    BY <1>25, Zenon DEF interrupt
  <2>6. pc[c] = "run" => saved'[current[c]]
    BY <1>25, <2>2, Zenon DEF interrupt
  <2>7. UNCHANGED <<Queued, Idle, Served, Picked, OnCPU>>
    BY <1>25, SameKinds, Zenon DEF interrupt
  <2>8. Claimed' = Claimed
    BY <1>25, <2>4, <2>7, SMT DEF interrupt, Claimed
  <2>9. TypeOK'
    BY <1>25, SMT DEF interrupt, TypeOK, PC
  <2>10. ASSUME NEW d \in CPU PROVE Control(d)'
    BY <1>25, SMT DEF interrupt, Control, TypeOK
  <2>11. ASSUME NEW d \in CPU PROVE States(d)'
    <3>1. CASE d = c
      BY <1>25, <2>1, <2>6, <3>1, SMT DEF interrupt, States
    <3>2. CASE d # c
      <4> QED
        BY <1>25, <2>1, <2>6, SMT DEF interrupt, States, TypeOK
    <3> QED
      BY <3>1, <3>2
  <2>12. StatesOfClaims'
    BY <1>25, <2>1, <2>3, <2>4, <2>5, <2>7, SMT DEF interrupt, StatesOfClaims
  <2>13. Unique'
    <3>1. \A d, e \in CPU, x \in Task : x \in RangeOf(traps'[d]) /\ x \in RangeOf(traps'[e])
             => d = e
      <4>1. \A d \in CPU, x \in Task : x \in RangeOf(traps'[d]) => x \in RangeOf(traps[d])
        BY <2>4, SMT
      <4> QED
        BY <4>1, Zenon DEF Unique
    <3>2. NoDuplicates(ready') /\ NoDuplicates(idle')
      BY <1>25, SMT DEF Unique, interrupt
    <3>3. \A g, h \in Handler : work'[g] \in Task /\ work'[g] = work'[h] => g = h
      BY <1>25, SMT DEF Unique, interrupt
    <3>4. \A d, e \in CPU : picked'[d] \in All /\ picked'[d] = picked'[e] => d = e
      BY <1>25, SMT DEF Unique, interrupt
    <3>5. \A d, e \in CPU : current'[d] \in All /\ current'[d] = current'[e] => d = e
      BY <1>25, SMT DEF Unique, interrupt
    <3> QED
      BY <3>1, <3>2, <3>3, <3>4, <3>5, Zenon DEF Unique
  <2>14. Disjoint'
    BY <1>25, <2>4, <2>7, SMT DEF interrupt, Disjoint
  <2>15. Somewhere'
    BY <1>25, <2>1, <2>7, <2>8, SMT DEF interrupt, Somewhere
  <2> QED
    BY <2>9, <2>10, <2>11, <2>12, <2>13, <2>14, <2>15
<1>26. ASSUME NEW c \in CPU, set_blocking(c) PROVE Inv'
  <2>1. /\ current[c] \in All
        /\ current[c] \in Task
        /\ state[current[c]] = "Running"
    BY <1>26, SMT DEF set_blocking, Goto, Control, States, TypeOK
  <2>2. /\ current[c] \in OnCPU /\ current[c] \notin absent
        /\ \A d \in CPU : current[d] = current[c] => d = c
        /\ current[c] \notin Claimed
    BY <2>1, InHand
  <2>3. UNCHANGED <<Queued, Idle, Trapped, Served, Picked, OnCPU>>
    BY <1>26, SameKinds, Zenon DEF set_blocking
  <2>4. Claimed' = Claimed \cup {current[c]}
    BY <1>26, <2>3, SMT DEF set_blocking, Claimed
  <2>5. TypeOK'
    BY <1>26, SMT DEF set_blocking, Goto, SetState, TypeOK, PC, TaskState
  <2>6. ASSUME NEW d \in CPU PROVE Control(d)'
    BY <1>26, SMT DEF set_blocking, Goto, Control
  <2>7. ASSUME NEW d \in CPU PROVE States(d)'
    BY <1>26, <2>2, SMT DEF set_blocking, Goto, SetState, States, TypeOK
  <2>8. StatesOfClaims'
    BY <1>26, <2>1, <2>3, SMT DEF set_blocking, Goto, SetState, TypeOK, StatesOfClaims
  <2>9. Unique'
    BY <1>26, SMT DEF set_blocking, Unique
  <2>10. Disjoint'
    BY <1>26, <2>2, <2>3, SMT DEF set_blocking, Disjoint, Claimed
  <2>11. Somewhere'
    BY <1>26, <2>2, <2>3, <2>4, SMT DEF set_blocking, Goto, SetState, TypeOK, Somewhere
  <2> QED
    BY <2>5, <2>6, <2>7, <2>8, <2>9, <2>10, <2>11
<1>27. ASSUME NEW c \in CPU, set_ready(c) PROVE Inv'
  <2>1. PICK e \in {"Ready", "Exited"} :
        /\ state' = [state EXCEPT ![current[c]] = e]
    BY <1>27, Zenon DEF set_ready, SetState
  <2>2. /\ current[c] \in All
        /\ current[c] \in Task
        /\ state[current[c]] = "Running"
    BY <1>27, SMT DEF set_ready, Goto, Control, States, TypeOK
  <2>3. /\ current[c] \in OnCPU /\ current[c] \notin absent
        /\ \A d \in CPU : current[d] = current[c] => d = c
        /\ current[c] \notin Claimed
    BY <2>2, InHand
  <2>4. UNCHANGED <<Queued, Idle, Trapped, Served, Picked, OnCPU>>
    BY <1>27, SameKinds, Zenon DEF set_ready
  <2>5. Claimed' = Claimed
    BY <1>27, <2>4, SMT DEF set_ready, Claimed
  <2>6. TypeOK'
    BY <1>27, <2>1, SMT DEF set_ready, Goto, TypeOK, PC, TaskState
  <2>7. ASSUME NEW d \in CPU PROVE Control(d)'
    BY <1>27, SMT DEF set_ready, Goto, Control
  <2>8. ASSUME NEW d \in CPU PROVE States(d)'
    BY <1>27, <2>1, <2>3, SMT DEF set_ready, Goto, States, TypeOK
  <2>9. StatesOfClaims'
    BY <1>27, <2>1, <2>2, <2>4, SMT DEF set_ready, Goto, StatesOfClaims
  <2>10. Unique'
    BY <1>27, SMT DEF set_ready, Unique
  <2>11. Disjoint'
    BY <1>27, <2>4, SMT DEF set_ready, Disjoint
  <2>12. Somewhere'
    BY <1>27, <2>1, <2>2, <2>4, <2>5, SMT DEF set_ready, Goto, Somewhere
  <2> QED
    BY <2>6, <2>7, <2>8, <2>9, <2>10, <2>11, <2>12
<1>28. ASSUME NEW c \in CPU, return_pending(c) PROVE Inv'
  <2>1. /\ current[c] \in All
        /\ current[c] \in Task
        /\ state[current[c]] = "Running"
    BY <1>28, SMT DEF return_pending, Goto, Control, States, TypeOK
  <2>2. UNCHANGED <<Queued, Idle, Trapped, Served, Picked, OnCPU>>
    BY <1>28, SameKinds, Zenon DEF return_pending
  <2>3. Claimed' = Claimed
    BY <1>28, <2>2, SMT DEF return_pending, Claimed
  <2>4. TypeOK'
    BY <1>28, SMT DEF return_pending, Goto, TypeOK, PC
  <2>5. ASSUME NEW d \in CPU PROVE Control(d)'
    BY <1>28, SMT DEF return_pending, Goto, Control
  <2>6. ASSUME NEW d \in CPU PROVE States(d)'
    BY <1>28, SMT DEF return_pending, Goto, States
  <2>7. StatesOfClaims'
    BY <1>28, <2>2, SMT DEF return_pending, Goto, StatesOfClaims
  <2>8. Unique'
    BY <1>28, SMT DEF return_pending, Unique
  <2>9. Disjoint'
    BY <1>28, <2>2, SMT DEF return_pending, Disjoint
  <2>10. Somewhere'
    BY <1>28, <2>1, <2>2, <2>3, SMT DEF return_pending, Goto, Somewhere
  <2> QED
    BY <2>4, <2>5, <2>6, <2>7, <2>8, <2>9, <2>10
<1>29. ASSUME NEW c \in CPU, handle_blocks(c) PROVE Inv'
  <2>1. /\ current[c] \in All
        /\ current[c] \in Handler
        /\ state[current[c]] = "Running"
        /\ work[current[c]] # NoWork
    BY <1>29, SMT DEF handle_blocks, Goto, Control, States, TypeOK
  <2>2. /\ current[c] \in OnCPU /\ current[c] \notin absent
        /\ \A d \in CPU : current[d] = current[c] => d = c
        /\ current[c] \notin Claimed
    BY <2>1, InHand
  <2>3. UNCHANGED <<Queued, Idle, Trapped, Served, Picked, OnCPU>>
    BY <1>29, SameKinds, Zenon DEF handle_blocks
  <2>4. Claimed' = Claimed \cup {current[c]}
    BY <1>29, <2>3, SMT DEF handle_blocks, Claimed
  <2>5. TypeOK'
    BY <1>29, SMT DEF handle_blocks, Goto, SetState, TypeOK, PC, TaskState
  <2>6. ASSUME NEW d \in CPU PROVE Control(d)'
    BY <1>29, SMT DEF handle_blocks, Goto, Control
  <2>7. ASSUME NEW d \in CPU PROVE States(d)'
    BY <1>29, <2>2, SMT DEF handle_blocks, Goto, SetState, States, TypeOK
  <2>8. StatesOfClaims'
    <3>1. \A x \in Queued' \cup woken' : state'[x] = "Ready"
      BY <1>29, <2>1, <2>3, SMT DEF handle_blocks, SetState, StatesOfClaims
    <3>2. \A x \in Idle' \cup waiters' : state'[x] \in {"Blocked", "Blocking"}
      BY <1>29, <2>1, <2>3, SMT DEF handle_blocks, SetState, StatesOfClaims, TypeOK
    <3>3. \A x \in Trapped' : state'[x] = "Blocked"
      BY <1>29, <2>1, <2>3, SMT DEF handle_blocks, SetState, StatesOfClaims
    <3>4. ASSUME NEW g \in Handler, work'[g] \in Task
          PROVE  \/ state'[work'[g]] = "Blocked"
                 \/ \E d \in CPU :
                       current'[d] = g /\ pc'[d] \in {"settle", "push_task", "dealloc"}
      <4>1. /\ work[g] = work'[g]
            /\ state'[work'[g]] = state[work[g]]
        BY <1>29, <2>1, <3>4, SMT DEF handle_blocks, SetState
      <4>2. CASE state[work[g]] = "Blocked"
        BY <4>1, <4>2
      <4>3. CASE state[work[g]] # "Blocked"
        <5>1. PICK d \in CPU : current[d] = g /\ pc[d] \in {"settle", "push_task", "dealloc"}
          BY <3>4, <4>1, <4>3, Zenon DEF StatesOfClaims
        <5>2. current'[d] = current[d] /\ pc'[d] = pc[d]
          BY <1>29, <5>1, SMT DEF handle_blocks, Goto
        <5> QED
          BY <5>1, <5>2
      <4> QED
        BY <4>2, <4>3
    <3>5. ASSUME NEW x \in All, state'[x] = "Blocking"
          PROVE  \E d \in CPU :
                    current'[d] = x /\ pc'[d] \in {"leave", "phase2", "pool", "panic"}
      BY <1>29, <3>5, SMT DEF handle_blocks, Goto, SetState, StatesOfClaims, TypeOK
    <3>6. \A g \in Handler : g \in Idle' \cup absent' => work'[g] = NoWork
      BY <1>29, <2>3, SMT DEF handle_blocks, StatesOfClaims
    <3>7. \A x \in All : x \notin OnCPU' => saved'[x]
      BY <1>29, <2>3, SMT DEF handle_blocks, StatesOfClaims
    <3>8. \A g \in Handler : state'[g] # "Exited"
      BY <1>29, SMT DEF handle_blocks, SetState, StatesOfClaims
    <3> QED
      BY <3>1, <3>2, <3>3, <3>4, <3>5, <3>6, <3>7, <3>8, Zenon DEF StatesOfClaims
  <2>9. Unique'
    BY <1>29, SMT DEF handle_blocks, Unique
  <2>10. Disjoint'
    BY <1>29, <2>2, <2>3, SMT DEF handle_blocks, Disjoint, Claimed
  <2>11. Somewhere'
    BY <1>29, <2>2, <2>3, <2>4, SMT DEF handle_blocks, Goto, SetState, TypeOK, Somewhere
  <2> QED
    BY <2>5, <2>6, <2>7, <2>8, <2>9, <2>10, <2>11
<1>30. ASSUME NEW x \in All, wake(x) PROVE Inv'
  <2>1. /\ x \in Claimed
        /\ x \notin Queued \cup Idle \cup woken \cup Trapped \cup Served \cup Picked
        /\ state[x] \in {"Blocked", "Blocking"}
    BY <1>30, SMT DEF wake, Claimed, Disjoint, StatesOfClaims
  <2>2. state[x] = "Blocking" => x \in OnCPU
    BY SMT DEF StatesOfClaims, OnCPU
  <2>3. \A d \in CPU : current[d] = x => pc[d] \in {"leave", "phase2"}
    BY <2>1, SMT DEF Somewhere, Unique, StatesOfClaims
  <2>4. \A d \in CPU : picked[d] # x
    BY <2>1, SMT DEF Picked
  <2>5. \A h \in Handler : work[h] \in Task => work[h] # x
    BY <2>1, Members
  <2>6. UNCHANGED <<Queued, Idle, Trapped, Served, Picked, OnCPU>>
    BY <1>30, SameKinds, Zenon DEF wake
  <2>7. Claimed' = IF state[x] = "Blocked" THEN Claimed ELSE Claimed \ {x}
    BY <1>30, <2>1, <2>6, SMT DEF wake, Claimed
  <2>8. TypeOK'
    BY <1>30, SMT DEF wake, SetState, TypeOK, TaskState
  <2>9. ASSUME NEW d \in CPU PROVE Control(d)'
    BY <1>30, SMT DEF wake, Control
  <2>10. ASSUME NEW d \in CPU PROVE States(d)'
    BY <1>30, <2>3, <2>4, <2>5, SMT DEF wake, SetState, Control, States, TypeOK
  <2>11. StatesOfClaims'
    BY <1>30, <2>1, <2>5, <2>6, SMT DEF wake, SetState, TypeOK, StatesOfClaims
  <2>12. Unique'
    BY <1>30, SMT DEF wake, Unique
  <2>13. Disjoint'
    BY <1>30, <2>6, SMT DEF wake, Disjoint
  <2>14. Somewhere'
    <3>1. \A y \in All : y \in absent' <=> y \notin Claimed' /\ y \notin OnCPU'
      BY <1>30, <2>1, <2>2, <2>6, <2>7, SMT DEF wake, Somewhere
    <3>2. ASSUME NEW d \in CPU
          PROVE  /\ current'[d] \in Claimed' => state'[current'[d]] = "Blocking"
                 /\ pc'[d] \in {"leave", "phase2", "panic"} /\ state'[current'[d]] = "Blocking"
                       => current'[d] \in Claimed'
                 /\ pc'[d] = "pool" => current'[d] \notin Claimed'
                 /\ pc'[d] = "panic" => current'[d] \in Idle' \cup Picked'
      <4>1. CASE current[d] = x
        BY <1>30, <2>6, <2>7, SMT DEF wake, SetState, TypeOK, Somewhere
      <4>2. CASE current[d] # x
        BY <1>30, <2>6, <2>7, <4>2, SMT DEF wake, SetState, Somewhere
      <4> QED
        BY <4>1, <4>2
    <3> QED
      BY <3>1, <3>2 DEF Somewhere
  <2> QED
    BY <2>8, <2>9, <2>10, <2>11, <2>12, <2>13, <2>14
<1>31. ASSUME NEW x \in All, push_woken(x) PROVE Inv'
  <2>1. /\ x \in Claimed
        /\ x \notin Queued \cup Idle \cup waiters \cup Trapped \cup Served \cup Picked
        /\ state[x] = "Ready"
    BY <1>31, SMT DEF push_woken, Claimed, Disjoint, StatesOfClaims
  <2>2. /\ ready' \in Seq(All)
        /\ Queued' = Queued \cup {x}
        /\ NoDuplicates(ready) /\ x \notin Queued => NoDuplicates(ready')
    BY <1>31, Enqueued, Zenon DEF push_woken
  <2>3. UNCHANGED <<Idle, Trapped, Served, Picked, OnCPU>>
    BY <1>31, SameKinds, Zenon DEF push_woken
  <2>4. Claimed' = Claimed
    BY <1>31, <2>2, <2>3, SMT DEF push_woken, Claimed
  <2>5. TypeOK'
    BY <1>31, SMT DEF push_woken, TypeOK
  <2>6. ASSUME NEW d \in CPU PROVE Control(d)'
    BY <1>31, SMT DEF push_woken, Control
  <2>7. ASSUME NEW d \in CPU PROVE States(d)'
    BY <1>31, SMT DEF push_woken, States
  <2>8. StatesOfClaims'
    BY <1>31, <2>2, <2>3, SMT DEF push_woken, StatesOfClaims
  <2>9. Unique'
    BY <1>31, <2>1, <2>2, SMT DEF push_woken, Unique
  <2>10. Disjoint'
    BY <1>31, <2>2, <2>3, SMT DEF push_woken, Disjoint
  <2>11. Somewhere'
    BY <1>31, <2>3, <2>4, SMT DEF push_woken, Somewhere
  <2> QED
    BY <2>5, <2>6, <2>7, <2>8, <2>9, <2>10, <2>11
<1>32. ASSUME NEW t \in Task, spawn(t) PROVE Inv'
  <2>1. /\ t \in absent /\ t \in All
        /\ t \notin Claimed
        /\ t \notin OnCPU
    BY <1>32, SMT DEF spawn, All, Somewhere
  <2>2. /\ saved[t]
        /\ \A d \in CPU : picked[d] # t /\ current[d] # t
        /\ \A h \in Handler : work[h] # t
    BY <2>1, Members, SMT DEF Claimed, StatesOfClaims
  <2>3. UNCHANGED <<Queued, Idle, Trapped, Served, Picked, OnCPU>>
    BY <1>32, SameKinds, Zenon DEF spawn
  <2>4. Claimed' = Claimed \cup {t}
    BY <1>32, <2>3, SMT DEF spawn, Claimed
  <2>5. TypeOK'
    BY <1>32, SMT DEF spawn, SetState, TypeOK, TaskState
  <2>6. ASSUME NEW d \in CPU PROVE Control(d)'
    BY <1>32, SMT DEF spawn, Control
  <2>7. ASSUME NEW d \in CPU PROVE States(d)'
    BY <1>32, <2>2, SMT DEF spawn, SetState, States, TypeOK
  <2>8. StatesOfClaims'
    <3>1. \A x \in Queued' \cup woken' : state'[x] = "Ready"
      BY <1>32, <2>3, SMT DEF spawn, SetState, StatesOfClaims, TypeOK
    <3>2. \A x \in Idle' \cup waiters' : state'[x] \in {"Blocked", "Blocking"}
      BY <1>32, <2>1, <2>3, SMT DEF spawn, SetState, StatesOfClaims, Claimed
    <3>3. \A x \in Trapped' : state'[x] = "Blocked"
      BY <1>32, <2>1, <2>3, SMT DEF spawn, SetState, StatesOfClaims, Claimed
    <3>4. ASSUME NEW g \in Handler, work'[g] \in Task
          PROVE  \/ state'[work'[g]] = "Blocked"
                 \/ \E d \in CPU :
                       current'[d] = g /\ pc'[d] \in {"settle", "push_task", "dealloc"}
      <4>1. /\ work[g] = work'[g]
            /\ state'[work'[g]] = state[work[g]]
        BY <1>32, <2>2, SMT DEF spawn, SetState
      <4>2. CASE state[work[g]] = "Blocked"
        BY <4>1, <4>2
      <4>3. CASE state[work[g]] # "Blocked"
        <5>1. PICK d \in CPU : current[d] = g /\ pc[d] \in {"settle", "push_task", "dealloc"}
          BY <3>4, <4>1, <4>3, Zenon DEF StatesOfClaims
        <5>2. current'[d] = current[d] /\ pc'[d] = pc[d]
          BY <1>32, SMT DEF spawn
        <5> QED
          BY <5>1, <5>2
      <4> QED
        BY <4>2, <4>3
    <3>5. ASSUME NEW x \in All, state'[x] = "Blocking"
          PROVE  \E d \in CPU :
                    current'[d] = x /\ pc'[d] \in {"leave", "phase2", "pool", "panic"}
      BY <1>32, <3>5, SMT DEF spawn, SetState, StatesOfClaims
    <3>6. \A g \in Handler : g \in Idle' \cup absent' => work'[g] = NoWork
      BY <1>32, <2>3, SMT DEF spawn, StatesOfClaims
    <3>7. \A x \in All : x \notin OnCPU' => saved'[x]
      BY <1>32, <2>3, SMT DEF spawn, StatesOfClaims
    <3>8. \A g \in Handler : state'[g] # "Exited"
      BY <1>32, SMT DEF spawn, SetState, StatesOfClaims
    <3> QED
      BY <3>1, <3>2, <3>3, <3>4, <3>5, <3>6, <3>7, <3>8, Zenon DEF StatesOfClaims
  <2>9. Unique'
    BY <1>32, SMT DEF spawn, Unique
  <2>10. Disjoint'
    BY <1>32, <2>1, <2>3, SMT DEF spawn, Disjoint, Claimed
  <2>11. Somewhere'
    BY <1>32, <2>2, <2>3, <2>4, SMT DEF spawn, SetState, Somewhere
  <2> QED
    BY <2>5, <2>6, <2>7, <2>8, <2>9, <2>10, <2>11
<1>33. ASSUME UNCHANGED vars PROVE Inv'
  <2>1. UNCHANGED <<Queued, Idle, Trapped, Served, Picked, OnCPU>>
    BY <1>33, SameKinds, Zenon DEF vars
  <2>2. UNCHANGED Claimed
    BY <1>33, <2>1, Zenon DEF vars, Claimed
  <2> QED
    BY <1>33, <2>1, <2>2, SMT
       DEF vars, TypeOK, Control, States, StatesOfClaims, Unique, Disjoint, Somewhere
<1> QED
  BY <1>1, <1>2, <1>3, <1>4, <1>5, <1>6, <1>7, <1>8, <1>9, <1>10, <1>11, <1>12, <1>13, <1>14,
     <1>15, <1>16, <1>17, <1>18, <1>19, <1>20, <1>21, <1>22, <1>23, <1>24, <1>25, <1>26, <1>27,
     <1>28, <1>29, <1>30, <1>31, <1>32, <1>33, Zenon DEF Next, Step, Choice

-----------------------------------------------------------------------------
(* Theorems.                                                               *)

\* So the invariant holds in every reachable state.
LEMMA Invariance == Spec => []Inv
BY InitInv, StepInv, PTL DEF Spec

\* The state keeps its shape (interface.rs:205-248,
\* trap_wait_queue.rs:35-60).
THEOREM TypeCorrect == Spec => []TypeOK
<1>1. Inv => TypeOK
  BY Zenon DEF Inv
<1> QED
  BY <1>1, Invariance, PTL

\* No CPU resumes a task whose context another one has not saved yet:
\* Blocking and the busy wait of take_task see to that, for any number of
\* CPUs and handlers (interface.rs:238-247, trap_wait_queue.rs:264-275).
THEOREM NobodyResumedUnsaved == Spec => []ResumedOnlyWhenSaved
<1>1. ASSUME Inv, NEW c \in CPU, pc[c] = "resume" PROVE saved[picked[c]]
  <2>1. picked[c] \in All /\ state[picked[c]] = "Ready"
    BY <1>1, SMT DEF Inv, TypeOK, States
  <2>2. picked[c] \notin OnCPU
    BY <1>1, <2>1, InPicked
  <2> QED
    BY <1>1, <2>1, <2>2, Zenon DEF Inv, StatesOfClaims
<1>2. Inv => ResumedOnlyWhenSaved
  BY <1>1, Zenon DEF ResumedOnlyWhenSaved
<1> QED
  BY <1>2, Invariance, PTL

-----------------------------------------------------------------------------
(* From Unique and Disjoint to the numbers that HeldOnce counts.           *)

\* Where any two elements are equal there is at most one.
LEMMA AtMostOne ==
    ASSUME NEW S, \A x, y \in S : x = y
    PROVE  Cardinality(S) <= 1
<1>1. CASE S = {}
  BY <1>1, FS_EmptySet, SMT
<1>2. CASE S # {}
  <2>1. PICK x \in S : TRUE
    BY <1>2
  <2>2. S = {x}
    BY <2>1
  <2> QED
    BY <2>2, FS_Singleton, SMT
<1> QED
  BY <1>1, <1>2

\* What HeldOnce counts as claims is one if the task is in a claimed set,
\* none otherwise.
LEMMA OneClaim ==
    ASSUME Inv, NEW x \in All
    PROVE  /\ Claims(x) = {} <=> x \notin Claimed
           /\ \A a, b \in Claims(x) : a = b
<1> USE SetAssumption
<1> USE DEF Inv
<1> DEFINE R == {<<"ready", i>> : i \in {j \in DOMAIN ready : ready[j] = x}}
           I == {<<"idle", i>> : i \in {j \in DOMAIN idle : idle[j] = x}}
           W == {<<"waits", y>> : y \in waiters \cap {x}}
           K == {<<"woken", y>> : y \in woken \cap {x}}
           T == {<<"trapped", c>> : c \in {d \in CPU : x \in RangeOf(traps[d])}}
           S == {<<"served", h>> : h \in {g \in Handler : work[g] = x}}
           P == {<<"picked", c>> : c \in {d \in CPU : picked[d] = x}}
<1>1. Claims(x) = R \cup I \cup W \cup K \cup T \cup S \cup P
  BY Zenon DEF Claims
<1>2. (R = {} <=> x \notin Queued) /\ (\A a, b \in R : a = b)
  <2>1. \A i : i \in DOMAIN ready <=> i \in 1 .. Len(ready)
    BY SMT
  <2>2. R = {} <=> x \notin Queued
    BY <2>1, Zenon DEF Queued, RangeOf
  <2>3. \A i, j \in DOMAIN ready : ready[i] = x /\ ready[j] = x => i = j
    BY <2>1, Zenon DEF Unique, NoDuplicates
  <2> QED
    BY <2>2, <2>3, SMT
<1>3. (I = {} <=> x \notin Idle) /\ (\A a, b \in I : a = b)
  <2>1. \A i : i \in DOMAIN idle <=> i \in 1 .. Len(idle)
    BY SMT
  <2>2. I = {} <=> x \notin Idle
    BY <2>1, Zenon DEF Idle, RangeOf
  <2>3. \A i, j \in DOMAIN idle : idle[i] = x /\ idle[j] = x => i = j
    BY <2>1, Zenon DEF Unique, NoDuplicates
  <2> QED
    BY <2>2, <2>3, SMT
<1>4. (W = {} <=> x \notin waiters) /\ (\A a, b \in W : a = b)
  BY Zenon
<1>5. (K = {} <=> x \notin woken) /\ (\A a, b \in K : a = b)
  BY Zenon
<1>6. (T = {} <=> x \notin Trapped) /\ (\A a, b \in T : a = b)
  <2>1. ASSUME NEW d \in CPU, x \in RangeOf(traps[d]) PROVE x \in Task
    <3>1. traps[d] \in Seq(Task \cup {NoTask})
      BY DEF TypeOK
    <3>2. x # NoTask
      BY DEF All
    <3> QED
      BY <2>1, <3>1, <3>2, SMT DEF RangeOf
  <2>2. T = {} <=> x \notin Trapped
    BY <2>1, Zenon DEF Trapped
  <2>3. \A c, d \in CPU : x \in RangeOf(traps[c]) /\ x \in RangeOf(traps[d]) => c = d
    BY <2>1, Zenon DEF Unique
  <2> QED
    BY <2>2, <2>3, SMT
<1>7. (S = {} <=> x \notin Served) /\ (\A a, b \in S : a = b)
  <2>1. ASSUME NEW h \in Handler, work[h] = x PROVE x \in Task
    <3>1. work[h] \in Task \cup {NoTask, NoWork}
      BY DEF TypeOK
    <3> QED
      BY <2>1, <3>1 DEF All
  <2>2. S = {} <=> x \notin Served
    <3>1. S = {} <=> \A h \in Handler : work[h] # x
      BY Zenon
    <3>2. x \in Served <=> \E h \in Handler : work[h] = x
      BY <2>1, Zenon DEF Served
    <3> QED
      BY <3>1, <3>2, Zenon
  <2>3. \A g, h \in Handler : work[g] = x /\ work[h] = x => g = h
    BY <2>1, Zenon DEF Unique
  <2> QED
    BY <2>2, <2>3, SMT
<1>8. (P = {} <=> x \notin Picked) /\ (\A a, b \in P : a = b)
  <2>1. P = {} <=> x \notin Picked
    BY Zenon DEF Picked
  <2>2. \A c, d \in CPU : picked[c] = x /\ picked[d] = x => c = d
    BY Zenon DEF Unique
  <2> QED
    BY <2>1, <2>2, SMT
<1> HIDE DEF R, I, W, K, T, S, P
<1>9. Claims(x) = {} <=> x \notin Claimed
  BY <1>1, <1>2, <1>3, <1>4, <1>5, <1>6, <1>7, <1>8, Zenon DEF Claimed
<1>10. ASSUME NEW a \in Claims(x), NEW b \in Claims(x) PROVE a = b
  <2>1. \A y \in {a, b} :
           /\ y \in R => x \in Queued
           /\ y \in I => x \in Idle
           /\ y \in W => x \in waiters
           /\ y \in K => x \in woken
           /\ y \in T => x \in Trapped
           /\ y \in S => x \in Served
           /\ y \in P => x \in Picked
    BY <1>2, <1>3, <1>4, <1>5, <1>6, <1>7, <1>8, Zenon
  <2>2. \A y \in {a, b} :
           y \in R \/ y \in I \/ y \in W \/ y \in K \/ y \in T \/ y \in S \/ y \in P
    BY <1>1, Zenon
  <2>3. /\ x \in Queued
              => x \notin Idle \cup waiters \cup woken \cup Trapped \cup Served \cup Picked
        /\ x \in Idle => x \notin waiters \cup woken \cup Trapped \cup Served \cup Picked
        /\ x \in waiters => x \notin woken \cup Trapped \cup Served \cup Picked
        /\ x \in woken => x \notin Trapped \cup Served \cup Picked
        /\ x \in Trapped => x \notin Served \cup Picked
        /\ x \in Served => x \notin Picked
    BY DEF Disjoint
  <2>4. \/ a \in R /\ b \in R
        \/ a \in I /\ b \in I
        \/ a \in W /\ b \in W
        \/ a \in K /\ b \in K
        \/ a \in T /\ b \in T
        \/ a \in S /\ b \in S
        \/ a \in P /\ b \in P
    BY <2>1, <2>2, <2>3, SMT
  <2> QED
    BY <1>2, <1>3, <1>4, <1>5, <1>6, <1>7, <1>8, <2>4, Zenon
<1> QED
  BY <1>9, <1>10

\* No task or handler is lost and none can be resumed twice, whatever the
\* order of a wake-up, a trap, the saving of a context and the search of the
\* pool (main_loop.rs:90-98, 176-184 and 277-315, trap_wait_queue.rs:108-143
\* and 189-230).
THEOREM EveryTaskHeldOnce == Spec => []HeldOnce
<1>1. ASSUME Inv, NEW x \in All
      PROVE  LET cpus == {c \in CPU : current[c] = x}
             IN  /\ Cardinality(Claims(x)) <= 1
                 /\ Cardinality(cpus) <= 1
                 /\ x \in absent <=> Claims(x) = {} /\ cpus = {}
                 /\ Claims(x) # {} /\ cpus # {} => state[x] = "Blocking"
  <2> DEFINE cpus == {c \in CPU : current[c] = x}
  <2>1. Cardinality(Claims(x)) <= 1
    BY <1>1, OneClaim, AtMostOne
  <2>2. \A c, d \in cpus : c = d
    BY <1>1, Zenon DEF Inv, Unique
  <2>3. cpus = {} <=> x \notin OnCPU
    BY Zenon DEF OnCPU
  <2>4. x \in absent <=> Claims(x) = {} /\ cpus = {}
    BY <1>1, <2>3, OneClaim, Zenon DEF Inv, Somewhere
  <2>5. Claims(x) # {} /\ cpus # {} => state[x] = "Blocking"
    <3>1. ASSUME NEW c \in CPU, current[c] = x, x \in Claimed PROVE state[x] = "Blocking"
      BY <1>1, <3>1, Zenon DEF Inv, Somewhere
    <3> QED
      BY <1>1, <3>1, OneClaim
  <2> HIDE DEF cpus
  <2>6. Cardinality(cpus) <= 1
    BY <2>2, AtMostOne
  <2> QED
    BY <2>1, <2>4, <2>5, <2>6 DEF cpus
<1>2. Inv => HeldOnce
  BY <1>1, Zenon DEF HeldOnce
<1> QED
  BY <1>2, Invariance, PTL

-----------------------------------------------------------------------------
(* The pool of handlers at its limit.                                      *)

\* A CPU panics only where it gives a handler back to a pool that is full.
PanicsOfTheFullPool ==
    \A c \in CPU : pc[c] # "panic" /\ pc'[c] = "panic" =>
        pc[c] = "pool" /\ Len(idle) >= TRAP_WAIT_QUEUE_SIZE

\* None of the other assertions and panics is ever reached, not even that of
\* a full trap queue: only the expect on the pool, which the TODO at
\* trap_wait_queue.rs:117 is about.
THEOREM OnlyTheFullPoolPanics == Spec => [][PanicsOfTheFullPool]_vars
<1> USE PoolAssumption
<1>1. ASSUME Inv, Next, NEW c \in CPU, pc[c] # "panic", pc'[c] = "panic"
      PROVE  pc[c] = "pool" /\ Len(idle) >= TRAP_WAIT_QUEUE_SIZE
  <2>1. TypeOK /\ StatesOfClaims /\ Control(c) /\ States(c)
    BY <1>1 DEF Inv
  <2>2. PICK d \in CPU : Step(d) \/ Choice(d)
    BY <1>1, Zenon DEF Next, wake, push_woken, spawn
  <2>3. \E to : pc' = [pc EXCEPT ![d] = to]
    BY <2>2, Zenon
       DEF Step, Choice, Goto, sync_trap, interrupt, set_blocking, set_ready, return_pending,
           handle_blocks, push_trap, preempt, leave, phase2, requeue, free, sched, take,
           take_new, spin, resume, take_trap, interrupt_done, task_done, settle, push_task,
           dealloc, reschedule_handler, pool
  <2>4. c = d /\ (Step(c) \/ Choice(c))
    BY <1>1, <2>2, <2>3, SMT
  <2>5. CASE sync_trap(c)
    BY <1>1, <2>1, <2>5, SMT DEF sync_trap, Goto, States
  <2>6. CASE push_trap(c)
    BY <1>1, <2>1, <2>6, SMT DEF push_trap, Goto, Control
  <2>7. CASE interrupt(c)
    BY <1>1, <2>1, <2>7, SMT DEF interrupt, Control
  <2>8. CASE preempt(c)
    BY <1>1, <2>1, <2>8, SMT DEF preempt, Goto, States
  <2>9. CASE phase2(c)
    BY <1>1, <2>1, <2>9, SMT DEF phase2, Goto, TypeOK, States, TaskState
  <2>10. CASE take(c)
    <3>1. Head(idle) \in Idle /\ Head(idle) \in All
      BY <2>1, <2>10, TailFacts, SMT DEF take, TypeOK, Idle, All
    <3>2. state[Head(idle)] \in {"Blocked", "Blocking"}
      BY <2>1, <3>1, Zenon DEF StatesOfClaims
    <3> QED
      BY <1>1, <2>10, <3>2, SMT DEF take, Goto
  <2>11. CASE resume(c)
    BY <1>1, <2>1, <2>11, SMT DEF resume, Goto, States
  <2>12. CASE settle(c)
    BY <1>1, <2>1, <2>12, SMT DEF settle, Goto, States
  <2>13. CASE pool(c)
    BY <1>1, <2>13, SMT DEF pool, Goto
  <2>14. CASE \/ set_blocking(c) \/ set_ready(c) \/ return_pending(c) \/ handle_blocks(c)
              \/ leave(c) \/ requeue(c) \/ free(c) \/ sched(c) \/ take_new(c) \/ spin(c)
              \/ take_trap(c) \/ interrupt_done(c) \/ task_done(c) \/ push_task(c) \/ dealloc(c)
              \/ reschedule_handler(c)
    BY <1>1, <2>1, <2>14, SMT
       DEF set_blocking, set_ready, return_pending, handle_blocks, leave, requeue, free, sched,
           take_new, spin, take_trap, interrupt_done, task_done, push_task, dealloc,
           reschedule_handler, Goto, TypeOK
  <2> QED
    BY <2>4, <2>5, <2>6, <2>7, <2>8, <2>9, <2>10, <2>11, <2>12, <2>13, <2>14, Zenon
       DEF Step, Choice
<1>2. Inv /\ [Next]_vars => [PanicsOfTheFullPool]_vars
  BY <1>1, Zenon DEF PanicsOfTheFullPool
<1> QED
  BY <1>2, Invariance, PTL DEF Spec

\* If there are never more handlers than the pool holds, 256 (build.rs:12),
\* nothing panics at all.
THEOREM NoPanicIfThePoolHolds ==
    IsFiniteSet(Handler) /\ Cardinality(Handler) <= TRAP_WAIT_QUEUE_SIZE
        => (Spec => []NoPanic)
<1> USE PoolAssumption
<1> SUFFICES ASSUME IsFiniteSet(Handler), Cardinality(Handler) <= TRAP_WAIT_QUEUE_SIZE
             PROVE  Spec => []NoPanic
  OBVIOUS
<1>1. ASSUME Inv, NEW c \in CPU, pc[c] = "pool"
      PROVE  Len(idle) < TRAP_WAIT_QUEUE_SIZE
  <2>1. current[c] \in Handler /\ current[c] \notin Idle
    BY <1>1, SMT DEF Inv, TypeOK, Somewhere, Claimed
  <2>2. idle \in [1 .. Len(idle) -> Handler \ {current[c]}]
    BY <1>1, <2>1, SMT DEF Inv, TypeOK, Idle, RangeOf
  <2>3. Cardinality(1 .. Len(idle)) = Len(idle) /\ IsFiniteSet(1 .. Len(idle))
    <3>1. 1 \in Int /\ Len(idle) \in Int
      BY SMT
    <3>2. /\ IsFiniteSet(1 .. Len(idle))
          /\ Cardinality(1 .. Len(idle)) = IF 1 > Len(idle) THEN 0 ELSE Len(idle) - 1 + 1
      BY <3>1, FS_Interval, Zenon
    <3> QED
      BY <3>2, SMT
  <2>4. /\ IsFiniteSet(Handler \ {current[c]})
        /\ Cardinality(Handler \ {current[c]}) = Cardinality(Handler) - 1
    BY <2>1, FS_RemoveElement
  <2>5. Cardinality(Handler) \in Nat
    BY FS_CardinalityType
  <2>6. SUFFICES ASSUME Len(idle) >= TRAP_WAIT_QUEUE_SIZE PROVE FALSE
    BY SMT
  <2>7. Cardinality(Handler \ {current[c]}) < Cardinality(1 .. Len(idle))
    BY <2>3, <2>4, <2>5, <2>6, SMT
  <2>8. \E i, j \in 1 .. Len(idle) : i # j /\ idle[i] = idle[j]
    <3> DEFINE S == 1 .. Len(idle)
               T == Handler \ {current[c]}
    <3>1. /\ idle \in [S -> T] /\ IsFiniteSet(S) /\ IsFiniteSet(T)
          /\ Cardinality(T) < Cardinality(S)
      BY <2>2, <2>3, <2>4, <2>7
    <3> HIDE DEF S, T
    <3>2. \E i, j \in S : i # j /\ idle[i] = idle[j]
      BY <3>1, FS_PigeonHole
    <3> QED
      BY <3>2 DEF S
  <2> QED
    BY <1>1, <2>8, Zenon DEF Inv, Unique, NoDuplicates
<1>2. Init => NoPanic
  BY SMT DEF Init, NoPanic
<1>3. Inv /\ NoPanic /\ [PanicsOfTheFullPool]_vars => NoPanic'
  <2>1. ASSUME Inv, NoPanic, PanicsOfTheFullPool, NEW c \in CPU PROVE pc'[c] # "panic"
    BY <1>1, <2>1, SMT DEF NoPanic, PanicsOfTheFullPool
  <2> QED
    BY <2>1, Zenon DEF NoPanic, vars
<1> QED
  BY <1>2, <1>3, Invariance, OnlyTheFullPoolPanics, PTL DEF Spec

=============================================================================
