-------------------------- MODULE ReadyQueue_proofs --------------------------
(***************************************************************************)
(* Proofs about ReadyQueue for any number of callers, tasks and levels and *)
(* any capacity.                                                           *)
(*                                                                         *)
(* First come lemmas about the queues, then one inductive invariant for    *)
(* each property, in the order in which they build on each other: the type *)
(* invariant, the bitmap, the places of the tasks, the order of the scan,  *)
(* the refinement of PriorityPool, which needs the last two, and at last   *)
(* what the bitmap and the returned priority say.                          *)
(***************************************************************************)
EXTENDS ReadyQueue, ReadyQueueOps_proofs

\* The part of TypeOK that is about the queues alone.
QueuesOK(qs) ==
    /\ qs \in [Level -> Seq(Task)]
    /\ \A p \in Level : Len(qs[p]) <= READY_QUEUE_SIZE
    /\ \A p \in Level : \A t \in InQueue(qs, p) : priority[t] = p

-----------------------------------------------------------------------------
\* push_back appends the task to the queue of its level, where there is room
\* for it (ready_queue.rs:60-62).
LEMMA PushBackLemma ==
    ASSUME NEW qs, QueuesOK(qs), NEW t \in Task, ~IsFull(qs, t)
    PROVE  /\ QueuesOK(PushBack(qs, t))
           /\ \A p \in Level :
                 InQueue(PushBack(qs, t), p) =
                     IF p = priority[t] THEN InQueue(qs, p) \cup {t} ELSE InQueue(qs, p)
           /\ Queued(PushBack(qs, t)) = Queued(qs) \cup {t}
           /\ Occupied(PushBack(qs, t)) = Occupied(qs) \cup {priority[t]}
<1> DEFINE p0 == priority[t]
           qs1 == PushBack(qs, t)
<1>0. p0 \in Level
  BY PriorityAssumption
<1>1. /\ qs1 \in [Level -> Seq(Task)]
      /\ qs1[p0] = Append(qs[p0], t)
      /\ \A p \in Level \ {p0} : qs1[p] = qs[p]
  BY <1>0, SMT DEF PushBack, QueuesOK
<1>2. Len(qs1[p0]) = Len(qs[p0]) + 1 /\ Len(qs1[p0]) <= READY_QUEUE_SIZE
  BY <1>0, <1>1, CapacityAssumption, SMT DEF IsFull, QueuesOK
<1>3. InQueue(qs1, p0) = InQueue(qs, p0) \cup {t}
  <2>1. \A i \in 1 .. Len(qs[p0]) : qs1[p0][i] = qs[p0][i]
    BY <1>0, <1>1, SMT DEF QueuesOK
  <2>2. qs1[p0][Len(qs[p0]) + 1] = t
    BY <1>0, <1>1, SMT DEF QueuesOK
  <2>3. Len(qs[p0]) \in Nat
    BY <1>0, SMT DEF QueuesOK
  <2>4. InQueue(qs, p0) \subseteq InQueue(qs1, p0)
    BY <1>2, <2>1, <2>3, SMT DEF InQueue
  <2>5. t \in InQueue(qs1, p0)
    BY <1>2, <2>2, <2>3, SMT DEF InQueue
  <2>6. ASSUME NEW x \in InQueue(qs1, p0)
        PROVE  x \in InQueue(qs, p0) \cup {t}
    <3>1. PICK i \in 1 .. Len(qs1[p0]) : x = qs1[p0][i]
      BY <2>6 DEF InQueue
    <3>2. i \in 1 .. Len(qs[p0]) \/ i = Len(qs[p0]) + 1
      BY <1>2, <2>3, <3>1, SMT
    <3> QED
      BY <2>1, <2>2, <3>1, <3>2 DEF InQueue
  <2> QED
    BY <2>4, <2>5, <2>6
<1>4. \A p \in Level \ {p0} : InQueue(qs1, p) = InQueue(qs, p)
  BY <1>1 DEF InQueue
<1>5. QueuesOK(qs1)
  BY <1>0, <1>1, <1>2, <1>3, <1>4 DEF QueuesOK
<1>6. Queued(qs1) = Queued(qs) \cup {t}
  BY <1>0, <1>3, <1>4 DEF Queued
<1>7. Occupied(qs1) = Occupied(qs) \cup {p0}
  <2>1. qs1[p0] # <<>>
    BY <1>0, <1>1, <1>2, SMT DEF QueuesOK
  <2> QED
    BY <1>0, <1>1, <2>1 DEF Occupied
<1> QED
  BY <1>3, <1>4, <1>5, <1>6, <1>7

\* pop_front removes the oldest task of its level (ready_queue.rs:80-82).
LEMMA PopFrontLemma ==
    ASSUME NEW qs, QueuesOK(qs), NEW p0 \in Level, qs[p0] # <<>>
    PROVE  /\ QueuesOK(PopFront(qs, p0))
           /\ Head(qs[p0]) \in Task
           /\ priority[Head(qs[p0])] = p0
           /\ Head(qs[p0]) \in Queued(qs)
           /\ Queued(qs) = Queued(PopFront(qs, p0)) \cup {Head(qs[p0])}
           /\ Occupied(PopFront(qs, p0)) \subseteq Occupied(qs)
<1> DEFINE qs1 == PopFront(qs, p0)
           h == Head(qs[p0])
<1>1. /\ qs1 \in [Level -> Seq(Task)]
      /\ qs1[p0] = Tail(qs[p0])
      /\ \A p \in Level \ {p0} : qs1[p] = qs[p]
  BY SMT DEF PopFront, QueuesOK
<1>2. /\ Len(qs[p0]) \in Nat \ {0}
      /\ Len(qs1[p0]) = Len(qs[p0]) - 1
      /\ h = qs[p0][1]
      /\ \A i \in 1 .. Len(qs1[p0]) : qs1[p0][i] = qs[p0][i + 1]
  BY <1>1, SMT DEF QueuesOK
<1>3. InQueue(qs, p0) = InQueue(qs1, p0) \cup {h}
  <2>1. ASSUME NEW x \in InQueue(qs, p0)
        PROVE  x \in InQueue(qs1, p0) \cup {h}
    <3>1. PICK i \in 1 .. Len(qs[p0]) : x = qs[p0][i]
      BY <2>1 DEF InQueue
    <3>2. CASE i = 1
      BY <3>1, <3>2, <1>2
    <3>3. CASE i # 1
      <4>1. i - 1 \in 1 .. Len(qs1[p0]) /\ qs1[p0][i - 1] = qs[p0][i]
        BY <3>3, <1>2, SMT
      <4> QED
        BY <3>1, <4>1 DEF InQueue
    <3> QED
      BY <3>2, <3>3
  <2>2. ASSUME NEW x \in InQueue(qs1, p0)
        PROVE  x \in InQueue(qs, p0)
    <3>1. PICK i \in 1 .. Len(qs1[p0]) : x = qs1[p0][i]
      BY <2>2 DEF InQueue
    <3>2. i + 1 \in 1 .. Len(qs[p0]) /\ qs[p0][i + 1] = x
      BY <3>1, <1>2, SMT
    <3> QED
      BY <3>2 DEF InQueue
  <2>3. h \in InQueue(qs, p0)
    BY <1>2, SMT DEF InQueue
  <2> QED
    BY <2>1, <2>2, <2>3
<1>4. \A p \in Level \ {p0} : InQueue(qs1, p) = InQueue(qs, p)
  BY <1>1 DEF InQueue
<1>5. h \in Task /\ priority[h] = p0
  <2>1. h \in Task
    BY SMT DEF QueuesOK
  <2>2. h \in InQueue(qs, p0)
    BY <1>3
  <2> QED
    BY <2>1, <2>2 DEF QueuesOK
<1>6. Len(qs1[p0]) <= READY_QUEUE_SIZE
  BY <1>2, CapacityAssumption, SMT DEF QueuesOK
<1>7. QueuesOK(qs1)
  BY <1>1, <1>3, <1>4, <1>6 DEF QueuesOK
<1>8. Queued(qs) = Queued(qs1) \cup {h}
  BY <1>3, <1>4 DEF Queued
<1>9. Occupied(qs1) \subseteq Occupied(qs)
  BY <1>1 DEF Occupied
<1> QED
  BY <1>5, <1>7, <1>8, <1>9

\* A queued task is in the queue of its own level.
LEMMA QueuedLevel ==
    ASSUME NEW qs, QueuesOK(qs), NEW t \in Queued(qs)
    PROVE  t \in Task /\ priority[t] \in Level /\ qs[priority[t]] # <<>>
<1>1. PICK p \in Level : t \in InQueue(qs, p)
  BY DEF Queued
<1>2. t \in Task /\ priority[t] = p
  BY <1>1, SMT DEF QueuesOK, InQueue
<1>3. qs[p] # <<>>
  BY <1>1, SMT DEF QueuesOK, InQueue
<1> QED
  BY <1>1, <1>2, <1>3

-----------------------------------------------------------------------------
\* The queues are bounded and hold tasks of their own level, and a caller that
\* is pushing or has popped holds a task, whatever the callers do
\* (ready_queue.rs:28-37, 54-119).
THEOREM TypeCorrect == Spec => []TypeOK
<1>1. Init => TypeOK
  <2> SUFFICES ASSUME Init PROVE TypeOK
    OBVIOUS
  <2>1. QueuesOK(queues)
    BY CapacityAssumption, SMT DEF Init, EmptyQueues, QueuesOK, InQueue
  <2> QED
    BY <2>1, LevelFacts DEF Init, TypeOK, QueuesOK, PC
<1>2. TypeOK /\ [Next]_vars => TypeOK'
  <2> SUFFICES ASSUME TypeOK, [Next]_vars PROVE TypeOK'
    OBVIOUS
  <2> USE DEF TypeOK, PC, Goto
  <2>0. QueuesOK(queues)
    BY DEF QueuesOK
  <2>1. ASSUME NEW c \in CPU, NEW t \in Task, push_back(c, t) PROVE TypeOK'
    <3>1. QueuesOK(queues')
      BY <2>0, <2>1, PushBackLemma DEF push_back
    <3> QED
      BY <2>1, <3>1 DEF push_back, QueuesOK
  <2>2. ASSUME NEW c \in CPU, NEW t \in Task, push_full(c, t) PROVE TypeOK'
    BY <2>2 DEF push_full
  <2>3. ASSUME NEW c \in CPU, mark(c) PROVE TypeOK'
    BY <2>3, PriorityAssumption DEF mark, SetBit
  <2>4. ASSUME NEW c \in CPU, hightest_priority(c) PROVE TypeOK'
    BY <2>4, HighestLemma DEF hightest_priority
  <2>5. ASSUME NEW c \in CPU, take_begin(c) PROVE TypeOK'
    <3>1. Queued(queues) \subseteq Task
      BY <2>0, QueuedLevel
    <3> QED
      BY <2>5, <3>1, LevelFacts DEF take_begin
  <2>6. ASSUME NEW c \in CPU, scan_empty(c) PROVE TypeOK'
    BY <2>6, LevelFacts DEF scan_empty
  <2>7. ASSUME NEW c \in CPU, scan_pop(c) PROVE TypeOK'
    <3>1. QueuesOK(queues') /\ Head(queues[prio[c]]) \in Task
      BY <2>0, <2>7, PopFrontLemma DEF scan_pop
    <3> QED
      BY <2>7, <3>1 DEF scan_pop, QueuesOK
  <2>8. ASSUME NEW c \in CPU, scan_none(c) PROVE TypeOK'
    BY <2>8 DEF scan_none
  <2>9. ASSUME NEW c \in CPU, settle(c) PROVE TypeOK'
    <3>1. prio[c] \in Level /\ Highest(prio_bitmap) \in Level \cup {NoPriority}
      BY <2>9, HighestLemma DEF settle
    <3>2. ret'[c] \in Level \cup {NoPriority}
      BY <2>9, <3>1 DEF settle, NextPrio
    <3> QED
      BY <2>9, <3>2 DEF settle, Settle
  <2>10. CASE UNCHANGED vars
    BY <2>10 DEF vars
  <2> QED
    BY <2>1, <2>2, <2>3, <2>4, <2>5, <2>6, <2>7, <2>8, <2>9, <2>10 DEF Next
<1> QED
  BY <1>1, <1>2, PTL DEF Spec

-----------------------------------------------------------------------------
\* No task becomes invisible to hightest_priority: the bit of a level is
\* cleared only while the level is empty, and set again by whoever fills it
\* (ready_queue.rs:61-64 and 85-108).
THEOREM BitmapCovers == Spec => []BitCoversQueue
<1>1. Init => BitCoversQueue
  BY DEF Init, BitCoversQueue, EmptyQueues, Occupied
<1>2. TypeOK /\ BitCoversQueue /\ [Next]_vars => BitCoversQueue'
  <2> SUFFICES ASSUME TypeOK, BitCoversQueue, [Next]_vars PROVE BitCoversQueue'
    OBVIOUS
  <2> USE DEF Goto
  <2>0. QueuesOK(queues)
    BY DEF TypeOK, QueuesOK
  <2>1. ASSUME NEW c \in CPU, NEW t \in Task, push_back(c, t) PROVE BitCoversQueue'
    <3>1. Occupied(queues') = Occupied(queues) \cup {priority[t]}
      BY <2>0, <2>1, PushBackLemma DEF push_back
    <3>2. pc'[c] = "mark" /\ task'[c] = t
      BY <2>1 DEF push_back, TypeOK
    <3>3. \A d \in CPU : pc[d] = "mark" => pc'[d] = "mark" /\ task'[d] = task[d]
      BY <2>1 DEF push_back, TypeOK
    <3> QED
      BY <2>1, <3>1, <3>2, <3>3 DEF push_back, BitCoversQueue
  <2>2. ASSUME NEW c \in CPU, mark(c) PROVE BitCoversQueue'
    <3>1. \A d \in CPU \ {c} : pc'[d] = pc[d] /\ task'[d] = task[d]
      BY <2>2 DEF mark, TypeOK
    <3> QED
      BY <2>2, <3>1 DEF mark, SetBit, BitCoversQueue, Occupied
  <2>3. ASSUME NEW c \in CPU, scan_pop(c) PROVE BitCoversQueue'
    <3>1. Occupied(queues') \subseteq Occupied(queues)
      BY <2>0, <2>3, PopFrontLemma DEF scan_pop
    <3>2. \A d \in CPU : pc[d] = "mark" => pc'[d] = "mark" /\ task'[d] = task[d]
      BY <2>3 DEF scan_pop, TypeOK
    <3> QED
      BY <2>3, <3>1, <3>2 DEF scan_pop, BitCoversQueue
  <2>4. ASSUME NEW c \in CPU, settle(c) PROVE BitCoversQueue'
    <3>1. \A p \in Occupied(queues) : p \in prio_bitmap => p \in prio_bitmap'
      BY <2>4 DEF settle, Settle, Occupied
    <3>2. \A d \in CPU : pc[d] = "mark" => pc'[d] = "mark" /\ task'[d] = task[d]
      BY <2>4 DEF settle, TypeOK
    <3> QED
      BY <2>4, <3>1, <3>2 DEF settle, BitCoversQueue, Occupied
  <2>5. ASSUME NEW c \in CPU,
               \/ \E t \in Task : push_full(c, t)
               \/ hightest_priority(c)
               \/ take_begin(c)
               \/ scan_empty(c)
               \/ scan_none(c)
        PROVE  BitCoversQueue'
    <3>1. UNCHANGED <<queues, prio_bitmap, task>>
      BY <2>5 DEF push_full, hightest_priority, take_begin, scan_empty, scan_none
    <3>2. \A d \in CPU : pc[d] = "mark" => pc'[d] = "mark"
      BY <2>5 DEF push_full, hightest_priority, take_begin, scan_empty, scan_none, TypeOK
    <3> QED
      BY <3>1, <3>2 DEF BitCoversQueue, Occupied
  <2>6. CASE UNCHANGED vars
    BY <2>6 DEF vars, BitCoversQueue, Occupied
  <2> QED
    BY <2>1, <2>2, <2>3, <2>4, <2>5, <2>6 DEF Next
<1> QED
  BY <1>1, <1>2, TypeCorrect, PTL DEF Spec

-----------------------------------------------------------------------------
\* No task is queued twice.
Distinct(qs) ==
    \A p \in Level : \A i, j \in 1 .. Len(qs[p]) : qs[p][i] = qs[p][j] => i = j

LEMMA PushBackDistinct ==
    ASSUME NEW qs, QueuesOK(qs), Distinct(qs),
           NEW t \in Task, t \notin Queued(qs)
    PROVE  Distinct(PushBack(qs, t))
<1> DEFINE p0 == priority[t]
           qs1 == PushBack(qs, t)
<1>0. p0 \in Level
  BY PriorityAssumption
<1>1. qs1[p0] = Append(qs[p0], t) /\ \A p \in Level \ {p0} : qs1[p] = qs[p]
  BY <1>0, SMT DEF PushBack, QueuesOK
<1>2. /\ Len(qs[p0]) \in Nat
      /\ Len(qs1[p0]) = Len(qs[p0]) + 1
      /\ qs1[p0][Len(qs[p0]) + 1] = t
      /\ \A i \in 1 .. Len(qs[p0]) : qs1[p0][i] = qs[p0][i]
  BY <1>0, <1>1, SMT DEF QueuesOK
<1>3. \A i \in 1 .. Len(qs[p0]) : qs[p0][i] # t
  BY <1>0 DEF Queued, InQueue
<1>4. \A i, j \in 1 .. Len(qs[p0]) : qs[p0][i] = qs[p0][j] => i = j
  BY <1>0 DEF Distinct
<1>5. \A i, j \in 1 .. Len(qs1[p0]) : qs1[p0][i] = qs1[p0][j] => i = j
  <2> TAKE i, j \in 1 .. Len(qs1[p0])
  <2> HAVE qs1[p0][i] = qs1[p0][j]
  <2>1. /\ i \in 1 .. Len(qs[p0]) \/ i = Len(qs[p0]) + 1
        /\ j \in 1 .. Len(qs[p0]) \/ j = Len(qs[p0]) + 1
    BY <1>2, SMT
  <2> QED
    BY <1>2, <1>3, <1>4, <2>1
<1> QED
  BY <1>1, <1>5 DEF Distinct

LEMMA PopFrontDistinct ==
    ASSUME NEW qs, QueuesOK(qs), Distinct(qs),
           NEW p0 \in Level, qs[p0] # <<>>
    PROVE  /\ Distinct(PopFront(qs, p0))
           /\ Head(qs[p0]) \notin Queued(PopFront(qs, p0))
<1> DEFINE qs1 == PopFront(qs, p0)
           h == Head(qs[p0])
<1>1. qs1[p0] = Tail(qs[p0]) /\ \A p \in Level \ {p0} : qs1[p] = qs[p]
  BY SMT DEF PopFront, QueuesOK
<1>2. /\ Len(qs[p0]) \in Nat \ {0}
      /\ Len(qs1[p0]) = Len(qs[p0]) - 1
      /\ h = qs[p0][1]
      /\ \A i \in 1 .. Len(qs1[p0]) : qs1[p0][i] = qs[p0][i + 1]
  BY <1>1, SMT DEF QueuesOK
<1>3. \A i, j \in 1 .. Len(qs[p0]) : qs[p0][i] = qs[p0][j] => i = j
  BY DEF Distinct
<1>4. \A i \in 1 .. Len(qs1[p0]) : i + 1 \in 1 .. Len(qs[p0]) /\ i + 1 # 1
  BY <1>2, SMT
<1>5. Distinct(qs1)
  <2>1. ASSUME NEW i \in 1 .. Len(qs1[p0]), NEW j \in 1 .. Len(qs1[p0]),
               qs1[p0][i] = qs1[p0][j]
        PROVE  i = j
    <3>1. i + 1 = j + 1
      BY <2>1, <1>2, <1>3, <1>4
    <3> QED
      BY <3>1, SMT
  <2> QED
    BY <1>1, <2>1, <1>3 DEF Distinct
<1>6. h \notin Queued(qs1)
  <2> SUFFICES ASSUME h \in Queued(qs1) PROVE FALSE
    OBVIOUS
  <2>1. QueuesOK(qs1) /\ priority[h] = p0
    BY PopFrontLemma
  <2>2. PICK p \in Level : h \in InQueue(qs1, p)
    BY DEF Queued
  <2>3. p = p0
    BY <2>1, <2>2 DEF QueuesOK
  <2>4. PICK i \in 1 .. Len(qs1[p0]) : qs1[p0][i] = h
    BY <2>2, <2>3 DEF InQueue
  <2>5. 1 \in 1 .. Len(qs[p0])
    BY <1>2, SMT
  <2>6. i + 1 = 1
    BY <1>2, <1>3, <1>4, <2>4, <2>5
  <2> QED
    BY <1>4, <2>6
<1> QED
  BY <1>5, <1>6

\* A pushed task is neither lost nor handed out twice, with any number of
\* callers pushing and taking at once (ready_queue.rs:54-119).
THEOREM TasksInOnePlace == Spec => []EveryTaskInOnePlace
<1>1. Init => EveryTaskInOnePlace
  <2> SUFFICES ASSUME Init PROVE EveryTaskInOnePlace
    OBVIOUS
  <2>1. \A p \in Level : queues[p] = <<>> /\ Len(queues[p]) = 0
    BY SMT DEF Init, EmptyQueues
  <2>2. Queued(queues) = {}
    BY <2>1, SMT DEF Queued, InQueue
  <2>3. Taken = {} /\ \A c \in CPU : pc[c] # "settle"
    BY DEF Init, Taken
  <2>4. \A p \in Level : \A i, j \in 1 .. Len(queues[p]) : i = j
    BY <2>1, SMT
  <2> QED
    BY <2>2, <2>3, <2>4 DEF Init, EveryTaskInOnePlace
<1>2. TypeOK /\ EveryTaskInOnePlace /\ [Next]_vars => EveryTaskInOnePlace'
  <2> SUFFICES ASSUME TypeOK, EveryTaskInOnePlace, [Next]_vars
               PROVE  EveryTaskInOnePlace'
    OBVIOUS
  <2> USE DEF Goto
  <2>0. QueuesOK(queues) /\ Distinct(queues)
    BY DEF TypeOK, QueuesOK, EveryTaskInOnePlace, Distinct
  <2>1. ASSUME NEW c \in CPU, NEW t \in Task, push_back(c, t)
        PROVE  EveryTaskInOnePlace'
    <3>1. t \in outside /\ t \notin Queued(queues)
      BY <2>1 DEF push_back, EveryTaskInOnePlace
    <3>2. Queued(queues') = Queued(queues) \cup {t} /\ Distinct(queues')
      BY <2>0, <2>1, <3>1, PushBackLemma, PushBackDistinct DEF push_back
    <3>3. \A d \in CPU : /\ pc'[d] = "settle" <=> pc[d] = "settle"
                         /\ pc[d] = "settle" => task'[d] = task[d]
      BY <2>1 DEF push_back, TypeOK
    <3>4. Taken' = Taken
      BY <3>3 DEF Taken
    <3> QED
      BY <2>1, <3>1, <3>2, <3>3, <3>4 DEF push_back, EveryTaskInOnePlace, Distinct
  <2>2. ASSUME NEW c \in CPU, scan_pop(c) PROVE EveryTaskInOnePlace'
    <3> DEFINE h == Head(queues[prio[c]])
    <3>1. /\ h \in Queued(queues)
          /\ Queued(queues) = Queued(queues') \cup {h}
          /\ h \notin Queued(queues')
          /\ Distinct(queues')
      BY <2>0, <2>2, PopFrontLemma, PopFrontDistinct DEF scan_pop
    <3>2. /\ pc[c] = "scan" /\ pc'[c] = "settle" /\ task'[c] = h
          /\ \A d \in CPU \ {c} : pc'[d] = pc[d] /\ task'[d] = task[d]
      BY <2>2 DEF scan_pop, TypeOK
    <3>3. Taken' = Taken \cup {h}
      BY <3>2 DEF Taken
    <3>4. h \notin Taken /\ h \notin outside
      BY <3>1 DEF EveryTaskInOnePlace
    <3>5. \A d \in CPU : pc[d] = "settle" => task[d] # h
      BY <3>4 DEF Taken
    <3>6. \A d, e \in CPU :
             pc'[d] = "settle" /\ pc'[e] = "settle" /\ task'[d] = task'[e] => d = e
      BY <3>2, <3>5 DEF EveryTaskInOnePlace
    <3> QED
      BY <2>2, <3>1, <3>3, <3>4, <3>6 DEF scan_pop, EveryTaskInOnePlace, Distinct
  <2>3. ASSUME NEW c \in CPU, settle(c) PROVE EveryTaskInOnePlace'
    <3>1. /\ pc[c] = "settle" /\ pc'[c] = "idle"
          /\ \A d \in CPU \ {c} : pc'[d] = pc[d] /\ task'[d] = task[d]
      BY <2>3 DEF settle, TypeOK
    <3>2. task[c] \in Taken
      BY <3>1 DEF Taken
    <3>3. \A d \in CPU \ {c} : pc[d] = "settle" => task[d] # task[c]
      BY <3>1 DEF EveryTaskInOnePlace
    <3>4. Taken' = Taken \ {task[c]}
      BY <3>1, <3>3 DEF Taken
    <3>5. \A d, e \in CPU :
             pc'[d] = "settle" /\ pc'[e] = "settle" /\ task'[d] = task'[e] => d = e
      BY <3>1 DEF EveryTaskInOnePlace
    <3>6. queues' = queues /\ outside' = outside \cup {task[c]}
      BY <2>3 DEF settle
    <3> QED
      BY <3>2, <3>4, <3>5, <3>6 DEF EveryTaskInOnePlace
  <2>4. ASSUME NEW c \in CPU,
               \/ \E t \in Task : push_full(c, t)
               \/ mark(c)
               \/ hightest_priority(c)
               \/ take_begin(c)
               \/ scan_empty(c)
               \/ scan_none(c)
        PROVE  EveryTaskInOnePlace'
    <3>1. UNCHANGED <<queues, outside>>
      BY <2>4 DEF push_full, mark, hightest_priority, take_begin, scan_empty, scan_none
    <3>2. \A d \in CPU : /\ pc'[d] = "settle" <=> pc[d] = "settle"
                         /\ pc[d] = "settle" => task'[d] = task[d]
      BY <2>4 DEF push_full, mark, hightest_priority, take_begin, scan_empty,
                  scan_none, TypeOK
    <3>3. Taken' = Taken
      BY <3>2 DEF Taken
    <3> QED
      BY <3>1, <3>2, <3>3 DEF EveryTaskInOnePlace
  <2>5. CASE UNCHANGED vars
    BY <2>5 DEF vars, EveryTaskInOnePlace, Taken
  <2> QED
    BY <2>1, <2>2, <2>3, <2>4, <2>5 DEF Next
<1> QED
  BY <1>1, <1>2, TypeCorrect, PTL DEF Spec

-----------------------------------------------------------------------------
\* The history variable means what its comment says, and so the scan has only
\* passed levels that no task of it can be on.
ScanInv ==
    \A c \in CPU :
        /\ waiting[c] \subseteq Queued(queues)
        /\ pc[c] \in {"scan", "settle"} => \A t \in waiting[c] : priority[t] >= prio[c]

LEMMA ScanInvariant == Spec => []ScanInv
<1>1. Init => ScanInv
  BY DEF Init, ScanInv
<1>2. TypeOK /\ ScanInv /\ [Next]_vars => ScanInv'
  <2> SUFFICES ASSUME TypeOK, ScanInv, [Next]_vars PROVE ScanInv'
    OBVIOUS
  <2> USE DEF Goto
  <2>0. QueuesOK(queues)
    BY DEF TypeOK, QueuesOK
  <2>1. ASSUME NEW c \in CPU, NEW t \in Task, push_back(c, t) PROVE ScanInv'
    <3>1. Queued(queues) \subseteq Queued(queues')
      BY <2>0, <2>1, PushBackLemma DEF push_back
    <3>2. UNCHANGED <<prio, waiting>>
          /\ \A d \in CPU : pc'[d] \in {"scan", "settle"} => pc'[d] = pc[d]
      BY <2>1 DEF push_back, TypeOK
    <3> QED
      BY <3>1, <3>2 DEF ScanInv
  <2>2. ASSUME NEW c \in CPU, take_begin(c) PROVE ScanInv'
    <3>1. /\ waiting'[c] = Queued(queues) /\ prio'[c] = HIGHEST_PRIORITY
          /\ \A d \in CPU \ {c} : /\ pc'[d] = pc[d] /\ prio'[d] = prio[d]
                                   /\ waiting'[d] = waiting[d]
          /\ queues' = queues
      BY <2>2 DEF take_begin, TypeOK
    <3>2. \A t \in Queued(queues) : priority[t] \in Level
      BY <2>0, QueuedLevel
    <3>3. \A t \in Queued(queues) : priority[t] >= HIGHEST_PRIORITY
      BY <3>2, LevelAssumption, SMT DEF Level
    <3> QED
      BY <3>1, <3>3 DEF ScanInv
  <2>3. ASSUME NEW c \in CPU, scan_empty(c) PROVE ScanInv'
    <3>1. /\ pc[c] = "scan" /\ prio[c] \in Level /\ queues[prio[c]] = <<>>
          /\ prio'[c] = prio[c] + 1
          /\ \A d \in CPU \ {c} : prio'[d] = prio[d]
          /\ UNCHANGED <<pc, waiting, queues>>
      BY <2>3 DEF scan_empty, TypeOK
    <3>2. \A t \in waiting[c] :
             /\ priority[t] >= prio[c]
             /\ priority[t] \in Level
             /\ queues[priority[t]] # <<>>
      BY <2>0, <3>1, QueuedLevel DEF ScanInv
    <3>3. \A t \in waiting[c] : priority[t] # prio[c]
      BY <3>1, <3>2
    <3>4. \A t \in waiting[c] : priority[t] >= prio[c] + 1
      BY <3>1, <3>2, <3>3, LevelAssumption, SMT DEF Level
    <3> QED
      BY <3>1, <3>4 DEF ScanInv
  <2>4. ASSUME NEW c \in CPU, scan_pop(c) PROVE ScanInv'
    <3> DEFINE h == Head(queues[prio[c]])
    <3>1. Queued(queues) \ {h} \subseteq Queued(queues')
      BY <2>0, <2>4, PopFrontLemma DEF scan_pop
    <3>2. /\ \A d \in CPU : waiting'[d] = waiting[d] \ {h}
          /\ prio' = prio
          /\ \A d \in CPU : pc'[d] \in {"scan", "settle"} => pc[d] \in {"scan", "settle"}
      BY <2>4 DEF scan_pop, TypeOK
    <3> QED
      BY <3>1, <3>2 DEF ScanInv
  <2>5. ASSUME NEW c \in CPU,
               \/ \E t \in Task : push_full(c, t)
               \/ mark(c)
               \/ hightest_priority(c)
               \/ scan_none(c)
               \/ settle(c)
        PROVE  ScanInv'
    <3>1. UNCHANGED <<queues, prio, waiting>>
      BY <2>5 DEF push_full, mark, hightest_priority, scan_none, settle
    <3>2. \A d \in CPU : pc'[d] \in {"scan", "settle"} => pc'[d] = pc[d]
      BY <2>5 DEF push_full, mark, hightest_priority, scan_none, settle, TypeOK
    <3> QED
      BY <3>1, <3>2 DEF ScanInv
  <2>6. CASE UNCHANGED vars
    BY <2>6 DEF vars, ScanInv
  <2> QED
    BY <2>1, <2>2, <2>3, <2>4, <2>5, <2>6 DEF Next
<1> QED
  BY <1>1, <1>2, TypeCorrect, PTL DEF Spec

\* take_task never passes over a more urgent task that was queued during the
\* whole call, and finds nothing only if there was no such task
\* (ready_queue.rs:79-118).
THEOREM ScanOvertakesNobody == Spec => []NoOvertaking
<1>1. TypeOK /\ ScanInv => NoOvertaking
  <2> SUFFICES ASSUME TypeOK, ScanInv, NEW c \in CPU,
                      pc[c] = "scan", prio[c] = NoPriority,
                      NEW t \in waiting[c]
               PROVE  FALSE
    BY DEF NoOvertaking, ScanInv
  <2>1. QueuesOK(queues) /\ t \in Queued(queues) /\ priority[t] >= NoPriority
    BY DEF TypeOK, QueuesOK, ScanInv
  <2>2. priority[t] \in Level
    BY <2>1, QueuedLevel
  <2> QED
    BY <2>1, <2>2, LevelAssumption, SMT DEF Level, NoPriority
<1> QED
  BY <1>1, ScanInvariant, TypeCorrect, PTL

-----------------------------------------------------------------------------
\* ReadyQueue implements PriorityPool.  A pop is a Get because the scan
\* overtakes nobody, the return with the task is a Receive because the task
\* is nowhere else, and what happens on the bitmap stutters
\* (ready_queue.rs:54-119).
THEOREM QueueImplementsPool == Spec => ImplementsPool
<1>1. Init => Pool!Init
  <2>1. Init => {c \in CPU : pc[c] = "scan"} = {}
    BY DEF Init
  <2> QED
    BY <2>1 DEF Init, Pool!Init, Pool!EmptyQueues, Pool!Level, EmptyQueues, Level
<1>2. TypeOK /\ EveryTaskInOnePlace /\ NoOvertaking /\ [Next]_vars
      => [Pool!Next]_Pool!vars
  <2> SUFFICES ASSUME TypeOK, EveryTaskInOnePlace, NoOvertaking, [Next]_vars
               PROVE  Pool!Next \/ UNCHANGED Pool!vars
    BY DEF Pool!vars
  <2> USE DEF Goto
  <2> DEFINE getting == {c \in CPU : pc[c] = "scan"}
  <2>1. ASSUME NEW c \in CPU, NEW t \in Task, push_back(c, t) PROVE Pool!Put(t)
    <3>1. getting' = getting
      BY <2>1 DEF push_back, TypeOK
    <3> QED
      BY <2>1, <3>1 DEF push_back, Pool!Put, Pool!PushBack, PushBack
  <2>2. ASSUME NEW c \in CPU, take_begin(c) PROVE Pool!Begin(c)
    <3>1. c \notin getting /\ getting' = getting \cup {c}
      BY <2>2 DEF take_begin, TypeOK
    <3> QED
      BY <2>2, <3>1 DEF take_begin, Pool!Begin, Pool!Queued, Pool!InQueue, Pool!Level,
                        Queued, InQueue, Level
  <2>3. ASSUME NEW c \in CPU, scan_pop(c)
        PROVE  \E p \in Pool!Level : Pool!Get(c, p)
    <3>1. c \in getting /\ getting' = getting \ {c}
      BY <2>3 DEF scan_pop, TypeOK
    <3>2. \A t \in waiting[c] : priority[t] >= prio[c]
      BY <2>3 DEF scan_pop, NoOvertaking
    <3>3. PICK p \in Pool!Level : p = prio[c]
      BY <2>3 DEF scan_pop, Level, Pool!Level
    <3>4. Pool!Get(c, p)
      BY <2>3, <3>1, <3>2, <3>3 DEF scan_pop, Pool!Get, Pool!PopFront, PopFront
    <3> QED
      BY <3>4
  <2>4. ASSUME NEW c \in CPU, scan_none(c) PROVE Pool!GetNone(c)
    <3>1. c \in getting /\ getting' = getting \ {c}
      BY <2>4 DEF scan_none, TypeOK
    <3>2. waiting[c] = {}
      BY <2>4 DEF scan_none, NoOvertaking
    <3> QED
      BY <2>4, <3>1, <3>2 DEF scan_none, Pool!GetNone
  <2>5. ASSUME NEW c \in CPU, settle(c) PROVE task[c] \in Task /\ Pool!Receive(task[c])
    <3>1. getting' = getting
      BY <2>5 DEF settle, TypeOK
    <3>2. task[c] \in Task /\ task[c] \notin outside /\ task[c] \notin Queued(queues)
      BY <2>5 DEF settle, TypeOK, EveryTaskInOnePlace, Taken
    <3> QED
      BY <2>5, <3>1, <3>2 DEF settle, Pool!Receive, Pool!Queued, Pool!InQueue, Pool!Level,
                              Queued, InQueue, Level
  <2>6. ASSUME NEW c \in CPU,
               \/ \E t \in Task : push_full(c, t)
               \/ mark(c)
               \/ hightest_priority(c)
               \/ scan_empty(c)
        PROVE  UNCHANGED Pool!vars
    <3>1. getting' = getting
      BY <2>6 DEF push_full, mark, hightest_priority, scan_empty, TypeOK
    <3> QED
      BY <2>6, <3>1 DEF push_full, mark, hightest_priority, scan_empty, Pool!vars
  <2>7. CASE UNCHANGED vars
    BY <2>7 DEF vars, Pool!vars
  <2>8. CASE \E c \in CPU, t \in Task : push_back(c, t)
    BY <2>1, <2>8 DEF Pool!Next
  <2>9. CASE \E c \in CPU : take_begin(c) \/ scan_none(c)
    BY <2>2, <2>4, <2>9 DEF Pool!Next
  <2>10. CASE \E c \in CPU : scan_pop(c)
    BY <2>3, <2>10 DEF Pool!Next
  <2>11. CASE \E c \in CPU : settle(c)
    BY <2>5, <2>11 DEF Pool!Next
  <2> QED
    BY <2>6, <2>7, <2>8, <2>9, <2>10, <2>11 DEF Next
<1> QED
  BY <1>1, <1>2, TypeCorrect, TasksInOnePlace, ScanOvertakesNobody, PTL
  DEF Spec, ImplementsPool, Pool!Spec

-----------------------------------------------------------------------------
\* As long as nobody has popped a task whose pusher had not set its bit yet, a
\* pusher about to set a bit still finds its task in the queue, and a bit is
\* set for an empty level only while the last one to pop from the level has
\* not looked at it again.
UnracedInv ==
    ~raced =>
        /\ \A c \in CPU : pc[c] = "mark" => task[c] \in Queued(queues)
        /\ \A p \in prio_bitmap :
              \/ p \in Occupied(queues)
              \/ \E c \in CPU : pc[c] = "settle" /\ prio[c] = p

\* For any number of callers: a bit for an empty level can only come from a
\* task that was popped between its push_back and its fetch_or
\* (ready_queue.rs:57-65 and 84-113).
THEOREM BitmapExactUnlessRaced == Spec => []ExactUnlessRaced
<1>1. Init => UnracedInv
  BY DEF Init, UnracedInv
<1>2. TypeOK /\ UnracedInv /\ [Next]_vars => UnracedInv'
  <2> SUFFICES ASSUME TypeOK, UnracedInv, [Next]_vars, ~raced' PROVE UnracedInv'
    BY DEF UnracedInv
  <2> USE DEF Goto
  <2>0. QueuesOK(queues)
    BY DEF TypeOK, QueuesOK
  <2>1. ASSUME NEW c \in CPU, NEW t \in Task, push_back(c, t) PROVE UnracedInv'
    <3>1. /\ Occupied(queues') = Occupied(queues) \cup {priority[t]}
          /\ Queued(queues') = Queued(queues) \cup {t}
      BY <2>0, <2>1, PushBackLemma DEF push_back
    <3>2. /\ ~raced /\ prio_bitmap' = prio_bitmap /\ prio' = prio
          /\ pc[c] = "idle" /\ pc'[c] = "mark" /\ task'[c] = t
          /\ \A d \in CPU \ {c} : pc'[d] = pc[d] /\ task'[d] = task[d]
      BY <2>1 DEF push_back, TypeOK
    <3> QED
      BY <3>1, <3>2 DEF UnracedInv
  <2>2. ASSUME NEW c \in CPU, mark(c) PROVE UnracedInv'
    <3>1. /\ ~raced /\ queues' = queues /\ prio' = prio
          /\ prio_bitmap' = prio_bitmap \cup {priority[task[c]]}
          /\ pc[c] = "mark" /\ pc'[c] = "idle"
          /\ \A d \in CPU \ {c} : pc'[d] = pc[d] /\ task'[d] = task[d]
      BY <2>2 DEF mark, SetBit, TypeOK
    <3>2. priority[task[c]] \in Occupied(queues)
      BY <2>0, <3>1, QueuedLevel DEF UnracedInv, Occupied
    <3> QED
      BY <3>1, <3>2 DEF UnracedInv
  <2>3. ASSUME NEW c \in CPU, scan_pop(c) PROVE UnracedInv'
    <3> DEFINE h == Head(queues[prio[c]])
    <3>1. /\ ~raced /\ ~Unmarked(h)
          /\ prio_bitmap' = prio_bitmap /\ prio' = prio /\ prio[c] \in Level
          /\ queues[prio[c]] # <<>> /\ queues' = PopFront(queues, prio[c])
          /\ pc[c] = "scan" /\ pc'[c] = "settle"
          /\ \A d \in CPU \ {c} : pc'[d] = pc[d] /\ task'[d] = task[d]
      BY <2>3 DEF scan_pop, TypeOK
    <3>2. Queued(queues) = Queued(queues') \cup {h}
      BY <2>0, <3>1, PopFrontLemma
    <3>3. \A d \in CPU : pc'[d] = "mark" => task'[d] \in Queued(queues')
      BY <3>1, <3>2 DEF UnracedInv, Unmarked
    <3>4. \A p \in Level \ {prio[c]} : queues'[p] = queues[p]
      BY <3>1 DEF PopFront, TypeOK
    <3>5. \A p \in prio_bitmap' :
             \/ p \in Occupied(queues')
             \/ \E d \in CPU : pc'[d] = "settle" /\ prio'[d] = p
      <4> SUFFICES ASSUME NEW p \in prio_bitmap, p # prio[c]
                   PROVE  \/ p \in Occupied(queues')
                          \/ \E d \in CPU : pc'[d] = "settle" /\ prio'[d] = p
        BY <3>1
      <4>1. CASE p \in Occupied(queues)
        BY <3>4, <4>1 DEF Occupied
      <4>2. CASE \E d \in CPU : pc[d] = "settle" /\ prio[d] = p
        BY <3>1, <4>2
      <4> QED
        BY <3>1, <4>1, <4>2 DEF UnracedInv
    <3> QED
      BY <3>3, <3>5 DEF UnracedInv
  <2>4. ASSUME NEW c \in CPU, settle(c) PROVE UnracedInv'
    <3>1. /\ ~raced /\ queues' = queues /\ prio' = prio /\ prio[c] \in Level
          /\ prio_bitmap' = IF queues[prio[c]] = <<>> THEN prio_bitmap \ {prio[c]}
                            ELSE prio_bitmap
          /\ pc[c] = "settle" /\ pc'[c] = "idle"
          /\ \A d \in CPU \ {c} : pc'[d] = pc[d] /\ task'[d] = task[d]
      BY <2>4 DEF settle, Settle, TypeOK
    <3>2. ASSUME NEW p \in prio_bitmap'
          PROVE  \/ p \in Occupied(queues)
                 \/ \E d \in CPU \ {c} : pc[d] = "settle" /\ prio[d] = p
      <4>1. CASE p = prio[c]
        BY <3>1, <3>2, <4>1 DEF Occupied
      <4>2. CASE p # prio[c]
        BY <3>1, <3>2, <4>2 DEF UnracedInv
      <4> QED
        BY <4>1, <4>2
    <3>3. \A d \in CPU : pc'[d] = "mark" => task'[d] \in Queued(queues)
      BY <3>1 DEF UnracedInv
    <3>4. \A p \in prio_bitmap' :
             p \in Occupied(queues') \/ \E d \in CPU : pc'[d] = "settle" /\ prio'[d] = p
      BY <3>1, <3>2
    <3> QED
      BY <3>1, <3>3, <3>4 DEF UnracedInv
  <2>5. ASSUME NEW c \in CPU,
               \/ \E t \in Task : push_full(c, t)
               \/ hightest_priority(c)
               \/ take_begin(c)
               \/ scan_empty(c)
               \/ scan_none(c)
        PROVE  UnracedInv'
    <3>1. UNCHANGED <<queues, prio_bitmap, task, raced>>
      BY <2>5 DEF push_full, hightest_priority, take_begin, scan_empty, scan_none
    <3>2. \A d \in CPU : /\ pc'[d] = "mark" => pc[d] = "mark"
                         /\ pc[d] = "settle" => pc'[d] = "settle" /\ prio'[d] = prio[d]
      BY <2>5 DEF push_full, hightest_priority, take_begin, scan_empty, scan_none, TypeOK
    <3> QED
      BY <3>1, <3>2 DEF UnracedInv
  <2>6. CASE UNCHANGED vars
    BY <2>6 DEF vars, UnracedInv
  <2> QED
    BY <2>1, <2>2, <2>3, <2>4, <2>5, <2>6 DEF Next
<1>3. TypeOK /\ BitCoversQueue /\ UnracedInv => ExactUnlessRaced
  <2> SUFFICES ASSUME BitCoversQueue, UnracedInv, Quiescent, ~raced
               PROVE  prio_bitmap = Occupied(queues)
    BY DEF ExactUnlessRaced
  <2>1. \A c \in CPU : pc[c] # "mark" /\ pc[c] # "settle"
    BY DEF Quiescent
  <2>2. Occupied(queues) \subseteq prio_bitmap
    BY <2>1 DEF BitCoversQueue
  <2>3. prio_bitmap \subseteq Occupied(queues)
    BY <2>1 DEF UnracedInv
  <2> QED
    BY <2>2, <2>3
<1> QED
  BY <1>1, <1>2, <1>3, TypeCorrect, BitmapCovers, PTL DEF Spec

-----------------------------------------------------------------------------
\* The priority that take_task returns is at least as urgent as every task
\* that was queued during the whole call and whose bit is set: the bitmap
\* covers it, or the scan has passed over nothing (ready_queue.rs:102-113).
THEOREM NextPrioIsSafe == Spec => NextPrioHidesNothing
<1>1. ASSUME TypeOK, BitCoversQueue, ScanInv, NoOvertaking, [Next]_vars
      PROVE  [StaysVisible]_vars
  <2> SUFFICES ASSUME NEW c \in CPU, settle(c), NEW t \in waiting[c],
                      ~ \E d \in CPU : pc[d] = "mark" /\ priority[task[d]] = priority[t]
               PROVE  ret'[c] <= priority[t]
    BY <1>1 DEF StaysVisible
  <2>0. QueuesOK(queues)
    BY <1>1 DEF TypeOK, QueuesOK
  <2>1. /\ pc[c] = "settle" /\ prio[c] \in Level
        /\ ret'[c] = NextPrio(queues, prio_bitmap, prio[c])
    BY <1>1 DEF settle, Goto, TypeOK
  <2>2. t \in Queued(queues) /\ priority[t] >= prio[c]
    BY <1>1, <2>1 DEF ScanInv, NoOvertaking
  <2>3. priority[t] \in prio_bitmap
    BY <1>1, <2>0, <2>2, QueuedLevel DEF BitCoversQueue, Occupied
  <2>4. Highest(prio_bitmap) <= priority[t]
    BY <1>1, <2>3, HighestLemma DEF TypeOK
  <2> QED
    BY <2>1, <2>2, <2>4 DEF NextPrio
<1> QED
  BY <1>1, TypeCorrect, BitmapCovers, ScanInvariant, ScanOvertakesNobody, PTL
  DEF Spec, NextPrioHidesNothing

=============================================================================
