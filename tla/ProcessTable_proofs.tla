------------------------ MODULE ProcessTable_proofs -------------------------
(***************************************************************************)
(* Proofs about ProcessTable for any number of CPUs, processes and entries *)
(* of the table and any number of tasks.                                   *)
(*                                                                         *)
(* ControlInv says, for each place of the code, whom a call is about and   *)
(* who owns which entry: a valid entry is the kernel's, is the pid of one  *)
(* process, or is held by one call that is filling it in or giving it up.  *)
(* EntryIsOwn and EntryHasOneOwner follow.  TasksInv counts the tasks,     *)
(* DrawnInv says which entries a register_process has passed since it      *)
(* began, and PublishedInv what is known of an entry's priorities while    *)
(* operations on its scheduler do not overlap.                             *)
(***************************************************************************)
EXTENDS ProcessTable, FiniteSetTheorems, TLAPS

\* TypeOK without the bound on tasks, which takes counting.
Types ==
    /\ valid \in [Index -> BOOLEAN]
    /\ vspace \in [Index -> Process \cup {Null}]
    /\ scheduler \in [Index -> Process \cup {Null}]
    /\ highest_prio \in [Index -> [CPU -> Prio]]
    /\ next_i \in 1 .. 2 * PROCESS_NUM - 1
    /\ life \in [Process -> {"new", "starting", "started", "live", "dropped"}]
    /\ pid \in [Process -> Index]
    /\ sources \subseteq Process
    /\ tasks \in [Process -> Nat]
    /\ left \in [Process -> 0 .. MAX_TASKS]
    /\ mapped \in [CPU -> Process \cup {Null}]
    /\ current_vspace \in [CPU -> Index]
    /\ home \in [CPU -> Process \cup {Null}]
    /\ pc \in [CPU -> Place]
    /\ loc \in [CPU -> Local]
    /\ open \in [CPU -> SUBSET Index]
    /\ wasted \in [CPU -> SUBSET Index]
    /\ overlapped \subseteq Process

\* The places in register_process.
Registering == {"claim", "retry", "full", "store_vspace", "store_scheduler"}

\* Where a scheduler is used or a task is run.
Using == {"lookup", "peek", "store", "take", "run"}

\* Where an entry is held that is not the pid of a process.
Holding == {"store_vspace", "store_scheduler", "invalidate"}

\* The process has a pid that its tasks may use.
HasPid(p) == life[p] \in {"started", "live"}

\* What the locals of a CPU say at each place.
Control(c) ==
    /\ pc[c] \in Registering =>
          /\ loc[c].proc \in Process
          /\ life[loc[c].proc] = "starting"
          /\ loc[c].index \in Index
    /\ pc[c] = "store_scheduler" => vspace[loc[c].index] = loc[c].proc
    /\ pc[c] = "invalidate" =>
          /\ loc[c].proc \in Process
          /\ life[loc[c].proc] = "dropped"
          /\ loc[c].index \in Index
    /\ pc[c] \in Using => loc[c].proc \in Process /\ HasPid(loc[c].proc)
    /\ pc[c] \notin Registering \cup Using \cup {"invalidate"} => loc[c].proc = Null
    /\ pc[c] \in {"lookup", "peek"} => loc[c].cpu = 0 /\ loc[c].last = CPU_NUM - 1
    /\ pc[c] = "store" => loc[c].cpu <= loc[c].last /\ loc[c].last < CPU_NUM
    /\ pc[c] \in {"look", "read", "confirm"} =>
          loc[c].index < loc[c].last /\ loc[c].last < 2 * PROCESS_NUM

\* Each process is registered by one CPU.
RegisteredOnce ==
    \A c, d \in CPU :
        /\ pc[c] \in Registering /\ pc[d] \in Registering /\ loc[c].proc = loc[d].proc
        => c = d

\* An entry belongs to the process whose pid it is, ...
OwnEntries ==
    \A p \in Process : HasPid(p) =>
        /\ pid[p] # 0
        /\ valid[pid[p]] /\ vspace[pid[p]] = p /\ scheduler[pid[p]] = p

\* ... or to the call that holds it, ...
HeldEntries == \A c \in CPU : pc[c] \in Holding => loc[c].index # 0 /\ valid[loc[c].index]

\* ... but to one of them only ...
OneOwner ==
    /\ \A p, q \in Process : HasPid(p) /\ HasPid(q) /\ pid[p] = pid[q] => p = q
    /\ \A c, d \in CPU :
          pc[c] \in Holding /\ pc[d] \in Holding /\ loc[c].index = loc[d].index => c = d
    /\ \A c \in CPU, p \in Process : pc[c] \in Holding /\ HasPid(p) => pid[p] # loc[c].index

\* ... and, being valid, to one at least, ...
Owned(e) ==
    \/ \E p \in Process : HasPid(p) /\ pid[p] = e
    \/ \E c \in CPU : pc[c] \in Holding /\ loc[c].index = e

\* ... or to the kernel.
NoneLost == valid[0] /\ \A e \in Index \ {0} : valid[e] => Owned(e)

\* Who owns which entry.
Entries == OwnEntries /\ HeldEntries /\ OneOwner /\ NoneLost

\* The event sources outlive the process.
Sources == \A p \in Process : p \in sources <=> life[p] \in {"live", "dropped"}

\* The first part of the inductive invariant.
ControlInv ==
    /\ Types
    /\ \A c \in CPU : Control(c)
    /\ RegisteredOnce
    /\ Entries
    /\ Sources

\* The pushes that have been let in and have not reached the scheduler yet.
Pushing(p) == {c \in CPU : pc[c] = "lookup" /\ loc[c].proc = p}

\* With those, there are no more tasks than the process has in its life.
TasksInv == \A p \in Process : tasks[p] + left[p] + Cardinality(Pushing(p)) <= MAX_TASKS

\* Counting up from s, and round the table, e comes before m.
Between(s, m, e) == IF s < m THEN s <= e /\ e < m ELSE s <= e \/ e < m

\* The entries that have been drawn since c's register_process drew its first
\* one, unless next_i has come round to that one again since.
Drawn(c, e) == Between(loc[c].start, next_i % PROCESS_NUM, e)

\* Some CPU is about to swap the entry's valid flag.
Claimed(e) == \E d \in CPU : pc[d] = "claim" /\ loc[d].index = e

\* An entry that has been free since c's register_process began, and has been
\* drawn since, is about to be claimed by the CPU that drew it, unless that
\* one gave up.
DrawnInv ==
    \A c \in CPU : \A e \in open[c] \ wasted[c] :
        /\ pc[c] \in {"claim", "retry"} /\ Drawn(c, e) => Claimed(e)
        /\ pc[c] = "full" => Claimed(e)

\* While the operations on p's scheduler do not overlap there is one of them
\* at most; when there is none, a task in the scheduler is published to all
\* CPUs, and an update_prio under way is publishing that.
Published(p) ==
    /\ \A c, d \in CPU : loc[c].proc = p /\ loc[d].proc = p => c = d
    /\ life[p] = "live" /\ tasks[p] > 0 =>
          /\ (\A c \in CPU : loc[c].proc = p => pc[c] = "run")
             => \A c \in CPU : highest_prio[pid[p]][c] = READY
          /\ \A c \in CPU : pc[c] = "store" /\ loc[c].proc = p =>
                /\ loc[c].prio = READY
                /\ loc[c].last = CPU_NUM - 1
                /\ \A d \in CPU : d < loc[c].cpu => highest_prio[pid[p]][d] = READY

\* That holds of every process whose operations have not overlapped.
PublishedInv == \A p \in Process \ overlapped : Published(p)

-----------------------------------------------------------------------------
(* Facts about indices and local variables.                                *)

\* Every index modulo the table's size is an entry.
LEMMA Entry == \A i \in Nat : i % PROCESS_NUM \in Index
BY TableAssumption, SMT DEF Index

\* What the modulus does to an index that Advance or the scan can reach.
LEMMA NextEntry ==
    \A i \in 0 .. 2 * PROCESS_NUM - 1 :
        i % PROCESS_NUM = IF i < PROCESS_NUM THEN i ELSE i - PROCESS_NUM
<1>1. \A n \in Nat \ {0} : \A i \in 0 .. 2 * n - 1 : i % n = IF i < n THEN i ELSE i - n
  BY SMT
<1> QED
  BY <1>1, TableAssumption, Zenon

\* The kernel's entry is an entry, and entries are indices.
LEMMA FirstEntry == 0 \in Index /\ \A e \in Index : e \in 0 .. 2 * PROCESS_NUM - 2
BY TableAssumption, SMT DEF Index

\* The local variables' initial values are in their ranges.
LEMMA FreshLocal == Fresh \in Local
BY FirstEntry, TableAssumption, SMT DEF Fresh, CPU, Prio, Local

\* A call's local variables stay in their ranges when they are assigned.
LEMMA Updated ==
    ASSUME NEW l \in Local
    PROVE  /\ \A p \in Process, e \in Index :
                 [l EXCEPT !.proc = p, !.start = e, !.index = e] \in Local
           /\ \A p \in Process, e \in Index : [l EXCEPT !.proc = p, !.index = e] \in Local
           /\ \A p \in Process, n \in 0 .. 2 * PROCESS_NUM + CPU_NUM :
                 [l EXCEPT !.proc = p, !.last = n] \in Local
           /\ \A i \in 0 .. 2 * PROCESS_NUM - 2, n \in 0 .. 2 * PROCESS_NUM + CPU_NUM :
                 [l EXCEPT !.index = i, !.last = n] \in Local
           /\ \A q \in Prio, e \in Index : [l EXCEPT !.best = q, !.choice = e] \in Local
           /\ \A p \in Process, q \in Prio, c \in CPU, n \in 0 .. 2 * PROCESS_NUM + CPU_NUM,
                 r \in {"kernel", "idle", "into", "run"} :
                 [l EXCEPT !.proc = p, !.prio = q, !.cpu = c, !.last = n, !.ret = r] \in Local
           /\ \A q \in Prio, n \in 0 .. 2 * PROCESS_NUM + CPU_NUM, r
                 \in {"kernel", "idle", "into", "run"} :
                 [l EXCEPT !.prio = q, !.cpu = 0, !.last = n, !.ret = r] \in Local
<1>proc. ASSUME NEW m \in Local, NEW x \in Process PROVE [m EXCEPT !.proc = x] \in Local
  BY SMT DEF Local
<1>start. ASSUME NEW m \in Local, NEW x \in Index PROVE [m EXCEPT !.start = x] \in Local
  BY SMT DEF Local
<1>index. ASSUME NEW m \in Local, NEW x \in 0 .. 2 * PROCESS_NUM - 2
          PROVE  [m EXCEPT !.index = x] \in Local
  BY SMT DEF Local
<1>prio. ASSUME NEW m \in Local, NEW x \in Prio PROVE [m EXCEPT !.prio = x] \in Local
  BY SMT DEF Local
<1>best. ASSUME NEW m \in Local, NEW x \in Prio PROVE [m EXCEPT !.best = x] \in Local
  BY SMT DEF Local
<1>choice. ASSUME NEW m \in Local, NEW x \in Index PROVE [m EXCEPT !.choice = x] \in Local
  BY SMT DEF Local
<1>cpu. ASSUME NEW m \in Local, NEW x \in CPU PROVE [m EXCEPT !.cpu = x] \in Local
  BY SMT DEF Local
<1>last. ASSUME NEW m \in Local, NEW x \in 0 .. 2 * PROCESS_NUM + CPU_NUM
         PROVE  [m EXCEPT !.last = x] \in Local
  BY SMT DEF Local
<1>ret. ASSUME NEW m \in Local, NEW x \in {"kernel", "idle", "into", "run"}
        PROVE  [m EXCEPT !.ret = x] \in Local
  BY SMT DEF Local
<1>zero. 0 \in CPU
  BY TableAssumption, SMT DEF CPU
<1>1. ASSUME NEW p \in Process, NEW e \in Index, e \in 0 .. 2 * PROCESS_NUM - 2
      PROVE  [l EXCEPT !.proc = p, !.start = e, !.index = e] \in Local
  <2> DEFINE m1 == [l EXCEPT !.proc = p]
  <2> DEFINE m2 == [m1 EXCEPT !.start = e]
  <2> DEFINE m3 == [m2 EXCEPT !.index = e]
  <2>1. m1 \in Local
    BY <1>proc, Zenon
  <2>2. m2 \in Local
    BY <2>1, <1>start, Zenon
  <2>3. m3 \in Local
    BY <2>2, <1>1, <1>index, Zenon
  <2> QED
    BY <2>3, SMT
<1>2. ASSUME NEW p \in Process, NEW e \in 0 .. 2 * PROCESS_NUM - 2
      PROVE  [l EXCEPT !.proc = p, !.index = e] \in Local
  <2> DEFINE m1 == [l EXCEPT !.proc = p]
  <2> DEFINE m2 == [m1 EXCEPT !.index = e]
  <2>1. m1 \in Local
    BY <1>proc, Zenon
  <2>2. m2 \in Local
    BY <2>1, <1>index, Zenon
  <2> QED
    BY <2>2, SMT
<1>3. ASSUME NEW p \in Process, NEW n \in 0 .. 2 * PROCESS_NUM + CPU_NUM
      PROVE  [l EXCEPT !.proc = p, !.last = n] \in Local
  <2> DEFINE m1 == [l EXCEPT !.proc = p]
  <2> DEFINE m2 == [m1 EXCEPT !.last = n]
  <2>1. m1 \in Local
    BY <1>proc, Zenon
  <2>2. m2 \in Local
    BY <2>1, <1>last, Zenon
  <2> QED
    BY <2>2, SMT
<1>4. ASSUME NEW i \in 0 .. 2 * PROCESS_NUM - 2, NEW n \in 0 .. 2 * PROCESS_NUM + CPU_NUM
      PROVE  [l EXCEPT !.index = i, !.last = n] \in Local
  <2> DEFINE m1 == [l EXCEPT !.index = i]
  <2> DEFINE m2 == [m1 EXCEPT !.last = n]
  <2>1. m1 \in Local
    BY <1>index, Zenon
  <2>2. m2 \in Local
    BY <2>1, <1>last, Zenon
  <2> QED
    BY <2>2, SMT
<1>5. ASSUME NEW q \in Prio, NEW e \in Index
      PROVE  [l EXCEPT !.best = q, !.choice = e] \in Local
  <2> DEFINE m1 == [l EXCEPT !.best = q]
  <2> DEFINE m2 == [m1 EXCEPT !.choice = e]
  <2>1. m1 \in Local
    BY <1>best, Zenon
  <2>2. m2 \in Local
    BY <2>1, <1>choice, Zenon
  <2> QED
    BY <2>2, SMT
<1>6. ASSUME NEW p \in Process, NEW q \in Prio, NEW c \in CPU,
             NEW n \in 0 .. 2 * PROCESS_NUM + CPU_NUM,
             NEW r \in {"kernel", "idle", "into", "run"}
      PROVE  [l EXCEPT !.proc = p, !.prio = q, !.cpu = c, !.last = n, !.ret = r] \in Local
  <2> DEFINE m1 == [l EXCEPT !.proc = p]
  <2> DEFINE m2 == [m1 EXCEPT !.prio = q]
  <2> DEFINE m3 == [m2 EXCEPT !.cpu = c]
  <2> DEFINE m4 == [m3 EXCEPT !.last = n]
  <2> DEFINE m5 == [m4 EXCEPT !.ret = r]
  <2>1. m1 \in Local
    BY <1>proc, Zenon
  <2>2. m2 \in Local
    BY <2>1, <1>prio, Zenon
  <2>3. m3 \in Local
    BY <2>2, <1>cpu, Zenon
  <2>4. m4 \in Local
    BY <2>3, <1>last, Zenon
  <2>5. m5 \in Local
    BY <2>4, <1>ret, Zenon
  <2> QED
    BY <2>5, SMT
<1>7. ASSUME NEW q \in Prio, NEW n \in 0 .. 2 * PROCESS_NUM + CPU_NUM,
             NEW r \in {"kernel", "idle", "into", "run"}
      PROVE  [l EXCEPT !.prio = q, !.cpu = 0, !.last = n, !.ret = r] \in Local
  <2> DEFINE m1 == [l EXCEPT !.prio = q]
  <2> DEFINE m2 == [m1 EXCEPT !.cpu = 0]
  <2> DEFINE m3 == [m2 EXCEPT !.last = n]
  <2> DEFINE m4 == [m3 EXCEPT !.ret = r]
  <2>1. m1 \in Local
    BY <1>prio, Zenon
  <2>2. m2 \in Local
    BY <2>1, <1>zero, <1>cpu, Zenon
  <2>3. m3 \in Local
    BY <2>2, <1>last, Zenon
  <2>4. m4 \in Local
    BY <2>3, <1>ret, Zenon
  <2> QED
    BY <2>4, SMT
<1> QED
  BY <1>1, <1>2, <1>3, <1>4, <1>5, <1>6, <1>7, FirstEntry, Zenon

\* So they do when the scan goes on to the next entry
\* (process_info.rs:99-136).
LEMMA AdvancedLocal ==
    ASSUME NEW l \in Local, l.index < l.last, l.last < 2 * PROCESS_NUM
    PROVE  Advanced(l) \in Local
<1>1. CASE l.index + 1 < l.last
  <2>1. l.index + 1 \in 0 .. 2 * PROCESS_NUM - 2
    BY <1>1, TableAssumption, SMT DEF Local
  <2>2. [l EXCEPT !.index = l.index + 1] \in Local
    BY <2>1, SMT DEF Local
  <2> QED
    BY <1>1, <2>2, SMT DEF Advanced
<1>2. CASE ~(l.index + 1 < l.last)
  <2>1. [Fresh EXCEPT !.choice = l.choice] \in Local
    BY FreshLocal, SMT DEF Local
  <2> QED
    BY <1>2, <2>1, Zenon DEF Advanced
<1> QED
  BY <1>1, <1>2

\* A step outside of register_process and process_drop that leaves the
\* entries' owners alone.
LEMMA QuietStep ==
    ASSUME ControlInv, NEW c \in CPU, Types', Control(c)',
           UNCHANGED <<valid, vspace, scheduler, life, pid, sources>>,
           \A d \in CPU \ {c} : pc'[d] = pc[d] /\ loc'[d] = loc[d],
           pc[c] \notin Registering \cup {"invalidate"},
           pc'[c] \notin Registering \cup {"invalidate"}
    PROVE  ControlInv'
<1>1. ASSUME NEW d \in CPU PROVE Control(d)'
  <2>1. CASE d = c
    BY <2>1
  <2>2. CASE d # c
    BY SMT DEF ControlInv, Control, HasPid
  <2> QED
    BY <2>2
<1>2. RegisteredOnce'
  <2> QED
    BY Zenon DEF ControlInv, RegisteredOnce
<1>3. Entries'
  <2>1. \A d \in CPU : (pc[d] \in Holding)' <=> pc[d] \in Holding
    BY SMT DEF Holding, Registering
  <2>2. \A d \in CPU : pc[d] \in Holding => d # c
    BY SMT DEF Holding, Registering
  <2>3. \A p \in Process : HasPid(p)' <=> HasPid(p)
    BY DEF HasPid
  <2> QED
    BY <2>1, <2>2, <2>3, SMT
       DEF ControlInv, Entries, OwnEntries, HeldEntries, OneOwner, NoneLost, Owned
<1>4. Sources'
  BY DEF ControlInv, Sources
<1> QED
  BY <1>1, <1>2, <1>3, <1>4 DEF ControlInv

-----------------------------------------------------------------------------
(* Owners of entries.                                                      *)

\* process_init, user_init, process_drop, push_task and the choice of a
\* process keep every entry with its owner, in whatever order their accesses
\* come (process_info.rs:72-136, api.rs:138-324).
THEOREM ControlInvariance == Spec => []ControlInv
<1>1. Init => ControlInv
  <2> SUFFICES ASSUME Init PROVE ControlInv
    OBVIOUS
  <2>1. Types
    BY FreshLocal, FirstEntry, TableAssumption, TasksAssumption, SMT
       DEF Types, Init, Prio, Place
  <2>2. \A c \in CPU : Control(c)
    BY SMT DEF Control, Init, Fresh, Registering, Using
  <2>3. RegisteredOnce
    BY SMT DEF RegisteredOnce, Init, Registering
  <2>4. OwnEntries /\ HeldEntries /\ OneOwner
    BY SMT DEF OwnEntries, HeldEntries, OneOwner, Init, Holding, HasPid
  <2>6. NoneLost
    BY FirstEntry, Zenon DEF NoneLost, Init
  <2>5. Sources
    BY SMT DEF Sources, Init
  <2> QED
    BY <2>1, <2>2, <2>3, <2>4, <2>5, <2>6 DEF ControlInv, Entries
<1>2. ControlInv /\ [Next]_vars => ControlInv'
  <2> SUFFICES ASSUME ControlInv, [Next]_vars PROVE ControlInv'
    OBVIOUS
  <2>0. /\ Types /\ RegisteredOnce /\ Entries /\ Sources
        /\ \A c \in CPU : Control(c)
    BY DEF ControlInv
  <2>valid. valid \in [Index -> BOOLEAN]
    BY <2>0 DEF Types
  <2>vspace. vspace \in [Index -> Process \cup {Null}]
    BY <2>0 DEF Types
  <2>prio. highest_prio \in [Index -> [CPU -> Prio]]
    BY <2>0 DEF Types
  <2>next_i. next_i \in 1 .. 2 * PROCESS_NUM - 1
    BY <2>0 DEF Types
  <2>life. life \in [Process -> {"new", "starting", "started", "live", "dropped"}]
    BY <2>0 DEF Types
  <2>pid. pid \in [Process -> Index]
    BY <2>0 DEF Types
  <2>tasks. tasks \in [Process -> Nat]
    BY <2>0 DEF Types
  <2>left. left \in [Process -> 0 .. MAX_TASKS]
    BY <2>0 DEF Types
  <2>current. current_vspace \in [CPU -> Index]
    BY <2>0 DEF Types
  <2>home. home \in [CPU -> Process \cup {Null}]
    BY <2>0 DEF Types
  <2>pc. pc \in [CPU -> Place]
    BY <2>0 DEF Types
  <2>loc. loc \in [CPU -> Local]
    BY <2>0 DEF Types
  <2>overlapped. overlapped \subseteq Process
    BY <2>0 DEF Types
  <2>1. ASSUME NEW c \in CPU, NEW p \in Process, register_process(c, p) PROVE ControlInv'
    <3>1. Types'
      <4>1. next_i % PROCESS_NUM \in Index /\ next_i % PROCESS_NUM \in 0 .. 2 * PROCESS_NUM - 2
        BY <2>next_i, Entry, FirstEntry, SMT
      <4>2. [Fresh EXCEPT !.proc = p, !.start = next_i % PROCESS_NUM,
                            !.index = next_i % PROCESS_NUM] \in Local
        BY <4>1, FreshLocal, Updated, Zenon
      <4>3. loc'[c] \in Local
        BY <2>loc, <2>1, <4>2, SMT DEF register_process
      <4>4. loc' = [loc EXCEPT ![c] = loc'[c]]
        BY <2>loc, <2>1, SMT DEF register_process
      <4>5. loc' \in [CPU -> Local]
        BY <2>loc, <4>3, <4>4, SMT
      <4>6. pc' \in [CPU -> Place]
        BY <2>pc, <2>1, SMT DEF Goto, Place, register_process
      <4>8. next_i' \in 1 .. 2 * PROCESS_NUM - 1
        BY <2>next_i, <2>1, TableAssumption, SMT DEF register_process, Advance
      <4> QED
        BY <2>0, <2>1, <4>5, <4>6, <4>8, SMT
           DEF Types, register_process, entryVars, schedVars, cpuVars
    <3>2. \A e \in CPU : Control(e)'
      BY <2>0, <2>1, Entry, SMT
         DEF Types, Control, Registering, Using, HasPid, register_process, Goto, entryVars
    <3>3. RegisteredOnce'
      BY <2>0, <2>1, SMT DEF Types, Control, RegisteredOnce, register_process, Goto
    <3>4. OwnEntries'
      BY <2>0, <2>1, SMT DEF Entries, OwnEntries, HasPid, register_process, entryVars
    <3>5. HeldEntries'
      BY <2>0, <2>1, SMT DEF Entries, HeldEntries, Holding, register_process, Goto, entryVars
    <3>6. OneOwner'
      BY <2>0, <2>1, SMT DEF Entries, OneOwner, Holding, HasPid, register_process, Goto
    <3>7. NoneLost'
      <4>1. \A q \in Process : HasPid(q) => HasPid(q)' /\ pid'[q] = pid[q]
        BY <2>1, SMT DEF HasPid, register_process
      <4>2. \A d \in CPU : pc[d] \in Holding
               => pc'[d] \in Holding /\ loc'[d].index = loc[d].index
        BY <2>1, SMT DEF Holding, Goto, register_process
      <4>3. \A e : Owned(e) => Owned(e)'
        BY <4>1, <4>2, Zenon DEF Owned
      <4> QED
        BY <2>0, <2>1, <4>3, Zenon DEF Entries, NoneLost, register_process, entryVars
    <3>8. Sources'
      BY <2>0, <2>1, SMT DEF Sources, register_process, schedVars
    <3> QED
      BY <3>1, <3>2, <3>3, <3>4, <3>5, <3>6, <3>7, <3>8, Zenon DEF ControlInv, Entries
  <2>2. ASSUME NEW c \in CPU, claim(c) PROVE ControlInv'
    <3>1. Types'
      <4>1. pc' \in [CPU -> Place]
        BY <2>pc, <2>2, SMT DEF Goto, Place, claim
      <4>2. valid' \in [Index -> BOOLEAN]
        BY <2>valid, <2>2, Zenon DEF claim
      <4> QED
        BY <2>0, <2>2, <4>1, <4>2, SMT DEF Types, claim, osVars, schedVars, cpuVars
    <3>2. \A e \in CPU : Control(e)'
      BY <2>0, <2>2, SMT DEF Control, Registering, Using, HasPid, claim, Goto, osVars
    <3>3. RegisteredOnce'
      BY <2>0, <2>2, SMT DEF RegisteredOnce, Registering, claim, Goto
    <3>4. OwnEntries'
      BY <2>0, <2>2, SMT DEF Entries, OwnEntries, HasPid, claim, osVars
    <3>5. HeldEntries'
      <4>1. \A i \in Index : valid[i] => valid'[i]
        BY <2>valid, <2>2, Zenon DEF claim
      <4>2. loc[c].index \in Index /\ loc' = loc
        BY <2>0, <2>2, Zenon DEF Control, Registering, Goto, claim
      <4>3. valid'[loc[c].index]
        BY <4>2, <2>valid, <2>2, Zenon DEF claim
      <4>4. \A d \in CPU : pc[d] \in Holding => loc[d].index \in Index
        BY <2>0, SMT DEF Control, Registering, Holding
      <4>5. \A d \in CPU : pc'[d] \in Holding => pc[d] \in Holding \/ d = c
        BY <2>2, SMT DEF Goto, claim
      <4>6. pc'[c] \in Holding => loc[c].index # 0
        BY <2>0, <2>2, SMT DEF Entries, NoneLost, Holding, Goto, claim
      <4> QED
        BY <2>0, <4>1, <4>2, <4>3, <4>4, <4>5, <4>6, Zenon DEF Entries, HeldEntries
    <3>6. OneOwner'
      BY <2>0, <2>2, SMT
         DEF Entries, OwnEntries, HeldEntries, OneOwner, Holding, HasPid, claim, Goto, osVars
    <3>7. NoneLost'
      <4> DEFINE e == loc[c].index
      <4>1. \A q \in Process : HasPid(q) => HasPid(q)' /\ pid'[q] = pid[q]
        BY <2>2, SMT DEF HasPid, claim, osVars
      <4>2. \A d \in CPU : pc[d] \in Holding
               => pc'[d] \in Holding /\ loc'[d].index = loc[d].index
        BY <2>2, SMT DEF Holding, Goto, claim
      <4>3. \A x : Owned(x) => Owned(x)'
        BY <4>1, <4>2, Zenon DEF Owned
      <4>4. \A i \in Index : i # e => valid'[i] = valid[i]
        BY <2>valid, <2>2, Zenon DEF claim
      <4>5. CASE valid[e]
        <5>1. valid' = valid
          BY <4>5, <2>valid, <2>2, SMT DEF claim
        <5> QED
          BY <5>1, <2>0, <4>3, Zenon DEF Entries, NoneLost
      <4>6. CASE ~valid[e]
        <5>1. pc'[c] \in Holding /\ loc' = loc
          BY <4>6, <2>pc, <2>2, SMT DEF Holding, Goto, claim
        <5>2. valid[0] /\ \A i \in Index \ {0} : valid[i] => Owned(i)
          BY <2>0 DEF Entries, NoneLost
        <5>3. valid'[0]
          BY <4>4, <4>6, <5>2, FirstEntry, Zenon
        <5>4. ASSUME NEW i \in Index \ {0}, valid'[i] PROVE Owned(i)'
          <6>1. CASE i = e
            BY <5>1, <6>1, Zenon DEF Owned
          <6>2. CASE i # e
            BY <4>3, <4>4, <5>2, <5>4, <6>2, Zenon
          <6> QED
            BY <6>1, <6>2
        <5> QED
          BY <5>3, <5>4, Zenon DEF NoneLost
      <4> QED
        BY <4>5, <4>6
    <3>8. Sources'
      BY <2>0, <2>2, SMT DEF Sources, claim, osVars, schedVars
    <3> QED
      BY <3>1, <3>2, <3>3, <3>4, <3>5, <3>6, <3>7, <3>8, Zenon DEF ControlInv, Entries
  <2>3. ASSUME NEW c \in CPU, retry(c) PROVE ControlInv'
    <3>1. Types'
      <4>1. next_i % PROCESS_NUM \in 0 .. 2 * PROCESS_NUM - 2
        BY <2>next_i, Entry, FirstEntry, SMT
      <4>2. [loc[c] EXCEPT !.index = next_i % PROCESS_NUM] \in Local
        BY <4>1, <2>loc, SMT DEF Local
      <4>3. loc'[c] \in Local
        BY <2>loc, <2>3, <4>2, SMT DEF retry
      <4>4. loc' = [loc EXCEPT ![c] = loc'[c]]
        BY <2>loc, <2>3, SMT DEF retry
      <4>5. loc' \in [CPU -> Local]
        BY <2>loc, <4>3, <4>4, SMT
      <4>6. pc' \in [CPU -> Place]
        BY <2>pc, <2>3, SMT DEF Goto, Place, retry
      <4>7. next_i' \in 1 .. 2 * PROCESS_NUM - 1
        BY <2>next_i, <2>3, TableAssumption, SMT DEF retry, Advance
      <4> QED
        BY <2>0, <2>3, <4>5, <4>6, <4>7, SMT
           DEF Types, retry, entryVars, osVars, schedVars, cpuVars
    <3>2. \A e \in CPU : Control(e)'
      BY <2>0, <2>3, Entry, SMT
         DEF Types, Control, Registering, Using, HasPid, retry, Goto, entryVars, osVars
    <3>3. RegisteredOnce'
      BY <2>0, <2>3, SMT DEF RegisteredOnce, Registering, retry, Goto
    <3>4. OwnEntries'
      BY <2>0, <2>3, SMT DEF Entries, OwnEntries, HasPid, retry, entryVars, osVars
    <3>5. HeldEntries'
      BY <2>0, <2>3, Entry, SMT DEF Entries, HeldEntries, Holding, retry, Goto, entryVars
    <3>6. OneOwner'
      BY <2>0, <2>3, SMT DEF Entries, OneOwner, Holding, HasPid, retry, Goto, osVars
    <3>7. NoneLost'
      <4>1. \A q \in Process : HasPid(q) => HasPid(q)' /\ pid'[q] = pid[q]
        BY <2>3, SMT DEF HasPid, retry, osVars
      <4>2. \A d \in CPU : pc[d] \in Holding
               => pc'[d] \in Holding /\ loc'[d].index = loc[d].index
        BY <2>3, SMT DEF Holding, Goto, retry
      <4>3. \A e : Owned(e) => Owned(e)'
        BY <4>1, <4>2, Zenon DEF Owned
      <4> QED
        BY <2>0, <2>3, <4>3, Zenon DEF Entries, NoneLost, retry, entryVars
    <3>8. Sources'
      BY <2>0, <2>3, SMT DEF Sources, retry, osVars, schedVars
    <3> QED
      BY <3>1, <3>2, <3>3, <3>4, <3>5, <3>6, <3>7, <3>8, Zenon DEF ControlInv, Entries
  <2>4. ASSUME NEW c \in CPU, store_vspace(c) PROVE ControlInv'
    <3>0. loc[c].proc \in Process
      BY <2>0, <2>4, SMT DEF Control, Goto, store_vspace, Registering
    <3>1. Types'
      <4>1. pc' \in [CPU -> Place]
        BY <2>pc, <2>4, SMT DEF Goto, Place, store_vspace
      <4>2. vspace' \in [Index -> Process \cup {Null}]
        BY <2>vspace, <3>0, <2>4, Zenon DEF store_vspace
      <4> QED
        BY <2>0, <2>4, <4>1, <4>2, SMT
           DEF Types, store_vspace, osVars, schedVars, cpuVars, history, freeVars
    <3>2. \A e \in CPU : Control(e)'
      BY <2>0, <2>4, SMT
         DEF Entries, Types, Control, OneOwner, Registering, Using, Holding, HasPid,
             store_vspace, Goto, osVars
    <3>3. RegisteredOnce'
      BY <2>0, <2>4, SMT DEF RegisteredOnce, Registering, store_vspace, Goto
    <3>4. OwnEntries'
      BY <2>0, <2>4, SMT
         DEF Entries, OwnEntries, OneOwner, Holding, HasPid, store_vspace, Goto, osVars
    <3>5. HeldEntries'
      BY <2>0, <2>4, SMT DEF Entries, HeldEntries, Holding, store_vspace, Goto
    <3>6. OneOwner'
      BY <2>0, <2>4, SMT DEF Entries, OneOwner, Holding, HasPid, store_vspace, Goto, osVars
    <3>7. NoneLost'
      <4>1. \A q \in Process : HasPid(q) => HasPid(q)' /\ pid'[q] = pid[q]
        BY <2>4, SMT DEF HasPid, store_vspace, osVars
      <4>2. \A d \in CPU : pc[d] \in Holding
               => pc'[d] \in Holding /\ loc'[d].index = loc[d].index
        BY <2>4, SMT DEF Holding, Goto, store_vspace
      <4>3. \A e : Owned(e) => Owned(e)'
        BY <4>1, <4>2, Zenon DEF Owned
      <4> QED
        BY <2>0, <2>4, <4>3, Zenon DEF Entries, NoneLost, store_vspace
    <3>8. Sources'
      BY <2>0, <2>4, SMT DEF Sources, store_vspace, osVars, schedVars
    <3> QED
      BY <3>1, <3>2, <3>3, <3>4, <3>5, <3>6, <3>7, <3>8, Zenon DEF ControlInv, Entries
  <2>5. ASSUME NEW c \in CPU, store_scheduler(c) PROVE ControlInv'
    <3>0. loc[c].proc \in Process /\ loc[c].index \in Index
      BY <2>0, <2>5, SMT DEF Control, Goto, store_scheduler, Registering
    <3>1. Types'
      <4>1. loc'[c] \in Local
        BY <2>loc, <2>5, FreshLocal, SMT DEF store_scheduler
      <4>2. loc' = [loc EXCEPT ![c] = loc'[c]]
        BY <2>loc, <2>5, SMT DEF store_scheduler
      <4>3. loc' \in [CPU -> Local]
        BY <2>loc, <4>1, <4>2, SMT
      <4>4. pc' \in [CPU -> Place]
        BY <2>pc, <2>5, SMT DEF Goto, Place, store_scheduler
      <4>6. pid' \in [Process -> Index]
        BY <2>pid, <3>0, <2>5, SMT DEF store_scheduler
      <4> QED
        BY <2>0, <2>5, <4>3, <4>4, <4>6, SMT DEF Types, store_scheduler, schedVars, cpuVars
    <3>2. \A e \in CPU : Control(e)'
      BY <2>0, <2>5, SMT
         DEF Types, Control, RegisteredOnce, Registering, Using, HasPid, store_scheduler, Fresh,
             Goto
    <3>3. RegisteredOnce'
      BY <2>0, <2>5, SMT DEF Types, RegisteredOnce, Registering, store_scheduler, Goto
    <3>4. OwnEntries'
      BY <2>0, <2>5, SMT
         DEF Entries, Types, Control, OwnEntries, HeldEntries, Registering, Holding, HasPid,
             store_scheduler, Goto
    <3>5. HeldEntries'
      BY <2>0, <2>5, SMT DEF Entries, Types, HeldEntries, Holding, store_scheduler, Goto
    <3>6. OneOwner'
      BY <2>0, <2>5, SMT DEF Entries, Types, OneOwner, Holding, HasPid, store_scheduler, Goto
    <3>7. NoneLost'
      <4>0. PICK p \in Process : p = loc[c].proc
        BY <3>0
      <4>1. ~HasPid(p)
        BY <4>0, <2>0, <2>5, SMT DEF Control, Registering, HasPid, Goto, store_scheduler
      <4>2. ASSUME NEW q \in Process, HasPid(q) PROVE HasPid(q)' /\ pid'[q] = pid[q]
        <5>1. q # p
          BY <4>1, <4>2
        <5>2. life'[q] = life[q] /\ pid'[q] = pid[q]
          BY <4>0, <5>1, <2>5, SMT DEF store_scheduler
        <5> QED
          BY <4>2, <5>2 DEF HasPid
      <4>3. \A d \in CPU \ {c} : pc[d] \in Holding
               => pc'[d] \in Holding /\ loc'[d].index = loc[d].index
        BY <2>5, SMT DEF Goto, store_scheduler
      <4>4. HasPid(p)' /\ pid'[p] = loc[c].index
        <5>1. life' = [life EXCEPT ![p] = "started"] /\ pid' = [pid EXCEPT ![p] = loc[c].index]
          BY <4>0, <2>5 DEF store_scheduler
        <5>2. life'[p] = "started" /\ pid'[p] = loc[c].index
          BY <2>life, <2>pid, <5>1, SMT
        <5> QED
          BY <5>2, SMT DEF HasPid
      <4>5. ASSUME NEW e, Owned(e) PROVE Owned(e)'
        <5>1. CASE \E q \in Process : HasPid(q) /\ pid[q] = e
          BY <4>2, <5>1, Zenon DEF Owned
        <5>2. CASE \E d \in CPU : pc[d] \in Holding /\ loc[d].index = e
          <6>1. PICK d \in CPU : pc[d] \in Holding /\ loc[d].index = e
            BY <5>2
          <6>2. CASE d = c
            BY <4>4, <6>1, <6>2, Zenon DEF Owned
          <6>3. CASE d # c
            BY <4>3, <6>1, <6>3, Zenon DEF Owned
          <6> QED
            BY <6>2, <6>3
        <5> QED
          BY <4>5, <5>1, <5>2, Zenon DEF Owned
      <4> QED
        BY <2>0, <2>5, <4>5, Zenon DEF Entries, NoneLost, store_scheduler
    <3>8. Sources'
      BY <2>0, <2>5, SMT DEF Control, Sources, Registering, store_scheduler, Goto, schedVars
    <3> QED
      BY <3>1, <3>2, <3>3, <3>4, <3>5, <3>6, <3>7, <3>8, Zenon DEF ControlInv, Entries
  <2>6. ASSUME NEW c \in CPU, NEW p \in Process, user_init(c, p) PROVE ControlInv'
    <3>1. Types'
      <4>1. CPU_NUM - 1 \in 0 .. 2 * PROCESS_NUM + CPU_NUM
        BY TableAssumption, SMT
      <4>2. [Fresh EXCEPT !.proc = p, !.last = CPU_NUM - 1] \in Local
        BY <4>1, FreshLocal, Updated, Zenon
      <4>3. loc'[c] \in Local
        BY <2>loc, <2>6, <4>2, SMT DEF user_init
      <4>4. loc' = [loc EXCEPT ![c] = loc'[c]]
        BY <2>loc, <2>6, SMT DEF user_init
      <4>5. loc' \in [CPU -> Local]
        BY <2>loc, <4>3, <4>4, SMT
      <4>6. pc' \in [CPU -> Place]
        BY <2>pc, <2>6, SMT DEF Goto, Place, user_init
      <4>9. overlapped' \subseteq Process
        BY <2>overlapped, <2>6, SMT DEF Begin, user_init
      <4> QED
        BY <2>0, <2>6, <4>5, <4>6, <4>9, SMT DEF Types, user_init, entryVars, cpuVars, freeVars
    <3>2. \A e \in CPU : Control(e)'
      BY <2>0, <2>6, SMT
         DEF Types, Control, Registering, Using, HasPid, user_init, Fresh, Goto, entryVars
    <3>3. RegisteredOnce'
      BY <2>0, <2>6, SMT DEF Types, Control, RegisteredOnce, user_init, Goto
    <3>4. OwnEntries'
      BY <2>0, <2>6, SMT DEF Entries, OwnEntries, HasPid, user_init, entryVars
    <3>5. HeldEntries'
      BY <2>0, <2>6, SMT DEF Entries, HeldEntries, Holding, user_init, Goto, entryVars
    <3>6. OneOwner'
      BY <2>0, <2>6, SMT DEF Entries, OneOwner, Holding, HasPid, user_init, Goto
    <3>7. NoneLost'
      <4>1. \A q \in Process : HasPid(q) => HasPid(q)' /\ pid'[q] = pid[q]
        BY <2>6, SMT DEF HasPid, user_init
      <4>2. \A d \in CPU : pc[d] \in Holding
               => pc'[d] \in Holding /\ loc'[d].index = loc[d].index
        BY <2>6, SMT DEF Holding, Goto, user_init
      <4>3. \A e : Owned(e) => Owned(e)'
        BY <4>1, <4>2, Zenon DEF Owned
      <4> QED
        BY <2>0, <2>6, <4>3, Zenon DEF Entries, NoneLost, user_init, entryVars
    <3>8. Sources'
      BY <2>0, <2>6, SMT DEF Types, Sources, user_init
    <3> QED
      BY <3>1, <3>2, <3>3, <3>4, <3>5, <3>6, <3>7, <3>8, Zenon DEF ControlInv, Entries
  <2>7. ASSUME NEW c \in CPU, NEW p \in Process, push_task(c, p) PROVE ControlInv'
    <3>1. Types'
      <4>1. CPU_NUM - 1 \in 0 .. 2 * PROCESS_NUM + CPU_NUM
        BY TableAssumption, SMT
      <4>2. [Fresh EXCEPT !.proc = p, !.last = CPU_NUM - 1] \in Local
        BY <4>1, FreshLocal, Updated, Zenon
      <4>3. loc'[c] \in Local
        BY <2>loc, <2>7, <4>2, SMT DEF push_task
      <4>4. loc' = [loc EXCEPT ![c] = loc'[c]]
        BY <2>loc, <2>7, SMT DEF push_task
      <4>5. loc' \in [CPU -> Local]
        BY <2>loc, <4>3, <4>4, SMT
      <4>6. pc' \in [CPU -> Place]
        BY <2>pc, <2>7, SMT DEF Goto, Place, push_task
      <4>7. left' \in [Process -> 0 .. MAX_TASKS]
        BY <2>left, <2>7, TasksAssumption, SMT DEF push_task
      <4>8. overlapped' \subseteq Process
        BY <2>overlapped, <2>7, SMT DEF Begin, push_task
      <4> QED
        BY <2>0, <2>7, <4>5, <4>6, <4>7, <4>8, SMT
           DEF Types, push_task, entryVars, schedVars, cpuVars, freeVars
    <3>2. Control(c)'
      BY <2>loc, <2>pc, <2>7, SMT
         DEF Control, Registering, Using, HasPid, push_task, Fresh, Goto
    <3>3. /\ UNCHANGED <<valid, vspace, scheduler, life, pid, sources>>
          /\ \A e \in CPU \ {c} : pc'[e] = pc[e] /\ loc'[e] = loc[e]
          /\ pc[c] \notin Registering \cup {"invalidate"}
          /\ pc'[c] \notin Registering \cup {"invalidate"}
      BY <2>7, SMT DEF Registering, push_task, Goto, entryVars, schedVars
    <3> QED
      BY <3>1, <3>2, <3>3, QuietStep
  <2>8. ASSUME NEW c \in CPU, lookup(c) PROVE ControlInv'
    <3>0. loc[c].proc \in Process /\ scheduler[pid[loc[c].proc]] = loc[c].proc
      BY <2>0, <2>8, SMT DEF Control, Goto, lookup, Using, Entries, OwnEntries
    <3>1. Types'
      <4>1. loc'[c] = [loc[c] EXCEPT !.proc = scheduler[pid[loc[c].proc]]]
        BY <2>loc, <2>8, SMT DEF lookup
      <4>2. loc'[c] \in Local
        BY <2>loc, <3>0, <4>1, SMT DEF Local
      <4>3. loc' = [loc EXCEPT ![c] = loc'[c]]
        BY <2>loc, <2>8, SMT DEF lookup
      <4>4. loc' \in [CPU -> Local]
        BY <2>loc, <4>2, <4>3, SMT
      <4>5. pc' \in [CPU -> Place]
        BY <2>pc, <2>8, SMT DEF Goto, Place, lookup
      <4>6. tasks' \in [Process -> Nat]
        BY <2>tasks, <3>0, <2>8, SMT DEF lookup
      <4> QED
        BY <2>0, <2>8, <4>4, <4>5, <4>6, SMT
           DEF Types, lookup, entryVars, osVars, cpuVars, history, freeVars
    <3>2. Control(c)'
      BY <2>0, <2>8, SMT
         DEF Control, Entries, OwnEntries, Registering, Using, HasPid, lookup, Goto, osVars
    <3>3. /\ UNCHANGED <<valid, vspace, scheduler, life, pid, sources>>
          /\ \A e \in CPU \ {c} : pc'[e] = pc[e] /\ loc'[e] = loc[e]
          /\ pc[c] \notin Registering \cup {"invalidate"}
          /\ pc'[c] \notin Registering \cup {"invalidate"}
      BY <2>8, SMT DEF Registering, lookup, Goto, entryVars, osVars
    <3> QED
      BY <3>1, <3>2, <3>3, QuietStep
  <2>9. ASSUME NEW c \in CPU, peek(c) PROVE ControlInv'
    <3>1. Types'
      <4>1. Report(loc[c].proc) \in Prio
        BY SMT DEF Report, Prio
      <4>2. [loc[c] EXCEPT !.prio = Report(loc[c].proc)] \in Local
        BY <4>1, <2>loc, SMT DEF Local
      <4>3. loc'[c] \in Local
        BY <2>loc, <2>9, <4>2, SMT DEF peek
      <4>4. loc' = [loc EXCEPT ![c] = loc'[c]]
        BY <2>loc, <2>9, SMT DEF peek
      <4>5. loc' \in [CPU -> Local]
        BY <2>loc, <4>3, <4>4, SMT
      <4>6. pc' \in [CPU -> Place]
        BY <2>pc, <2>9, SMT DEF Goto, Place, peek
      <4> QED
        BY <2>0, <2>9, <4>5, <4>6, SMT
           DEF Types, peek, entryVars, osVars, schedVars, cpuVars, history, freeVars
    <3>2. Control(c)'
      <4>1. /\ pc'[c] = "store" /\ life' = life
            /\ loc'[c] = [loc[c] EXCEPT !.prio = Report(loc[c].proc)]
        BY <2>loc, <2>pc, <2>9, SMT DEF Goto, peek, osVars
      <4>2. /\ loc[c].proc \in Process /\ HasPid(loc[c].proc)
            /\ loc[c].cpu = 0 /\ loc[c].last = CPU_NUM - 1
        BY <2>0, <2>9, SMT DEF Control, Using, Goto, peek
      <4> QED
        BY <4>1, <4>2, TableAssumption, SMT DEF Control, Registering, Using, HasPid
    <3>3. /\ UNCHANGED <<valid, vspace, scheduler, life, pid, sources>>
          /\ \A e \in CPU \ {c} : pc'[e] = pc[e] /\ loc'[e] = loc[e]
          /\ pc[c] \notin Registering \cup {"invalidate"}
          /\ pc'[c] \notin Registering \cup {"invalidate"}
      BY <2>9, SMT DEF Registering, peek, Goto, entryVars, osVars, schedVars
    <3> QED
      BY <3>1, <3>2, <3>3, QuietStep
  <2>10. ASSUME NEW c \in CPU, store(c) PROVE ControlInv'
    <3>0. loc[c].proc \in Process /\ loc[c].cpu <= loc[c].last /\ loc[c].last < CPU_NUM
      BY <2>0, <2>10, SMT DEF Control, Goto, store, Using
    <3>1. Types'
      <4>1. loc[c] \in Local
        BY <2>loc
      <4>2. loc[c].cpu # loc[c].last => [loc[c] EXCEPT !.cpu = loc[c].cpu + 1] \in Local
        BY <3>0, <4>1, TableAssumption, SMT DEF Local, CPU
      <4>3. [Fresh EXCEPT !.proc = loc[c].proc] \in Local
        BY <3>0, FreshLocal, SMT DEF Local
      <4>4. /\ loc'[c] \in {[loc[c] EXCEPT !.cpu = loc[c].cpu + 1], Fresh,
                            [Fresh EXCEPT !.proc = loc[c].proc]}
            /\ loc'[c] = [loc[c] EXCEPT !.cpu = loc[c].cpu + 1] =>
                  loc[c].cpu # loc[c].last \/ loc'[c] \in Local
        BY <2>loc, <2>10, <4>3, Zenon DEF store
      <4>5. loc'[c] \in Local
        BY <4>2, <4>3, <4>4, FreshLocal, Zenon
      <4>6. loc' = [loc EXCEPT ![c] = loc'[c]]
        BY <2>loc, <2>10, SMT DEF store
      <4>7. loc' \in [CPU -> Local]
        BY <2>loc, <4>5, <4>6, SMT
      <4>8. pc' \in [CPU -> Place]
        BY <2>pc, <2>loc, <2>10, SMT DEF Goto, Place, Local, store
      <4>9. loc[c].cpu \in CPU /\ loc[c].prio \in Prio
        BY <2>loc, SMT DEF Local
      <4>10. highest_prio' \in [Index -> [CPU -> Prio]]
        BY <2>prio, <2>10, <4>9, Zenon DEF store
      <4> QED
        BY <2>0, <2>10, <4>7, <4>8, <4>10, SMT
           DEF Types, store, osVars, schedVars, cpuVars, history, freeVars
    <3>2. Control(c)'
      BY <2>loc, <2>pc, <2>0, <2>10, SMT
         DEF Control, Local, CPU, Registering, Using, HasPid, store, Fresh, Goto, osVars
    <3>3. /\ UNCHANGED <<valid, vspace, scheduler, life, pid, sources>>
          /\ \A e \in CPU \ {c} : pc'[e] = pc[e] /\ loc'[e] = loc[e]
          /\ pc[c] \notin Registering \cup {"invalidate"}
          /\ pc'[c] \notin Registering \cup {"invalidate"}
      BY <2>loc, <2>10, SMT DEF Registering, Local, store, Goto, osVars, schedVars
    <3> QED
      BY <3>1, <3>2, <3>3, QuietStep
  <2>11. ASSUME NEW c \in CPU, NEW p \in Process, unregister_process(c, p) PROVE ControlInv'
    <3>1. Types'
      <4>1. pid[p] \in Index
        BY <2>pid
      <4>2. [Fresh EXCEPT !.proc = p, !.index = pid[p]] \in Local
        BY <4>1, FreshLocal, Updated, Zenon
      <4>3. loc'[c] \in Local
        BY <2>loc, <2>11, <4>2, SMT DEF unregister_process
      <4>4. loc' = [loc EXCEPT ![c] = loc'[c]]
        BY <2>loc, <2>11, SMT DEF unregister_process
      <4>5. loc' \in [CPU -> Local]
        BY <2>loc, <4>3, <4>4, SMT
      <4>6. pc' \in [CPU -> Place]
        BY <2>pc, <2>11, SMT DEF Goto, Place, unregister_process
      <4> QED
        BY <2>0, <2>11, <4>5, <4>6, SMT
           DEF Types, unregister_process, schedVars, cpuVars, history, freeVars
    <3>2. \A e \in CPU : Control(e)'
      BY <2>0, <2>11, SMT
         DEF Entries, Types, Control, OwnEntries, Registering, Using, HasPid,
             unregister_process, Goto, InUse
    <3>3. RegisteredOnce'
      BY <2>0, <2>11, SMT DEF Types, Control, RegisteredOnce, unregister_process, Goto
    <3>4. OwnEntries'
      BY <2>0, <2>11, SMT DEF Entries, Types, OwnEntries, HasPid, unregister_process
    <3>5. HeldEntries'
      BY <2>0, <2>11, SMT
         DEF Entries, Types, OwnEntries, HeldEntries, HasPid, unregister_process, Goto
    <3>6. OneOwner'
      BY <2>0, <2>11, SMT DEF Entries, Types, OneOwner, HasPid, unregister_process, Goto
    <3>7. NoneLost'
      <4>1. \A q \in Process \ {p} : HasPid(q) => HasPid(q)' /\ pid'[q] = pid[q]
        BY <2>11, SMT DEF HasPid, unregister_process
      <4>2. \A d \in CPU : pc[d] \in Holding
               => pc'[d] \in Holding /\ loc'[d].index = loc[d].index
        BY <2>11, SMT DEF Holding, Goto, unregister_process
      <4>3. pc'[c] \in Holding /\ loc'[c].index = pid[p]
        BY <2>pc, <2>loc, <2>11, SMT DEF Holding, Goto, unregister_process
      <4>4. ASSUME NEW e, Owned(e) PROVE Owned(e)'
        <5>1. CASE \E q \in Process : HasPid(q) /\ pid[q] = e
          <6>1. PICK q \in Process : HasPid(q) /\ pid[q] = e
            BY <5>1
          <6>2. CASE q = p
            BY <4>3, <6>1, <6>2, Zenon DEF Owned
          <6>3. CASE q # p
            BY <4>1, <6>1, <6>3, Zenon DEF Owned
          <6> QED
            BY <6>2, <6>3
        <5>2. CASE \E d \in CPU : pc[d] \in Holding /\ loc[d].index = e
          BY <4>2, <5>2, Zenon DEF Owned
        <5> QED
          BY <4>4, <5>1, <5>2, Zenon DEF Owned
      <4> QED
        BY <2>0, <2>11, <4>4, Zenon DEF Entries, NoneLost, unregister_process
    <3>8. Sources'
      BY <2>0, <2>11, SMT DEF Sources, unregister_process, schedVars
    <3> QED
      BY <3>1, <3>2, <3>3, <3>4, <3>5, <3>6, <3>7, <3>8, Zenon DEF ControlInv, Entries
  <2>12. ASSUME NEW c \in CPU, invalidate(c) PROVE ControlInv'
    <3>1. Types'
      <4>1. loc'[c] \in Local
        BY <2>loc, <2>12, FreshLocal, SMT DEF invalidate
      <4>2. loc' = [loc EXCEPT ![c] = loc'[c]]
        BY <2>loc, <2>12, SMT DEF invalidate
      <4>3. loc' \in [CPU -> Local]
        BY <2>loc, <4>1, <4>2, SMT
      <4>4. pc' \in [CPU -> Place]
        BY <2>pc, <2>12, SMT DEF Goto, Place, invalidate
      <4>5. valid' \in [Index -> BOOLEAN]
        BY <2>valid, <2>12, Zenon DEF invalidate
      <4> QED
        BY <2>0, <2>12, <4>3, <4>4, <4>5, SMT
           DEF Types, invalidate, osVars, schedVars, cpuVars, history, freeVars
    <3>2. \A e \in CPU : Control(e)'
      BY <2>0, <2>12, SMT
         DEF Types, Control, Registering, Using, HasPid, invalidate, Fresh, Goto, osVars
    <3>3. RegisteredOnce'
      BY <2>0, <2>12, SMT DEF RegisteredOnce, Registering, invalidate, Goto
    <3>4. OwnEntries'
      BY <2>0, <2>12, SMT
         DEF Entries, OwnEntries, OneOwner, Holding, HasPid, invalidate, Goto, osVars
    <3>5. HeldEntries'
      BY <2>0, <2>12, SMT DEF Entries, Types, HeldEntries, OneOwner, Holding, invalidate, Goto
    <3>6. OneOwner'
      BY <2>0, <2>12, SMT
         DEF Entries, Types, OneOwner, Holding, HasPid, invalidate, Goto, osVars
    <3>7. NoneLost'
      <4>1. \A q \in Process : HasPid(q) => HasPid(q)' /\ pid'[q] = pid[q]
        BY <2>12, SMT DEF HasPid, invalidate, osVars
      <4>2. \A d \in CPU \ {c} : pc[d] \in Holding
               => pc'[d] \in Holding /\ loc'[d].index = loc[d].index
        BY <2>12, SMT DEF Goto, invalidate
      <4>3. \A e : Owned(e) /\ e # loc[c].index => Owned(e)'
        BY <4>1, <4>2, Zenon DEF Owned
      <4>4. \A i \in Index : IF i = loc[c].index THEN ~valid'[i] ELSE valid'[i] = valid[i]
        BY <2>valid, <2>12, Zenon DEF invalidate
      <4>5. loc[c].index # 0
        BY <2>0, <2>12, SMT DEF Entries, HeldEntries, Holding, Goto, invalidate
      <4>6. valid[0] /\ \A i \in Index \ {0} : valid[i] => Owned(i)
        BY <2>0 DEF Entries, NoneLost
      <4>7. valid'[0]
        BY <4>4, <4>5, <4>6, FirstEntry, Zenon
      <4>8. ASSUME NEW i \in Index \ {0}, valid'[i] PROVE Owned(i)'
        <5> QED
          BY <4>3, <4>4, <4>6, <4>8, Zenon
      <4> QED
        BY <4>7, <4>8, Zenon DEF NoneLost
    <3>8. Sources'
      BY <2>0, <2>12, SMT DEF Sources, invalidate, osVars, schedVars
    <3> QED
      BY <3>1, <3>2, <3>3, <3>4, <3>5, <3>6, <3>7, <3>8, Zenon DEF ControlInv, Entries
  <2>13. ASSUME NEW c \in CPU, kernel_task(c) PROVE ControlInv'
    <3>1. Types'
      <4>1. pc' \in [CPU -> Place]
        BY <2>pc, <2>13, SMT DEF Goto, Place, kernel_task
      <4>2. current_vspace' \in [CPU -> Index]
        BY <2>current, <2>13, FirstEntry, SMT DEF kernel_task
      <4> QED
        BY <2>0, <2>13, <4>1, <4>2, SMT
           DEF Types, kernel_task, entryVars, osVars, schedVars, history, freeVars
    <3>2. Control(c)'
      BY <2>0, <2>13, SMT DEF Control, Registering, Using, kernel_task, Goto
    <3>3. /\ UNCHANGED <<valid, vspace, scheduler, life, pid, sources>>
          /\ \A e \in CPU \ {c} : pc'[e] = pc[e] /\ loc'[e] = loc[e]
          /\ pc[c] \notin Registering \cup {"invalidate"}
          /\ pc'[c] \notin Registering \cup {"invalidate"}
      BY <2>13, SMT DEF Registering, kernel_task, Goto, entryVars, osVars, schedVars
    <3> QED
      BY <3>1, <3>2, <3>3, QuietStep
  <2>14. ASSUME NEW c \in CPU, kernel_done(c) PROVE ControlInv'
    <3>1. Types'
      <4>1. pc' \in [CPU -> Place]
        BY <2>pc, <2>14, SMT DEF Goto, Place, kernel_done
      <4> QED
        BY <2>0, <2>14, <4>1, SMT
           DEF Types, kernel_done, entryVars, osVars, schedVars, cpuVars, history, freeVars
    <3>2. Control(c)'
      BY <2>0, <2>14, SMT DEF Control, Registering, Using, kernel_done, Goto
    <3>3. /\ UNCHANGED <<valid, vspace, scheduler, life, pid, sources>>
          /\ \A e \in CPU \ {c} : pc'[e] = pc[e] /\ loc'[e] = loc[e]
          /\ pc[c] \notin Registering \cup {"invalidate"}
          /\ pc'[c] \notin Registering \cup {"invalidate"}
      BY <2>14, SMT DEF Registering, kernel_done, Goto, entryVars, osVars, schedVars
    <3> QED
      BY <3>1, <3>2, <3>3, QuietStep
  <2>15. ASSUME NEW c \in CPU, process_schedule(c) PROVE ControlInv'
    <3>1. Types'
      <4>1. next_i \in 0 .. 2 * PROCESS_NUM + CPU_NUM /\ 0 \in 0 .. 2 * PROCESS_NUM - 2
             /\ (next_i >= PROCESS_NUM => next_i - PROCESS_NUM \in 0 .. 2 * PROCESS_NUM - 2)
        BY <2>next_i, TableAssumption, SMT
      <4>2. \A s \in 0 .. 2 * PROCESS_NUM - 2 :
               [Fresh EXCEPT !.index = s, !.last = next_i] \in Local
        BY <4>1, FreshLocal, Updated, Zenon
      <4>3. loc'[c] \in Local
        BY <2>loc, <2>15, <4>1, <4>2, Zenon DEF process_schedule
      <4>4. loc' = [loc EXCEPT ![c] = loc'[c]]
        BY <2>loc, <2>15, SMT DEF process_schedule
      <4>5. loc' \in [CPU -> Local]
        BY <2>loc, <4>3, <4>4, SMT
      <4>6. pc' \in [CPU -> Place]
        BY <2>pc, <2>15, SMT DEF Goto, Place, process_schedule
      <4> QED
        BY <2>0, <2>15, <4>5, <4>6, SMT
           DEF Types, process_schedule, entryVars, osVars, schedVars, cpuVars, history, freeVars
    <3>2. Control(c)'
      <4>1. pc'[c] = "look" /\ loc'[c].proc = Null
        BY <2>loc, <2>pc, <2>15, SMT DEF Goto, Fresh, process_schedule
      <4>2. loc'[c].index < loc'[c].last /\ loc'[c].last < 2 * PROCESS_NUM
        BY <2>loc, <2>next_i, <2>15, TableAssumption, SMT DEF process_schedule
      <4> QED
        BY <4>1, <4>2, SMT DEF Control, Registering, Using
    <3>3. /\ UNCHANGED <<valid, vspace, scheduler, life, pid, sources>>
          /\ \A e \in CPU \ {c} : pc'[e] = pc[e] /\ loc'[e] = loc[e]
          /\ pc[c] \notin Registering \cup {"invalidate"}
          /\ pc'[c] \notin Registering \cup {"invalidate"}
      BY <2>15, SMT DEF Registering, process_schedule, Goto, entryVars, osVars, schedVars
    <3> QED
      BY <3>1, <3>2, <3>3, QuietStep
  <2>16. ASSUME NEW c \in CPU, look(c) PROVE ControlInv'
    <3>0. loc[c].index < loc[c].last /\ loc[c].last < 2 * PROCESS_NUM
      BY <2>0, <2>16, SMT DEF Control, Goto, look
    <3>1. Types'
      <4>1. loc[c] \in Local /\ Advanced(loc[c]) \in Local
        BY <2>loc, <3>0, AdvancedLocal, SMT
      <4>2. loc'[c] \in Local
        BY <2>16, <4>1, SMT DEF look
      <4>3. loc' = [loc EXCEPT ![c] = loc'[c]]
        BY <2>loc, <2>16, SMT DEF look
      <4>4. loc' \in [CPU -> Local]
        BY <2>loc, <4>2, <4>3, SMT
      <4>5. pc' \in [CPU -> Place]
        BY <2>pc, <2>16, SMT DEF Goto, Place, After, look
      <4> QED
        BY <2>0, <2>16, <4>4, <4>5, SMT
           DEF Types, look, entryVars, osVars, schedVars, cpuVars, history, freeVars
    <3>2. Control(c)'
      BY <2>pc, <2>0, <2>16, SMT
         DEF Control, Registering, Using, look, Advanced, After, Fresh, Goto
    <3>3. /\ UNCHANGED <<valid, vspace, scheduler, life, pid, sources>>
          /\ \A e \in CPU \ {c} : pc'[e] = pc[e] /\ loc'[e] = loc[e]
          /\ pc[c] \notin Registering \cup {"invalidate"}
          /\ pc'[c] \notin Registering \cup {"invalidate"}
      BY <2>16, SMT DEF Registering, look, After, Goto, entryVars, osVars, schedVars
    <3> QED
      BY <3>1, <3>2, <3>3, QuietStep
  <2>17. ASSUME NEW c \in CPU, read(c) PROVE ControlInv'
    <3>1. Types'
      <4>1. loc[c].index % PROCESS_NUM \in Index
        BY <2>loc, Entry, SMT DEF Local
      <4>2. highest_prio[loc[c].index % PROCESS_NUM][c] \in Prio
        BY <4>1, <2>prio
      <4>3. [loc[c] EXCEPT !.prio = highest_prio[loc[c].index % PROCESS_NUM][c]] \in Local
        BY <4>2, <2>loc, SMT DEF Local
      <4>4. loc'[c] \in Local
        BY <2>loc, <2>17, <4>3, SMT DEF read
      <4>5. loc' = [loc EXCEPT ![c] = loc'[c]]
        BY <2>loc, <2>17, SMT DEF read
      <4>6. loc' \in [CPU -> Local]
        BY <2>loc, <4>4, <4>5, SMT
      <4>7. pc' \in [CPU -> Place]
        BY <2>pc, <2>17, SMT DEF Goto, Place, read
      <4> QED
        BY <2>0, <2>17, <4>6, <4>7, SMT
           DEF Types, read, entryVars, osVars, schedVars, cpuVars, history, freeVars
    <3>2. Control(c)'
      BY <2>0, <2>17, SMT DEF Control, Registering, Using, read, Goto
    <3>3. /\ UNCHANGED <<valid, vspace, scheduler, life, pid, sources>>
          /\ \A e \in CPU \ {c} : pc'[e] = pc[e] /\ loc'[e] = loc[e]
          /\ pc[c] \notin Registering \cup {"invalidate"}
          /\ pc'[c] \notin Registering \cup {"invalidate"}
      BY <2>17, SMT DEF Registering, read, Goto, entryVars, osVars, schedVars
    <3> QED
      BY <3>1, <3>2, <3>3, QuietStep
  <2>18. ASSUME NEW c \in CPU, confirm(c) PROVE ControlInv'
    <3>0. loc[c].index < loc[c].last /\ loc[c].last < 2 * PROCESS_NUM
      BY <2>0, <2>18, SMT DEF Control, Goto, confirm
    <3>1. Types'
      <4>1. loc[c] \in Local /\ Advanced(loc[c]) \in Local
        BY <2>loc, <3>0, AdvancedLocal, SMT
      <4>2. loc[c].index % PROCESS_NUM \in Index
        BY <4>1, Entry, SMT DEF Local
      <4> DEFINE m == [loc[c] EXCEPT !.best = loc[c].prio,
                                     !.choice = loc[c].index % PROCESS_NUM]
      <4>3. loc[c].prio \in Prio
        BY <4>1, SMT DEF Local
      <4>4. m \in Local
        BY <4>1, <4>2, <4>3, Updated, Zenon
      <4>5. m.index < m.last /\ m.last < 2 * PROCESS_NUM
        BY <3>0, SMT
      <4> HIDE DEF m
      <4>6. Advanced(m) \in Local
        BY <4>4, <4>5, AdvancedLocal, Zenon
      <4>7. loc'[c] \in Local
        BY <2>loc, <2>18, <4>1, <4>6, Zenon DEF confirm, m
      <4>8. loc' = [loc EXCEPT ![c] = loc'[c]]
        BY <2>loc, <2>18, SMT DEF confirm
      <4>9. loc' \in [CPU -> Local]
        BY <2>loc, <4>7, <4>8, SMT
      <4>10. pc' \in [CPU -> Place]
        BY <2>pc, <2>18, SMT DEF Goto, Place, After, confirm
      <4> QED
        BY <2>0, <2>18, <4>1, <4>9, <4>10, SMT
           DEF Types, confirm, entryVars, osVars, schedVars, cpuVars, history, freeVars
    <3>2. Control(c)'
      BY <2>pc, <2>0, <2>18, SMT
         DEF Control, Registering, Using, confirm, Advanced, After, Fresh, Goto
    <3>3. /\ UNCHANGED <<valid, vspace, scheduler, life, pid, sources>>
          /\ \A e \in CPU \ {c} : pc'[e] = pc[e] /\ loc'[e] = loc[e]
          /\ pc[c] \notin Registering \cup {"invalidate"}
          /\ pc'[c] \notin Registering \cup {"invalidate"}
      BY <2>18, SMT DEF Registering, confirm, After, Goto, entryVars, osVars, schedVars
    <3> QED
      BY <3>1, <3>2, <3>3, QuietStep
  <2>19. ASSUME NEW c \in CPU, switch_vspace(c) PROVE ControlInv'
    <3>1. Types'
      <4>1. pc' \in [CPU -> Place]
        BY <2>pc, <2>19, SMT DEF Goto, Place, switch_vspace
      <4>2. current_vspace' \in [CPU -> Index]
        BY <2>current, <2>loc, <2>19, SMT DEF Local, switch_vspace
      <4> QED
        BY <2>0, <2>19, <4>1, <4>2, SMT
           DEF Types, switch_vspace, entryVars, osVars, schedVars, history, freeVars
    <3>2. Control(c)'
      BY <2>0, <2>19, SMT DEF Control, Registering, Using, switch_vspace, Goto
    <3>3. /\ UNCHANGED <<valid, vspace, scheduler, life, pid, sources>>
          /\ \A e \in CPU \ {c} : pc'[e] = pc[e] /\ loc'[e] = loc[e]
          /\ pc[c] \notin Registering \cup {"invalidate"}
          /\ pc'[c] \notin Registering \cup {"invalidate"}
      BY <2>19, SMT DEF Registering, switch_vspace, Goto, entryVars, osVars, schedVars
    <3> QED
      BY <3>1, <3>2, <3>3, QuietStep
  <2>20. ASSUME NEW c \in CPU, pop_lost(c) PROVE ControlInv'
    <3>1. Types'
      <4>1. loc'[c] \in Local
        BY <2>loc, <2>20, FreshLocal, SMT DEF pop_lost
      <4>2. loc' = [loc EXCEPT ![c] = loc'[c]]
        BY <2>loc, <2>20, SMT DEF pop_lost
      <4>3. loc' \in [CPU -> Local]
        BY <2>loc, <4>1, <4>2, SMT
      <4>4. pc' \in [CPU -> Place]
        BY <2>pc, <2>20, SMT DEF Goto, Place, pop_lost
      <4> QED
        BY <2>0, <2>20, <4>3, <4>4, SMT
           DEF Types, pop_lost, entryVars, osVars, schedVars, cpuVars, history, freeVars
    <3>2. Control(c)'
      BY <2>loc, <2>20, SMT DEF Control, Registering, Using, pop_lost, Fresh, Goto
    <3>3. /\ UNCHANGED <<valid, vspace, scheduler, life, pid, sources>>
          /\ \A e \in CPU \ {c} : pc'[e] = pc[e] /\ loc'[e] = loc[e]
          /\ pc[c] \notin Registering \cup {"invalidate"}
          /\ pc'[c] \notin Registering \cup {"invalidate"}
      BY <2>20, SMT DEF Registering, pop_lost, Goto, entryVars, osVars, schedVars
    <3> QED
      BY <3>1, <3>2, <3>3, QuietStep
  <2>21. ASSUME NEW c \in CPU, pop_task(c) PROVE ControlInv'
    <3>1. Types'
      <4>1. PICK p \in Process : loc' = [loc EXCEPT ![c] = [Fresh EXCEPT !.proc = p,
                !.prio = Report(p), !.cpu = c, !.last = c, !.ret = Empty(c)]]
        BY <2>21, Zenon DEF pop_task, OwnerOf
      <4>2. Report(p) \in Prio /\ c \in 0 .. 2 * PROCESS_NUM + CPU_NUM
        BY TableAssumption, SMT DEF Report, Prio, CPU
      <4>ret. Empty(c) \in {"kernel", "idle", "into", "run"}
        BY Zenon DEF Empty
      <4>3. [Fresh EXCEPT !.proc = p, !.prio = Report(p), !.cpu = c, !.last = c,
                          !.ret = Empty(c)] \in Local
        BY <4>2, <4>ret, FreshLocal, Updated, Zenon
      <4>4. loc'[c] \in Local
        BY <2>loc, <4>1, <4>3, SMT
      <4>5. loc' = [loc EXCEPT ![c] = loc'[c]]
        BY <2>loc, <2>21, SMT DEF pop_task
      <4>6. loc' \in [CPU -> Local]
        BY <2>loc, <4>4, <4>5, SMT
      <4>7. pc' \in [CPU -> Place]
        BY <2>pc, <2>21, SMT DEF Goto, Place, pop_task
      <4>8. overlapped' \subseteq Process
        BY <2>overlapped, <2>21, SMT DEF Begin, OwnerOf, pop_task
      <4> QED
        BY <2>0, <2>21, <4>6, <4>7, <4>8, SMT
           DEF Types, pop_task, entryVars, osVars, schedVars, cpuVars, freeVars
    <3>2. Control(c)'
      <4>1. PICK p \in Process :
               /\ HasPid(p)
               /\ loc' = [loc EXCEPT ![c] = [Fresh EXCEPT !.proc = p, !.prio = Report(p),
                                                         !.cpu = c, !.last = c,
                                                         !.ret = Empty(c)]]
               /\ pc' = [pc EXCEPT ![c] = IF Report(p) = READY THEN "take" ELSE "store"]
               /\ life' = life
        BY <2>21, Zenon DEF pop_task, OwnerOf, HasPid, Goto, osVars
      <4>2. loc'[c].proc = p /\ loc'[c].cpu = c /\ loc'[c].last = c
        BY <2>loc, <4>1, SMT
      <4>3. pc'[c] \in {"take", "store"} /\ c < CPU_NUM /\ c <= c
        BY <2>pc, <4>1, TableAssumption, SMT DEF CPU
      <4> QED
        BY <4>1, <4>2, <4>3, SMT DEF Control, Registering, Using, HasPid
    <3>3. /\ UNCHANGED <<valid, vspace, scheduler, life, pid, sources>>
          /\ \A e \in CPU \ {c} : pc'[e] = pc[e] /\ loc'[e] = loc[e]
          /\ pc[c] \notin Registering \cup {"invalidate"}
          /\ pc'[c] \notin Registering \cup {"invalidate"}
      BY <2>21, SMT DEF Registering, pop_task, Goto, entryVars, osVars, schedVars
    <3> QED
      BY <3>1, <3>2, <3>3, QuietStep
  <2>22. ASSUME NEW c \in CPU, take_task(c) PROVE ControlInv'
    <3>0. loc[c].proc \in Process
      BY <2>0, <2>22, SMT DEF Control, Goto, take_task, Using
    <3>1. Types'
      <4>1. 0 \in CPU /\ CPU_NUM - 1 \in 0 .. 2 * PROCESS_NUM + CPU_NUM
        BY TableAssumption, SMT DEF CPU
      <4>2. \A q \in Prio, r \in {"kernel", "idle", "into", "run"} :
               [loc[c] EXCEPT !.prio = q, !.cpu = 0,
                !.last = CPU_NUM - 1, !.ret = r] \in Local
        BY <4>1, <2>loc, Updated, Zenon
      <4>3. READY \in Prio /\ NO_TASK \in Prio
        BY Zenon DEF Prio
      <4> DEFINE got == tasks[loc[c].proc] > 0
                 q == IF got THEN READY ELSE NO_TASK
                 r == IF got THEN "run" ELSE Empty(c)
      <4>4. q \in Prio /\ r \in {"kernel", "idle", "into", "run"}
        BY <4>3, Zenon DEF Empty
      <4>5. loc'[c] \in Local
        <5>1. loc' = [loc EXCEPT ![c] = [loc[c] EXCEPT !.prio = q, !.cpu = 0,
                                                     !.last = CPU_NUM - 1, !.ret = r]]
          BY <2>22 DEF take_task
        <5> HIDE DEF q, r
        <5>2. [loc[c] EXCEPT !.prio = q, !.cpu = 0, !.last = CPU_NUM - 1, !.ret = r] \in Local
          BY <4>2, <4>4, Zenon
        <5> QED
          BY <2>loc, <5>1, <5>2, SMT
      <4>6. loc' = [loc EXCEPT ![c] = loc'[c]]
        BY <2>loc, <2>22, SMT DEF take_task
      <4>7. loc' \in [CPU -> Local]
        BY <2>loc, <4>5, <4>6, SMT
      <4>8. pc' \in [CPU -> Place]
        BY <2>pc, <2>22, SMT DEF Goto, Place, take_task
      <4>9. tasks' \in [Process -> Nat]
        BY <2>tasks, <3>0, <2>22, SMT DEF take_task
      <4> QED
        BY <2>0, <2>22, <4>7, <4>8, <4>9, SMT
           DEF Types, take_task, entryVars, osVars, cpuVars, history, freeVars
    <3>2. Control(c)'
      <4>1. pc'[c] = "store" /\ life' = life
        BY <2>pc, <2>22, SMT DEF Goto, take_task, osVars
      <4>2. /\ loc'[c].proc = loc[c].proc /\ loc'[c].cpu = 0
            /\ loc'[c].last = CPU_NUM - 1
        BY <2>loc, <2>22, SMT DEF take_task
      <4>3. loc[c].proc \in Process /\ HasPid(loc[c].proc)
        BY <2>0, <2>22, SMT DEF Control, Using, Goto, take_task
      <4> QED
        BY <4>1, <4>2, <4>3, TableAssumption, SMT DEF Control, Registering, Using, HasPid
    <3>3. /\ UNCHANGED <<valid, vspace, scheduler, life, pid, sources>>
          /\ \A e \in CPU \ {c} : pc'[e] = pc[e] /\ loc'[e] = loc[e]
          /\ pc[c] \notin Registering \cup {"invalidate"}
          /\ pc'[c] \notin Registering \cup {"invalidate"}
      BY <2>22, SMT DEF Registering, take_task, Goto, entryVars, osVars
    <3> QED
      BY <3>1, <3>2, <3>3, QuietStep
  <2>23. ASSUME NEW c \in CPU, exits(c) PROVE ControlInv'
    <3>1. Types'
      <4>1. loc'[c] \in Local
        BY <2>loc, <2>23, FreshLocal, SMT DEF exits
      <4>2. loc' = [loc EXCEPT ![c] = loc'[c]]
        BY <2>loc, <2>23, SMT DEF exits
      <4>3. loc' \in [CPU -> Local]
        BY <2>loc, <4>1, <4>2, SMT
      <4>4. pc' \in [CPU -> Place]
        BY <2>pc, <2>23, SMT DEF Goto, Place, exits
      <4>5. home' \in [CPU -> Process \cup {Null}]
        BY <2>home, <2>0, <2>23, SMT DEF Control, Goto, Using, exits
      <4> QED
        BY <2>0, <2>23, <4>3, <4>4, <4>5, SMT
           DEF Types, exits, entryVars, osVars, schedVars, history, freeVars
    <3>2. Control(c)'
      BY <2>loc, <2>pc, <2>23, SMT DEF Control, Registering, Using, exits, Fresh, Goto
    <3>3. /\ UNCHANGED <<valid, vspace, scheduler, life, pid, sources>>
          /\ \A e \in CPU \ {c} : pc'[e] = pc[e] /\ loc'[e] = loc[e]
          /\ pc[c] \notin Registering \cup {"invalidate"}
          /\ pc'[c] \notin Registering \cup {"invalidate"}
      BY <2>23, SMT DEF Registering, exits, Goto, entryVars, osVars, schedVars
    <3> QED
      BY <3>1, <3>2, <3>3, QuietStep
  <2>24. ASSUME NEW c \in CPU, exits_by_trap(c) PROVE ControlInv'
    <3>0. loc[c].proc \in Process
      BY <2>0, <2>24, SMT DEF Control, Goto, exits_by_trap, Using
    <3>1. Types'
      <4>1. loc'[c] \in Local
        BY <2>loc, <2>24, FreshLocal, SMT DEF exits_by_trap
      <4>4. pc' \in [CPU -> Place]
        BY <2>pc, <2>24, SMT DEF Goto, Place, exits_by_trap
      <4>5. current_vspace' \in [CPU -> Index]
        BY <2>current, <2>pid, <3>0, <2>24, SMT DEF exits_by_trap
      <4>6. home' \in [CPU -> Process \cup {Null}]
        BY <2>home, <2>24, SMT DEF exits_by_trap
      <4> QED
        BY <2>0, <2>24, <4>1, <4>4, <4>5, <4>6, SMT
           DEF Types, exits_by_trap, entryVars, osVars, schedVars, history, freeVars
    <3>2. Control(c)'
      BY <2>loc, <2>pc, <2>24, SMT DEF Control, Registering, Using, exits_by_trap, Fresh, Goto
    <3>3. /\ UNCHANGED <<valid, vspace, scheduler, life, pid, sources>>
          /\ \A e \in CPU \ {c} : pc'[e] = pc[e] /\ loc'[e] = loc[e]
          /\ pc[c] \notin Registering \cup {"invalidate"}
          /\ pc'[c] \notin Registering \cup {"invalidate"}
      BY <2>24, SMT DEF Registering, exits_by_trap, Goto, entryVars, osVars, schedVars
    <3> QED
      BY <3>1, <3>2, <3>3, QuietStep
  <2>25. ASSUME NEW c \in CPU, utask_schedule(c) PROVE ControlInv'
    <3>1. Types'
      <4>1. pc' \in [CPU -> Place]
        BY <2>pc, <2>25, SMT DEF Goto, Place, utask_schedule
      <4>2. current_vspace' \in [CPU -> Index]
        BY <2>current, <2>loc, <2>25, SMT DEF Local, utask_schedule
      <4> QED
        BY <2>0, <2>25, <4>1, <4>2, SMT
           DEF Types, utask_schedule, entryVars, osVars, schedVars, history, freeVars
    <3>2. Control(c)'
      BY <2>0, <2>25, SMT DEF Control, Registering, Using, utask_schedule, Goto
    <3>3. /\ UNCHANGED <<valid, vspace, scheduler, life, pid, sources>>
          /\ \A e \in CPU \ {c} : pc'[e] = pc[e] /\ loc'[e] = loc[e]
          /\ pc[c] \notin Registering \cup {"invalidate"}
          /\ pc'[c] \notin Registering \cup {"invalidate"}
      BY <2>25, SMT DEF Registering, utask_schedule, Goto, entryVars, osVars, schedVars
    <3> QED
      BY <3>1, <3>2, <3>3, QuietStep
  <2>26. ASSUME NEW c \in CPU, into_kernel(c) PROVE ControlInv'
    <3>1. Types'
      <4>1. [Fresh EXCEPT !.choice = current_vspace[c]] \in Local
        BY <2>current, FreshLocal, SMT DEF Local
      <4>2. loc' \in [CPU -> Local]
        BY <2>loc, <2>26, <4>1, Zenon DEF into_kernel
      <4>3. pc' \in [CPU -> Place]
        BY <2>pc, <2>26, SMT DEF Goto, Place, into_kernel
      <4>4. home' \in [CPU -> Process \cup {Null}]
        BY <2>home, <2>26, SMT DEF into_kernel
      <4> QED
        BY <2>0, <2>26, <4>2, <4>3, <4>4, SMT
           DEF Types, into_kernel, entryVars, osVars, schedVars, history, freeVars
    <3>2. Control(c)'
      BY <2>loc, <2>pc, <2>26, SMT DEF Control, Registering, Using, into_kernel, Fresh, Goto
    <3>3. /\ UNCHANGED <<valid, vspace, scheduler, life, pid, sources>>
          /\ \A e \in CPU \ {c} : pc'[e] = pc[e] /\ loc'[e] = loc[e]
          /\ pc[c] \notin Registering \cup {"invalidate"}
          /\ pc'[c] \notin Registering \cup {"invalidate"}
      BY <2>26, SMT DEF Registering, into_kernel, Goto, entryVars, osVars, schedVars
    <3> QED
      BY <3>1, <3>2, <3>3, QuietStep
  <2>27. ASSUME UNCHANGED vars PROVE ControlInv'
    BY <2>0, <2>27, Zenon
       DEF ControlInv, Types, Control, Owned, RegisteredOnce, Entries, OwnEntries, HeldEntries,
           OneOwner, NoneLost, Sources, HasPid, vars, entryVars, osVars, schedVars, cpuVars,
           history, freeVars
  <2> QED
    BY <2>1, <2>2, <2>3, <2>4, <2>5, <2>6, <2>7, <2>8, <2>9, <2>10, <2>11, <2>12, <2>13, <2>14,
       <2>15, <2>16, <2>17, <2>18, <2>19, <2>20, <2>21, <2>22, <2>23, <2>24, <2>25, <2>26,
       <2>27, Zenon DEF
       Next, Register, UseScheduler, Drop, Schedule
<1> QED
  BY <1>1, <1>2, PTL DEF Spec

\* Between process_init and process_drop the entry of a process says where
\* this process is, whatever is done to the entry's next or previous owner
\* and however late (api.rs:138-167).
THEOREM EveryEntryIsOwn == Spec => []EntryIsOwn
<1>1. ControlInv => EntryIsOwn
  BY SMT DEF ControlInv, Entries, OwnEntries, HasPid, EntryIsOwn
<1> QED
  BY <1>1, ControlInvariance, PTL

\* Holders, which the property is stated with, are those who own the entry.
LEMMA InHolders ==
    ASSUME ControlInv, NEW e
    PROVE  /\ \A p \in Process : p \in Holders(e) <=>
                 \/ HasPid(p) /\ pid[p] = e
                 \/ \E c \in CPU : pc[c] \in Holding /\ loc[c].proc = p /\ loc[c].index = e
           /\ Owned(e) <=> Holders(e) # {}
<1>1. \A p \in Process : p \in Holders(e) <=>
          \/ HasPid(p) /\ pid[p] = e
          \/ \E c \in CPU : pc[c] \in Holding /\ loc[c].proc = p /\ loc[c].index = e
  BY Zenon DEF Holders, HasPid, Holding
<1>2. \A c \in CPU : pc[c] \in Holding => loc[c].proc \in Process
  BY SMT DEF ControlInv, Control, Holding, Registering
<1>3. Holders(e) \subseteq Process
  BY Zenon DEF Holders
<1> QED
  BY <1>1, <1>2, <1>3, Zenon DEF Owned

\* A pid belongs to one process at a time and never to the kernel's, and an
\* entry that nobody holds can be claimed again (process_info.rs:72-96).
THEOREM EveryEntryHasOneOwner == Spec => []EntryHasOneOwner
<1>1. ControlInv => EntryHasOneOwner
  <2> SUFFICES ASSUME ControlInv, NEW e \in Index \ {0}
               PROVE  /\ \A p, q \in Holders(e) : p = q
                      /\ valid[e] <=> Holders(e) # {}
    BY Zenon DEF EntryHasOneOwner
  <2>0. OwnEntries /\ HeldEntries /\ OneOwner /\ NoneLost
    BY DEF ControlInv, Entries
  <2>1. ASSUME NEW p \in Holders(e), NEW q \in Holders(e) PROVE p = q
    <3>1. p \in Process /\ q \in Process
      BY Zenon DEF Holders
    <3>2. \/ HasPid(p) /\ pid[p] = e
          \/ \E c \in CPU : pc[c] \in Holding /\ loc[c].proc = p /\ loc[c].index = e
      BY <3>1, InHolders, Zenon
    <3>3. \/ HasPid(q) /\ pid[q] = e
          \/ \E c \in CPU : pc[c] \in Holding /\ loc[c].proc = q /\ loc[c].index = e
      BY <3>1, InHolders, Zenon
    <3> QED
      BY <2>0, <3>1, <3>2, <3>3, Zenon DEF OneOwner
  <2>2. valid[e] => Owned(e)
    BY <2>0, Zenon DEF NoneLost
  <2>3. Owned(e) => valid[e]
    BY <2>0, Zenon DEF Owned, OwnEntries, HeldEntries
  <2> QED
    BY <2>1, <2>2, <2>3, InHolders, Zenon
<1> QED
  BY <1>1, ControlInvariance, PTL

-----------------------------------------------------------------------------
(* How many tasks there are.                                               *)

\* The other CPUs stay where they are.
Others(c) == \A d \in CPU \ {c} : pc'[d] = pc[d] /\ loc'[d] = loc[d]

\* The steps of one CPU.
Step(c) == Register(c) \/ UseScheduler(c) \/ Drop(c) \/ Schedule(c)

\* A step is one CPU's.
LEMMA OneMoves ==
    ASSUME ControlInv, NEW c \in CPU, Step(c)
    PROVE  Others(c)
<1>1. CASE \E p \in Process : register_process(c, p)
  BY <1>1, SMT DEF Others, register_process, Goto
<1>2. CASE claim(c)
  BY <1>2, SMT DEF Others, claim, Goto
<1>3. CASE retry(c)
  BY <1>3, SMT DEF Others, retry, Goto
<1>4. CASE store_vspace(c)
  BY <1>4, SMT DEF Others, store_vspace, Goto
<1>5. CASE store_scheduler(c)
  BY <1>5, SMT DEF Others, store_scheduler, Goto
<1>6. CASE \E p \in Process : user_init(c, p)
  BY <1>6, SMT DEF Others, user_init, Goto
<1>7. CASE \E p \in Process : push_task(c, p)
  BY <1>7, SMT DEF Others, push_task, Goto
<1>8. CASE lookup(c)
  BY <1>8, SMT DEF Others, lookup, Goto
<1>9. CASE peek(c)
  BY <1>9, SMT DEF Others, peek, Goto
<1>10. CASE store(c)
  BY <1>10, SMT DEF Others, store, Goto
<1>11. CASE \E p \in Process : unregister_process(c, p)
  BY <1>11, SMT DEF Others, unregister_process, Goto
<1>12. CASE invalidate(c)
  BY <1>12, SMT DEF Others, invalidate, Goto
<1>13. CASE kernel_task(c)
  BY <1>13, SMT DEF Others, kernel_task, Goto
<1>14. CASE kernel_done(c)
  BY <1>14, SMT DEF Others, kernel_done, Goto
<1>15. CASE process_schedule(c)
  BY <1>15, SMT DEF Others, process_schedule, Goto
<1>16. CASE look(c)
  BY <1>16, SMT DEF Others, look, Goto
<1>17. CASE read(c)
  BY <1>17, SMT DEF Others, read, Goto
<1>18. CASE confirm(c)
  BY <1>18, SMT DEF Others, confirm, Goto
<1>19. CASE switch_vspace(c)
  BY <1>19, SMT DEF Others, switch_vspace, Goto
<1>20. CASE pop_lost(c)
  BY <1>20, SMT DEF Others, pop_lost, Goto
<1>21. CASE pop_task(c)
  BY <1>21, SMT DEF Others, pop_task, Goto
<1>22. CASE take_task(c)
  BY <1>22, SMT DEF Others, take_task, Goto
<1>23. CASE exits(c)
  BY <1>23, SMT DEF Others, exits, Goto
<1>24. CASE exits_by_trap(c)
  BY <1>24, SMT DEF Others, exits_by_trap, Goto
<1>25. CASE utask_schedule(c)
  BY <1>25, SMT DEF Others, utask_schedule, Goto
<1>26. CASE into_kernel(c)
  BY <1>26, SMT DEF Others, into_kernel, Goto
<1> QED
  BY <1>1, <1>2, <1>3, <1>4, <1>5, <1>6, <1>7, <1>8, <1>9, <1>10, <1>11, <1>12, <1>13, <1>14,
     <1>15, <1>16, <1>17, <1>18, <1>19, <1>20, <1>21, <1>22, <1>23, <1>24, <1>25, <1>26,
     Zenon DEF Step,
     Register, UseScheduler, Drop, Schedule

\* There are as many pushes under way as CPUs at most.
LEMMA PushingFinite ==
    ASSUME NEW p
    PROVE  IsFiniteSet(Pushing(p)) /\ Cardinality(Pushing(p)) \in Nat
<1>1. 0 \in Int /\ CPU_NUM - 1 \in Int
  BY TableAssumption, SMT
<1>2. IsFiniteSet(CPU)
  BY <1>1, FS_Interval, Zenon DEF CPU
<1>3. Pushing(p) \subseteq CPU
  BY Zenon DEF Pushing
<1> QED
  BY <1>2, <1>3, FS_Subset, FS_CardinalityType, Zenon

\* A CPU's step begins or ends one push at most.
LEMMA StillPushing ==
    ASSUME NEW c \in CPU, Others(c), NEW p
    PROVE  /\ c \notin Pushing(p) /\ c \notin Pushing(p)' => Pushing(p)' = Pushing(p)
           /\ c \notin Pushing(p) /\ c \in Pushing(p)' => Pushing(p)' = Pushing(p) \cup {c}
           /\ c \in Pushing(p) /\ c \notin Pushing(p)' => Pushing(p)' = Pushing(p) \ {c}
<1>1. \A d \in CPU \ {c} : d \in Pushing(p)' <=> d \in Pushing(p)
  BY Zenon DEF Others, Pushing
<1>2. Pushing(p) \subseteq CPU /\ Pushing(p)' \subseteq CPU
  BY Zenon DEF Pushing
<1> QED
  BY <1>1, <1>2, SMT

\* No push is counted twice or lost, wherever the entry sends it
\* (api.rs:254-324).
THEOREM TasksInvariance == Spec => []TasksInv
<1>1. Init => TasksInv
  <2> SUFFICES ASSUME Init, NEW p \in Process
               PROVE  tasks[p] + left[p] + Cardinality(Pushing(p)) <= MAX_TASKS
    BY DEF TasksInv
  <2>1. Pushing(p) = {}
    BY SMT DEF Init, Pushing
  <2>2. Cardinality(Pushing(p)) = 0
    BY <2>1, FS_EmptySet, Zenon
  <2>3. tasks[p] = 0 /\ left[p] = MAX_TASKS
    BY SMT DEF Init
  <2> QED
    BY <2>2, <2>3, TasksAssumption, SMT
<1>2. ControlInv /\ TasksInv /\ [Next]_vars => TasksInv'
  <2> SUFFICES ASSUME ControlInv, TasksInv, [Next]_vars, NEW p \in Process
               PROVE  (tasks[p] + left[p] + Cardinality(Pushing(p)) <= MAX_TASKS)'
    BY DEF TasksInv
  <2>types. /\ pc \in [CPU -> Place] /\ loc \in [CPU -> Local]
            /\ tasks \in [Process -> Nat] /\ left \in [Process -> 0 .. MAX_TASKS]
    BY DEF ControlInv, Types
  <2>before. tasks[p] + left[p] + Cardinality(Pushing(p)) <= MAX_TASKS
    BY DEF TasksInv
  <2>finite. IsFiniteSet(Pushing(p)) /\ Cardinality(Pushing(p)) \in Nat
    BY PushingFinite
  <2>same. ASSUME Pushing(p)' = Pushing(p), tasks'[p] <= tasks[p], tasks'[p] \in Nat,
                  left'[p] = left[p]
           PROVE  (tasks[p] + left[p] + Cardinality(Pushing(p)) <= MAX_TASKS)'
    BY <2>same, <2>types, <2>before, <2>finite, TasksAssumption, SMT
  <2>1. ASSUME NEW c \in CPU, Step(c)
        PROVE  (tasks[p] + left[p] + Cardinality(Pushing(p)) <= MAX_TASKS)'
    <3>others. Others(c)
      BY <2>1, OneMoves
    <3>quiet. ASSUME pc[c] # "lookup", pc'[c] # "lookup", tasks' = tasks, left' = left
              PROVE  (tasks[p] + left[p] + Cardinality(Pushing(p)) <= MAX_TASKS)'
      <4>1. c \notin Pushing(p) /\ c \notin Pushing(p)'
        BY <3>quiet, Zenon DEF Pushing
      <4>2. Pushing(p)' = Pushing(p)
        BY <3>others, <4>1, StillPushing, Zenon
      <4> QED
        BY <2>types, <2>same, <3>quiet, <4>2, SMT
    <3>1. CASE \E q \in Process : register_process(c, q)
      <4>1. pc[c] # "lookup" /\ pc'[c] # "lookup" /\ tasks' = tasks /\ left' = left
        BY <3>1, SMT DEF register_process, Goto, schedVars
      <4> QED
        BY <3>quiet, <4>1
    <3>2. CASE claim(c)
      <4>1. pc[c] # "lookup" /\ pc'[c] # "lookup" /\ tasks' = tasks /\ left' = left
        BY <3>2, SMT DEF claim, Goto, osVars, schedVars
      <4> QED
        BY <3>quiet, <4>1
    <3>3. CASE retry(c)
      <4>1. pc[c] # "lookup" /\ pc'[c] # "lookup" /\ tasks' = tasks /\ left' = left
        BY <3>3, SMT DEF retry, Goto, osVars, schedVars
      <4> QED
        BY <3>quiet, <4>1
    <3>4. CASE store_vspace(c)
      <4>1. pc[c] # "lookup" /\ pc'[c] # "lookup" /\ tasks' = tasks /\ left' = left
        BY <3>4, SMT DEF store_vspace, Goto, osVars, schedVars
      <4> QED
        BY <3>quiet, <4>1
    <3>5. CASE store_scheduler(c)
      <4>1. pc[c] # "lookup" /\ pc'[c] # "lookup" /\ tasks' = tasks /\ left' = left
        BY <3>5, SMT DEF store_scheduler, Goto, schedVars
      <4> QED
        BY <3>quiet, <4>1
    <3>6. CASE \E q \in Process : user_init(c, q)
      <4>1. pc[c] # "lookup" /\ pc'[c] # "lookup" /\ tasks' = tasks /\ left' = left
        BY <3>6, SMT DEF user_init, Goto
      <4> QED
        BY <3>quiet, <4>1
    <3>7. CASE peek(c)
      <4>1. pc[c] # "lookup" /\ pc'[c] # "lookup" /\ tasks' = tasks /\ left' = left
        BY <3>7, SMT DEF peek, Goto, osVars, schedVars
      <4> QED
        BY <3>quiet, <4>1
    <3>8. CASE store(c)
      <4>1. pc[c] # "lookup" /\ pc'[c] # "lookup" /\ tasks' = tasks /\ left' = left
        BY <3>8, <2>types, SMT DEF store, Goto, osVars, schedVars, Local
      <4> QED
        BY <3>quiet, <4>1
    <3>9. CASE \E q \in Process : unregister_process(c, q)
      <4>1. pc[c] # "lookup" /\ pc'[c] # "lookup" /\ tasks' = tasks /\ left' = left
        BY <3>9, SMT DEF unregister_process, Goto, schedVars
      <4> QED
        BY <3>quiet, <4>1
    <3>10. CASE invalidate(c)
      <4>1. pc[c] # "lookup" /\ pc'[c] # "lookup" /\ tasks' = tasks /\ left' = left
        BY <3>10, SMT DEF invalidate, Goto, osVars, schedVars
      <4> QED
        BY <3>quiet, <4>1
    <3>11. CASE kernel_task(c)
      <4>1. pc[c] # "lookup" /\ pc'[c] # "lookup" /\ tasks' = tasks /\ left' = left
        BY <3>11, SMT DEF kernel_task, Goto, osVars, schedVars
      <4> QED
        BY <3>quiet, <4>1
    <3>12. CASE kernel_done(c)
      <4>1. pc[c] # "lookup" /\ pc'[c] # "lookup" /\ tasks' = tasks /\ left' = left
        BY <3>12, SMT DEF kernel_done, Goto, osVars, schedVars
      <4> QED
        BY <3>quiet, <4>1
    <3>13. CASE process_schedule(c)
      <4>1. pc[c] # "lookup" /\ pc'[c] # "lookup" /\ tasks' = tasks /\ left' = left
        BY <3>13, SMT DEF process_schedule, Goto, osVars, schedVars
      <4> QED
        BY <3>quiet, <4>1
    <3>14. CASE look(c)
      <4>1. pc[c] # "lookup" /\ pc'[c] # "lookup" /\ tasks' = tasks /\ left' = left
        BY <3>14, SMT DEF look, Goto, osVars, schedVars, After
      <4> QED
        BY <3>quiet, <4>1
    <3>15. CASE read(c)
      <4>1. pc[c] # "lookup" /\ pc'[c] # "lookup" /\ tasks' = tasks /\ left' = left
        BY <3>15, SMT DEF read, Goto, osVars, schedVars
      <4> QED
        BY <3>quiet, <4>1
    <3>16. CASE confirm(c)
      <4>1. pc[c] # "lookup" /\ pc'[c] # "lookup" /\ tasks' = tasks /\ left' = left
        BY <3>16, SMT DEF confirm, Goto, osVars, schedVars, After
      <4> QED
        BY <3>quiet, <4>1
    <3>17. CASE switch_vspace(c)
      <4>1. pc[c] # "lookup" /\ pc'[c] # "lookup" /\ tasks' = tasks /\ left' = left
        BY <3>17, SMT DEF switch_vspace, Goto, osVars, schedVars
      <4> QED
        BY <3>quiet, <4>1
    <3>18. CASE pop_lost(c)
      <4>1. pc[c] # "lookup" /\ pc'[c] # "lookup" /\ tasks' = tasks /\ left' = left
        BY <3>18, SMT DEF pop_lost, Goto, osVars, schedVars
      <4> QED
        BY <3>quiet, <4>1
    <3>19. CASE pop_task(c)
      <4>1. pc[c] # "lookup" /\ pc'[c] # "lookup" /\ tasks' = tasks /\ left' = left
        BY <3>19, SMT DEF pop_task, Goto, osVars, schedVars
      <4> QED
        BY <3>quiet, <4>1
    <3>20. CASE exits(c)
      <4>1. pc[c] # "lookup" /\ pc'[c] # "lookup" /\ tasks' = tasks /\ left' = left
        BY <3>20, SMT DEF exits, Goto, osVars, schedVars
      <4> QED
        BY <3>quiet, <4>1
    <3>21. CASE exits_by_trap(c)
      <4>1. pc[c] # "lookup" /\ pc'[c] # "lookup" /\ tasks' = tasks /\ left' = left
        BY <3>21, SMT DEF exits_by_trap, Goto, osVars, schedVars
      <4> QED
        BY <3>quiet, <4>1
    <3>25. CASE utask_schedule(c)
      <4>1. pc[c] # "lookup" /\ pc'[c] # "lookup" /\ tasks' = tasks /\ left' = left
        BY <3>25, SMT DEF utask_schedule, Goto, osVars, schedVars
      <4> QED
        BY <3>quiet, <4>1
    <3>26. CASE into_kernel(c)
      <4>1. pc[c] # "lookup" /\ pc'[c] # "lookup" /\ tasks' = tasks /\ left' = left
        BY <3>26, SMT DEF into_kernel, Goto, osVars, schedVars
      <4> QED
        BY <3>quiet, <4>1
    <3>22. CASE \E q \in Process : push_task(c, q)
      <4>1. PICK q \in Process : push_task(c, q)
        BY <3>22
      <4>2. /\ pc[c] = "kernel" /\ pc'[c] = "lookup" /\ tasks' = tasks
            /\ left[q] > 0 /\ left' = [left EXCEPT ![q] = left[q] - 1]
        BY <4>1, <2>types, SMT DEF push_task, Goto, schedVars
      <4>3. loc'[c].proc = q
        BY <4>1, <2>types, SMT DEF push_task
      <4>4. c \notin Pushing(p)
        BY <4>2, Zenon DEF Pushing
      <4>5. CASE p = q
        <5>1. c \in Pushing(p)'
          BY <4>2, <4>3, <4>5, Zenon DEF Pushing
        <5>2. Pushing(p)' = Pushing(p) \cup {c}
          BY <3>others, <4>4, <5>1, StillPushing, Zenon
        <5>3. Cardinality(Pushing(p)') = Cardinality(Pushing(p)) + 1
          BY <2>finite, <4>4, <5>2, FS_AddElement, Zenon
        <5> QED
          BY <2>types, <2>before, <2>finite, <4>2, <4>5, <5>3, SMT
      <4>6. CASE p # q
        <5>1. c \notin Pushing(p)'
          BY <4>3, <4>6, Zenon DEF Pushing
        <5>2. Pushing(p)' = Pushing(p)
          BY <3>others, <4>4, <5>1, StillPushing, Zenon
        <5> QED
          BY <2>types, <2>same, <4>2, <4>6, <5>2, SMT
      <4> QED
        BY <4>5, <4>6
    <3>23. CASE lookup(c)
      <4> DEFINE q == loc[c].proc
      <4>1. q \in Process /\ scheduler[pid[q]] = q
        BY <3>23, SMT DEF ControlInv, Control, Using, Entries, OwnEntries, lookup, Goto
      <4>2. pc[c] = "lookup" /\ pc'[c] = "peek" /\ left' = left
        BY <3>23, <2>types, SMT DEF lookup, Goto, osVars
      <4>3. tasks' = [tasks EXCEPT ![q] = tasks[q] + 1]
        BY <3>23, <4>1, SMT DEF lookup
      <4>4. c \notin Pushing(p)'
        BY <4>2, Zenon DEF Pushing
      <4>5. CASE p = q
        <5>1. c \in Pushing(p)
          BY <4>2, <4>5, Zenon DEF Pushing
        <5>2. Pushing(p)' = Pushing(p) \ {c}
          BY <3>others, <4>4, StillPushing, Zenon
        <5>3. Cardinality(Pushing(p)') = Cardinality(Pushing(p)) - 1
          BY <2>finite, <5>1, <5>2, FS_RemoveElement, Zenon
        <5> QED
          BY <2>types, <2>before, <2>finite, <4>2, <4>3, <4>5, <5>3, SMT
      <4>6. CASE p # q
        <5>1. c \notin Pushing(p)
          BY <4>6, Zenon DEF Pushing
        <5>2. Pushing(p)' = Pushing(p)
          BY <3>others, <4>4, <5>1, StillPushing, Zenon
        <5> QED
          BY <2>types, <2>same, <4>2, <4>3, <4>6, <5>2, SMT
      <4> QED
        BY <4>5, <4>6
    <3>24. CASE take_task(c)
      <4>1. pc[c] = "take" /\ pc'[c] = "store" /\ left' = left
        BY <3>24, <2>types, SMT DEF take_task, Goto, osVars
      <4>2. tasks'[p] <= tasks[p] /\ tasks'[p] \in Nat
        BY <3>24, <2>types, SMT DEF take_task
      <4>3. c \notin Pushing(p) /\ c \notin Pushing(p)'
        BY <4>1, Zenon DEF Pushing
      <4>4. Pushing(p)' = Pushing(p)
        BY <3>others, <4>3, StillPushing, Zenon
      <4> QED
        BY <2>same, <4>1, <4>2, <4>4
    <3> QED
      BY <2>1, <3>1, <3>2, <3>3, <3>4, <3>5, <3>6, <3>7, <3>8, <3>9, <3>10, <3>11, <3>12, <3>13,
         <3>14, <3>15, <3>16, <3>17, <3>18, <3>19, <3>20, <3>21, <3>22, <3>23, <3>24, <3>25,
         <3>26,
         Zenon DEF Step, Register, UseScheduler, Drop, Schedule
  <2>2. CASE UNCHANGED vars
    <3>1. tasks' = tasks /\ left' = left /\ pc' = pc /\ loc' = loc
      BY <2>2 DEF vars, schedVars, osVars
    <3>2. Pushing(p)' = Pushing(p)
      BY <3>1 DEF Pushing
    <3> QED
      BY <2>types, <2>same, <3>1, <3>2, SMT
  <2> QED
    BY <2>1, <2>2, Zenon DEF Next, Step
<1> QED
  BY <1>1, <1>2, ControlInvariance, PTL DEF Spec

\* Every variable has its type; next_i stays in the range that Advance gives
\* it, and so does every index that is computed from it (process_info.rs:73).
THEOREM TypeCorrect == Spec => []TypeOK
<1>1. ControlInv /\ TasksInv => TypeOK
  <2> SUFFICES ASSUME ControlInv, TasksInv PROVE TypeOK
    OBVIOUS
  <2>1. Types
    BY DEF ControlInv
  <2>2. tasks \in [Process -> 0 .. MAX_TASKS]
    <3>1. tasks \in [Process -> Nat] /\ left \in [Process -> 0 .. MAX_TASKS]
      BY <2>1 DEF Types
    <3>2. ASSUME NEW p \in Process PROVE tasks[p] \in 0 .. MAX_TASKS
      <4>1. tasks[p] + left[p] + Cardinality(Pushing(p)) <= MAX_TASKS
        BY DEF TasksInv
      <4> QED
        BY <3>1, <4>1, PushingFinite, TasksAssumption, SMT
    <3> QED
      BY <3>1, <3>2, SMT
  <2> QED
    BY <2>1, <2>2, Zenon DEF Types, TypeOK
<1> QED
  BY <1>1, ControlInvariance, TasksInvariance, PTL

-----------------------------------------------------------------------------
(* Which entries register_process has drawn.                               *)

\* fetch_add draws the next entry, round the table (process_info.rs:73 and
\* 79).
LEMMA Draw ==
    ASSUME next_i \in 1 .. 2 * PROCESS_NUM - 1, Advance
    PROVE  /\ next_i % PROCESS_NUM \in Index
           /\ (next_i % PROCESS_NUM)' = IF (next_i % PROCESS_NUM) + 1 = PROCESS_NUM THEN 0
                                        ELSE (next_i % PROCESS_NUM) + 1
<1>1. PROCESS_NUM \in Nat \ {0, 1}
  BY TableAssumption
<1> QED
  BY <1>1, SMT DEF Advance, Index

\* One more has then been drawn.
LEMMA DrawOne ==
    ASSUME NEW s \in Index, NEW m \in Index, NEW e \in Index
    PROVE  LET k == IF m + 1 = PROCESS_NUM THEN 0 ELSE m + 1
           IN  /\ Between(s, k, e) => Between(s, m, e) \/ e = m
               /\ Between(m, k, e) => e = m
               /\ Between(m, m, e)
BY SMT DEF Between, Index

\* A step that neither draws nor claims an entry.
LEMMA NothingDrawn ==
    ASSUME DrawnInv, NEW c \in CPU, Others(c), next_i' = next_i,
           \A d \in CPU \ {c} : open'[d] = open[d] /\ wasted'[d] = wasted[d],
           pc[c] \notin {"claim", "retry", "full"}, pc'[c] \notin {"claim", "retry", "full"}
    PROVE  DrawnInv'
<1> SUFFICES ASSUME NEW d \in CPU, NEW e \in (open[d] \ wasted[d])'
             PROVE  /\ pc'[d] \in {"claim", "retry"} /\ Drawn(d, e)' => Claimed(e)'
                    /\ pc'[d] = "full" => Claimed(e)'
  BY Zenon DEF DrawnInv
<1>1. Claimed(e) => Claimed(e)'
  BY Zenon DEF Claimed, Others
<1>2. CASE d = c
  BY <1>2, Zenon
<1>3. CASE d # c
  <2>1. pc'[d] = pc[d] /\ loc'[d] = loc[d] /\ e \in open[d] \ wasted[d]
    BY <1>3, Zenon DEF Others
  <2>2. Drawn(d, e)' <=> Drawn(d, e)
    BY <2>1 DEF Drawn
  <2> QED
    BY <1>1, <2>1, <2>2, Zenon DEF DrawnInv
<1> QED
  BY <1>3

\* An entry that has stayed free is passed by no register_process without a
\* swap, except by one that gives up (process_info.rs:72-96).
THEOREM DrawnInvariance == Spec => []DrawnInv
<1>1. Init => DrawnInv
  BY Zenon DEF Init, DrawnInv
<1>2. ControlInv /\ DrawnInv /\ [Next]_vars => DrawnInv'
  <2> SUFFICES ASSUME ControlInv, DrawnInv, [Next]_vars PROVE DrawnInv'
    OBVIOUS
  <2>types. /\ pc \in [CPU -> Place] /\ loc \in [CPU -> Local]
            /\ next_i \in 1 .. 2 * PROCESS_NUM - 1
            /\ open \in [CPU -> SUBSET Index] /\ wasted \in [CPU -> SUBSET Index]
    BY DEF ControlInv, Types
  <2>start. \A d \in CPU : loc[d].start \in Index
    BY <2>types, SMT DEF Local
  <2> DEFINE m == next_i % PROCESS_NUM
             k == IF m + 1 = PROCESS_NUM THEN 0 ELSE m + 1
  <2>1. ASSUME NEW c \in CPU, Step(c) PROVE DrawnInv'
    <3>others. Others(c)
      BY <2>1, OneMoves
    <3>1. CASE \E p \in Process : register_process(c, p)
      <4>1. PICK p \in Process : register_process(c, p)
        BY <3>1
      <4>2. m \in Index /\ (next_i % PROCESS_NUM)' = k
        BY <2>types, <4>1, Draw, Zenon DEF register_process
      <4>3. /\ pc[c] = "kernel" /\ pc'[c] = "claim"
            /\ open' = [open EXCEPT ![c] = {e \in Index : ~valid[e]}] /\ wasted' = wasted
        BY <2>types, <4>1, SMT DEF register_process, Goto
      <4>4. loc'[c].start = m /\ loc'[c].index = m
        BY <2>types, <4>1, SMT DEF register_process
      <4> SUFFICES ASSUME NEW d \in CPU, NEW e \in open'[d] \ wasted'[d]
                   PROVE  /\ pc'[d] \in {"claim", "retry"} /\ Drawn(d, e)' => Claimed(e)'
                          /\ pc'[d] = "full" => Claimed(e)'
        BY Zenon DEF DrawnInv
      <4>5. e \in Index
        BY <2>types, <4>3, SMT
      <4>6. CASE e = m
        BY <4>3, <4>4, <4>6, Zenon DEF Claimed
      <4>7. CASE e # m /\ d = c
        <5>1. ~Between(m, k, e)
          BY <4>2, <4>5, <4>7, DrawOne, Zenon
        <5>2. ~Drawn(d, e)'
          BY <4>2, <4>4, <4>7, <5>1 DEF Drawn
        <5> QED
          BY <4>3, <4>7, <5>2
      <4>8. CASE e # m /\ d # c
        <5>1. pc'[d] = pc[d] /\ loc'[d] = loc[d]
          BY <3>others, <4>8, Zenon DEF Others
        <5>2. e \in open[d] \ wasted[d]
          BY <4>3, <4>8, SMT
        <5>3. Between(loc[d].start, k, e) => Between(loc[d].start, m, e)
          BY <2>start, <4>2, <4>5, <4>8, SMT DEF Between, Index
        <5>4. Drawn(d, e)' => Drawn(d, e)
          BY <4>2, <5>1, <5>3 DEF Drawn
        <5>5. Claimed(e) => Claimed(e)'
          BY <3>others, <4>3, Zenon DEF Claimed, Others
        <5> QED
          BY <5>1, <5>2, <5>4, <5>5, Zenon DEF DrawnInv
      <4> QED
        BY <4>6, <4>7, <4>8
    <3>2. CASE claim(c)
      <4>1. /\ pc[c] = "claim" /\ pc'[c] \notin {"claim", "full"} /\ loc' = loc
            /\ next_i' = next_i /\ wasted' = wasted
            /\ open' = [d \in CPU |-> open[d] \ {loc[c].index}]
        BY <2>types, <3>2, SMT DEF claim, Goto
      <4> SUFFICES ASSUME NEW d \in CPU, NEW e \in open'[d] \ wasted'[d]
                   PROVE  /\ pc'[d] \in {"claim", "retry"} /\ Drawn(d, e)' => Claimed(e)'
                          /\ pc'[d] = "full" => Claimed(e)'
        BY Zenon DEF DrawnInv
      <4>2. e \in open[d] \ wasted[d] /\ e # loc[c].index
        BY <4>1, SMT
      <4>3. Claimed(e) => Claimed(e)'
        BY <3>others, <4>1, Zenon DEF Claimed, Others
      <4>4. Drawn(d, e)' <=> Drawn(d, e)
        BY <4>1 DEF Drawn
      <4>5. /\ pc'[d] \in {"claim", "retry"} => pc[d] \in {"claim", "retry"}
            /\ pc'[d] = "full" => pc[d] = "full"
        BY <3>others, <4>1, Zenon DEF Others
      <4> QED
        BY <4>2, <4>3, <4>4, <4>5, Zenon DEF DrawnInv
    <3>3. CASE retry(c)
      <4>1. m \in Index /\ (next_i % PROCESS_NUM)' = k
        BY <2>types, <3>3, Draw, Zenon DEF retry
      <4>2. /\ pc[c] = "retry" /\ pc'[c] = IF m = loc[c].start THEN "full" ELSE "claim"
            /\ open' = open
            /\ wasted'
                  = [d \in CPU |-> wasted[d] \cup (IF m = loc[c].start THEN open[d] \cap {m}
                                                       ELSE {})]
        BY <2>types, <3>3, SMT DEF retry, Goto
      <4>3. loc'[c].index = m /\ \A d \in CPU : loc'[d].start = loc[d].start
        BY <2>types, <3>3, SMT DEF retry
      <4> SUFFICES ASSUME NEW d \in CPU, NEW e \in open'[d] \ wasted'[d]
                   PROVE  /\ pc'[d] \in {"claim", "retry"} /\ Drawn(d, e)' => Claimed(e)'
                          /\ pc'[d] = "full" => Claimed(e)'
        BY Zenon DEF DrawnInv
      <4>4. e \in open[d] \ wasted[d] /\ e \in Index
        BY <2>types, <4>2, SMT
      <4>5. CASE e = m
        <5> QED
          BY <4>2, <4>3, <4>5, Zenon DEF Claimed
      <4>6. CASE e # m
        <5>1. Between(loc[d].start, k, e) => Between(loc[d].start, m, e)
          <6>1. loc[d].start \in Index /\ e \in Index
            BY <2>start, <4>4
          <6> QED
            BY <4>1, <4>6, <6>1, DrawOne, Zenon
        <5>2. Drawn(d, e)' => Drawn(d, e)
          BY <4>1, <4>3, <5>1 DEF Drawn
        <5>3. Claimed(e) => Claimed(e)'
          BY <3>others, <4>2, Zenon DEF Claimed, Others
        <5>4. CASE d = c
          <6>1. Between(m, m, e)
            BY <4>1, <4>4, DrawOne, Zenon
          <6> QED
            BY <4>2, <5>2, <5>3, <5>4, <6>1, Zenon DEF DrawnInv, Drawn
        <5>5. CASE d # c
          BY <3>others, <4>4, <5>2, <5>3, <5>5, Zenon DEF DrawnInv, Others
        <5> QED
          BY <5>4, <5>5
      <4> QED
        BY <4>5, <4>6
    <3>4. CASE store_vspace(c)
      <4>1. /\ pc[c] \notin {"claim", "retry", "full"}
            /\ pc'[c] \notin {"claim", "retry", "full"}
            /\ next_i' = next_i
            /\ \A d \in CPU \ {c} : open'[d] = open[d] /\ wasted'[d] = wasted[d]
        BY <3>4, SMT DEF store_vspace, Goto, history, freeVars
      <4> QED
        BY <3>others, <4>1, NothingDrawn, Zenon
    <3>5. CASE store_scheduler(c)
      <4>1. /\ pc[c] \notin {"claim", "retry", "full"}
            /\ pc'[c] \notin {"claim", "retry", "full"}
            /\ next_i' = next_i
            /\ \A d \in CPU \ {c} : open'[d] = open[d] /\ wasted'[d] = wasted[d]
        BY <3>5, SMT DEF store_scheduler, Goto
      <4> QED
        BY <3>others, <4>1, NothingDrawn, Zenon
    <3>6. CASE \E p \in Process : user_init(c, p)
      <4>1. /\ pc[c] \notin {"claim", "retry", "full"}
            /\ pc'[c] \notin {"claim", "retry", "full"}
            /\ next_i' = next_i
            /\ \A d \in CPU \ {c} : open'[d] = open[d] /\ wasted'[d] = wasted[d]
        BY <3>6, SMT DEF user_init, Goto, freeVars
      <4> QED
        BY <3>others, <4>1, NothingDrawn, Zenon
    <3>7. CASE \E p \in Process : push_task(c, p)
      <4>1. /\ pc[c] \notin {"claim", "retry", "full"}
            /\ pc'[c] \notin {"claim", "retry", "full"}
            /\ next_i' = next_i
            /\ \A d \in CPU \ {c} : open'[d] = open[d] /\ wasted'[d] = wasted[d]
        BY <3>7, SMT DEF push_task, Goto, freeVars
      <4> QED
        BY <3>others, <4>1, NothingDrawn, Zenon
    <3>8. CASE lookup(c)
      <4>1. /\ pc[c] \notin {"claim", "retry", "full"}
            /\ pc'[c] \notin {"claim", "retry", "full"}
            /\ next_i' = next_i
            /\ \A d \in CPU \ {c} : open'[d] = open[d] /\ wasted'[d] = wasted[d]
        BY <3>8, SMT DEF lookup, Goto, history, freeVars
      <4> QED
        BY <3>others, <4>1, NothingDrawn, Zenon
    <3>9. CASE peek(c)
      <4>1. /\ pc[c] \notin {"claim", "retry", "full"}
            /\ pc'[c] \notin {"claim", "retry", "full"}
            /\ next_i' = next_i
            /\ \A d \in CPU \ {c} : open'[d] = open[d] /\ wasted'[d] = wasted[d]
        BY <3>9, SMT DEF peek, Goto, history, freeVars
      <4> QED
        BY <3>others, <4>1, NothingDrawn, Zenon
    <3>10. CASE store(c)
      <4>1. /\ pc[c] \notin {"claim", "retry", "full"}
            /\ pc'[c] \notin {"claim", "retry", "full"}
            /\ next_i' = next_i
            /\ \A d \in CPU \ {c} : open'[d] = open[d] /\ wasted'[d] = wasted[d]
        BY <3>10, <2>types, SMT DEF store, Goto, history, freeVars, Local
      <4> QED
        BY <3>others, <4>1, NothingDrawn, Zenon
    <3>11. CASE \E p \in Process : unregister_process(c, p)
      <4>1. /\ pc[c] \notin {"claim", "retry", "full"}
            /\ pc'[c] \notin {"claim", "retry", "full"}
            /\ next_i' = next_i
            /\ \A d \in CPU \ {c} : open'[d] = open[d] /\ wasted'[d] = wasted[d]
        BY <3>11, SMT DEF unregister_process, Goto, history, freeVars
      <4> QED
        BY <3>others, <4>1, NothingDrawn, Zenon
    <3>12. CASE invalidate(c)
      <4>1. /\ pc[c] \notin {"claim", "retry", "full"}
            /\ pc'[c] \notin {"claim", "retry", "full"}
            /\ next_i' = next_i
            /\ \A d \in CPU \ {c} : open'[d] = open[d] /\ wasted'[d] = wasted[d]
        BY <3>12, SMT DEF invalidate, Goto, history, freeVars
      <4> QED
        BY <3>others, <4>1, NothingDrawn, Zenon
    <3>13. CASE kernel_task(c)
      <4>1. /\ pc[c] \notin {"claim", "retry", "full"}
            /\ pc'[c] \notin {"claim", "retry", "full"}
            /\ next_i' = next_i
            /\ \A d \in CPU \ {c} : open'[d] = open[d] /\ wasted'[d] = wasted[d]
        BY <3>13, SMT DEF kernel_task, Goto, history, freeVars
      <4> QED
        BY <3>others, <4>1, NothingDrawn, Zenon
    <3>14. CASE kernel_done(c)
      <4>1. /\ pc[c] \notin {"claim", "retry", "full"}
            /\ pc'[c] \notin {"claim", "retry", "full"}
            /\ next_i' = next_i
            /\ \A d \in CPU \ {c} : open'[d] = open[d] /\ wasted'[d] = wasted[d]
        BY <3>14, SMT DEF kernel_done, Goto, history, freeVars
      <4> QED
        BY <3>others, <4>1, NothingDrawn, Zenon
    <3>15. CASE process_schedule(c)
      <4>1. /\ pc[c] \notin {"claim", "retry", "full"}
            /\ pc'[c] \notin {"claim", "retry", "full"}
            /\ next_i' = next_i
            /\ \A d \in CPU \ {c} : open'[d] = open[d] /\ wasted'[d] = wasted[d]
        BY <3>15, SMT DEF process_schedule, Goto, history, freeVars
      <4> QED
        BY <3>others, <4>1, NothingDrawn, Zenon
    <3>16. CASE look(c)
      <4>1. /\ pc[c] \notin {"claim", "retry", "full"}
            /\ pc'[c] \notin {"claim", "retry", "full"}
            /\ next_i' = next_i
            /\ \A d \in CPU \ {c} : open'[d] = open[d] /\ wasted'[d] = wasted[d]
        BY <3>16, SMT DEF look, Goto, history, freeVars, After
      <4> QED
        BY <3>others, <4>1, NothingDrawn, Zenon
    <3>17. CASE read(c)
      <4>1. /\ pc[c] \notin {"claim", "retry", "full"}
            /\ pc'[c] \notin {"claim", "retry", "full"}
            /\ next_i' = next_i
            /\ \A d \in CPU \ {c} : open'[d] = open[d] /\ wasted'[d] = wasted[d]
        BY <3>17, SMT DEF read, Goto, history, freeVars
      <4> QED
        BY <3>others, <4>1, NothingDrawn, Zenon
    <3>18. CASE confirm(c)
      <4>1. /\ pc[c] \notin {"claim", "retry", "full"}
            /\ pc'[c] \notin {"claim", "retry", "full"}
            /\ next_i' = next_i
            /\ \A d \in CPU \ {c} : open'[d] = open[d] /\ wasted'[d] = wasted[d]
        BY <3>18, SMT DEF confirm, Goto, history, freeVars, After
      <4> QED
        BY <3>others, <4>1, NothingDrawn, Zenon
    <3>19. CASE switch_vspace(c)
      <4>1. /\ pc[c] \notin {"claim", "retry", "full"}
            /\ pc'[c] \notin {"claim", "retry", "full"}
            /\ next_i' = next_i
            /\ \A d \in CPU \ {c} : open'[d] = open[d] /\ wasted'[d] = wasted[d]
        BY <3>19, SMT DEF switch_vspace, Goto, history, freeVars
      <4> QED
        BY <3>others, <4>1, NothingDrawn, Zenon
    <3>20. CASE pop_lost(c)
      <4>1. /\ pc[c] \notin {"claim", "retry", "full"}
            /\ pc'[c] \notin {"claim", "retry", "full"}
            /\ next_i' = next_i
            /\ \A d \in CPU \ {c} : open'[d] = open[d] /\ wasted'[d] = wasted[d]
        BY <3>20, SMT DEF pop_lost, Goto, history, freeVars
      <4> QED
        BY <3>others, <4>1, NothingDrawn, Zenon
    <3>21. CASE pop_task(c)
      <4>1. /\ pc[c] \notin {"claim", "retry", "full"}
            /\ pc'[c] \notin {"claim", "retry", "full"}
            /\ next_i' = next_i
            /\ \A d \in CPU \ {c} : open'[d] = open[d] /\ wasted'[d] = wasted[d]
        BY <3>21, SMT DEF pop_task, Goto, freeVars
      <4> QED
        BY <3>others, <4>1, NothingDrawn, Zenon
    <3>22. CASE take_task(c)
      <4>1. /\ pc[c] \notin {"claim", "retry", "full"}
            /\ pc'[c] \notin {"claim", "retry", "full"}
            /\ next_i' = next_i
            /\ \A d \in CPU \ {c} : open'[d] = open[d] /\ wasted'[d] = wasted[d]
        BY <3>22, SMT DEF take_task, Goto, history, freeVars
      <4> QED
        BY <3>others, <4>1, NothingDrawn, Zenon
    <3>23. CASE exits(c)
      <4>1. /\ pc[c] \notin {"claim", "retry", "full"}
            /\ pc'[c] \notin {"claim", "retry", "full"}
            /\ next_i' = next_i
            /\ \A d \in CPU \ {c} : open'[d] = open[d] /\ wasted'[d] = wasted[d]
        BY <3>23, SMT DEF exits, Goto, history, freeVars
      <4> QED
        BY <3>others, <4>1, NothingDrawn, Zenon
    <3>24. CASE exits_by_trap(c)
      <4>1. /\ pc[c] \notin {"claim", "retry", "full"}
            /\ pc'[c] \notin {"claim", "retry", "full"}
            /\ next_i' = next_i
            /\ \A d \in CPU \ {c} : open'[d] = open[d] /\ wasted'[d] = wasted[d]
        BY <3>24, SMT DEF exits_by_trap, Goto, history, freeVars
      <4> QED
        BY <3>others, <4>1, NothingDrawn, Zenon
    <3>25. CASE utask_schedule(c)
      <4>1. /\ pc[c] \notin {"claim", "retry", "full"}
            /\ pc'[c] \notin {"claim", "retry", "full"}
            /\ next_i' = next_i
            /\ \A d \in CPU \ {c} : open'[d] = open[d] /\ wasted'[d] = wasted[d]
        BY <3>25, SMT DEF utask_schedule, Goto, history, freeVars
      <4> QED
        BY <3>others, <4>1, NothingDrawn, Zenon
    <3>26. CASE into_kernel(c)
      <4>1. /\ pc[c] \notin {"claim", "retry", "full"}
            /\ pc'[c] \notin {"claim", "retry", "full"}
            /\ next_i' = next_i
            /\ \A d \in CPU \ {c} : open'[d] = open[d] /\ wasted'[d] = wasted[d]
        BY <3>26, SMT DEF into_kernel, Goto, history, freeVars
      <4> QED
        BY <3>others, <4>1, NothingDrawn, Zenon
    <3> QED
      BY <2>1, <3>1, <3>2, <3>3, <3>4, <3>5, <3>6, <3>7, <3>8, <3>9, <3>10, <3>11, <3>12, <3>13,
         <3>14, <3>15, <3>16, <3>17, <3>18, <3>19, <3>20, <3>21, <3>22, <3>23, <3>24, <3>25,
         <3>26,
         Zenon DEF Step, Register, UseScheduler, Drop, Schedule
  <2>2. CASE UNCHANGED vars
    <3>1. UNCHANGED <<next_i, open, wasted, pc, loc>>
      BY <2>2 DEF vars, history, freeVars
    <3> QED
      BY <3>1, Zenon DEF DrawnInv, Drawn, Claimed
  <2> QED
    BY <2>1, <2>2, Zenon DEF Next, Step
<1> QED
  BY <1>1, <1>2, ControlInvariance, PTL DEF Spec

\* When register_process gives up, no entry has been free all the time since
\* it began, but for one that another CPU is about to claim or has wasted
\* (process_info.rs:20 and 80-83).
THEOREM NoneIfFull == Spec => []NoneUnlessWasted
<1>1. DrawnInv => NoneUnlessWasted
  BY Zenon DEF DrawnInv, Claimed, NoneUnlessWasted
<1> QED
  BY <1>1, DrawnInvariance, PTL

-----------------------------------------------------------------------------
(* What is published of a process.                                         *)

\* What is published of a process stays as it is while nobody works for it.
LEMMA Untouched ==
    ASSUME PublishedInv, NEW c \in CPU, Others(c),
           NEW p \in Process, p \notin overlapped,
           loc[c].proc # p, loc'[c].proc # p,
           life'[p] = "live" => life[p] = "live" /\ pid'[p] = pid[p] /\ tasks'[p] = tasks[p]
                                /\ highest_prio'[pid[p]] = highest_prio[pid[p]]
    PROVE  Published(p)'
<1>1. Published(p)
  BY DEF PublishedInv
<1>2. \A d \in CPU : loc'[d].proc = p
         => d # c /\ loc[d].proc = p /\ loc'[d] = loc[d] /\ pc'[d] = pc[d]
  BY Zenon DEF Others
<1>3. \A d \in CPU : loc[d].proc = p => loc'[d].proc = p
  BY Zenon DEF Others
<1>4. \A d, e \in CPU : loc'[d].proc = p /\ loc'[e].proc = p => d = e
  BY <1>1, <1>2, Zenon DEF Published
<1>5. ASSUME life'[p] = "live", tasks'[p] > 0,
             \A d \in CPU : loc'[d].proc = p => pc'[d] = "run",
             NEW d \in CPU
      PROVE  highest_prio'[pid'[p]][d] = READY
  <2>1. \A e \in CPU : loc[e].proc = p => pc[e] = "run"
    BY <1>2, <1>3, <1>5, Zenon
  <2>2. highest_prio[pid[p]][d] = READY
    BY <1>1, <1>5, <2>1 DEF Published
  <2> QED
    BY <1>5, <2>2
<1>6. ASSUME life'[p] = "live", tasks'[p] > 0, NEW d \in CPU, pc'[d] = "store", loc'[d].proc = p
      PROVE  /\ loc'[d].prio = READY
             /\ loc'[d].last = CPU_NUM - 1
             /\ \A e \in CPU : e < loc'[d].cpu => highest_prio'[pid'[p]][e] = READY
  <2>1. loc'[d] = loc[d] /\ pc[d] = "store" /\ loc[d].proc = p
    BY <1>2, <1>6, Zenon
  <2> QED
    BY <1>1, <1>6, <2>1 DEF Published
<1> QED
  BY <1>4, <1>5, <1>6, Zenon DEF Published

\* Nothing is claimed of a process that has no event sources, or has been
\* dropped.
LEMMA NotLive ==
    ASSUME NEW p, \A d, e \in CPU : loc'[d].proc = p /\ loc'[e].proc = p => d = e,
           life'[p] # "live"
    PROVE  Published(p)'
BY Zenon DEF Published

\* Nor while the one operation on its scheduler has yet to read the sources.
LEMMA Underway ==
    ASSUME NEW c \in CPU, NEW p, \A d \in CPU \ {c} : loc'[d].proc # p,
           loc'[c].proc = p, pc'[c] \notin {"run", "store"}
    PROVE  Published(p)'
BY Zenon DEF Published

\* While it stores what it has read, ...
LEMMA Storing ==
    ASSUME NEW c \in CPU, NEW p, \A d \in CPU \ {c} : loc'[d].proc # p,
           loc'[c].proc = p, pc'[c] = "store",
           life'[p] = "live" /\ tasks'[p] > 0 =>
              /\ loc'[c].prio = READY /\ loc'[c].last = CPU_NUM - 1
              /\ \A d \in CPU : d < loc'[c].cpu => highest_prio'[pid'[p]][d] = READY
    PROVE  Published(p)'
BY Zenon DEF Published

\* ... and once it has stored that for all CPUs.
LEMMA Ended ==
    ASSUME NEW c \in CPU, NEW p, \A d \in CPU \ {c} : loc'[d].proc # p,
           pc'[c] # "store",
           life'[p] = "live" /\ tasks'[p] > 0 =>
              \A d \in CPU : highest_prio'[pid'[p]][d] = READY
    PROVE  Published(p)'
BY Zenon DEF Published

\* A call that is about to begin is about nobody yet, and a process that is
\* new has no other call.
LEMMA Starting ==
    ASSUME ControlInv, NEW c \in CPU, NEW p \in Process, pc[c] = "kernel"
    PROVE  /\ loc[c].proc = Null
           /\ life[p] = "new" => \A d \in CPU : loc[d].proc # p
BY NullAssumption, SMT DEF ControlInv, Control, Registering, Using, HasPid

\* Each operation that overlaps no other leaves the published priorities
\* right: the last thing it does is to store what it has read, for all CPUs
\* if a task may be there (scheduler.rs:417-463, api.rs:206-324).
THEOREM PublishedInvariance == Spec => []PublishedInv
<1>1. Init => PublishedInv
  <2> SUFFICES ASSUME Init, NEW p \in Process PROVE Published(p)
    BY DEF PublishedInv
  <2>1. \A c \in CPU : loc[c].proc = Null
    BY SMT DEF Init, Fresh
  <2>2. life[p] = "new"
    BY DEF Init
  <2> QED
    BY <2>1, <2>2, NullAssumption, Zenon DEF Published
<1>2. ControlInv /\ PublishedInv /\ [Next]_vars => PublishedInv'
  <2> SUFFICES ASSUME ControlInv, PublishedInv, [Next]_vars, NEW p \in Process \ overlapped'
               PROVE  Published(p)'
    BY DEF PublishedInv
  <2>types. /\ pc \in [CPU -> Place] /\ loc \in [CPU -> Local]
            /\ life \in [Process -> {"new", "starting", "started", "live", "dropped"}]
            /\ tasks \in [Process -> Nat] /\ pid \in [Process -> Index]
            /\ highest_prio \in [Index -> [CPU -> Prio]]
            /\ overlapped \subseteq Process
    BY DEF ControlInv, Types
  <2>control. \A d \in CPU : Control(d)
    BY DEF ControlInv
  <2>null. Null \notin Process
    BY NullAssumption
  <2>1. ASSUME NEW c \in CPU, Step(c) PROVE Published(p)'
    <3>others. Others(c)
      BY <2>1, OneMoves
    <3>alone. ASSUME p \notin overlapped, loc[c].proc = p
              PROVE  \A d \in CPU \ {c} : loc'[d].proc # p
      <4>1. Published(p)
        BY <3>alone DEF PublishedInv
      <4> QED
        BY <3>alone, <3>others, <4>1, Zenon DEF Published, Others
    <3>free. ASSUME ~InUse(c, p) PROVE \A d \in CPU \ {c} : loc'[d].proc # p
      BY <3>free, <3>others, Zenon DEF InUse, Others
    <3>same. ASSUME overlapped' = overlapped, loc[c].proc # p, loc'[c].proc # p,
                    life'[p] = life[p], pid'[p] = pid[p], tasks'[p] = tasks[p],
                    highest_prio' = highest_prio
             PROVE  Published(p)'
      BY <3>same, <3>others, Untouched, Zenon
    <3>1. CASE \E q \in Process : register_process(c, q)
      <4>1. PICK q \in Process : register_process(c, q)
        BY <3>1
      <4>2. /\ pc[c] = "kernel" /\ life[q] = "new" /\ life' = [life EXCEPT ![q] = "starting"]
            /\ UNCHANGED <<overlapped, tasks, highest_prio, pid>>
        BY <4>1 DEF register_process, Goto, schedVars, entryVars
      <4>3. loc'[c].proc = q
        BY <4>1, <2>types, SMT DEF register_process
      <4>4. loc[c].proc = Null /\ \A d \in CPU : loc[d].proc # q
        BY <4>2, Starting, Zenon
      <4>5. CASE p = q
        <5>1. life'[p] # "live"
          BY <4>2, <4>5, SMT
        <5>2. \A d \in CPU \ {c} : loc'[d].proc # p
          BY <4>4, <4>5, <3>others, Zenon DEF Others
        <5> QED
          BY <5>1, <5>2, NotLive, Zenon
      <4>6. CASE p # q
        BY <4>2, <4>3, <4>4, <4>6, <3>same, <2>null, SMT
      <4> QED
        BY <4>5, <4>6
    <3>2. CASE claim(c)
      <4>1. pc[c] = "claim" /\ UNCHANGED <<overlapped, tasks, highest_prio, pid, life>>
        BY <3>2 DEF claim, Goto, schedVars, osVars
      <4>2. loc'[c].proc = loc[c].proc
        BY <3>2, SMT DEF claim
      <4>3. CASE p = loc[c].proc
        <5>1. life'[p] # "live"
          BY <4>1, <4>3, <2>control, SMT DEF Control, Registering
        <5>2. \A d \in CPU \ {c} : loc'[d].proc # p
          BY <4>1, <4>3, <3>alone
        <5> QED
          BY <5>1, <5>2, NotLive, Zenon
      <4>4. CASE p # loc[c].proc
        BY <4>1, <4>2, <4>4, <3>same
      <4> QED
        BY <4>3, <4>4
    <3>3. CASE retry(c)
      <4>1. pc[c] = "retry" /\ UNCHANGED <<overlapped, tasks, highest_prio, pid, life>>
        BY <3>3, Zenon DEF retry, Goto, entryVars, schedVars, osVars
      <4>2. loc'[c].proc = loc[c].proc
        BY <3>3, SMT DEF retry
      <4>3. CASE p = loc[c].proc
        <5>1. life'[p] # "live"
          BY <4>1, <4>3, <2>control, SMT DEF Control, Registering
        <5>2. \A d \in CPU \ {c} : loc'[d].proc # p
          BY <4>1, <4>3, <3>alone
        <5> QED
          BY <5>1, <5>2, NotLive, Zenon
      <4>4. CASE p # loc[c].proc
        BY <4>1, <4>2, <4>4, <3>same
      <4> QED
        BY <4>3, <4>4
    <3>4. CASE store_vspace(c)
      <4>1. pc[c] = "store_vspace" /\ UNCHANGED <<overlapped, tasks, highest_prio, pid, life>>
        BY <3>4 DEF store_vspace, Goto, schedVars, osVars, history
      <4>2. loc'[c].proc = loc[c].proc
        BY <3>4, SMT DEF store_vspace
      <4>3. CASE p = loc[c].proc
        <5>1. life'[p] # "live"
          BY <4>1, <4>3, <2>control, SMT DEF Control, Registering
        <5>2. \A d \in CPU \ {c} : loc'[d].proc # p
          BY <4>1, <4>3, <3>alone
        <5> QED
          BY <5>1, <5>2, NotLive, Zenon
      <4>4. CASE p # loc[c].proc
        BY <4>1, <4>2, <4>4, <3>same
      <4> QED
        BY <4>3, <4>4
    <3>5. CASE store_scheduler(c)
      <4>1. /\ pc[c] = "store_scheduler" /\ UNCHANGED <<overlapped, tasks, highest_prio>>
            /\ life' = [life EXCEPT ![loc[c].proc] = "started"]
            /\ pid' = [pid EXCEPT ![loc[c].proc] = loc[c].index]
        BY <3>5 DEF store_scheduler, Goto, schedVars
      <4>2. loc'[c].proc = Null
        BY <3>5, <2>types, SMT DEF store_scheduler, Fresh
      <4>3. CASE p = loc[c].proc
        <5>1. life'[p] # "live"
          BY <4>1, <4>3, <2>types, SMT
        <5>2. \A d \in CPU \ {c} : loc'[d].proc # p
          BY <4>1, <4>3, <3>alone
        <5> QED
          BY <5>1, <5>2, NotLive, Zenon
      <4>4. CASE p # loc[c].proc
        BY <4>1, <4>2, <4>4, <3>same, <2>null, SMT
      <4> QED
        BY <4>3, <4>4
    <3>6. CASE \E q \in Process : user_init(c, q)
      <4>1. PICK q \in Process : user_init(c, q)
        BY <3>6
      <4>2. /\ pc[c] = "kernel" /\ pc'[c] = "peek" /\ UNCHANGED <<tasks, highest_prio, pid>>
            /\ \A r \in Process : r # q => life'[r] = life[r]
            /\ overlapped' = IF InUse(c, q) THEN overlapped \cup {q} ELSE overlapped
        BY <4>1, <2>types, SMT DEF user_init, Goto, Begin, entryVars
      <4>3. loc'[c].proc = q
        BY <4>1, <2>types, SMT DEF user_init
      <4>4. loc[c].proc = Null
        BY <4>2, Starting, Zenon
      <4>5. CASE p = q
        <5> QED
          BY <4>2, <4>3, <4>5, <3>free, Underway, Zenon
      <4>6. CASE p # q
        <5> QED
          BY <4>2, <4>3, <4>4, <4>6, <3>others, <2>null, Untouched, Zenon
      <4> QED
        BY <4>5, <4>6
    <3>7. CASE \E q \in Process : push_task(c, q)
      <4>1. PICK q \in Process : push_task(c, q)
        BY <3>7
      <4>2. /\ pc[c] = "kernel" /\ pc'[c] = "lookup" /\ UNCHANGED <<tasks, highest_prio, pid>>
            /\ \A r \in Process : r # q => life'[r] = life[r]
            /\ overlapped' = IF InUse(c, q) THEN overlapped \cup {q} ELSE overlapped
        BY <4>1, <2>types, SMT DEF push_task, Goto, Begin, schedVars, entryVars
      <4>3. loc'[c].proc = q
        BY <4>1, <2>types, SMT DEF push_task
      <4>4. loc[c].proc = Null
        BY <4>2, Starting, Zenon
      <4>5. CASE p = q
        <5> QED
          BY <4>2, <4>3, <4>5, <3>free, Underway, Zenon
      <4>6. CASE p # q
        <5> QED
          BY <4>2, <4>3, <4>4, <4>6, <3>others, <2>null, Untouched, Zenon
      <4> QED
        BY <4>5, <4>6
    <3>8. CASE lookup(c)
      <4> DEFINE q == loc[c].proc
      <4>1. q \in Process /\ scheduler[pid[q]] = q
        BY <3>8, SMT DEF ControlInv, Control, Using, Entries, OwnEntries, lookup, Goto
      <4>2. /\ pc'[c] = "peek" /\ UNCHANGED <<overlapped, life, pid, highest_prio>>
            /\ tasks' = [tasks EXCEPT ![q] = tasks[q] + 1]
        BY <3>8, <2>types, <4>1, SMT DEF lookup, Goto, entryVars, osVars, history
      <4>3. loc'[c].proc = q
        BY <3>8, <4>1, SMT DEF lookup
      <4>4. CASE p = q
        BY <4>2, <4>3, <4>4, <3>alone, Underway, Zenon
      <4>5. CASE p # q
        BY <4>2, <4>3, <4>5, <3>same, SMT
      <4> QED
        BY <4>4, <4>5
    <3>9. CASE peek(c)
      <4> DEFINE q == loc[c].proc
      <4>1. q \in Process /\ loc[c].cpu = 0 /\ loc[c].last = CPU_NUM - 1
        BY <3>9, <2>control, SMT DEF Control, Using, peek, Goto
      <4>2. pc'[c] = "store" /\ UNCHANGED <<overlapped, life, pid, tasks, highest_prio>>
        BY <3>9, <2>types, SMT DEF peek, Goto, entryVars, osVars, schedVars, history
      <4>3. /\ loc'[c].proc = q /\ loc'[c].prio = Report(q) /\ loc'[c].cpu = 0
            /\ loc'[c].last = CPU_NUM - 1
        BY <3>9, <2>types, <4>1, SMT DEF peek
      <4>4. CASE p = q
        <5>1. life'[p] = "live" /\ tasks'[p] > 0 => loc'[c].prio = READY
          BY <4>2, <4>3, <4>4, SMT DEF ControlInv, Sources, Report
        <5>2. \A d \in CPU : ~(d < loc'[c].cpu)
          BY <4>3, SMT DEF CPU
        <5>3. \A d \in CPU \ {c} : loc'[d].proc # p
          BY <4>2, <4>4, <3>alone
        <5> QED
          BY <4>2, <4>3, <4>4, <5>1, <5>2, <5>3, Storing, Zenon
      <4>5. CASE p # q
        BY <4>2, <4>3, <4>5, <3>same
      <4> QED
        BY <4>4, <4>5
    <3>10. CASE store(c)
      <4> DEFINE q == loc[c].proc
                 done == loc[c].cpu = loc[c].last
      <4>1. q \in Process /\ HasPid(q) /\ pid[q] \in Index /\ loc[c].cpu \in CPU
        BY <3>10, <2>control, <2>types, SMT DEF Control, Using, store, Goto, Local
      <4>2. /\ pc[c] = "store" /\ pc'[c] = IF done THEN loc[c].ret ELSE "store"
            /\ UNCHANGED <<overlapped, life, pid, tasks>>
            /\ highest_prio' = [highest_prio EXCEPT ![pid[q]][loc[c].cpu] = loc[c].prio]
        BY <3>10, <2>types, SMT DEF store, Goto, osVars, schedVars, history
      <4>3. ~done => /\ loc'[c].proc = q /\ loc'[c].prio = loc[c].prio
                     /\ loc'[c].cpu = loc[c].cpu + 1 /\ loc'[c].last = loc[c].last
        BY <3>10, <2>types, SMT DEF store
      <4>4. done => loc'[c].proc = Null \/ (loc'[c].proc = q /\ loc[c].ret = "run")
        BY <3>10, <2>types, SMT DEF store, Fresh
      <4>5. CASE p = q
        <5>1. Published(p)
          BY <4>2, Zenon DEF PublishedInv
        <5>2. \A d \in CPU \ {c} : loc'[d].proc # p
          BY <4>2, <4>5, <3>alone
        <5>3. ASSUME life'[p] = "live", tasks'[p] > 0
              PROVE  /\ loc[c].prio = READY /\ loc[c].last = CPU_NUM - 1
                     /\ \A d \in CPU : d < loc[c].cpu + 1 => highest_prio'[pid'[p]][d] = READY
          <6>1. /\ loc[c].prio = READY /\ loc[c].last = CPU_NUM - 1
                /\ \A d \in CPU : d < loc[c].cpu => highest_prio[pid[p]][d] = READY
            BY <4>2, <4>5, <5>1, <5>3 DEF Published
          <6>2. highest_prio'[pid'[p]] = [highest_prio[pid[p]] EXCEPT ![loc[c].cpu] = READY]
            BY <4>2, <4>5, <6>1, <2>types, Zenon
          <6>3. highest_prio[pid[p]] \in [CPU -> Prio]
            BY <2>types
          <6>4. \A d \in CPU : d < loc[c].cpu + 1 => d < loc[c].cpu \/ d = loc[c].cpu
            BY <4>1, SMT DEF CPU
          <6> QED
            BY <6>1, <6>2, <6>3, <6>4, SMT
        <5>4. CASE done
          <6>1. pc'[c] # "store"
            <7>1. loc[c].ret # "store"
              BY <2>types, SMT DEF Local
            <7> QED
              BY <4>2, <5>4, <7>1
          <6>2. ASSUME life'[p] = "live", tasks'[p] > 0
                PROVE  \A d \in CPU : highest_prio'[pid'[p]][d] = READY
            <7>1. \A d \in CPU : d < loc[c].cpu + 1
              BY <5>3, <5>4, <6>2, TableAssumption, SMT DEF CPU
            <7> QED
              BY <5>3, <6>2, <7>1
          <6>3. life'[p] = "live" /\ tasks'[p] > 0 =>
                   \A d \in CPU : highest_prio'[pid'[p]][d] = READY
            BY <6>2
          <6> QED
            BY <5>2, <6>1, <6>3, Ended, Zenon
        <5>5. CASE ~done
          BY <4>2, <4>3, <4>5, <5>2, <5>3, <5>5, Storing, Zenon
        <5> QED
          BY <5>4, <5>5
      <4>6. CASE p # q
        <5>1. loc'[c].proc # p
          BY <4>3, <4>4, <4>6, <2>null
        <5>2. ASSUME life'[p] = "live" PROVE highest_prio'[pid[p]] = highest_prio[pid[p]]
          <6>1. HasPid(p)
            BY <4>2, <5>2 DEF HasPid
          <6>2. pid[p] # pid[q] /\ pid[p] \in Index
            BY <4>1, <4>6, <6>1, <2>types, Zenon DEF ControlInv, Entries, OneOwner
          <6> QED
            BY <4>2, <6>2, SMT
        <5> QED
          BY <4>2, <4>6, <5>1, <5>2, <3>others, Untouched, Zenon
      <4> QED
        BY <4>5, <4>6
    <3>11. CASE \E q \in Process : unregister_process(c, q)
      <4>1. PICK q \in Process : unregister_process(c, q)
        BY <3>11
      <4>2. /\ pc[c] = "kernel" /\ life' = [life EXCEPT ![q] = "dropped"] /\ ~InUse(c, q)
            /\ UNCHANGED <<overlapped, tasks, highest_prio, pid>>
        BY <4>1 DEF unregister_process, Goto, schedVars, history
      <4>3. loc'[c].proc = q
        BY <4>1, <2>types, SMT DEF unregister_process
      <4>4. loc[c].proc = Null
        BY <4>2, Starting, Zenon
      <4>5. CASE p = q
        <5>1. life'[p] # "live"
          BY <4>2, <4>5, <2>types, SMT
        <5> QED
          BY <4>2, <4>5, <5>1, <3>free, NotLive, Zenon
      <4>6. CASE p # q
        BY <4>2, <4>3, <4>4, <4>6, <3>same, <2>null, SMT
      <4> QED
        BY <4>5, <4>6
    <3>12. CASE invalidate(c)
      <4>1. pc[c] = "invalidate" /\ UNCHANGED <<overlapped, tasks, highest_prio, pid, life>>
        BY <3>12 DEF invalidate, Goto, schedVars, osVars, history
      <4>2. loc'[c].proc = Null
        BY <3>12, <2>types, SMT DEF invalidate, Fresh
      <4>3. CASE p = loc[c].proc
        <5>1. life'[p] # "live"
          BY <4>1, <4>3, <2>control, SMT DEF Control
        <5>2. \A d \in CPU \ {c} : loc'[d].proc # p
          BY <4>1, <4>3, <3>alone
        <5> QED
          BY <5>1, <5>2, NotLive, Zenon
      <4>4. CASE p # loc[c].proc
        BY <4>1, <4>2, <4>4, <3>same, <2>null
      <4> QED
        BY <4>3, <4>4
    <3>13. CASE kernel_task(c)
      <4>1. /\ pc[c] \in {"idle", "kernel", "look", "read", "confirm", "switch", "pop"}
            /\ UNCHANGED <<overlapped, tasks, highest_prio, pid, life>>
        BY <3>13 DEF kernel_task, Goto, entryVars, schedVars, osVars, history
      <4>2. loc[c].proc = Null
        BY <4>1, <2>control, SMT DEF Control, Registering, Using
      <4>3. loc'[c].proc = Null
        BY <3>13, <4>2, SMT DEF kernel_task
      <4> QED
        BY <4>1, <4>2, <4>3, <3>same, <2>null
    <3>14. CASE kernel_done(c)
      <4>1. /\ pc[c] \in {"idle", "kernel", "look", "read", "confirm", "switch", "pop"}
            /\ UNCHANGED <<overlapped, tasks, highest_prio, pid, life>>
        BY <3>14 DEF kernel_done, Goto, entryVars, schedVars, osVars, history
      <4>2. loc[c].proc = Null
        BY <4>1, <2>control, SMT DEF Control, Registering, Using
      <4>3. loc'[c].proc = Null
        BY <3>14, <4>2, SMT DEF kernel_done
      <4> QED
        BY <4>1, <4>2, <4>3, <3>same, <2>null
    <3>15. CASE process_schedule(c)
      <4>1. /\ pc[c] \in {"idle", "kernel", "look", "read", "confirm", "switch", "pop"}
            /\ UNCHANGED <<overlapped, tasks, highest_prio, pid, life>>
        BY <3>15 DEF process_schedule, Goto, entryVars, schedVars, osVars, history
      <4>2. loc[c].proc = Null
        BY <4>1, <2>control, SMT DEF Control, Registering, Using
      <4>3. loc'[c].proc = Null
        BY <3>15, <4>2, SMT DEF process_schedule, Fresh
      <4> QED
        BY <4>1, <4>2, <4>3, <3>same, <2>null
    <3>16. CASE look(c)
      <4>1. /\ pc[c] \in {"idle", "kernel", "look", "read", "confirm", "switch", "pop"}
            /\ UNCHANGED <<overlapped, tasks, highest_prio, pid, life>>
        BY <3>16 DEF look, Goto, entryVars, schedVars, osVars, history
      <4>2. loc[c].proc = Null
        BY <4>1, <2>control, SMT DEF Control, Registering, Using
      <4>3. loc'[c].proc = Null
        BY <3>16, <4>2, SMT DEF look, Advanced, Fresh
      <4> QED
        BY <4>1, <4>2, <4>3, <3>same, <2>null
    <3>17. CASE read(c)
      <4>1. /\ pc[c] \in {"idle", "kernel", "look", "read", "confirm", "switch", "pop"}
            /\ UNCHANGED <<overlapped, tasks, highest_prio, pid, life>>
        BY <3>17 DEF read, Goto, entryVars, schedVars, osVars, history
      <4>2. loc[c].proc = Null
        BY <4>1, <2>control, SMT DEF Control, Registering, Using
      <4>3. loc'[c].proc = Null
        BY <3>17, <4>2, SMT DEF read
      <4> QED
        BY <4>1, <4>2, <4>3, <3>same, <2>null
    <3>18. CASE confirm(c)
      <4>1. /\ pc[c] \in {"idle", "kernel", "look", "read", "confirm", "switch", "pop"}
            /\ UNCHANGED <<overlapped, tasks, highest_prio, pid, life>>
        BY <3>18 DEF confirm, Goto, entryVars, schedVars, osVars, history
      <4>2. loc[c].proc = Null
        BY <4>1, <2>control, SMT DEF Control, Registering, Using
      <4>3. loc'[c].proc = Null
        BY <3>18, <4>2, SMT DEF confirm, Advanced, Fresh
      <4> QED
        BY <4>1, <4>2, <4>3, <3>same, <2>null
    <3>19. CASE switch_vspace(c)
      <4>1. /\ pc[c] \in {"idle", "kernel", "look", "read", "confirm", "switch", "pop"}
            /\ UNCHANGED <<overlapped, tasks, highest_prio, pid, life>>
        BY <3>19 DEF switch_vspace, Goto, entryVars, schedVars, osVars, history
      <4>2. loc[c].proc = Null
        BY <4>1, <2>control, SMT DEF Control, Registering, Using
      <4>3. loc'[c].proc = Null
        BY <3>19, <4>2, SMT DEF switch_vspace
      <4> QED
        BY <4>1, <4>2, <4>3, <3>same, <2>null
    <3>20. CASE pop_lost(c)
      <4>1. /\ pc[c] \in {"idle", "kernel", "look", "read", "confirm", "switch", "pop"}
            /\ UNCHANGED <<overlapped, tasks, highest_prio, pid, life>>
        BY <3>20 DEF pop_lost, Goto, entryVars, schedVars, osVars, history
      <4>2. loc[c].proc = Null
        BY <4>1, <2>control, SMT DEF Control, Registering, Using
      <4>3. loc'[c].proc = Null
        BY <3>20, <4>2, SMT DEF pop_lost, Fresh
      <4> QED
        BY <4>1, <4>2, <4>3, <3>same, <2>null
    <3>21. CASE pop_task(c)
      <4>1. PICK q \in Process :
               /\ HasPid(q)
               /\ pc' = [pc EXCEPT ![c] = IF Report(q) = READY THEN "take" ELSE "store"]
               /\ loc' = [loc EXCEPT ![c] = [Fresh EXCEPT !.proc = q, !.prio = Report(q),
                                                         !.cpu = c, !.last = c,
                                                         !.ret = Empty(c)]]
               /\ Begin(c, q)
        BY <3>21, Zenon DEF pop_task, OwnerOf, HasPid, Goto
      <4>2. pc[c] = "pop" /\ UNCHANGED <<tasks, highest_prio, pid, life>>
        BY <3>21 DEF pop_task, Goto, entryVars, schedVars, osVars
      <4>3. loc'[c].proc = q
        BY <4>1, <2>types, SMT
      <4>4. loc[c].proc = Null
        BY <4>2, <2>control, SMT DEF Control, Registering, Using
      <4>5. overlapped' = IF InUse(c, q) THEN overlapped \cup {q} ELSE overlapped
        BY <4>1 DEF Begin
      <4>6. CASE p = q
        <5>1. \A d \in CPU \ {c} : loc'[d].proc # p
          BY <4>5, <4>6, <3>free, Zenon
        <5>2. CASE Report(q) = READY
          <6>1. pc'[c] = "take"
            BY <4>1, <5>2, <2>types, SMT
          <6> QED
            BY <4>3, <4>6, <5>1, <6>1, Underway, Zenon
        <5>3. CASE Report(q) # READY
          <6>1. pc'[c] = "store"
            BY <4>1, <5>3, <2>types, SMT
          <6>2. ~(life'[p] = "live" /\ tasks'[p] > 0)
            BY <4>2, <4>6, <5>3, SMT DEF ControlInv, Sources, Report
          <6> QED
            BY <4>3, <4>6, <5>1, <6>1, <6>2, Storing, Zenon
        <5> QED
          BY <5>2, <5>3
      <4>7. CASE p # q
        <5>1. p \notin overlapped
          BY <4>5, Zenon
        <5> QED
          BY <4>2, <4>3, <4>4, <4>7, <5>1, <3>others, <2>null, Untouched, Zenon
      <4> QED
        BY <4>6, <4>7
    <3>22. CASE take_task(c)
      <4> DEFINE q == loc[c].proc
      <4>2. /\ pc'[c] = "store" /\ UNCHANGED <<overlapped, life, pid, highest_prio>>
            /\ tasks' = [tasks EXCEPT ![q] = IF tasks[q] > 0 THEN tasks[q] - 1 ELSE tasks[q]]
        BY <3>22, <2>types, SMT DEF take_task, Goto, entryVars, osVars, history
      <4>3. /\ loc'[c].proc = q /\ loc'[c].cpu = 0 /\ loc'[c].last = CPU_NUM - 1
            /\ tasks[q] > 0 => loc'[c].prio = READY
        BY <3>22, <2>types, SMT DEF take_task
      <4>4. CASE p = q
        <5>1. tasks'[p] > 0 => loc'[c].prio = READY
          BY <4>2, <4>3, <4>4, SMT
        <5>2. \A d \in CPU : ~(d < loc'[c].cpu)
          BY <4>3, SMT DEF CPU
        <5>3. \A d \in CPU \ {c} : loc'[d].proc # p
          BY <4>2, <4>4, <3>alone
        <5> QED
          BY <4>2, <4>3, <4>4, <5>1, <5>2, <5>3, Storing, Zenon
      <4>5. CASE p # q
        BY <4>2, <4>3, <4>5, <3>same, SMT
      <4> QED
        BY <4>4, <4>5
    <3>23. CASE exits(c)
      <4>1. /\ pc[c] = "run" /\ pc'[c] # "store"
            /\ UNCHANGED <<overlapped, tasks, highest_prio, pid, life>>
        BY <3>23, SMT DEF exits, Goto, entryVars, schedVars, osVars, history
      <4>2. loc'[c].proc = Null
        BY <3>23, <2>types, SMT DEF exits, Fresh
      <4>3. CASE p = loc[c].proc
        <5>1. Published(p)
          BY <4>1, Zenon DEF PublishedInv
        <5>2. \A d \in CPU \ {c} : loc'[d].proc # p
          BY <4>1, <4>3, <3>alone
        <5>3. \A d \in CPU : loc[d].proc = p => pc[d] = "run"
          BY <4>1, <4>3, <5>1, Zenon DEF Published
        <5>4. life[p] = "live" /\ tasks[p] > 0 => \A d \in CPU : highest_prio[pid[p]][d] = READY
          BY <5>1, <5>3 DEF Published
        <5> QED
          BY <4>1, <5>2, <5>4, Ended, Zenon
      <4>4. CASE p # loc[c].proc
        BY <4>1, <4>2, <4>4, <3>same, <2>null
      <4> QED
        BY <4>3, <4>4
    <3>24. CASE exits_by_trap(c)
      <4>1. /\ pc[c] = "run" /\ pc'[c] # "store"
            /\ UNCHANGED <<overlapped, tasks, highest_prio, pid, life>>
        BY <3>24, SMT DEF exits_by_trap, Goto, entryVars, schedVars, osVars, history
      <4>2. loc'[c].proc = Null
        BY <3>24, <2>types, SMT DEF exits_by_trap, Fresh
      <4>3. CASE p = loc[c].proc
        <5>1. Published(p)
          BY <4>1, Zenon DEF PublishedInv
        <5>2. \A d \in CPU \ {c} : loc'[d].proc # p
          BY <4>1, <4>3, <3>alone
        <5>3. \A d \in CPU : loc[d].proc = p => pc[d] = "run"
          BY <4>1, <4>3, <5>1, Zenon DEF Published
        <5>4. life[p] = "live" /\ tasks[p] > 0 => \A d \in CPU : highest_prio[pid[p]][d] = READY
          BY <5>1, <5>3 DEF Published
        <5> QED
          BY <4>1, <5>2, <5>4, Ended, Zenon
      <4>4. CASE p # loc[c].proc
        BY <4>1, <4>2, <4>4, <3>same, <2>null
      <4> QED
        BY <4>3, <4>4
    <3>25. CASE utask_schedule(c)
      <4>1. /\ pc[c] \in {"idle", "kernel", "choose", "into"}
            /\ UNCHANGED <<overlapped, tasks, highest_prio, pid, life>>
        BY <3>25 DEF utask_schedule, Goto, entryVars, schedVars, osVars, history
      <4>2. loc[c].proc = Null
        BY <4>1, <2>control, SMT DEF Control, Registering, Using
      <4>3. loc'[c].proc = Null
        BY <3>25, <4>2, <2>types, SMT DEF utask_schedule, Fresh
      <4> QED
        BY <4>1, <4>2, <4>3, <3>same, <2>null
    <3>26. CASE into_kernel(c)
      <4>1. /\ pc[c] \in {"idle", "kernel", "choose", "into"}
            /\ UNCHANGED <<overlapped, tasks, highest_prio, pid, life>>
        BY <3>26 DEF into_kernel, Goto, entryVars, schedVars, osVars, history
      <4>2. loc[c].proc = Null
        BY <4>1, <2>control, SMT DEF Control, Registering, Using
      <4>3. loc'[c].proc = Null
        BY <3>26, <4>2, <2>types, SMT DEF into_kernel, Fresh
      <4> QED
        BY <4>1, <4>2, <4>3, <3>same, <2>null
    <3> QED
      BY <2>1, <3>1, <3>2, <3>3, <3>4, <3>5, <3>6, <3>7, <3>8, <3>9, <3>10, <3>11, <3>12, <3>13,
         <3>14, <3>15, <3>16, <3>17, <3>18, <3>19, <3>20, <3>21, <3>22, <3>23, <3>24, <3>25,
         <3>26,
         Zenon DEF Step, Register, UseScheduler, Drop, Schedule
  <2>2. CASE UNCHANGED vars
    <3>1. UNCHANGED <<overlapped, tasks, highest_prio, pid, life, pc, loc>>
      BY <2>2 DEF vars, entryVars, schedVars, osVars, history
    <3> QED
      BY <3>1, SMT DEF PublishedInv, Published
  <2> QED
    BY <2>1, <2>2, Zenon DEF Next, Step
<1> QED
  BY <1>1, <1>2, ControlInvariance, PTL DEF Spec

\* A process on whose scheduler no two operations ever overlapped is
\* published as ready to every CPU if it has a task and nobody works on it,
\* also if tasks were pushed before user_init and if its pid was used before
\* (scheduler.rs:138, api.rs:245).
THEOREM TruthIsTold == Spec => []TableTellsTheTruth
<1>1. PublishedInv => TableTellsTheTruth
  BY Zenon DEF PublishedInv, Published, TableTellsTheTruth
<1> QED
  BY <1>1, PublishedInvariance, PTL

=============================================================================
