---------------------------- MODULE StackOwnership ----------------------------
(***************************************************************************)
(* What the stack handler promises.  Every stack is free or has one owner, *)
(* a CPU or a task whose context is saved on it; a CPU executes on a stack *)
(* of its own only, and neither gives it away nor has it freed while it    *)
(* does.                                                                   *)
(***************************************************************************)
CONSTANTS CPU, Task, Stack, NoStack, Free, InitStack

VARIABLES
    owner,      \* Whose each stack is.
    sp          \* The stack each CPU executes on, NoStack in user mode.

vars == <<owner, sp>>

Init ==
    /\ owner = [s \in Stack |-> IF \E c \in CPU : s = InitStack[c]
                                THEN CHOOSE c \in CPU : s = InitStack[c]
                                ELSE Free]
    /\ sp = InitStack

Give(s, from, to) ==
    /\ owner[s] = from
    /\ owner' = [owner EXCEPT ![s] = to]

\* A CPU gets a free stack, and may go on there.
Claim(c, s) ==
    /\ \E x \in {sp[c], s} : sp' = [sp EXCEPT ![c] = x]
    /\ Give(s, Free, c)

\* A task comes with a stack of its own.
Spawn(t, s) == UNCHANGED sp /\ Give(s, Free, t)

\* A task's context stays behind on a stack that its CPU has left.
Save(c, t, s) == sp[c] # s /\ UNCHANGED sp /\ Give(s, c, t)

\* A CPU takes over a saved context, and enters its stack later.
Resume(c, t, s) == UNCHANGED sp /\ Give(s, t, c)

\* A stack that is not executed on is freed.
Release(c, s) == sp[c] # s /\ UNCHANGED sp /\ Give(s, c, Free)

\* A CPU moves to another stack of its own, or to user mode.
Move(c, s) ==
    /\ sp' = [sp EXCEPT ![c] = s]
    /\ s = NoStack \/ owner[s] = c
    /\ UNCHANGED owner

Next ==
    \/ \E c \in CPU :
          \/ \E s \in Stack : Claim(c, s) \/ Release(c, s)
          \/ \E s \in Stack \cup {NoStack} : Move(c, s)
          \/ \E s \in Stack, t \in Task : Save(c, t, s) \/ Resume(c, t, s)
    \/ \E s \in Stack, t \in Task : Spawn(t, s)

Spec == Init /\ [][Next]_vars

=============================================================================
