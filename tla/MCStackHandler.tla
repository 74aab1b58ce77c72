---------------------------- MODULE MCStackHandler ----------------------------
(* Instances of StackHandler for TLC. *)
EXTENDS StackHandler, TLC

CONSTANTS c1, c2, t1, t2, k1

\* Stacks are numbered; the CPUs boot on the first ones.
MCInitStack == IF CPU = {c1} THEN c1 :> 1 ELSE c1 :> 1 @@ c2 :> 2

\* Stacks are alike, so two states differ in what stacks are held by whom and
\* executed on, and not in which stacks these are.  By EveryStackInOnePlace
\* that is all: sp is the only second reference to a stack.
Missing(f) == {x \in DOMAIN f : f[x] = NoStack}

Shape ==
    <<pc, current, ready, Cardinality(unused),
      [c \in CPU |-> Cardinality(free_stacks[c])],
      Missing(current_stack), Missing(trap_stack), Missing(thread_stack),
      [c \in CPU |-> IF sp[c] = NoStack THEN {} ELSE Holders(sp[c])]>>

=============================================================================
