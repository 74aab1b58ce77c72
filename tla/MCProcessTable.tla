--------------------------- MODULE MCProcessTable ---------------------------
(* Instances of ProcessTable for TLC. *)
EXTENDS ProcessTable, TLC

\* Processes differ in nothing but their names.
Symmetry == Permutations(Process)

\* No guard reads the page tables, and none reads what a process that has been
\* dropped had left to push or which pid it had; of the properties of pt_safety
\* only TypeOK mentions them.
Essential ==
    LET gone(f, x) == [p \in Process |-> IF life[p] = "dropped" THEN x ELSE f[p]]
    IN  <<entryVars, next_i, life, gone(left, 0), gone(pid, 0), schedVars,
          current_vspace, home, pc, loc, history>>

=============================================================================
