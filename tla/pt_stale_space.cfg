\* Two processes, one after the other in one entry.
SPECIFICATION Spec
CONSTANTS
    CPU_NUM = 2
    PROCESS_NUM = 2
    Process = {p1, p2}
    Null = Null
    MAX_TASKS = 1
SYMMETRY Symmetry
CHECK_DEADLOCK FALSE
INVARIANTS
    UserTaskInItsSpace
