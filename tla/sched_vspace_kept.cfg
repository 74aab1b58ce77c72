\* Two CPUs, two user processes with a task each.
SPECIFICATION Spec
CONSTANTS
    k1 = k1
    k2 = k2
    u1 = u1
    u2 = u2
    u3 = u3
    Task = {u1, u2}
    NoTask = NoTask
    Handler = Handler
    priority <- MCtwo_levels
    pid_of <- MCpid_apart
    HIGHEST_PRIORITY = 0
    LOWEST_PRIORITY = 1
    READY_QUEUE_SIZE = 4
    CPU_NUM = 2
    PROCESS_NUM = 3
    MAX_TRAPS = 1
    WFI_MAY_RETURN = FALSE
    KERNEL_PUSH_IRQ = TRUE
INVARIANT
    RunsInItsAddressSpace
