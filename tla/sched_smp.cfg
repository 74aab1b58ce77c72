\* Two CPUs, one task of the kernel and one of a user process, any interleaving.
SPECIFICATION Spec
CONSTANTS
    k1 = k1
    k2 = k2
    u1 = u1
    u2 = u2
    u3 = u3
    Task = {k1, u1}
    NoTask = NoTask
    Handler = Handler
    priority <- MCone_level
    pid_of <- MCpid_of
    HIGHEST_PRIORITY = 0
    LOWEST_PRIORITY = 0
    READY_QUEUE_SIZE = 2
    CPU_NUM = 2
    PROCESS_NUM = 2
    MAX_TRAPS = 2
    WFI_MAY_RETURN = FALSE
    KERNEL_PUSH_IRQ = FALSE
INVARIANTS
    EveryTaskInOnePlace
    NoPanic
    RunsInItsAddressSpace
    PrivilegeIsKnown
