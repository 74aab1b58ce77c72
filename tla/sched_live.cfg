\* Two CPUs, the kernel's process only.
SPECIFICATION FairSpec
CONSTANTS
    k1 = k1
    k2 = k2
    u1 = u1
    u2 = u2
    u3 = u3
    Task = {k1, k2}
    NoTask = NoTask
    Handler = Handler
    priority <- MCone_level
    pid_of <- MCpid_of
    HIGHEST_PRIORITY = 0
    LOWEST_PRIORITY = 0
    READY_QUEUE_SIZE = 4
    CPU_NUM = 2
    PROCESS_NUM = 1
    MAX_TRAPS = 2
    WFI_MAY_RETURN = FALSE
    KERNEL_PUSH_IRQ = FALSE
INVARIANT
    TrapsBeforeTasks
PROPERTIES
    KernelTaskIsPopped
    TrapIsTaken
