\* Two CPUs, one task of a user process.
SPECIFICATION FairSpec
CONSTANTS
    k1 = k1
    k2 = k2
    u1 = u1
    u2 = u2
    u3 = u3
    Task = {u1}
    NoTask = NoTask
    Handler = Handler
    priority <- MCone_level
    pid_of <- MCpid_of
    HIGHEST_PRIORITY = 0
    LOWEST_PRIORITY = 0
    READY_QUEUE_SIZE = 4
    CPU_NUM = 2
    PROCESS_NUM = 2
    MAX_TRAPS = 1
    WFI_MAY_RETURN = FALSE
    KERNEL_PUSH_IRQ = TRUE
PROPERTY
    UserTaskIsPopped
