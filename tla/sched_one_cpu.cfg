\* One CPU, a kernel and a user process, two levels.
SPECIFICATION Spec
CONSTANTS
    k1 = k1
    k2 = k2
    u1 = u1
    u2 = u2
    u3 = u3
    Task = {k1, k2, u1, u2, u3}
    NoTask = NoTask
    Handler = Handler
    priority <- MCtwo_levels
    pid_of <- MCpid_of
    HIGHEST_PRIORITY = 0
    LOWEST_PRIORITY = 1
    READY_QUEUE_SIZE = 5
    CPU_NUM = 1
    PROCESS_NUM = 2
    MAX_TRAPS = 2
    WFI_MAY_RETURN = TRUE
    KERNEL_PUSH_IRQ = FALSE
INVARIANTS
    TypeOK
    EveryTaskInOnePlace
    NoPanic
    RunsInItsAddressSpace
    NoSleepOverReadyTask
    TrapsBeforeUserTasks
    TableHidesNothing
