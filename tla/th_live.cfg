\* Two CPUs, one task.
SPECIFICATION FairSpec
CONSTANTS
    c1 = c1
    c2 = c2
    t1 = t1
    t2 = t2
    h1 = h1
    h2 = h2
    h3 = h3
    CPU = {c1, c2}
    Task = {t1}
    Handler = {h1, h2, h3}
    FirstHandlers <- MCFirstHandlers
    TRAP_WAIT_QUEUE_SIZE = 3
    MAX_WAITING_HANDLERS = 1
    NoTask = NoTask
    NoWork = NoWork
PROPERTIES
    SpinEnds
    TrappedTaskReturns
