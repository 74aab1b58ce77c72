\* A user's loop may enter the kernel when nothing is ready.
SPECIFICATION Spec
CONSTANTS
    c1 = c1
    c2 = c2
    t1 = t1
    t2 = t2
    k1 = k1
    CPU = {c1}
    Task = {t1, k1}
    Coroutine = {k1}
    Stack = {1, 2, 3, 4, 5}
    InitStack <- MCInitStack
    STACK_POOL_SIZE = 5
    UTOK_MAY_WAIT = TRUE
    NoStack = NoStack
    NoTask = NoTask
INVARIANT
    NoPanic
CHECK_DEADLOCK FALSE
