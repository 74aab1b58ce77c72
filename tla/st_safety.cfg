\* Two CPUs, two threads and a coroutine.
SPECIFICATION Spec
CONSTANTS
    c1 = c1
    c2 = c2
    t1 = t1
    t2 = t2
    k1 = k1
    CPU = {c1, c2}
    Task = {t1, t2, k1}
    Coroutine = {k1}
    Stack = {1, 2, 3, 4, 5, 6, 7, 8, 9}
    InitStack <- MCInitStack
    STACK_POOL_SIZE = 9
    UTOK_MAY_WAIT = FALSE
    NoStack = NoStack
    NoTask = NoTask
INVARIANTS
    TypeOK
    NoPanic
    EveryStackInOnePlace
VIEW Shape
PROPERTIES
    ImplementsOwnership
