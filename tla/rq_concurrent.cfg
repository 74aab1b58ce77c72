\* Three callers on one queue; the lower level can be full.
SPECIFICATION Spec
CONSTANTS
    urgent = urgent
    t1 = t1
    t2 = t2
    t3 = t3
    Task = {urgent, t1, t2, t3}
    NoTask = NoTask
    priority <- MCpriority
    HIGHEST_PRIORITY = 0
    LOWEST_PRIORITY = 1
    READY_QUEUE_SIZE = 2
    c1 = c1
    c2 = c2
    c3 = c3
    CPU = {c1, c2, c3}
SYMMETRY MCsymmetry
INVARIANTS
    TypeOK
    EveryTaskInOnePlace
    BitCoversQueue
    NoOvertaking
    ExactUnlessRaced
PROPERTIES
    NextPrioHidesNothing
    ImplementsPool
