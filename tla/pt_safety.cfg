\* Three processes for one entry.  A CPU that has panicked stops.
SPECIFICATION Spec
CONSTANTS
    CPU_NUM = 2
    PROCESS_NUM = 2
    Process = {p1, p2, p3}
    Null = Null
    MAX_TASKS = 2
SYMMETRY Symmetry
VIEW Essential
CHECK_DEADLOCK FALSE
INVARIANTS
    TypeOK
    EntryHasOneOwner
    NoneUnlessWasted
    EntryIsOwn
    TableTellsTheTruth
