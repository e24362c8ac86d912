SPECIFICATION FairSpec
CONSTANTS
    Requests = {r1, r2}
    ShutdownTimeout = 2
INVARIANTS
    TypeOK
    PhasesInOrder
    StoresOutliveWorkers
    DeadlineKept
PROPERTIES
    EventuallyExits
CHECK_DEADLOCK FALSE
