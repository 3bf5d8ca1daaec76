\* Two workers: what survives every interleaving of their statements, and what holds
\* until two requests overlap.
CONSTANTS
    sam = sam
    ana = ana
    w1 = w1
    w2 = w2
    NULL = NULL
    Users <- MCUsers
    Supervisors <- MCSupervisors
    Workers <- TwoWorkers
    ReopenWindow = 1
    MaxTime = 2
    MaxEvents = 5
SPECIFICATION Spec
CHECK_DEADLOCK FALSE
SYMMETRY WorkerSymmetry
INVARIANTS
    ClockStopsWhileWaiting
    TimelineAccountsForTicket
    ReopenedWithinWindow
    ErrorsNeedOverlap
    TimelineEndsAtStatus
PROPERTIES
    ImplementsLifecycle
