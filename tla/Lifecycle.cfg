\* The serial life of a ticket and what its response clock reads: two full resolve-close-reopen rounds fit in
\* the bounds, and the window both holds and lapses within MaxTime.
CONSTANTS
    sam = sam
    ana = ana
    bob = bob
    NULL = NULL
    Users <- MCUsers
    Supervisors <- MCSupervisors
    ReopenWindow = 2
    MaxTime = 5
    MaxEvents = 8
SPECIFICATION Spec
CHECK_DEADLOCK FALSE
INVARIANTS
    OpenPeriodsMatchStatus
    PeriodsNeverOverlap
PROPERTIES
    ClosedForGood
    ReadingsAreFinal
    ImplementsStopwatch
