\* Two workers: a race leaves a resting ticket that can no longer leave its status.
CONSTANTS
    sam = sam
    ana = ana
    w1 = w1
    w2 = w2
    NULL = NULL
    Users <- MCUsers
    Supervisors <- MCSupervisors
    Workers <- TwoWorkers
    ReopenWindow = 1
    MaxTime = 1
    MaxEvents = 4
SPECIFICATION Spec
CHECK_DEADLOCK FALSE
INVARIANTS
    RestingTicketCanMove
