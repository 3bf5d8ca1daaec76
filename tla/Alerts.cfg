\* Acknowledgements over two rounds of resolve, close and reopen (seven status changes).
\* The urgent target passes within MaxTime; the low one is at risk there and no more.
CONSTANTS
    sam = sam
    ana = ana
    w1 = w1
    NULL = NULL
    Users <- MCUsers
    Supervisors <- MCSupervisors
    Workers <- OneWorker
    Priorities <- MCPriorities
    Target <- MCTarget
    AtRiskFrom <- MCAtRiskFrom
    ReopenWindow = 2
    MaxTime = 2
    MaxEvents = 7
SPECIFICATION AlertsSpec
CHECK_DEADLOCK FALSE
PROPERTIES
    AlertReturnsAfterReopen
    OnlyOwnAckClearsAlert
    AckHoldsUntilReopen
