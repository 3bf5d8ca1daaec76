\* An alerts page kept open over a close and a reopen.
CONSTANTS
    sam = sam
    ana = ana
    w1 = w1
    NULL = NULL
    Users <- MCUsers
    Supervisors <- MCSupervisors
    Workers <- OneWorker
    Priorities <- MCPriorities
    Target <- MCTarget
    AtRiskFrom <- MCAtRiskFrom
    ReopenWindow = 2
    MaxTime = 2
    MaxEvents = 7
SPECIFICATION AlertsSpec
CHECK_DEADLOCK FALSE
INVARIANTS
    AcksAnswerAlertsShown
