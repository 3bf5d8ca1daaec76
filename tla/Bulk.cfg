\* Two tickets in one batch, one ticket twice, and one twice with an id that does not
\* exist in between, while others move and reassign them twice.
CONSTANTS
    sam = sam
    ana = ana
    ben = ben
    t1 = t1
    t2 = t2
    gone = gone
    NULL = NULL
    ReopenWindow = 1
    Users <- MCUsers
    Supervisors <- MCSupervisors
    Ids <- MCIds
    Tickets <- MCTickets
    Selections <- MCSelections
    MaxMoves = 2
SPECIFICATION MCSpec
SYMMETRY Symmetry
INVARIANTS
    ReportMatchesCommits
    ReportHasReasons
    FailsForAReason
    AgentsChangeNothing
PROPERTIES
    NobodyStrandsATicket
CHECK_DEADLOCK FALSE
