\* The same batches over tickets that no race has touched before.
CONSTANTS
    sam = sam
    ana = ana
    ben = ben
    t1 = t1
    t2 = t2
    gone = gone
    NULL = NULL
    ReopenWindow = 1
    Users <- MCUsers
    Supervisors <- MCSupervisors
    Ids <- MCIds
    Tickets <- MCTickets
    Selections <- MCSelections
    MaxMoves = 2
SPECIFICATION OrderlySpec
SYMMETRY Symmetry
INVARIANTS
    BatchReports
CHECK_DEADLOCK FALSE
