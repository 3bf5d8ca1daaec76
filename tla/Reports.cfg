\* A reader walks through the queue, one or two tickets to a page, while others change
\* tickets; in every table met, the figures of the dashboard agree with the queue.
CONSTANTS
    sam = sam
    ana = ana
    ben = ben
    NULL = NULL
    Users <- MCUsers
    Supervisors <- MCSupervisors
    ReopenWindow = 1
    TicketIds <- MCTicketIds
    Priorities <- MCPriorities
    Instants <- MCInstants
    InitialTables <- MCTables
    Queries <- MCQueries
    MaxChanges = 2
    WeekLength = 2
    Weeks = 2
SPECIFICATION Spec
CHECK_DEADLOCK FALSE
INVARIANTS
    ArrivalsHideNothing
    DeparturesRepeatNothing
    QuietWalkIsExport
    ListsMatchDetailPage
    FiguresAgree
    WeeksAgree
