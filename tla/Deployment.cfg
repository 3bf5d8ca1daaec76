\* Deployments over an empty database, or over one that any earlier revision left with some
\* of the accounts and at most one ticket; each can be killed between any two commits.
CONSTANTS
    NULL = NULL
    Users <- MCUsers
    Supervisors <- MCSupervisors
    ReopenWindow = 10080
    DemoUsers <- MCDemoUsers
    Tickets <- MCTickets
    SeedNow = 43200
    Priorities <- MCPriorities
    Target <- MCTarget
    AtRiskFrom <- MCAtRiskFrom
    MeantBreaching <- MCMeantBreaching
    MeantAtRisk <- MCMeantAtRisk
SPECIFICATION Spec
INVARIANTS
    TypeOK
    SeedIsAPrefix
    AssigneesExist
    BuildsFailOnlyWithoutAgents
    EveryTicketCanLeave
    
