\* Two requests at a time on one ticket, of every kind and by every user.
\* Three reassignments commit with the fourth request in flight.
CONSTANTS
    sam = sam
    ana = ana
    ben = ben
    w1 = w1
    w2 = w2
    d1 = d1
    d2 = d2
    Users <- MCUsers
    Supervisors <- MCSupervisors
    MaxReassignments = 4
    MaxReplies = 1
    Workers <- TwoWorkers
    Details <- MCDetails
SPECIFICATION Spec
CHECK_DEADLOCK FALSE
SYMMETRY TeamSymmetry
INVARIANTS
    ReassignmentsAccountForAssignee
PROPERTIES
    OnlySupervisorsReassign
    OnlyNamedCollaboratorChanges
    CommitsAreAuthorized
    RecordsNameAssignees
    FailsOnlyWhenOvertaken
