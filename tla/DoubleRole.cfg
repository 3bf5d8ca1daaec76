\* One request at a time: a reassignment to a collaborator.
CONSTANTS
    sam = sam
    ana = ana
    ben = ben
    w1 = w1
    w2 = w2
    d1 = d1
    d2 = d2
    Users <- MCUsers
    Supervisors <- MCSupervisors
    MaxReassignments = 4
    MaxReplies = 1
    Workers <- OneWorker
    Details <- OneDetail
SPECIFICATION Spec
CHECK_DEADLOCK FALSE
INVARIANTS
    AssigneeIsNoCollaborator
