----------------------------- MODULE MCReports -----------------------------
(* Three tickets at most, two agents and a supervisor, three weeks of two instants. *)
EXTENDS Dashboard
CONSTANTS sam, ana, ben

MCUsers == {sam, ana, ben}
MCSupervisors == {sam}
MCTicketIds == 1..3
MCPriorities == {"low", "urgent"}
MCInstants == {1, 2, 5}

Fresh(assignee, at) ==
    [is_archived |-> FALSE, status |-> "new", priority |-> "low",
     primary_assignee_id |-> assignee, collaborator_ids |-> {},
     created_at |-> at, updated_at |-> at, resolved_at |-> NULL, overdue |-> FALSE]
Open(t) == [t EXCEPT !.status = "open", !.overdue = TRUE, !.collaborator_ids = {ana, ben}]
Resolved(t, at) == [t EXCEPT !.status = "resolved", !.updated_at = at, !.resolved_at = at]

MCTables ==
    {<<Fresh(ana, 1)>>,
     <<Open(Fresh(ana, 2)), Open(Fresh(ben, 1)), [Fresh(ana, 5) EXCEPT !.priority = "urgent"]>>,
     <<Resolved(Fresh(ana, 1), 2), Resolved(Fresh(ana, 1), 5), Open(Fresh(ana, 2))>>,
     <<Resolved(Fresh(ana, 1), 1), [Resolved(Fresh(ana, 2), 5) EXCEPT !.is_archived = TRUE]>>}

MCQueries ==
    {[Unfiltered(ana) EXCEPT !.page_size = 1],
     [Unfiltered(ana) EXCEPT !.page_size = 1, !.sort = "updated", !.direction = "asc"],
     [Unfiltered(sam) EXCEPT !.page_size = 2, !.assignee_id = ana],
     [Unfiltered(sam) EXCEPT !.page_size = 2, !.sort = "priority", !.status = "open"]}
=============================================================================
