---------------------------- MODULE Permissions ----------------------------
(***************************************************************************)
(* The ticket authorization rules of app/services/permissions.py.  They    *)
(* are written, as the Python is, against anything that has a              *)
(* primary_assignee_id and a set of collaborator_ids.                      *)
(***************************************************************************)
CONSTANTS
    Users,        \* every account
    Supervisors   \* the accounts whose role is SUPERVISOR; no route changes a role

ASSUME SupervisorsAssumption == Supervisors \subseteq Users

Agents == Users \ Supervisors

TicketLike == [primary_assignee_id : Users, collaborator_ids : SUBSET Users]

IsSupervisor(user) == user \in Supervisors

IsAssignedTo(user, ticket) ==
    ticket.primary_assignee_id = user \/ user \in ticket.collaborator_ids

CanViewFullQueue(user) == IsSupervisor(user)

CanViewTicket(user, ticket) == IsSupervisor(user) \/ IsAssignedTo(user, ticket)

CanActOnTicket(user, ticket) == IsSupervisor(user) \/ IsAssignedTo(user, ticket)

CanReassignTicket(user, ticket) == IsSupervisor(user)

CanCloseTicket(user, ticket) == IsSupervisor(user)
=============================================================================
