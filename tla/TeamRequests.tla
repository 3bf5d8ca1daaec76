---------------------------- MODULE TeamRequests ----------------------------
(***************************************************************************)
(* The requests that change who works on a ticket, its edit form and the   *)
(* bulk reassign (ticket_service) and adding and removing collaborators    *)
(* (collaborator_service), and those that only who works on it may make:   *)
(* replies (reply_service).  Each runs in a session of its own, as in      *)
(* LifecycleRequests: it decides on the copy of the ticket its session     *)
(* loaded, and its commit writes only the columns and association rows it  *)
(* changed.                                                                *)
(***************************************************************************)
EXTENDS Permissions, Naturals, Sequences, FiniteSets

CONSTANTS
    Workers,            \* threads that can have a request in flight
    Details,            \* contents of the columns the form edits beside the assignee
    MaxReassignments,   \* bound on reassignments committed plus requests in flight
    MaxReplies          \* no reply is begun once there are this many

ASSUME TeamAssumption ==
    /\ IsFiniteSet(Workers)
    /\ MaxReassignments \in Nat
    /\ MaxReplies \in Nat

VARIABLES
    ticket,             \* its row in tickets and its rows in ticket_collaborators
    reassignments,      \* its REASSIGNMENT events, in commit order
    replies,            \* its replies, each with its REPLY event, in commit order
    req                 \* the request each worker runs

vars == <<ticket, reassignments, replies, req>>

Ticket == [primary_assignee_id : Users, collaborator_ids : SUBSET Users, details : Details]

Reassignment == [actor : Users, old_assignee_id : Users, new_assignee_id : Users]

\* What a reply says is left out.
Reply == [author : Users]

(***************************************************************************)
(* A request: the user it names (the assignee submitted with an edit), the *)
(* details it submits, and the copy of the ticket in its session.          *)
(***************************************************************************)
Kinds == {"edit", "add", "remove", "reply"}

Request == [pc : {"authorize", "commit", "failed"}, kind : Kinds, actor : Users,
            user : Users, details : Details, copy : Ticket]

Idle == [pc |-> "idle"]

\* create_ticket accepts only an agent as assignee; there are no collaborators yet.
Init ==
    /\ ticket \in [primary_assignee_id : Agents, collaborator_ids : {{}}, details : Details]
    /\ reassignments = <<>>
    /\ replies = <<>>
    /\ req = [w \in Workers |-> Idle]

InFlight == {w \in Workers : req[w] # Idle}
-----------------------------------------------------------------------------
\* The request loads the ticket row.  Its collaborators are loaded on first use.
Begin(w, kind, actor, user, details) ==
    /\ req[w] = Idle
    /\ Len(reassignments) + Cardinality(InFlight) < MaxReassignments
    /\ kind # "edit" => details = ticket.details
    /\ kind = "reply" => user = actor /\ Len(replies) < MaxReplies
    /\ req' = [req EXCEPT ![w] =
         [pc |-> "authorize", kind |-> kind, actor |-> actor, user |-> user,
          details |-> details, copy |-> [ticket EXCEPT !.collaborator_ids = {}]]]
    /\ UNCHANGED <<ticket, reassignments, replies>>

Reassigns(r) == r.kind = "edit" /\ r.user # r.copy.primary_assignee_id

MayReassign_Agents(r) == r.user \in Agents

\* _apply_reassignment: a supervisor asks for it, and the new assignee is an agent.
MayReassign(r) == CanReassignTicket(r.actor, r.copy) /\ r.user \in Agents

MayAdd_Again(r) == r.user # r.copy.primary_assignee_id /\ r.user \in Agents

\* Neither the assignee nor a collaborator already, and an agent.
MayAdd(r) ==
    /\ r.user # r.copy.primary_assignee_id
    /\ r.user \notin r.copy.collaborator_ids
    /\ r.user \in Agents

Permitted_RemoveUnchecked(r) ==
    /\ r.kind # "remove" => CanActOnTicket(r.actor, r.copy)
    /\ Reassigns(r) => MayReassign(r)
    /\ r.kind = "add" => MayAdd(r)
    /\ r.kind = "remove" => r.user \in r.copy.collaborator_ids

\* Every check the services make before they change anything.
Permitted(r) ==
    /\ CanActOnTicket(r.actor, r.copy)
    /\ Reassigns(r) => MayReassign(r)
    /\ r.kind = "add" => MayAdd(r)
    /\ r.kind = "remove" => r.user \in r.copy.collaborator_ids

\* A refusal (403, 404, 409 or 422) ends the request and leaves no trace.
Authorize(w) ==
    LET r == [req[w] EXCEPT !.copy.collaborator_ids = ticket.collaborator_ids]
    IN  /\ req[w] # Idle /\ req[w].pc = "authorize"
        /\ req' = [req EXCEPT ![w] = IF Permitted(r) THEN [r EXCEPT !.pc = "commit"] ELSE Idle]
        /\ UNCHANGED <<ticket, reassignments, replies>>

Written_WholeRow(old, new, stored) == new

\* A column is written only if the request gave it another value than it loaded.
Written(old, new, stored) == IF new = old THEN stored ELSE new

RecordReassignment_NoOld(r) ==
    [actor |-> r.actor, old_assignee_id |-> r.user, new_assignee_id |-> r.user]

RecordReassignment(r) ==
    [actor |-> r.actor, old_assignee_id |-> r.copy.primary_assignee_id,
     new_assignee_id |-> r.user]

CommitEdit(w) ==
    LET r == req[w]
    IN  /\ r # Idle /\ r.pc = "commit" /\ r.kind = "edit"
        /\ ticket' = [ticket EXCEPT
             !.primary_assignee_id = Written(r.copy.primary_assignee_id, r.user, @),
             !.details = Written(r.copy.details, r.details, @)]
        /\ reassignments' = IF Reassigns(r) THEN Append(reassignments, RecordReassignment(r))
                             ELSE reassignments
        /\ req' = [req EXCEPT ![w] = Idle]
        /\ UNCHANGED replies

AssociationsAfter_ReplaceAll(r) ==
    IF r.kind = "add" THEN r.copy.collaborator_ids \cup {r.user}
    ELSE r.copy.collaborator_ids \ {r.user}

\* The flush inserts or deletes the one association row that changed.
AssociationsAfter(r) ==
    IF r.kind = "add" THEN ticket.collaborator_ids \cup {r.user}
    ELSE ticket.collaborator_ids \ {r.user}

\* The insert of a row another request has inserted violates the primary key, and the
\* delete of a row another has deleted matches none: both are uncaught, answered 500.
CommitCollaborators(w) ==
    LET r == req[w]
        conflict == (r.kind = "add") = (r.user \in ticket.collaborator_ids)
    IN  /\ r # Idle /\ r.pc = "commit" /\ r.kind \in {"add", "remove"}
        /\ IF conflict
           THEN req' = [req EXCEPT ![w].pc = "failed"] /\ UNCHANGED ticket
           ELSE /\ ticket' = [ticket EXCEPT !.collaborator_ids = AssociationsAfter(r)]
                /\ req' = [req EXCEPT ![w] = Idle]
        /\ UNCHANGED <<reassignments, replies>>

\* add_reply: the flush gives the reply its id, the event names it, and both rows appear
\* with the commit.  It touches neither the ticket nor its team, so nothing can conflict.
CommitReply(w) ==
    LET r == req[w]
    IN  /\ r # Idle /\ r.pc = "commit" /\ r.kind = "reply"
        /\ replies' = Append(replies, [author |-> r.actor])
        /\ req' = [req EXCEPT ![w] = Idle]
        /\ UNCHANGED <<ticket, reassignments>>

Fail(w) ==
    /\ req[w] # Idle /\ req[w].pc = "failed"
    /\ req' = [req EXCEPT ![w] = Idle]
    /\ UNCHANGED <<ticket, reassignments, replies>>

Next ==
    \E w \in Workers :
        \/ \E kind \in Kinds, actor, user \in Users, details \in Details :
             Begin(w, kind, actor, user, details)
        \/ Authorize(w) \/ CommitEdit(w) \/ CommitCollaborators(w) \/ CommitReply(w)
        \/ Fail(w)

Spec == Init /\ [][Next]_vars
-----------------------------------------------------------------------------
(***************************************************************************)
(* What holds however the requests interleave.                             *)
(***************************************************************************)
\* The assignee and the collaborators of a ticket are agents, never supervisors.
TypeOK ==
    /\ ticket \in [primary_assignee_id : Agents, collaborator_ids : SUBSET Agents,
                   details : Details]
    /\ reassignments \in Seq(Reassignment)
    /\ replies \in Seq(Reply)
    /\ req \in [Workers -> Request \cup {Idle}]

Committing(w) == req[w] # Idle /\ req[w].pc = "commit" /\ req'[w] = Idle

\* Only a supervisor's request ever changes the assignee: an edit that an agent
\* submitted from a page loaded before a reassignment does not undo it.
OnlySupervisorsReassign ==
    [][ ticket'.primary_assignee_id # ticket.primary_assignee_id =>
          \E w \in Workers : Committing(w) /\ req[w].actor \in Supervisors ]_vars

\* The last reassignment recorded is the one that set the assignee, and none is
\* recorded that a supervisor did not ask for.
ReassignmentsAccountForAssignee ==
    /\ reassignments # <<>> =>
         reassignments[Len(reassignments)].new_assignee_id = ticket.primary_assignee_id
    /\ \A i \in DOMAIN reassignments : reassignments[i].actor \in Supervisors

\* Whom the ticket is and has been assigned to, as the timeline tells it.
AssigneesSoFar ==
    {ticket.primary_assignee_id}
        \cup UNION {{reassignments[i].old_assignee_id, reassignments[i].new_assignee_id} :
                      i \in DOMAIN reassignments}

\* Requests that overlap can leave a gap in the recorded chain, but never invent an
\* assignee: whatever the copy it was decided on, a reassignment is recorded from somebody
\* the timeline already knows the ticket was assigned to, and to somebody else.
RecordsNameAssignees ==
    [][ reassignments' # reassignments =>
          LET event == reassignments'[Len(reassignments')]
          IN  /\ event.old_assignee_id \in AssigneesSoFar
              /\ event.new_assignee_id # event.old_assignee_id ]_vars

\* Adding or removing one collaborator never drops or brings back another, whatever
\* the list looked like when the request loaded it.
OnlyNamedCollaboratorChanges ==
    [][ \A u \in Users :
          /\ u \in ticket'.collaborator_ids \ ticket.collaborator_ids =>
               \E w \in Workers : Committing(w) /\ req[w].kind = "add" /\ req[w].user = u
          /\ u \in ticket.collaborator_ids \ ticket'.collaborator_ids =>
               \E w \in Workers : Committing(w) /\ req[w].kind = "remove" /\ req[w].user = u
      ]_vars

(***************************************************************************)
(* What holds for a request that was not overtaken: the team is still, or  *)
(* again, what its copy says.  With one worker that is every request.      *)
(***************************************************************************)
CopyIsCurrent(w) ==
    /\ req[w].copy.primary_assignee_id = ticket.primary_assignee_id
    /\ req[w].copy.collaborator_ids = ticket.collaborator_ids

\* README requirement 1: agents change only tickets they are on, as the ticket stands
\* when the change is made.  A request that was overtaken may change a ticket whose
\* collaborators its actor has left since.
CommitsAreAuthorized ==
    [][ \A w \in Workers :
          Committing(w) /\ CopyIsCurrent(w) => CanActOnTicket(req[w].actor, ticket) ]_vars

\* An answer 500 takes two requests: the copy was overtaken.
FailsOnlyWhenOvertaken ==
    [][ \A w \in Workers :
          req[w] # Idle /\ req'[w] # Idle /\ req[w].pc # "failed" /\ req'[w].pc = "failed" =>
            ~ CopyIsCurrent(w) ]_vars

(***************************************************************************)
(* What fails even with one worker.                                        *)
(***************************************************************************)
\* README requirement 5: collaborators are other agents than the primary assignee.
\* A reassignment to a collaborator leaves the collaborator's row in place.
AssigneeIsNoCollaborator == ticket.primary_assignee_id \notin ticket.collaborator_ids
=============================================================================
