------------------------ MODULE TeamRequests_proofs ------------------------
(***************************************************************************)
(* Proofs about interleaved team requests, for any users, any number of    *)
(* workers and any bound on the reassignments.                             *)
(***************************************************************************)
EXTENDS TeamRequests, TLAPS

\* A request that is about to commit passed its checks on the copy it holds.
CommitsPermitted ==
    \A w \in Workers : req[w] # Idle /\ req[w].pc = "commit" => Permitted(req[w])

IInv == TypeOK /\ CommitsPermitted

LEMMA IdleIsNoRequest == Idle \notin Request
BY DEF Idle, Request

\* A request's reassignment was asked for by a supervisor, and names an agent.
LEMMA PermittedReassignment ==
    ASSUME NEW r \in Request, Permitted(r), Reassigns(r)
    PROVE  r.actor \in Supervisors /\ r.user \in Agents
BY DEF Permitted, MayReassign, CanReassignTicket, IsSupervisor

LEMMA TypedEvent ==
    ASSUME NEW r \in Request
    PROVE  /\ RecordReassignment(r) \in Reassignment
           /\ RecordReassignment(r).actor = r.actor
           /\ RecordReassignment(r).new_assignee_id = r.user
<1>1. r.actor \in Users /\ r.user \in Users /\ r.copy \in Ticket
  BY DEF Request
<1>2. r.copy.primary_assignee_id \in Users
  BY <1>1 DEF Ticket
<1>. QED
  BY <1>1, <1>2 DEF RecordReassignment, Reassignment

LEMMA TypedTicket == TypeOK => ticket \in Ticket
BY SupervisorsAssumption DEF TypeOK, Ticket, Agents

(***************************************************************************)
(* What each step does to the request of its worker.                       *)
(***************************************************************************)
LEMMA BeginTypes ==
    ASSUME TypeOK, NEW w \in Workers, NEW kind \in Kinds, NEW actor \in Users,
           NEW user \in Users, NEW details \in Details, Begin(w, kind, actor, user, details)
    PROVE  /\ req' \in [Workers -> Request \cup {Idle}]
           /\ req'[w].pc = "authorize"
           /\ \A v \in Workers \ {w} : req'[v] = req[v]
<1>. DEFINE copy == [ticket EXCEPT !.collaborator_ids = {}]
            r == [pc |-> "authorize", kind |-> kind, actor |-> actor, user |-> user,
                  details |-> details, copy |-> copy]
<1>1. copy \in Ticket
  BY TypedTicket DEF Ticket
<1>. HIDE DEF copy
<1>2. r \in Request
  BY <1>1 DEF Request
<1>3. req' = [req EXCEPT ![w] = r]
  BY DEF Begin, copy
<1>. HIDE DEF r
<1>4. r.pc = "authorize"
  BY DEF r
<1>. QED
  BY <1>2, <1>3, <1>4 DEF TypeOK

LEMMA AuthorizeTypes ==
    ASSUME TypeOK, NEW w \in Workers, Authorize(w)
    PROVE  /\ req' \in [Workers -> Request \cup {Idle}]
           /\ req'[w] = Idle \/ Permitted(req'[w])
           /\ \A v \in Workers \ {w} : req'[v] = req[v]
<1>. DEFINE r == [req[w] EXCEPT !.copy.collaborator_ids = ticket.collaborator_ids]
            s == [r EXCEPT !.pc = "commit"]
<1>1. req[w] \in Request
  BY DEF TypeOK, Authorize
<1>2. ticket \in Ticket
  BY TypedTicket
<1>3. r \in Request
  BY <1>1, <1>2 DEF Request, Ticket
<1>4. req' = [req EXCEPT ![w] = IF Permitted(r) THEN s ELSE Idle]
  BY DEF Authorize
<1>. HIDE DEF r
<1>5. s \in Request
  BY <1>3 DEF Request
<1>6. /\ s.kind = r.kind
      /\ s.actor = r.actor
      /\ s.user = r.user
      /\ s.copy = r.copy
  BY <1>3 DEF Request
<1>. HIDE DEF s
<1>7. Permitted(r) => Permitted(s)
  BY <1>6 DEF Permitted, Reassigns, MayReassign, MayAdd, CanReassignTicket
<1>. QED
  BY <1>4, <1>5, <1>7 DEF TypeOK

LEMMA CommitEditTypes ==
    ASSUME IInv, NEW w \in Workers, CommitEdit(w)
    PROVE  /\ TypeOK'
           /\ req'[w] = Idle
           /\ \A v \in Workers \ {w} : req'[v] = req[v]
<1>. DEFINE r == req[w]
<1>1. r \in Request /\ Permitted(r) /\ r.kind = "edit"
  BY DEF IInv, TypeOK, CommitsPermitted, CommitEdit
<1>2. r.user \in Users /\ r.details \in Details
  BY <1>1 DEF Request
<1>. DEFINE assignee == Written(r.copy.primary_assignee_id, r.user, ticket.primary_assignee_id)
            details == Written(r.copy.details, r.details, ticket.details)
<1>3. assignee \in Agents
  BY <1>1, PermittedReassignment DEF Written, Reassigns, IInv, TypeOK
<1>4. details \in Details
  BY <1>2 DEF Written, IInv, TypeOK
<1>5. ticket' = [ticket EXCEPT !.primary_assignee_id = assignee, !.details = details]
  BY DEF CommitEdit
<1>. HIDE DEF assignee, details
<1>6. ticket' \in [primary_assignee_id : Agents, collaborator_ids : SUBSET Agents,
                   details : Details]
  BY <1>3, <1>4, <1>5 DEF IInv, TypeOK
<1>7. reassignments' \in Seq(Reassignment)
  BY <1>1, TypedEvent DEF CommitEdit, IInv, TypeOK
<1>8. req' = [req EXCEPT ![w] = Idle] /\ UNCHANGED replies
  BY DEF CommitEdit
<1>. QED
  BY <1>6, <1>7, <1>8 DEF IInv, TypeOK

LEMMA CommitCollaboratorsTypes ==
    ASSUME IInv, NEW w \in Workers, CommitCollaborators(w)
    PROVE  /\ TypeOK'
           /\ req'[w] = Idle \/ req'[w].pc = "failed"
           /\ \A v \in Workers \ {w} : req'[v] = req[v]
<1>. DEFINE r == req[w]
<1>1. r \in Request /\ Permitted(r) /\ r.kind \in {"add", "remove"}
  BY DEF IInv, TypeOK, CommitsPermitted, CommitCollaborators
<1>2. ticket.collaborator_ids \in SUBSET Agents
  BY DEF IInv, TypeOK
<1>3. r.kind = "add" => r.user \in Agents
  BY <1>1 DEF Permitted, MayAdd
<1>4. AssociationsAfter(r) \in SUBSET Agents
  BY <1>2, <1>3 DEF AssociationsAfter
<1>5. ticket' \in [primary_assignee_id : Agents, collaborator_ids : SUBSET Agents,
                   details : Details]
  BY <1>4 DEF CommitCollaborators, IInv, TypeOK
<1>. DEFINE f == [r EXCEPT !.pc = "failed"]
<1>6. f \in Request /\ f.pc = "failed"
  BY <1>1 DEF Request
<1>7. req' = [req EXCEPT ![w] = f] \/ req' = [req EXCEPT ![w] = Idle]
  BY DEF CommitCollaborators
<1>. HIDE DEF f
<1>8. UNCHANGED <<reassignments, replies>>
  BY DEF CommitCollaborators
<1>. QED
  BY <1>5, <1>6, <1>7, <1>8 DEF IInv, TypeOK

LEMMA CommitReplyTypes ==
    ASSUME IInv, NEW w \in Workers, CommitReply(w)
    PROVE  /\ TypeOK'
           /\ req'[w] = Idle
           /\ \A v \in Workers \ {w} : req'[v] = req[v]
<1>. DEFINE reply == [author |-> req[w].actor]
<1>1. req[w] \in Request
  BY DEF IInv, TypeOK, CommitReply
<1>2. reply \in Reply
  BY <1>1 DEF Request, Reply
<1>3. replies' = Append(replies, reply)
  BY DEF CommitReply
<1>. HIDE DEF reply
<1>4. replies' \in Seq(Reply)
  BY <1>2, <1>3 DEF IInv, TypeOK
<1>5. req' = [req EXCEPT ![w] = Idle] /\ UNCHANGED <<ticket, reassignments>>
  BY DEF CommitReply
<1>. QED
  BY <1>4, <1>5 DEF IInv, TypeOK

\* The invariant the theorems below rest on: types, and checks passed before a commit.
THEOREM InductiveInvariant == Spec => []IInv
<1>1. Init => IInv
  BY SupervisorsAssumption DEF Init, IInv, TypeOK, CommitsPermitted, Idle
<1>2. IInv /\ [Next]_vars => IInv'
  <2>. SUFFICES ASSUME IInv, [Next]_vars PROVE IInv'
    OBVIOUS
  <2>1. ASSUME NEW w \in Workers, NEW kind \in Kinds, NEW actor \in Users, NEW user \in Users,
               NEW details \in Details, Begin(w, kind, actor, user, details)
        PROVE  IInv'
    <3>1. TypeOK'
      BY <2>1, BeginTypes DEF IInv, TypeOK, Begin
    <3>2. CommitsPermitted'
      BY <2>1, BeginTypes DEF IInv, CommitsPermitted, Permitted, Reassigns, MayReassign, MayAdd
    <3>. QED
      BY <3>1, <3>2 DEF IInv
  <2>2. ASSUME NEW w \in Workers, Authorize(w) PROVE IInv'
    <3>1. TypeOK'
      BY <2>2, AuthorizeTypes DEF IInv, TypeOK, Authorize
    <3>2. CommitsPermitted'
      BY <2>2, AuthorizeTypes DEF IInv, CommitsPermitted
    <3>. QED
      BY <3>1, <3>2 DEF IInv
  <2>3. ASSUME NEW w \in Workers, CommitEdit(w) PROVE IInv'
    BY <2>3, CommitEditTypes DEF IInv, CommitsPermitted
  <2>4. ASSUME NEW w \in Workers, CommitCollaborators(w) PROVE IInv'
    BY <2>4, CommitCollaboratorsTypes DEF IInv, CommitsPermitted
  <2>5. ASSUME NEW w \in Workers, CommitReply(w) PROVE IInv'
    BY <2>5, CommitReplyTypes DEF IInv, CommitsPermitted
  <2>6. ASSUME NEW w \in Workers, Fail(w) PROVE IInv'
    BY <2>6 DEF IInv, TypeOK, CommitsPermitted, Fail
  <2>7. UNCHANGED vars => IInv'
    BY DEF IInv, TypeOK, CommitsPermitted, vars
  <2>. QED
    BY <2>1, <2>2, <2>3, <2>4, <2>5, <2>6, <2>7 DEF Next
<1>. QED
  BY <1>1, <1>2, PTL DEF Spec
-----------------------------------------------------------------------------
\* However requests interleave, a ticket is assigned to an agent and its collaborators
\* are agents (_apply_reassignment, add_collaborator).
THEOREM TypeCorrect == Spec => []TypeOK
BY InductiveInvariant, PTL DEF IInv

\* Only a supervisor's request ever changes the assignee (can_reassign_ticket), however
\* old the page was that an agent submitted.
THEOREM SupervisorsReassign == Spec => OnlySupervisorsReassign
<1>1. IInv /\ [Next]_vars =>
        [ ticket'.primary_assignee_id # ticket.primary_assignee_id =>
            \E w \in Workers : Committing(w) /\ req[w].actor \in Supervisors ]_vars
  <2>. SUFFICES ASSUME IInv, Next, ticket'.primary_assignee_id # ticket.primary_assignee_id
                PROVE  \E w \in Workers : Committing(w) /\ req[w].actor \in Supervisors
    OBVIOUS
  <2>1. PICK w \in Workers : CommitEdit(w)
    BY DEF IInv, TypeOK, Next, Begin, Authorize, CommitCollaborators, CommitReply, Fail
  <2>2. req[w] \in Request /\ Permitted(req[w]) /\ req[w].kind = "edit"
    BY <2>1 DEF IInv, TypeOK, CommitsPermitted, CommitEdit
  <2>3. Reassigns(req[w])
    BY <2>1, <2>2 DEF CommitEdit, Written, Reassigns, IInv, TypeOK
  <2>4. req[w].actor \in Supervisors
    BY <2>2, <2>3, PermittedReassignment
  <2>5. Committing(w)
    BY <2>1, CommitEditTypes DEF Committing, CommitEdit
  <2>. QED
    BY <2>4, <2>5
<1>. QED
  BY <1>1, InductiveInvariant, PTL DEF Spec, OnlySupervisorsReassign

\* The recorded reassignments end at the assignee and each has a supervisor as its actor
\* (record_reassignment commits with the column it describes).
THEOREM ReassignmentsAccount == Spec => []ReassignmentsAccountForAssignee
<1>1. Init => ReassignmentsAccountForAssignee
  BY DEF Init, ReassignmentsAccountForAssignee
<1>2. IInv /\ ReassignmentsAccountForAssignee /\ [Next]_vars => ReassignmentsAccountForAssignee'
  <2>. SUFFICES ASSUME IInv, ReassignmentsAccountForAssignee, [Next]_vars
                PROVE  ReassignmentsAccountForAssignee'
    OBVIOUS
  <2>1. ASSUME NEW w \in Workers, CommitEdit(w) PROVE ReassignmentsAccountForAssignee'
    <3>1. req[w] \in Request /\ Permitted(req[w]) /\ req[w].kind = "edit"
      BY <2>1 DEF IInv, TypeOK, CommitsPermitted, CommitEdit
    <3>2. CASE Reassigns(req[w])
      <4>1. req[w].actor \in Supervisors
        BY <3>1, <3>2, PermittedReassignment
      <4>2. ticket'.primary_assignee_id = req[w].user
        BY <2>1, <3>2 DEF CommitEdit, Written, Reassigns, IInv, TypeOK
      <4>. DEFINE e == RecordReassignment(req[w])
      <4>3. reassignments' = Append(reassignments, e)
        BY <2>1, <3>2 DEF CommitEdit
      <4>4. e \in Reassignment /\ e.actor = req[w].actor /\ e.new_assignee_id = req[w].user
        BY <3>1, TypedEvent
      <4>. HIDE DEF e
      <4>5. reassignments \in Seq(Reassignment)
        BY DEF IInv, TypeOK
      <4>. QED
        BY <4>1, <4>2, <4>3, <4>4, <4>5 DEF ReassignmentsAccountForAssignee
    <3>3. CASE ~ Reassigns(req[w])
      <4>1. ticket'.primary_assignee_id = ticket.primary_assignee_id
        BY <2>1, <3>1, <3>3 DEF CommitEdit, Written, Reassigns, IInv, TypeOK
      <4>2. reassignments' = reassignments
        BY <2>1, <3>3 DEF CommitEdit
      <4>. QED
        BY <4>1, <4>2 DEF ReassignmentsAccountForAssignee
    <3>. QED
      BY <3>2, <3>3
  <2>2. ASSUME NEW w \in Workers, CommitCollaborators(w) PROVE ReassignmentsAccountForAssignee'
    BY <2>2 DEF CommitCollaborators, ReassignmentsAccountForAssignee, IInv, TypeOK
  <2>3. UNCHANGED <<ticket, reassignments>> => ReassignmentsAccountForAssignee'
    BY DEF ReassignmentsAccountForAssignee
  <2>. QED
    BY <2>1, <2>2, <2>3 DEF Next, Begin, Authorize, CommitReply, Fail, vars
<1>. QED
  BY <1>1, <1>2, InductiveInvariant, PTL DEF Spec

\* Whatever list a request loaded, its commit adds or removes the user it names and
\* nobody else (the flush writes one association row).
THEOREM NamedCollaboratorOnly == Spec => OnlyNamedCollaboratorChanges
<1>1. IInv /\ [Next]_vars =>
        [ \A u \in Users :
            /\ u \in ticket'.collaborator_ids \ ticket.collaborator_ids =>
                 \E w \in Workers : Committing(w) /\ req[w].kind = "add" /\ req[w].user = u
            /\ u \in ticket.collaborator_ids \ ticket'.collaborator_ids =>
                 \E w \in Workers : Committing(w) /\ req[w].kind = "remove" /\ req[w].user = u
        ]_vars
  <2>. SUFFICES ASSUME IInv, Next, NEW u \in Users,
                       ticket'.collaborator_ids # ticket.collaborator_ids
                PROVE  /\ u \in ticket'.collaborator_ids \ ticket.collaborator_ids =>
                            \E w \in Workers : Committing(w) /\ req[w].kind = "add" /\ req[w].user = u
                       /\ u \in ticket.collaborator_ids \ ticket'.collaborator_ids =>
                            \E w \in Workers : Committing(w) /\ req[w].kind = "remove" /\ req[w].user = u
    OBVIOUS
  <2>1. PICK w \in Workers : CommitCollaborators(w)
    BY DEF IInv, TypeOK, Next, Begin, Authorize, CommitEdit, CommitReply, Fail
  <2>2. /\ req[w].kind \in {"add", "remove"}
        /\ ticket'.collaborator_ids = AssociationsAfter(req[w])
        /\ req' = [req EXCEPT ![w] = Idle]
    BY <2>1 DEF CommitCollaborators, IInv, TypeOK
  <2>3. Committing(w)
    BY <2>1, <2>2 DEF Committing, CommitCollaborators, IInv, TypeOK
  <2>. QED
    BY <2>2, <2>3 DEF AssociationsAfter
<1>. QED
  BY <1>1, InductiveInvariant, PTL DEF Spec, OnlyNamedCollaboratorChanges
-----------------------------------------------------------------------------
\* A request that is not overtaken commits only what its checks would allow at that
\* moment, because they were made on the same assignee and collaborators
\* (can_act_on_ticket, in every service before it changes anything).
THEOREM CurrentCommitsAuthorized == Spec => CommitsAreAuthorized
<1>1. IInv =>
        [ \A w \in Workers :
            Committing(w) /\ CopyIsCurrent(w) => CanActOnTicket(req[w].actor, ticket) ]_vars
  <2>. SUFFICES ASSUME IInv, NEW w \in Workers, Committing(w), CopyIsCurrent(w)
                PROVE  CanActOnTicket(req[w].actor, ticket)
    OBVIOUS
  <2>1. CanActOnTicket(req[w].actor, req[w].copy)
    BY DEF IInv, CommitsPermitted, Committing, Permitted
  <2>. QED
    BY <2>1 DEF CopyIsCurrent, CanActOnTicket, IsAssignedTo
<1>. QED
  BY <1>1, InductiveInvariant, PTL DEF Spec, CommitsAreAuthorized

\* A request that is not overtaken fails on no constraint: its checks have already
\* refused the duplicate and the absent collaborator (CollaboratorAlreadyAdded,
\* CollaboratorNotFound).
THEOREM FailureIsOvertaking == Spec => FailsOnlyWhenOvertaken
<1>1. IInv /\ [Next]_vars =>
        [ \A w \in Workers :
            req[w] # Idle /\ req'[w] # Idle /\ req[w].pc # "failed" /\ req'[w].pc = "failed" =>
              ~ CopyIsCurrent(w) ]_vars
  <2>. SUFFICES ASSUME IInv, Next, NEW w \in Workers, req[w] # Idle, req'[w] # Idle,
                       req[w].pc # "failed", req'[w].pc = "failed", CopyIsCurrent(w)
                PROVE  FALSE
    OBVIOUS
  <2>1. CommitCollaborators(w)
    <3>1. ASSUME NEW v \in Workers, NEW kind \in Kinds, NEW actor \in Users,
                 NEW user \in Users, NEW details \in Details, Begin(v, kind, actor, user, details)
          PROVE  FALSE
      BY <3>1, BeginTypes DEF IInv
    <3>2. ASSUME NEW v \in Workers, Authorize(v) PROVE FALSE
      <4>1. v = w
        BY <3>2, AuthorizeTypes DEF IInv
      <4>. DEFINE r == [req[w] EXCEPT !.copy.collaborator_ids = ticket.collaborator_ids]
                  s == [r EXCEPT !.pc = "commit"]
      <4>2. r \in Request
        BY TypedTicket DEF IInv, TypeOK, Request, Ticket
      <4>3. req' = [req EXCEPT ![w] = IF Permitted(r) THEN s ELSE Idle]
        BY <3>2, <4>1 DEF Authorize
      <4>. HIDE DEF r
      <4>4. s.pc = "commit"
        BY <4>2 DEF Request
      <4>. HIDE DEF s
      <4>. QED
        BY <4>3, <4>4 DEF IInv, TypeOK
    <3>3. ASSUME NEW v \in Workers, CommitEdit(v) PROVE FALSE
      BY <3>3, CommitEditTypes
    <3>4. ASSUME NEW v \in Workers, CommitReply(v) PROVE FALSE
      BY <3>4, CommitReplyTypes
    <3>5. ASSUME NEW v \in Workers, Fail(v) PROVE FALSE
      BY <3>5 DEF Fail, IInv, TypeOK
    <3>6. ASSUME NEW v \in Workers, CommitCollaborators(v) PROVE v = w
      BY <3>6, CommitCollaboratorsTypes
    <3>. QED
      BY <3>1, <3>2, <3>3, <3>4, <3>5, <3>6 DEF Next
  <2>2. Permitted(req[w]) /\ req[w].kind \in {"add", "remove"}
    BY <2>1 DEF IInv, CommitsPermitted, CommitCollaborators
  <2>3. req[w].kind = "add" <=> req[w].user \notin ticket.collaborator_ids
    BY <2>2 DEF Permitted, MayAdd, CopyIsCurrent
  <2>4. req'[w] = Idle
    BY <2>1, <2>3 DEF CommitCollaborators, IInv, TypeOK
  <2>. QED
    BY <2>4
<1>. QED
  BY <1>1, InductiveInvariant, PTL DEF Spec, FailsOnlyWhenOvertaken

-----------------------------------------------------------------------------
\* Every request in flight has loaded an assignee that the timeline knows of.
CopiesName ==
    \A w \in Workers : req[w] # Idle => req[w].copy.primary_assignee_id \in AssigneesSoFar

\* A commit that leaves the assignee and the timeline alone leaves alone what it tells.
LEMMA SameAssignees ==
    ASSUME ticket'.primary_assignee_id = ticket.primary_assignee_id, UNCHANGED reassignments
    PROVE  AssigneesSoFar' = AssigneesSoFar
BY DEF AssigneesSoFar

\* A reassignment adds its event, and forgets nobody: the assignee it replaces is the new
\* one of the event before, or, if it is the first, its own old one.
LEMMA AssigneesGrow ==
    ASSUME IInv, ReassignmentsAccountForAssignee, CopiesName,
           NEW w \in Workers, CommitEdit(w), Reassigns(req[w])
    PROVE  /\ AssigneesSoFar \subseteq AssigneesSoFar'
           /\ reassignments' # <<>>
           /\ reassignments'[Len(reassignments')].old_assignee_id
                = req[w].copy.primary_assignee_id
           /\ reassignments'[Len(reassignments')].new_assignee_id = req[w].user
<1>. DEFINE e == RecordReassignment(req[w])
<1>1. /\ req[w] \in Request /\ req[w] # Idle
      /\ req[w].copy.primary_assignee_id \in AssigneesSoFar
  BY DEF IInv, TypeOK, CommitEdit, CopiesName
<1>2. reassignments' = Append(reassignments, e) /\ reassignments \in Seq(Reassignment)
  BY DEF CommitEdit, IInv, TypeOK
<1>3. /\ e \in Reassignment /\ e.new_assignee_id = req[w].user
      /\ e.old_assignee_id = req[w].copy.primary_assignee_id
  BY <1>1, TypedEvent DEF RecordReassignment
<1>. HIDE DEF e
<1>4. /\ Len(reassignments') = Len(reassignments) + 1
      /\ DOMAIN reassignments' = DOMAIN reassignments \cup {Len(reassignments')}
      /\ reassignments'[Len(reassignments')] = e
      /\ \A i \in DOMAIN reassignments : reassignments'[i] = reassignments[i]
  BY <1>2, <1>3
<1>5. \A i \in DOMAIN reassignments' :
        /\ reassignments'[i].old_assignee_id \in AssigneesSoFar'
        /\ reassignments'[i].new_assignee_id \in AssigneesSoFar'
  BY DEF AssigneesSoFar
<1>6. ticket.primary_assignee_id \in AssigneesSoFar'
  <2>1. CASE reassignments = <<>>
    <3>1. AssigneesSoFar = {ticket.primary_assignee_id}
      BY <2>1 DEF AssigneesSoFar
    <3>2. e.old_assignee_id = ticket.primary_assignee_id
      BY <1>1, <1>3, <3>1
    <3>. QED
      BY <1>4, <1>5, <3>2
  <2>2. CASE reassignments # <<>>
    <3>1. Len(reassignments) \in DOMAIN reassignments
      BY <1>2, <2>2
    <3>2. reassignments'[Len(reassignments)].new_assignee_id = ticket.primary_assignee_id
      BY <1>4, <2>2, <3>1 DEF ReassignmentsAccountForAssignee
    <3>. QED
      BY <1>4, <1>5, <3>1, <3>2
  <2>. QED
    BY <2>1, <2>2
<1>7. ASSUME NEW u \in AssigneesSoFar PROVE u \in AssigneesSoFar'
  <2>1. CASE u = ticket.primary_assignee_id
    BY <1>6, <2>1
  <2>2. CASE \E i \in DOMAIN reassignments :
               u \in {reassignments[i].old_assignee_id, reassignments[i].new_assignee_id}
    BY <1>4, <1>5, <2>2
  <2>. QED
    BY <2>1, <2>2 DEF AssigneesSoFar
<1>8. reassignments' # <<>>
  BY <1>2, <1>4
<1>. QED
  BY <1>3, <1>4, <1>7, <1>8

LEMMA CopiesNameStep ==
    ASSUME IInv, ReassignmentsAccountForAssignee, CopiesName, [Next]_vars
    PROVE  CopiesName'
<1>1. ASSUME NEW w \in Workers, NEW kind \in Kinds, NEW actor \in Users, NEW user \in Users,
             NEW details \in Details, Begin(w, kind, actor, user, details)
      PROVE  CopiesName'
  <2>. DEFINE copy == [ticket EXCEPT !.collaborator_ids = {}]
              r == [pc |-> "authorize", kind |-> kind, actor |-> actor, user |-> user,
                    details |-> details, copy |-> copy]
  <2>1. copy.primary_assignee_id = ticket.primary_assignee_id
    BY DEF IInv, TypeOK
  <2>. HIDE DEF copy
  <2>2. r.copy.primary_assignee_id = ticket.primary_assignee_id
    BY <2>1
  <2>3. req' = [req EXCEPT ![w] = r]
    BY <1>1 DEF Begin, copy
  <2>. HIDE DEF r
  <2>4. AssigneesSoFar' = AssigneesSoFar /\ ticket.primary_assignee_id \in AssigneesSoFar
    BY <1>1, SameAssignees DEF Begin, AssigneesSoFar
  <2>. QED
    BY <2>2, <2>3, <2>4 DEF CopiesName, IInv, TypeOK
<1>2. ASSUME NEW w \in Workers, Authorize(w) PROVE CopiesName'
  <2>. DEFINE r == [req[w] EXCEPT !.copy.collaborator_ids = ticket.collaborator_ids]
              s == [r EXCEPT !.pc = "commit"]
  <2>1. req[w] \in Request /\ req[w] # Idle
    BY <1>2 DEF IInv, TypeOK, Authorize
  <2>2. r \in Request /\ r.copy.primary_assignee_id = req[w].copy.primary_assignee_id
    BY <2>1, TypedTicket DEF Request, Ticket, IInv
  <2>3. req' = [req EXCEPT ![w] = IF Permitted(r) THEN s ELSE Idle]
    BY <1>2 DEF Authorize
  <2>. HIDE DEF r
  <2>4. s.copy = r.copy
    BY <2>2 DEF Request
  <2>. HIDE DEF s
  <2>5. AssigneesSoFar' = AssigneesSoFar
    BY <1>2, SameAssignees DEF Authorize
  <2>. QED
    BY <2>1, <2>2, <2>3, <2>4, <2>5 DEF CopiesName, IInv, TypeOK
<1>3. ASSUME NEW w \in Workers, CommitEdit(w) PROVE CopiesName'
  <2>1. req' = [req EXCEPT ![w] = Idle]
    BY <1>3 DEF CommitEdit
  <2>2. AssigneesSoFar \subseteq AssigneesSoFar'
    <3>1. CASE Reassigns(req[w])
      BY <1>3, <3>1, AssigneesGrow
    <3>2. CASE ~ Reassigns(req[w])
      <4>1. UNCHANGED reassignments
        BY <1>3, <3>2 DEF CommitEdit
      <4>2. ticket'.primary_assignee_id = ticket.primary_assignee_id
        BY <1>3, <3>2 DEF CommitEdit, Written, Reassigns, IInv, TypeOK
      <4>. QED
        BY <4>1, <4>2, SameAssignees
    <3>. QED
      BY <3>1, <3>2
  <2>. QED
    BY <2>1, <2>2 DEF CopiesName, IInv, TypeOK
<1>4. ASSUME NEW w \in Workers, CommitCollaborators(w) PROVE CopiesName'
  <2>. DEFINE f == [req[w] EXCEPT !.pc = "failed"]
  <2>1. req[w] \in Request /\ req[w] # Idle
    BY <1>4 DEF IInv, TypeOK, CommitCollaborators
  <2>2. f.copy = req[w].copy
    BY <2>1 DEF Request
  <2>3. req' = [req EXCEPT ![w] = f] \/ req' = [req EXCEPT ![w] = Idle]
    BY <1>4 DEF CommitCollaborators
  <2>. HIDE DEF f
  <2>4. ticket'.primary_assignee_id = ticket.primary_assignee_id /\ UNCHANGED reassignments
    BY <1>4 DEF CommitCollaborators, IInv, TypeOK
  <2>5. AssigneesSoFar' = AssigneesSoFar
    BY <2>4, SameAssignees
  <2>. QED
    BY <2>1, <2>2, <2>3, <2>5 DEF CopiesName, IInv, TypeOK
<1>5. ASSUME NEW w \in Workers, CommitReply(w) \/ Fail(w) PROVE CopiesName'
  <2>1. req' = [req EXCEPT ![w] = Idle] /\ UNCHANGED <<ticket, reassignments>>
    BY <1>5 DEF CommitReply, Fail
  <2>2. AssigneesSoFar' = AssigneesSoFar
    BY <2>1, SameAssignees
  <2>. QED
    BY <2>1, <2>2 DEF CopiesName, IInv, TypeOK
<1>6. ASSUME UNCHANGED vars PROVE CopiesName'
  <2>1. AssigneesSoFar' = AssigneesSoFar
    BY <1>6, SameAssignees DEF vars
  <2>. QED
    BY <1>6, <2>1 DEF CopiesName, vars
<1>. QED
  BY <1>1, <1>2, <1>3, <1>4, <1>5, <1>6 DEF Next

\* However requests overlap, the timeline never invents an assignee: each event takes the
\* ticket from somebody it was assigned to before and gives it to somebody else
\* (_apply_reassignment, record_reassignment).
THEOREM RecordsAreOfAssignees == Spec => RecordsNameAssignees
<1>1. Init => CopiesName
  BY DEF Init, CopiesName
<1>2. IInv /\ ReassignmentsAccountForAssignee /\ CopiesName /\ [Next]_vars => CopiesName'
  BY CopiesNameStep
<1>3. Spec => []CopiesName
  BY <1>1, <1>2, InductiveInvariant, ReassignmentsAccount, PTL DEF Spec
<1>4. IInv /\ ReassignmentsAccountForAssignee /\ CopiesName /\ [Next]_vars =>
        [ reassignments' # reassignments =>
            LET event == reassignments'[Len(reassignments')]
            IN  /\ event.old_assignee_id \in AssigneesSoFar
                /\ event.new_assignee_id # event.old_assignee_id ]_vars
  <2>. SUFFICES ASSUME IInv, ReassignmentsAccountForAssignee, CopiesName, Next,
                       reassignments' # reassignments
                PROVE  LET event == reassignments'[Len(reassignments')]
                       IN  /\ event.old_assignee_id \in AssigneesSoFar
                           /\ event.new_assignee_id # event.old_assignee_id
    OBVIOUS
  <2>1. PICK w \in Workers : CommitEdit(w)
    BY DEF Next, Begin, Authorize, CommitCollaborators, CommitReply, Fail
  <2>2. Reassigns(req[w]) /\ req[w] # Idle
    BY <2>1 DEF CommitEdit
  <2>. QED
    BY <2>1, <2>2, AssigneesGrow DEF CopiesName, Reassigns
<1>. QED
  BY <1>3, <1>4, InductiveInvariant, ReassignmentsAccount, PTL DEF Spec, RecordsNameAssignees
=============================================================================
