---------------------------- MODULE BulkActions ----------------------------
(***************************************************************************)
(* One bulk close or bulk reassign (bulk_service) while other users work   *)
(* on the same tickets.  It is one loop in one session, every ticket       *)
(* committed on its own: transition() or reassign_ticket() decides on the  *)
(* copy of the ticket the session holds, and a refusal rolls back and goes *)
(* on with the next line.                                                  *)
(***************************************************************************)
EXTENDS Permissions, TicketPeriods, FiniteSets

CONSTANTS
    Ids,            \* the ids a form can carry
    Tickets,        \* those of tickets that exist
    Selections,     \* lists of ids a batch is submitted with
    MaxMoves        \* bound on what other users do meanwhile

ASSUME BulkAssumption ==
    /\ Tickets \subseteq Ids /\ NULL \notin Ids
    /\ Selections \subseteq Seq(Ids) \ {<<>>}
    /\ MaxMoves \in Nat

VARIABLES
    tickets,            \* the rows of tickets, each with its collaborators
    resolved_periods,   \* the Resolved periods of each ticket
    batch,              \* the request
    report,             \* results, one outcome per line handled
    commits,            \* what was committed since the batch began, by whom
    was                 \* the rows each ticket has had since the batch began

vars == <<tickets, resolved_periods, batch, report, commits, was>>

Ticket == [status : TicketStatus, primary_assignee_id : Users, collaborator_ids : SUBSET Users]

\* Nothing here depends on how long a period is: one instant stands for all.
Now == 0
InProgress == [start |-> Now, end |-> NULL]

\* A Resolved ticket has a period in progress; none, if it was Resolved when the table was
\* added, with no rows for the tickets there were; or two, after a race of status requests
\* (RestingTicketCanMove of LifecycleRequests).  A race can also leave one in progress on a
\* ticket that has moved on.
PeriodsOf(row) ==
    CASE row.status = "resolved" -> {<<>>, <<InProgress>>, <<InProgress, InProgress>>}
      [] row.status = "new"      -> {<<>>}
      [] OTHER                   -> {<<>>, <<InProgress>>}

Kinds == {"close", "reassign"}
Outcomes == {"done", "403", "409", "not found"}

(***************************************************************************)
(* The request: the step it runs next, the line it is at, the ticket its   *)
(* session holds a copy of, and the Resolved period it selected.  seen is  *)
(* how much had been committed when the copy was read.                     *)
(***************************************************************************)
Batch == [pc : {"get", "check", "select", "commit", "refresh", "refused", "done", "failed"},
          kind : Kinds, actor : Users, ids : Selections, new_assignee_id : Agents,
          line : Nat \ {0}, held : Tickets \cup {NULL}, copy : Ticket \cup {NULL},
          row : Nat \cup {NULL}, answer : Outcomes, seen : Nat]

\* The routes refuse an empty selection, and bulk_reassign an assignee who is no agent,
\* before the loop begins.
Init ==
    /\ tickets \in [Tickets -> [status : TicketStatus, primary_assignee_id : Agents,
                                collaborator_ids : SUBSET Agents]]
    /\ resolved_periods \in [Tickets -> UNION {PeriodsOf(tickets[t]) : t \in Tickets}]
    /\ \A t \in Tickets : resolved_periods[t] \in PeriodsOf(tickets[t])
    /\ \E kind \in Kinds, actor \in Users, ids \in Selections, assignee \in Agents :
         batch = [pc |-> "get", kind |-> kind, actor |-> actor, ids |-> ids,
                  new_assignee_id |-> assignee, line |-> 1, held |-> NULL, copy |-> NULL,
                  row |-> NULL, answer |-> "done", seen |-> 0]
    /\ report = <<>>
    /\ commits = <<>>
    /\ was = [t \in Tickets |-> {tickets[t]}]

Id == batch.ids[batch.line]

\* A committed row of tickets, and the note that line made the change (0 : another user).
Write(t, row, line) ==
    /\ tickets' = [tickets EXCEPT ![t] = row]
    /\ was' = [was EXCEPT ![t] = @ \cup {row}]
    /\ commits' = Append(commits, [ticket |-> t, line |-> line])
-----------------------------------------------------------------------------
\* results.append(...) and on to the next line, holding the given copy.
Report(outcome, held, copy, seen) ==
    /\ report' = Append(report, outcome)
    /\ batch' = [batch EXCEPT !.pc = IF batch.line = Len(batch.ids) THEN "done" ELSE "get",
                              !.line = @ + 1, !.row = NULL,
                              !.held = held, !.copy = copy, !.seen = seen]

NotFound ==
    /\ batch.pc = "get"
    /\ Id \notin Tickets
    /\ \/ Report("not found", batch.held, batch.copy, batch.seen)
       \/ Report("not found", NULL, NULL, batch.seen)   \* nothing refers to the copy any more
    /\ UNCHANGED <<tickets, resolved_periods, commits, was>>

Get_StaleLoopVariable ==
    /\ batch.pc = "get"
    /\ Id \in Tickets
    /\ batch' = IF batch.held # NULL THEN [batch EXCEPT !.pc = "check"]
                ELSE [batch EXCEPT !.pc = "check", !.held = Id, !.copy = tickets[Id],
                                   !.seen = Len(commits)]
    /\ UNCHANGED <<tickets, resolved_periods, report, commits, was>>

\* db.get() reads the row, unless the session already holds that ticket.
Get ==
    /\ batch.pc = "get"
    /\ Id \in Tickets
    /\ batch' = IF batch.held = Id THEN [batch EXCEPT !.pc = "check"]
                ELSE [batch EXCEPT !.pc = "check", !.held = Id, !.copy = tickets[Id],
                                   !.seen = Len(commits)]
    /\ UNCHANGED <<tickets, resolved_periods, report, commits, was>>

\* Collaborators are loaded on first use; every rollback, commit and refresh drops them.
Copy == [batch.copy EXCEPT !.collaborator_ids = tickets[Id].collaborator_ids]

CloseAnswer_AnyStatus ==
    IF ~ CanCloseTicket(batch.actor, Copy) THEN "403" ELSE "done"

\* transition() to Closed.
CloseAnswer ==
    IF ~ CanActOnTicket(batch.actor, Copy) THEN "403"
    ELSE IF "closed" \notin AllowedTransitions[Copy.status] THEN "409"
    ELSE IF ~ CanCloseTicket(batch.actor, Copy) THEN "403" ELSE "done"

ReassignAnswer_AnyoneOnTheTicket ==
    IF ~ CanActOnTicket(batch.actor, Copy) THEN "403" ELSE "done"

\* reassign_ticket() with its _apply_reassignment.
ReassignAnswer ==
    IF \/ ~ CanActOnTicket(batch.actor, Copy)
       \/ /\ batch.new_assignee_id # Copy.primary_assignee_id
          /\ ~ CanReassignTicket(batch.actor, Copy)
    THEN "403" ELSE "done"

Check ==
    LET answer == IF batch.kind = "close" THEN CloseAnswer ELSE ReassignAnswer
    IN  /\ batch.pc = "check"
        /\ batch' = [batch EXCEPT !.answer = answer,
             !.pc = IF answer # "done" THEN "refused"
                    ELSE IF batch.kind = "close" THEN "select" ELSE "commit"]
        /\ UNCHANGED <<tickets, resolved_periods, report, commits, was>>

\* one() on the Resolved period in progress.  What it raises when there is not exactly
\* one is no HTTPException: it leaves the loop and the request is answered 500.
Select ==
    /\ batch.pc = "select"
    /\ \/ \E row \in OpenRows(resolved_periods[Id]) :
            /\ OnlyOpenRow(resolved_periods[Id], row)
            /\ batch' = [batch EXCEPT !.pc = "commit", !.row = row]
       \/ /\ Cardinality(OpenRows(resolved_periods[Id])) # 1
          /\ batch' = [batch EXCEPT !.pc = "failed"]
    /\ UNCHANGED <<tickets, resolved_periods, report, commits, was>>

\* The UPDATE of a reassignment, were it to write every column of the copy.
Reassigned_WholeRow == [Copy EXCEPT !.primary_assignee_id = batch.new_assignee_id]

\* It writes the column that changed.
Reassigned == [tickets[Id] EXCEPT !.primary_assignee_id = batch.new_assignee_id]

\* The status and the end of the period, or the assignee; nothing if it is the same.
Commit ==
    /\ batch.pc = "commit"
    /\ batch' = [batch EXCEPT !.pc = "refresh"]
    /\ \/ /\ batch.kind = "close"
          /\ Write(Id, [tickets[Id] EXCEPT !.status = "closed"], batch.line)
          /\ resolved_periods' = [resolved_periods EXCEPT ![Id] = EndPeriod(@, batch.row, Now)]
       \/ /\ batch.kind = "reassign"
          /\ batch.new_assignee_id # Copy.primary_assignee_id
          /\ Write(Id, Reassigned, batch.line)
          /\ UNCHANGED resolved_periods
       \/ /\ batch.kind = "reassign"
          /\ batch.new_assignee_id = Copy.primary_assignee_id
          /\ UNCHANGED <<tickets, resolved_periods, commits, was>>
    /\ UNCHANGED report

\* refresh(), which keeps a new copy in the session.
Refresh ==
    /\ batch.pc = "refresh"
    /\ Report("done", Id, tickets[Id], Len(commits))
    /\ UNCHANGED <<tickets, resolved_periods, commits, was>>

Refuse_Silently ==
    /\ batch.pc = "refused"
    /\ batch' = [batch EXCEPT !.pc = IF batch.line = Len(batch.ids) THEN "done" ELSE "get",
                              !.line = @ + 1]
    /\ UNCHANGED <<tickets, resolved_periods, report, commits, was>>

\* rollback(), and ticket.subject, which reads the ticket again.
Refuse ==
    /\ batch.pc = "refused"
    /\ Report(batch.answer, Id, tickets[Id], Len(commits))
    /\ UNCHANGED <<tickets, resolved_periods, commits, was>>

BatchStep == NotFound \/ Get \/ Check \/ Select \/ Commit \/ Refresh \/ Refuse
-----------------------------------------------------------------------------
MayMove == Cardinality({i \in DOMAIN commits : commits[i].line = 0}) < MaxMoves

\* Another user moves the ticket; Lifecycle and LifecycleRequests say when that succeeds.
OtherMove(t, new_status) ==
    LET log == resolved_periods[t]
    IN  /\ MayMove
        /\ new_status \in AllowedTransitions[tickets[t].status]
        /\ Write(t, [tickets[t] EXCEPT !.status = new_status], 0)
        /\ \/ /\ tickets[t].status = "resolved"
              /\ \E row \in DOMAIN log :
                   /\ OnlyOpenRow(log, row)
                   /\ resolved_periods' = [resolved_periods EXCEPT ![t] = EndPeriod(@, row, Now)]
           \/ /\ new_status = "resolved"
              /\ resolved_periods' = [resolved_periods EXCEPT ![t] = StartPeriod(@, Now)]
           \/ /\ "resolved" \notin {tickets[t].status, new_status}
              /\ UNCHANGED resolved_periods
        /\ UNCHANGED <<batch, report>>

\* Another supervisor reassigns it.
OtherReassign(t, assignee) ==
    /\ MayMove
    /\ assignee # tickets[t].primary_assignee_id
    /\ Write(t, [tickets[t] EXCEPT !.primary_assignee_id = assignee], 0)
    /\ UNCHANGED <<resolved_periods, batch, report>>

Next ==
    \/ BatchStep
    \/ \E t \in Tickets :
         \/ \E new_status \in TicketStatus : OtherMove(t, new_status)
         \/ \E assignee \in Agents : OtherReassign(t, assignee)

Spec == Init /\ [][Next]_vars
-----------------------------------------------------------------------------
TypeOK ==
    /\ tickets \in [Tickets -> Ticket]
    /\ resolved_periods \in [Tickets -> Seq(Period)]
    /\ batch \in Batch
    /\ report \in Seq(Outcomes)
    /\ commits \in Seq([ticket : Tickets, line : Nat])
    /\ was \in [Tickets -> SUBSET Ticket]

\* Line i of this batch changed its ticket.
Changed(i) == {c \in DOMAIN commits : commits[c].line = i} # {}

\* The report is true of what was committed: the lines handled are reported in order and
\* all of them when the batch is done; a refused line changed nothing; a ticket reported
\* as closed was closed by this batch, and not by somebody else.
ReportMatchesCommits ==
    /\ batch.pc \notin {"done", "failed"} => Len(report) = batch.line - 1
    /\ batch.pc = "done" => Len(report) = Len(batch.ids)
    /\ \A i \in DOMAIN report :
         /\ report[i] # "done" => ~ Changed(i)
         /\ report[i] = "done" /\ batch.kind = "close" => Changed(i)

\* Every line has a reason that was true of its ticket at some time since the batch began:
\* "Reassigned." that it was the new assignee's, a refused close that it was not Resolved,
\* "not found" that there is none, and only an agent is refused for want of rights.
ReportHasReasons ==
    \A i \in DOMAIN report :
        LET t == batch.ids[i]
        IN  /\ report[i] = "not found" <=> t \notin Tickets
            /\ report[i] = "403" => batch.actor \in Agents
            /\ report[i] = "409" => \E row \in was[t] : row.status # "resolved"
            /\ report[i] = "done" /\ batch.kind = "reassign" =>
                 \E row \in was[t] : row.primary_assignee_id = batch.new_assignee_id

\* An agent's batch changes nothing: agents neither close nor reassign, however many
\* tickets they select and whatever happens to these meanwhile.
AgentsChangeNothing ==
    batch.actor \in Agents => \A c \in DOMAIN commits : commits[c].line = 0

\* A ticket that is Resolved without a period in progress, which no status request can
\* close: the legacy of the revision that added the periods.
Stranded(t) == tickets[t].status = "resolved" /\ OpenRows(resolved_periods[t]) = {}

\* There are three ways for a batch to fail with 500: its line is a stranded ticket, or one
\* that races had left with two periods in progress, or somebody else changed the ticket
\* after the session had read it.
FailsForAReason ==
    batch.pc = "failed" =>
        \/ Stranded(Id)
        \/ Cardinality(OpenRows(resolved_periods[Id])) > 1
        \/ \E c \in DOMAIN commits :
             c > batch.seen /\ commits[c].line = 0 /\ commits[c].ticket = Id

\* No step strands a ticket, whatever copy of it the batch holds: a reassignment does not
\* bring back the Resolved of its copy once somebody has closed the ticket and so ended
\* its period.
NobodyStrandsATicket == [][ \A t \in Tickets : Stranded(t)' => Stranded(t) ]_vars

\* One ticket's failure does not block the others (bulk_service): a batch reports.
BatchReports == batch.pc # "failed"
=============================================================================
