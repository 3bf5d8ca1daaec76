----------------------------- MODULE Lifecycle -----------------------------
(***************************************************************************)
(* The life of one ticket as app/services/lifecycle_service.py promises it *)
(* when status requests are handled one at a time: transition() is atomic  *)
(* and its timestamp is the moment it happens.  A refused request changes  *)
(* nothing, so it is a stuttering step.  LifecycleRequests is the same     *)
(* service with its requests interleaved statement by statement.           *)
(***************************************************************************)
EXTENDS Permissions, SlaService

CONSTANTS
    MaxTime,        \* bound on the clock
    MaxEvents       \* bound on the number of status changes

ASSUME LifecycleAssumption ==
    /\ MaxTime \in Nat
    /\ MaxEvents \in Nat

VARIABLES
    clock,              \* time since the ticket was created
    team,               \* its primary_assignee_id and collaborator_ids
    status,
    resolved_at,
    pending_periods, closed_periods, resolved_periods,
    history             \* its STATUS_CHANGE events, in commit order

periods == <<pending_periods, closed_periods, resolved_periods>>
vars == <<clock, team, status, resolved_at, periods, history>>

CreatedAt == 0

\* One STATUS_CHANGE row of the timeline; who made it is left out.
StatusChange == [old_status : TicketStatus, new_status : TicketStatus]

Init ==
    /\ clock = CreatedAt
    /\ team \in [primary_assignee_id : Agents, collaborator_ids : SUBSET Agents]
    /\ status = "new"
    /\ resolved_at = NULL
    /\ pending_periods = <<>>
    /\ closed_periods = <<>>
    /\ resolved_periods = <<>>
    /\ history = <<>>

\* Time passes between requests, by any amount.
Tick ==
    /\ \E now \in (clock + 1)..MaxTime : clock' = now
    /\ UNCHANGED <<team, status, resolved_at, periods, history>>
-----------------------------------------------------------------------------
\* What every branch of transition() does: check, record the change, set the status.
Transition(actor, new_status) ==
    /\ Len(history) < MaxEvents
    /\ CanActOnTicket(actor, team)
    /\ new_status \in AllowedTransitions[status]
    /\ history' = Append(history, [old_status |-> status, new_status |-> new_status])
    /\ status' = new_status
    /\ UNCHANGED <<clock, team>>

Open(actor) ==
    /\ status = "new"
    /\ Transition(actor, "open")
    /\ UNCHANGED <<resolved_at, periods>>

Hold(actor) ==
    /\ Transition(actor, "pending")
    /\ pending_periods' = StartPeriod(pending_periods, clock)
    /\ UNCHANGED <<resolved_at, closed_periods, resolved_periods>>

Resume(actor) ==
    /\ status = "pending"
    /\ Transition(actor, "open")
    /\ \E row \in DOMAIN pending_periods :
         /\ OnlyOpenRow(pending_periods, row)
         /\ pending_periods' = EndPeriod(pending_periods, row, clock)
    /\ UNCHANGED <<resolved_at, closed_periods, resolved_periods>>

Resolve(actor) ==
    /\ Transition(actor, "resolved")
    /\ resolved_at' = clock
    /\ resolved_periods' = StartPeriod(resolved_periods, clock)
    /\ UNCHANGED <<pending_periods, closed_periods>>

Close(actor) ==
    /\ CanCloseTicket(actor, team)
    /\ Transition(actor, "closed")
    /\ closed_periods' = StartPeriod(closed_periods, clock)
    /\ \E row \in DOMAIN resolved_periods :
         /\ OnlyOpenRow(resolved_periods, row)
         /\ resolved_periods' = EndPeriod(resolved_periods, row, clock)
    /\ UNCHANGED <<resolved_at, pending_periods>>

Reopen(actor) ==
    /\ status = "closed"
    /\ Transition(actor, "open")
    /\ \E row \in DOMAIN closed_periods :
         /\ OnlyOpenRow(closed_periods, row)
         /\ WithinWindow(closed_periods[row].start, clock)
         /\ closed_periods' = EndPeriod(closed_periods, row, clock)
    /\ UNCHANGED <<resolved_at, pending_periods, resolved_periods>>

StatusRequest(actor) ==
    \/ Open(actor)  \/ Hold(actor)  \/ Resume(actor)
    \/ Resolve(actor) \/ Close(actor) \/ Reopen(actor)

Next == Tick \/ \E actor \in Users : StatusRequest(actor)

Spec == Init /\ [][Next]_vars
-----------------------------------------------------------------------------
TypeOK ==
    /\ clock \in Instant
    /\ team \in [primary_assignee_id : Agents, collaborator_ids : SUBSET Agents]
    /\ status \in TicketStatus
    /\ resolved_at \in Instant \cup {NULL}
    /\ pending_periods \in Seq(Period)
    /\ closed_periods \in Seq(Period)
    /\ resolved_periods \in Seq(Period)
    /\ history \in Seq(StatusChange)

\* Each log has an open row exactly while the ticket is in that status, and then
\* one only, its newest.  This is what every one() of transition() relies on: were
\* it false, a legal move would answer 500 for ever.
OpenRowIffStatus(log, s) == OpenRows(log) = IF status = s THEN {Len(log)} ELSE {}

OpenPeriodsMatchStatus ==
    /\ OpenRowIffStatus(pending_periods, "pending")
    /\ OpenRowIffStatus(closed_periods, "closed")
    /\ OpenRowIffStatus(resolved_periods, "resolved")

\* No instant is covered by two periods, of one log or of two, so that the sum in
\* elapsed_response_time never subtracts a stretch twice.
PeriodsNeverOverlap ==
    \A t \in CreatedAt..MaxTime :
        /\ ~ (CoveredBy(pending_periods, t) /\ CoveredBy(closed_periods, t))
        /\ ~ (CoveredBy(pending_periods, t) /\ CoveredBy(resolved_periods, t))
        /\ ~ (CoveredBy(closed_periods, t) /\ CoveredBy(resolved_periods, t))
        /\ \A log \in {pending_periods, closed_periods, resolved_periods} :
             \A i, j \in DOMAIN log : Covers(log[i], t) /\ Covers(log[j], t) => i = j

\* The recorded status changes are one unbroken walk from NEW to the current status:
\* each starts where the one before it ended.
HistoryIsAWalk ==
    /\ \A i \in DOMAIN history :
         /\ history[i].old_status = IF i = 1 THEN "new" ELSE history[i - 1].new_status
         /\ history[i].new_status \in AllowedTransitions[history[i].old_status]
    /\ status = IF history = <<>> THEN "new" ELSE history[Len(history)].new_status

\* No Closed period ended by a reopen was longer than the window.
ReopenedWithinWindow ==
    \A i \in DOMAIN closed_periods :
        closed_periods[i].end # NULL =>
            /\ closed_periods[i].start <= closed_periods[i].end
            /\ closed_periods[i].end - closed_periods[i].start <= ReopenWindow

\* Ticket.resolved_at, which the dashboard counts by, is the start of the newest
\* Resolved period, and null exactly when there has been none.
ResolvedAtIsLatest ==
    resolved_at = IF resolved_periods = <<>> THEN NULL
                  ELSE resolved_periods[Len(resolved_periods)].start

\* A ticket still Closed when its window has passed is never moved again.
ClosedForGood ==
    [][ (status = "closed" /\ clock - closed_periods[Len(closed_periods)].start > ReopenWindow)
          => status' = "closed" ]_vars

\* A period row is never deleted, and one that has ended is never written again.
Kept(log, newlog) ==
    /\ Len(log) <= Len(newlog)
    /\ \A i \in DOMAIN log : log[i].end # NULL => newlog[i] = log[i]

EndedPeriodsAreFinal ==
    [][ /\ Kept(pending_periods, pending_periods')
        /\ Kept(closed_periods, closed_periods')
        /\ Kept(resolved_periods, resolved_periods') ]_vars
-----------------------------------------------------------------------------
\* The reading of the response clock at a moment.
ElapsedAt(as_of) ==
    ElapsedResponseTime(CreatedAt, pending_periods, closed_periods, resolved_periods, as_of)

\* What the clock read at a moment that has passed is never changed by a later
\* status change: ending a period clips it exactly where the open row was clipped.
\* An alert list that stamped its now before a transition and read the period rows
\* after it computes the reading that was true at its now.
ReadingsAreFinal ==
    [][ \A as_of \in CreatedAt..clock : ElapsedAt(as_of)' = ElapsedAt(as_of) ]_vars

Stopwatch == INSTANCE ResponseClock
                 WITH elapsed <- ElapsedAt(clock), running <- ClockRuns(status)

\* The clock computed from the three logs is a stopwatch that was started at
\* creation, is stopped in Pending, Resolved and Closed, and runs otherwise.
ImplementsStopwatch == Stopwatch!Spec
=============================================================================
