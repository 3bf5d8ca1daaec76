------------------------- MODULE LifecycleRequests -------------------------
(***************************************************************************)
(* POST /tickets/{id}/status as it runs: every request in a thread and a   *)
(* database session of its own, statement by statement, over PostgreSQL at *)
(* its default READ COMMITTED.  Nothing locks the ticket row between the   *)
(* statement that reads it and the UPDATE that overwrites it, and the ORM  *)
(* writes the columns it changed with no check on their old values.  A     *)
(* transaction's writes become visible together, when it commits.          *)
(***************************************************************************)
EXTENDS FiniteSets, Permissions, SlaService

CONSTANTS
    Workers,        \* threads that can have a request in flight
    MaxTime,        \* bound on the clock
    MaxEvents       \* bound on committed status changes plus requests in flight

ASSUME RequestsAssumption ==
    /\ IsFiniteSet(Workers)
    /\ MaxTime \in Nat
    /\ MaxEvents \in Nat

VARIABLES
    clock,
    team, status, resolved_at,                         \* the row in tickets
    pending_periods, closed_periods, resolved_periods, \* the three period tables
    history,                                           \* ticket_history_events
    req,                                               \* the request each worker runs
    overlapped      \* history: have two requests ever been in flight at once

periods == <<pending_periods, closed_periods, resolved_periods>>
tables == <<team, status, resolved_at, periods, history>>
vars == <<clock, tables, req, overlapped>>

CreatedAt == 0

\* created_at is filled in by the server default now(), which in PostgreSQL is the
\* time the transaction began.
StatusChange == [old_status : TicketStatus, new_status : TicketStatus, created_at : Instant]

(***************************************************************************)
(* A request: pc is the statement it runs next, current the status it      *)
(* loaded, now the timestamp transition() took, row the period it selected *)
(* with one(), answer the HTTP status it will be answered with.            *)
(***************************************************************************)
Steps == {"idle", "load", "authorize", "select", "commit", "respond"}
Logged == {"pending", "closed", "resolved"}     \* the statuses with a period log
Answers == {"none", "ok", "403", "409", "500"}

Request == [pc : Steps, actor : Users \cup {NULL}, new_status : TicketStatus \cup {NULL},
            began : Instant \cup {NULL}, current : TicketStatus \cup {NULL},
            now : Instant \cup {NULL}, row : Nat \cup {NULL}, answer : Answers]

NoRequest == [pc |-> "idle", actor |-> NULL, new_status |-> NULL, began |-> NULL,
              current |-> NULL, now |-> NULL, row |-> NULL, answer |-> "none"]

Init ==
    /\ clock = CreatedAt
    /\ team \in [primary_assignee_id : Agents, collaborator_ids : SUBSET Agents]
    /\ status = "new"
    /\ resolved_at = NULL
    /\ pending_periods = <<>>
    /\ closed_periods = <<>>
    /\ resolved_periods = <<>>
    /\ history = <<>>
    /\ req = [w \in Workers |-> NoRequest]
    /\ overlapped = FALSE

Tick ==
    /\ clock < MaxTime
    /\ clock' = clock + 1
    /\ UNCHANGED <<tables, req, overlapped>>
-----------------------------------------------------------------------------
InFlight == {w \in Workers : req[w].pc # "idle"}

\* get_current_user issues the session's first statement: the transaction begins.
Begin(w, actor, new_status) ==
    /\ req[w].pc = "idle"
    /\ Len(history) + Cardinality(InFlight) < MaxEvents
    /\ req' = [req EXCEPT ![w] = [NoRequest EXCEPT !.pc = "load", !.actor = actor,
                                    !.new_status = new_status, !.began = clock]]
    /\ overlapped' = (overlapped \/ InFlight # {})
    /\ UNCHANGED <<clock, tables>>

\* get_ticket_or_404 reads the ticket row.
Load(w) ==
    /\ req[w].pc = "load"
    /\ req' = [req EXCEPT ![w].pc = "authorize", ![w].current = status]
    /\ UNCHANGED <<clock, tables, overlapped>>

Answered(r, answer) == [r EXCEPT !.pc = "respond", !.answer = answer]

Moves(r, old, new) == r.current = old /\ r.new_status = new

Refusal_AnyMove(r) ==
    IF \/ ~ CanActOnTicket(r.actor, team)
       \/ Moves(r, "resolved", "closed") /\ ~ CanCloseTicket(r.actor, team)
    THEN "403" ELSE "none"

\* The refusals transition() raises before it touches a period.
Refusal(r) ==
    IF \/ ~ CanActOnTicket(r.actor, team)
       \/ Moves(r, "resolved", "closed") /\ ~ CanCloseTicket(r.actor, team)
    THEN "403"
    ELSE IF r.new_status \notin AllowedTransitions[r.current] THEN "409" ELSE "none"

\* The head of transition(): take the time, check the actor, then the move.  A move
\* out of a status that has a period log goes on to select the row it must end.
Authorize(w) ==
    LET r == [req[w] EXCEPT !.now = clock]
    IN  /\ r.pc = "authorize"
        /\ req' = [req EXCEPT ![w] =
             IF Refusal(r) # "none" THEN Answered(r, Refusal(r))
             ELSE [r EXCEPT !.pc = IF r.current \in Logged THEN "select" ELSE "commit"]]
        /\ UNCHANGED <<clock, tables, overlapped>>

PeriodsOf(s) == CASE s = "pending"  -> pending_periods
                  [] s = "closed"   -> closed_periods
                  [] s = "resolved" -> resolved_periods

\* "select ... where ended_at is null" and its one(); a reopen then checks the window.
Select(w) ==
    LET r == req[w]
        log == PeriodsOf(r.current)
    IN  /\ r.pc = "select"
        /\ \/ /\ ~ \E row \in DOMAIN log : OnlyOpenRow(log, row)
              /\ req' = [req EXCEPT ![w] = Answered(r, "500")]
           \/ \E row \in DOMAIN log :
                /\ OnlyOpenRow(log, row)
                /\ req' = [req EXCEPT ![w] =
                     IF r.current = "closed" /\ ~ WithinWindow(log[row].start, r.now)
                     THEN Answered(r, "409")
                     ELSE [r EXCEPT !.pc = "commit", !.row = row]]
        /\ UNCHANGED <<clock, tables, overlapped>>

LogAfter_NeverStarts(s, log, r) == IF r.current = s THEN EndPeriod(log, r.row, r.now) ELSE log
LogAfter_StartsOnce(s, log, r) ==
    CASE r.new_status = s /\ OpenRows(log) = {} -> StartPeriod(log, r.now)
      [] r.current = s -> EndPeriod(log, r.row, r.now)
      [] OTHER -> log

\* A move into a status with a log starts a period there, a move out of it ends one.
LogAfter(s, log, r) ==
    CASE r.new_status = s -> StartPeriod(log, r.now)
      [] r.current = s    -> EndPeriod(log, r.row, r.now)
      [] OTHER            -> log

\* commit() flushes the whole unit of work: the new rows, the ended row, the status.
Commit(w) ==
    LET r == req[w]
    IN  /\ r.pc = "commit"
        /\ pending_periods' = LogAfter("pending", pending_periods, r)
        /\ closed_periods' = LogAfter("closed", closed_periods, r)
        /\ resolved_periods' = LogAfter("resolved", resolved_periods, r)
        /\ resolved_at' = IF r.new_status = "resolved" THEN r.now ELSE resolved_at
        /\ history' = Append(history, [old_status |-> r.current, new_status |-> r.new_status,
                                       created_at |-> r.began])
        /\ status' = r.new_status
        /\ req' = [req EXCEPT ![w] = Answered(r, "ok")]
        /\ UNCHANGED <<clock, team, overlapped>>

\* refresh() or the error page, then the answer is sent and the session closed.
Respond(w) ==
    /\ req[w].pc = "respond"
    /\ req' = [req EXCEPT ![w] = NoRequest]
    /\ UNCHANGED <<clock, tables, overlapped>>

Serve(w) == Load(w) \/ Authorize(w) \/ Select(w) \/ Commit(w) \/ Respond(w)

Next ==
    \/ Tick
    \/ \E w \in Workers :
         \/ \E actor \in Users, new_status \in TicketStatus : Begin(w, actor, new_status)
         \/ Serve(w)

Spec == Init /\ [][Next]_vars
-----------------------------------------------------------------------------
TypeOK ==
    /\ clock \in Instant
    /\ team \in [primary_assignee_id : Agents, collaborator_ids : SUBSET Agents]
    /\ status \in TicketStatus
    /\ resolved_at \in Instant \cup {NULL}
    /\ pending_periods \in Seq(Period)
    /\ closed_periods \in Seq(Period)
    /\ resolved_periods \in Seq(Period)
    /\ history \in Seq(StatusChange)
    /\ req \in [Workers -> Request]
    /\ overlapped \in BOOLEAN

(***************************************************************************)
(* What holds however the requests interleave.                             *)
(***************************************************************************)
\* The response clock never runs while the ticket is Pending, Resolved or Closed: that
\* status has an open period.  Races can stop the clock wrongly; they cannot run it.
ClockStopsWhileWaiting == status \in Logged => OpenRows(PeriodsOf(status)) # {}

Into(s) == {i \in DOMAIN history : history[i].new_status = s}

\* Timeline, ticket and logs account for one another: the last event recorded is the
\* one that set the status, and each log has one row per event that entered its status.
TimelineAccountsForTicket ==
    /\ status = IF history = <<>> THEN "new" ELSE history[Len(history)].new_status
    /\ \A s \in Logged : Len(PeriodsOf(s)) = Cardinality(Into(s))

\* A period that was ended by a reopen was not longer than the window, whoever else
\* was reopening the ticket.
ReopenedWithinWindow ==
    \A i \in DOMAIN closed_periods :
        closed_periods[i].end # NULL =>
            closed_periods[i].end <= closed_periods[i].start + ReopenWindow

\* current_breach_epoch is the number of ended Closed periods.  It never goes down,
\* so an acknowledgement of an old epoch can never hide a later one.
CurrentBreachEpoch == Cardinality(DOMAIN closed_periods \ OpenRows(closed_periods))

EpochNeverFalls == [][CurrentBreachEpoch' >= CurrentBreachEpoch]_vars

(***************************************************************************)
(* What holds as long as no two requests have overlapped, and fails after  *)
(* some overlaps.                                                          *)
(***************************************************************************)
\* A ticket nobody is working on can leave its status: the one() of the move out of it
\* will find its row.  Were it false, that move would answer 500 at every attempt.
RestingTicketCanMove ==
    InFlight = {} /\ status \in Logged =>
        \E row \in DOMAIN PeriodsOf(status) : OnlyOpenRow(PeriodsOf(status), row)

\* No status request fails with an uncaught NoResultFound or MultipleResultsFound
\* unless requests have overlapped.
ErrorsNeedOverlap == (\E w \in Workers : req[w].answer = "500") => overlapped

\* list_timeline sorts by created_at, then id: what is shown below what.
ShownAfter_OldestIdLast(i, j) ==
    \/ history[i].created_at > history[j].created_at
    \/ history[i].created_at = history[j].created_at /\ i < j

ShownAfter(i, j) ==
    \/ history[i].created_at > history[j].created_at
    \/ history[i].created_at = history[j].created_at /\ i > j

\* Unless requests have overlapped, the status change the timeline shows last is the one
\* that gave the ticket its status.  (With an overlap it need not be: created_at is the
\* start of a transaction, not its commit.)
TimelineEndsAtStatus ==
    ~ overlapped =>
        \A i \in DOMAIN history :
            (\A j \in DOMAIN history \ {i} : ShownAfter(i, j)) => history[i].new_status = status

(***************************************************************************)
(* Until requests overlap, they implement the serial life of the ticket.   *)
(* A move takes effect when it commits, at the time its request stamped:   *)
(* the serial clock stands at that time until the request is answered.     *)
(***************************************************************************)
ServiceClock ==
    IF \E w \in Workers : req[w].now # NULL
    THEN req[CHOOSE w \in Workers : req[w].now # NULL].now
    ELSE clock

Serial == INSTANCE Lifecycle
    WITH clock <- ServiceClock,
         history <- [i \in DOMAIN history |-> [old_status |-> history[i].old_status,
                                               new_status |-> history[i].new_status]]

\* The statements of transition(), one after the other, are the atomic move of Lifecycle
\* or nothing, with any number of workers, for as long as nothing has overlapped.
ImplementsLifecycle ==
    Serial!Init /\ [][~ overlapped' => [Serial!Next]_Serial!vars]_vars
=============================================================================
