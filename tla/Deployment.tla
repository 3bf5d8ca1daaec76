----------------------------- MODULE Deployment -----------------------------
(***************************************************************************)
(* A deployment (render.yaml): alembic upgrade head, then app.seed, then   *)
(* the web server, over whatever the release before it left behind.  The   *)
(* upgrade runs all its revisions in one transaction; the seed commits     *)
(* call by call, and a build can be killed between any two commits and be  *)
(* started again.                                                          *)
(***************************************************************************)
EXTENDS Permissions, SlaService, FiniteSets

CONSTANTS
    DemoUsers,          \* DEMO_USERS, in order
    Tickets,            \* TICKETS, in order
    SeedNow,            \* seed_tickets' now, in minutes; every age lies behind it
    Priorities,
    Target,             \* TARGET_RESPONSE_TIME of each priority
    AtRiskFrom,         \* the least reading that is AT_RISK_THRESHOLD of the target
    MeantBreaching,     \* the entries of Tickets whose comments call them breaching
    MeantAtRisk         \* and at-risk

\* An entry of Tickets; age is how far it lies back.
TicketSpec == [priority : Priorities, assignee : Users, status : TicketStatus, age : 0..SeedNow,
               resolved_after : Nat, closed_after : Nat, archived : BOOLEAN,
               collaborator : Users \cup {NULL}, replies : Seq(Users)]

ASSUME DeploymentAssumption ==
    /\ DemoUsers \in Seq(Users) /\ DemoUsers # <<>>
    /\ Tickets \in Seq(TicketSpec)
    /\ \A i \in DOMAIN Tickets : Tickets[i].assignee \in {DemoUsers[k] : k \in DOMAIN DemoUsers}
    /\ SeedNow \in Nat /\ SeedNow >= 2
    /\ NULL \notin Users

\* What the demo data has to be for the seed to work and for its comments to be right: the
\* agents do the work, nobody joins twice, and the entries that are old enough are those
\* that the comments name.  A Pending entry has run for three hours at most.
ASSUME SeedAssumption ==
    LET IsOld(entry, reading) ==
            entry.status \in {"new", "open"} /\ entry.age >= reading[entry.priority]
    IN  /\ DemoUsers[1] \in Supervisors
        /\ Target \in [Priorities -> Nat] /\ AtRiskFrom \in [Priorities -> Nat]
        /\ \A p \in Priorities : 180 < AtRiskFrom[p] /\ AtRiskFrom[p] <= Target[p]
        /\ \A i \in DOMAIN Tickets :
             LET entry == Tickets[i]
             IN  /\ entry.assignee \in Agents
                 /\ entry.collaborator # NULL => entry.collaborator \in Agents \ {entry.assignee}
                 /\ \A r \in DOMAIN entry.replies :
                      entry.replies[r] \in {entry.assignee, entry.collaborator} \cup Supervisors
                 /\ entry.status \in {"resolved", "closed"} => entry.age >= 2
                 /\ i \in MeantBreaching <=> IsOld(entry, Target)
                 /\ i \in MeantBreaching \cup MeantAtRisk <=> IsOld(entry, AtRiskFrom)

VARIABLES
    schema,     \* how many of Revisions are applied
    accounts,   \* users, by email
    tickets,    \* tickets with what belongs to them, by id
    build       \* the build: its step, and in the seed its place in the data

vars == <<schema, accounts, tickets, build>>

\* The revisions of alembic/versions, each after the one it revises.
Revisions == <<"73eaa4e554f7", "ebfc6b286261", "ff47661fc0f9", "1b04066827ff",
               "324d9e38d957", "796b56918243", "1ee76b75cd49", "98a3fcb7c23d",
               "f4356d248630", "0195f8a5916d">>
HeadRevision == Len(Revisions)
Applied(revision) == \E i \in 1..schema : Revisions[i] = revision
UsersTable == "ebfc6b286261"
TicketsTable == "ff47661fc0f9"
PeriodTables == "324d9e38d957"
AssigneeColumn == "796b56918243"

\* A ticket.  spec is the entry of Tickets it was made from, or 0 if an earlier release
\* made it, with legacy the status it had then.
Ticket == [spec : Nat, legacy : TicketStatus \cup {NULL},
           primary_assignee_id : Users \cup {NULL}, collaborator_ids : SUBSET Users,
           status : TicketStatus, is_archived : BOOLEAN, created_at : Instant,
           pending : Seq(Period), closed : Seq(Period), resolved : Seq(Period),
           replies : Seq(Users)]

NewTicket(spec, assignee) ==
    [spec |-> spec, legacy |-> NULL, primary_assignee_id |-> assignee,
     collaborator_ids |-> {}, status |-> "new", is_archived |-> FALSE,
     created_at |-> SeedNow, pending |-> <<>>, closed |-> <<>>, resolved |-> <<>>,
     replies |-> <<>>]

\* A ticket of an earlier release.  A Resolved one has no resolved period, because that
\* table comes with the last revision.
LegacyTicket(assignee, status) ==
    [NewTicket(0, assignee) EXCEPT
        !.legacy = status, !.status = status, !.created_at = 0,
        !.pending = IF status = "pending" THEN StartPeriod(<<>>, 1) ELSE <<>>,
        !.closed = IF status = "closed" THEN StartPeriod(<<>>, 1) ELSE <<>>]

\* What a release at revision `schema` may have left: none or one ticket.  Before the
\* period tables every ticket is New.
LegacyTickets ==
    {LegacyTicket(assignee, status) :
        assignee \in IF Applied(AssigneeColumn) THEN accounts \cap Agents ELSE {NULL},
        status \in IF Applied(PeriodTables) THEN TicketStatus ELSE {"new"}}

Init ==
    /\ schema \in 0..HeadRevision - 1
    /\ \E n \in 0..Len(DemoUsers) :
         accounts = IF Applied(UsersTable) THEN {DemoUsers[i] : i \in 1..n} ELSE {}
    /\ \/ tickets = <<>>
       \/ /\ Applied(TicketsTable) /\ accounts # {}
          /\ \E ticket \in LegacyTickets : tickets = <<ticket>>
    /\ build = [pc |-> "idle", spec |-> 0, step |-> 0]
-----------------------------------------------------------------------------
(***************************************************************************)
(* The calls that seed_tickets makes for one spec, with the times it       *)
(* gives them.  Each ends in a commit.                                     *)
(***************************************************************************)
Least_Greatest(a, b) == IF a < b THEN b ELSE a

Least(a, b) == IF a < b THEN a ELSE b

Call(kind, actor) == [kind |-> kind, actor |-> actor, user |-> NULL, status |-> NULL, at |-> SeedNow]
Transition(status, actor, at) ==
    [Call("transition", actor) EXCEPT !.status = status, !.at = at]

Supervisor == DemoUsers[1]

\* The calls of one spec, were the assignee to close the ticket.
Script_AssigneeCloses(spec) ==
    <<[Call("create", Supervisor) EXCEPT !.user = spec.assignee],
      Transition("open", spec.assignee, SeedNow - spec.age),
      Transition("resolved", spec.assignee, SeedNow - 2),
      Transition("closed", spec.assignee, SeedNow - 1)>>

Script(spec) ==
    LET created_at  == SeedNow - spec.age
        open_at     == created_at + Least(spec.age \div 10, 60)
        pending_at  == open_at + Least(spec.age \div 5, 120)
        resolved_at == Least(open_at + spec.resolved_after, SeedNow - 2)
        closed_at   == Least(resolved_at + spec.closed_after, SeedNow - 1)
        Only(condition, calls) == IF condition THEN calls ELSE <<>>
    IN  <<[Call("create", Supervisor) EXCEPT !.user = spec.assignee],
          [Call("backdate", Supervisor) EXCEPT !.at = created_at]>>
        \o Only(spec.status # "new", <<Transition("open", spec.assignee, open_at)>>)
        \o Only(spec.status = "pending", <<Transition("pending", spec.assignee, pending_at)>>)
        \o Only(spec.status \in {"resolved", "closed"},
                <<Transition("resolved", spec.assignee, resolved_at)>>)
        \o Only(spec.status = "closed", <<Transition("closed", Supervisor, closed_at)>>)
        \o Only(spec.archived, <<Call("archive", Supervisor)>>)
        \o Only(spec.collaborator # NULL,
                <<[Call("collaborate", Supervisor) EXCEPT !.user = spec.collaborator]>>)
        \o [i \in DOMAIN spec.replies |-> Call("reply", spec.replies[i])]

PeriodsOf(ticket, status) ==
    CASE status = "pending"  -> ticket.pending
      [] status = "closed"   -> ticket.closed
      [] status = "resolved" -> ticket.resolved

\* The one() of a move out of a status with a log finds its row.
HasOpenRow(ticket) ==
    ticket.status \in {"pending", "closed", "resolved"} =>
        \E row \in DOMAIN PeriodsOf(ticket, ticket.status) :
            OnlyOpenRow(PeriodsOf(ticket, ticket.status), row)

\* What the services check; a refusal would be an uncaught HTTPException.
Accepts(ticket, call) ==
    CASE call.kind = "backdate" -> TRUE
      [] call.kind \in {"archive", "reply"} -> CanActOnTicket(call.actor, ticket)
      [] call.kind = "collaborate" ->
            /\ CanActOnTicket(call.actor, ticket)
            /\ call.user \in Agents
            /\ call.user \notin ticket.collaborator_ids \cup {ticket.primary_assignee_id}
      [] call.kind = "transition" ->
            /\ CanActOnTicket(call.actor, ticket)
            /\ call.status \in AllowedTransitions[ticket.status]
            /\ ticket.status = "resolved" => CanCloseTicket(call.actor, ticket)
            /\ HasOpenRow(ticket)

EndOpenRows(log, at) ==
    [row \in DOMAIN log |-> IF row \in OpenRows(log) THEN [log[row] EXCEPT !.end = at] ELSE log[row]]

LogAfter_SkipsResolved(status, ticket, call) ==
    LET log == PeriodsOf(ticket, status)
    IN  CASE call.status = status /\ status # "resolved" -> StartPeriod(log, call.at)
          [] ticket.status = status /\ status # "resolved" -> EndOpenRows(log, call.at)
          [] OTHER -> log

LogAfter(status, ticket, call) ==
    LET log == PeriodsOf(ticket, status)
    IN  CASE call.status = status   -> StartPeriod(log, call.at)
          [] ticket.status = status -> EndOpenRows(log, call.at)
          [] OTHER                  -> log

\* The ticket once the call has committed.
After(ticket, call) ==
    CASE call.kind = "backdate" -> [ticket EXCEPT !.created_at = call.at]
      [] call.kind = "archive" -> [ticket EXCEPT !.is_archived = TRUE]
      [] call.kind = "reply" -> [ticket EXCEPT !.replies = Append(@, call.actor)]
      [] call.kind = "collaborate" -> [ticket EXCEPT !.collaborator_ids = @ \cup {call.user}]
      [] call.kind = "transition" ->
            [ticket EXCEPT !.status = call.status,
                           !.pending = LogAfter("pending", ticket, call),
                           !.closed = LogAfter("closed", ticket, call),
                           !.resolved = LogAfter("resolved", ticket, call)]
-----------------------------------------------------------------------------
At(pc) == build.pc = pc
GoTo(pc) == build' = [pc |-> pc, spec |-> 0, step |-> 0]

\* A deployment starts: the first one, a new one, or one after a build that did not end well.
StartBuild ==
    /\ build.pc \in {"idle", "failed", "serving"}
    /\ GoTo("upgrade")
    /\ UNCHANGED <<schema, accounts, tickets>>

Fallback_FirstUser == {DemoUsers[i] : i \in {j \in 1..1 : DemoUsers[j] \in accounts}}

\* The agent with the least id, if there is an agent: 796b56918243's backfill.
Fallback ==
    {DemoUsers[i] : i \in {j \in DOMAIN DemoUsers :
        /\ DemoUsers[j] \in accounts \cap Agents
        /\ \A k \in 1..j - 1 : DemoUsers[k] \notin accounts \cap Agents}}

Backfilled(ticket) ==
    IF ticket.primary_assignee_id # NULL \/ Fallback = {} THEN ticket
    ELSE [ticket EXCEPT !.primary_assignee_id = CHOOSE user \in Fallback : TRUE]

\* alembic upgrade head: all revisions or none.  The assignee column becomes NOT NULL,
\* which fails while a ticket has none; nothing else looks at the rows there are.
Upgrade ==
    LET rows == [i \in DOMAIN tickets |-> Backfilled(tickets[i])]
    IN  /\ At("upgrade")
        /\ IF \E i \in DOMAIN rows : rows[i].primary_assignee_id = NULL
           THEN GoTo("failed") /\ UNCHANGED <<schema, tickets>>
           ELSE GoTo("users") /\ schema' = HeadRevision /\ tickets' = rows
        /\ UNCHANGED accounts

\* seed_users adds the ones that are missing, and commits each.
SeedUser ==
    /\ At("users")
    /\ \E i \in DOMAIN DemoUsers :
         /\ DemoUsers[i] \notin accounts
         /\ \A j \in 1..i - 1 : DemoUsers[j] \in accounts
         /\ accounts' = accounts \cup {DemoUsers[i]}
    /\ UNCHANGED <<schema, tickets, build>>

MaySeed_Incomplete == Cardinality({tickets[i].spec : i \in DOMAIN tickets}) < Len(Tickets)
MaySeed == tickets = <<>>

\* seed_tickets returns at once if there is any ticket.
CountTickets ==
    /\ At("users")
    /\ \A i \in DOMAIN DemoUsers : DemoUsers[i] \in accounts
    /\ IF MaySeed /\ Tickets # <<>> THEN build' = [pc |-> "tickets", spec |-> 1, step |-> 1]
       ELSE GoTo("serving")
    /\ UNCHANGED <<schema, accounts, tickets>>

NextCall == Script(Tickets[build.spec])[build.step]

Proceed ==
    build' = CASE build.step < Len(Script(Tickets[build.spec])) -> [build EXCEPT !.step = @ + 1]
               [] /\ build.step >= Len(Script(Tickets[build.spec]))
                  /\ build.spec < Len(Tickets) -> [build EXCEPT !.spec = @ + 1, !.step = 1]
               [] OTHER -> [pc |-> "serving", spec |-> 0, step |-> 0]

\* create_ticket: the supervisor names an agent, or is refused with an HTTPException that
\* nothing catches.
SeedCreate ==
    /\ At("tickets") /\ NextCall.kind = "create"
    /\ IF NextCall.user \in Agents
       THEN tickets' = Append(tickets, NewTicket(build.spec, NextCall.user)) /\ Proceed
       ELSE GoTo("failed") /\ UNCHANGED tickets
    /\ UNCHANGED <<schema, accounts>>

SeedCall ==
    /\ At("tickets") /\ NextCall.kind # "create"
    /\ IF Accepts(tickets[Len(tickets)], NextCall)
       THEN tickets' = [tickets EXCEPT ![Len(tickets)] = After(@, NextCall)] /\ Proceed
       ELSE GoTo("failed") /\ UNCHANGED tickets
    /\ UNCHANGED <<schema, accounts>>

\* The build is killed, or the database goes away: what is committed stays.
Crash ==
    /\ build.pc \in {"upgrade", "users", "tickets"}
    /\ GoTo("idle")
    /\ UNCHANGED <<schema, accounts, tickets>>

Next == StartBuild \/ Upgrade \/ SeedUser \/ CountTickets \/ SeedCreate \/ SeedCall \/ Crash

Spec == Init /\ [][Next]_vars
-----------------------------------------------------------------------------
TypeOK ==
    /\ schema \in 0..HeadRevision
    /\ accounts \in SUBSET Users
    /\ tickets \in Seq(Ticket)
    /\ build \in [pc : {"idle", "upgrade", "users", "tickets", "serving", "failed"},
                  spec : Nat, step : Nat]

Seeded == {i \in DOMAIN tickets : tickets[i].spec # 0}

\* However often the build is killed and started again, no demo ticket is made twice, they
\* are made in the order of the data, and only beside no ticket of a user's.
SeedIsAPrefix ==
    Seeded # {} => \A i \in DOMAIN tickets : tickets[i].spec = i

\* From the last revision on every ticket has an assignee, who is an agent with an account.
AssigneesExist ==
    schema = HeadRevision => \A i \in DOMAIN tickets : tickets[i].primary_assignee_id \in accounts \cap Agents

\* Nothing stops a build for good but tickets older than their assignee column in a database
\* without agents: the migrations pass over any data, and no call of the seed is refused.
BuildsFailOnlyWithoutAgents ==
    At("failed") => /\ schema < HeadRevision
                    /\ accounts \cap Agents = {}
                    /\ tickets # <<>>

\* Every ticket the upgrade and the seed leave behind can be moved out of its status: the
\* one() finds its row.  Not so, and excepted here, the tickets Resolved when the table of
\* resolved periods was added: the revision gives them no row, and closing one answers 500.
EveryTicketCanLeave ==
    schema = HeadRevision => \A i \in DOMAIN tickets :
        HasOpenRow(tickets[i]) \/ tickets[i].legacy = "resolved"

ReadingNow(ticket) ==
    ElapsedResponseTime(ticket.created_at, ticket.pending, ticket.closed, ticket.resolved, SeedNow)

Reaches(ticket, reading) ==
    ticket.status \in ActiveStatuses /\ ReadingNow(ticket) >= reading[Tickets[ticket.spec].priority]

\* No period starts or ends before its ticket was created, ends before it starts, or does
\* either after the seed.
TimesInOrder(log, created_at) ==
    \A row \in DOMAIN log :
        /\ log[row].start \in created_at..SeedNow
        /\ log[row].end # NULL => log[row].end \in log[row].start..SeedNow

\* Wherever a build is killed, every demo ticket but the newest is as the data means it:
\* the status, the archive, the team and the replies; its periods from its creation on and
\* until the seed; and of all of them those called breaching breach at that moment and those
\* called at-risk are at risk, and no others.
DemoDataIsAsMeant ==
    \A i \in {n \in Seeded : n < Len(tickets)} :
        LET ticket == tickets[i]
            meant  == Tickets[i]
        IN  /\ ticket.status = meant.status
            /\ ticket.is_archived = meant.archived
            /\ ticket.primary_assignee_id = meant.assignee
            /\ ticket.collaborator_ids = {meant.collaborator} \ {NULL}
            /\ ticket.replies = meant.replies
            /\ \A log \in {ticket.pending, ticket.closed, ticket.resolved} :
                 TimesInOrder(log, ticket.created_at)
            /\ Reaches(ticket, Target) <=> i \in MeantBreaching
            /\ Reaches(ticket, AtRiskFrom) <=> i \in MeantBreaching \cup MeantAtRisk
=============================================================================
