# Support desk: TLA+ verification

This directory models the parts of the support ticketing application that decide
anything: the ticket lifecycle and its response clock, who may work on a ticket, the SLA
alerts, bulk actions, the lists and figures made of them, what a deployment does to the
data, and the threads and connections that requests share. TLC checks the models on small instances; TLAPS proves the theorems of `*_proofs.tla` for every value of
the constants.

    tlc -workers 2 -config Lifecycle.cfg MCLifecycle.tla
    tlapm Lifecycle_proofs.tla

`PROJECT.json` lists the runs, the source lines behind every definition, the findings, the
hazards and the theorems.

## 1. The system

A FastAPI application over PostgreSQL (SQLite in the tests). Routers resolve the signed-in
user and load the ticket; services check, change and commit. Every route is a plain
function, so FastAPI runs each request in a thread of its own, with a database session of
its own (`core/database.py`, `autoflush=False`). There is no background job, no cache and no
queue: all state is in the database, and all concurrency is between requests.

| component | state | operations | what makes it correct |
|---|---|---|---|
| lifecycle (`lifecycle_service`, `ticket_period`) | `tickets.status`, `resolved_at`; pending, closed and resolved periods | `transition` | only legal moves; one open period exactly while the status calls for it; a reopen within the window; ticket, periods and timeline in step |
| response clock (`sla_service`) | none, computed on read | `elapsed_response_time` | runs in New and Open, stands still elsewhere; a past reading never changes |
| permissions | none (`users.role` is never changed) | the `can_*` rules | agents act only where they are assignee or collaborator; only supervisors reassign and close |
| timeline (`history_service`) | `ticket_history_events` | `record_*`, `list_timeline` | accounts for the ticket; chronological; append-only |
| assignment and editing (`ticket_service`) | the other columns of `tickets` | create, update, reassign, archive, restore | the assignee is an agent; no agent's stale form undoes a reassignment (a supervisor's does) |
| collaborators | `ticket_collaborators` | add, remove | agents other than the assignee; no change is lost |
| alerts (`alerts_service`) | `sla_acknowledgements` | list, acknowledge | an acknowledgement clears one user's alert for one breach; the alert returns after a reopen |
| bulk actions | none of its own | bulk reassign, bulk close | one outcome per ticket, none blocked by another |
| replies | `replies` | add, list | reply and timeline event together, only for a user who may act |
| queue and export (`ticket_service`, `export_service`) | none | search, lists, CSV | one scope for all lists and the detail page; totals, pages and export agree |
| dashboard (`dashboard_service`) | none | headline counts, breakdowns, weekly chart | agrees with the queue; half-open weeks |
| accounts | `users`; a signed cookie | login, logout | no server-side session |
| sessions and pool (`core/`) | connections | check out, return | no request waits for ever |
| migrations (`alembic/`) | the schema | `upgrade head` | every ticket gets an agent; a failure changes nothing |
| seed (`seed.py`) | inserts | `seed_users`, `seed_tickets` | rerunnable; no demo ticket twice; the data is as its comments say |

The components meet in the database and through calls: routers call services; bulk calls
`reassign_ticket` and `transition`; `transition` and reassignment write the timeline; alerts,
dashboard and export read the clock, which reads the period logs; the breach epoch of an
alert is derived from the closed periods.

What is hard here, and what a test with one session never meets: two requests on one
ticket, with nothing locked between the read and the write; a form posted from a page that
is out of date; several rounds of resolve, close and reopen; instants on the edge of a
period or of the window; timestamps taken at three different moments of one request (the
start of the transaction, `datetime.now()` in the service, the commit); a count and a page that
are two statements, and pages that are two requests; a build killed between two commits. The
full list, line by line, is under `hazards` in `PROJECT.json`.

## 2. The modules

| module | models | built on |
|---|---|---|
| `TicketPeriods` | statuses, the table of moves, the period logs and their two writes | |
| `SlaService` | `elapsed_response_time`, with the sum over a log as a recursive function | `TicketPeriods` |
| `Permissions` | `permissions.py` and the roles | |
| `ResponseClock` | abstract: a stopwatch | |
| `Lifecycle` | one ticket, status requests one at a time | `Permissions`, `SlaService` |
| `LifecycleRequests` | the same, statement by statement, any number of workers | the same; instantiates `Lifecycle` |
| `SlaAlerts` | alerts and acknowledgements over the life of a ticket | extends `Lifecycle` |
| `TeamRequests` | edit, reassign, add and remove collaborator, reply, statement by statement | `Permissions` |
| `BulkActions` | one bulk close or bulk reassign while others work on its tickets | `Permissions`, `TicketPeriods` |
| `ConnectionPool` | threads and connections of requests in flight | |
| `QueueSearch` | scope, filters, order, pages, lists and export; a reader who pages through the queue while others commit | `Permissions`, `TicketPeriods` |
| `Dashboard` | every figure of the dashboard, the breach column of the export | extends `QueueSearch`, `SlaService` |
| `SeedData` | the data of `seed.py`: users, tickets, what its comments promise of them | |
| `Deployment` | upgrade, seed, and a kill between any two commits | `Permissions`, `SlaService`; run with `SeedData` |
| `*_proofs` | the theorems | the module they are named after; `Reports_proofs` is about `QueueSearch` and `Dashboard` |
| `MC*` | the instances TLC checks | |

`Lifecycle` implements `ResponseClock` (run `lifecycle`), and `LifecycleRequests` implements
`Lifecycle` for as long as no two requests have overlapped (run `racing_requests`, and a theorem):
the chain from statements to stopwatch. Once two have overlapped it no longer does, which is what
the run `wedged_ticket` shows. `SlaAlerts` adds to `Lifecycle` and leaves its behaviour as it is
(a lemma of `SlaAlerts_proofs`).

A definition named `Name_Mistake` just before `Name` is `Name` as a plausible bug would have
it. No specification uses one; each is there to show that a property notices the bug.

### How state and actions correspond to the code

* A **period log** is a sequence of rows `[start, end]`, `end = NULL` while open, in the order
  the rows were committed. Nothing reads the ids, so only the set of rows matters.
  `started_at/ended_at` and `closed_at/reopened_at` are both `start/end`.
* `Lifecycle`: one action per branch of `transition()`. `Transition` is what all branches share
  (permission, table, timeline event, status); `Close` and `Reopen` add the checks of their
  branch. A refused request changes nothing and is a stuttering step. Its `history` leaves out
  the actor, which no property there is about.
* `LifecycleRequests`: a request is a record with a program counter. `Begin` is
  `get_current_user`'s query, with which the transaction starts (PostgreSQL's `now()`, hence
  the timeline's `created_at`, is that moment); `Load` reads the ticket; `Authorize` is the head of
  `transition()`, where the service takes its own `now`; `Select` is the `one()` on open periods;
  `Commit` is the flush of the whole unit of work. PostgreSQL runs READ COMMITTED: each
  statement sees what is committed by then, and a transaction's writes appear at its commit.
  The ORM updates a row by primary key and sets only the attributes that changed, with no check
  on old values. The `refresh` after a commit and the page after a refusal change nothing.
  `overlapped` is a history variable: whether two requests have ever been in flight at once.
* `TeamRequests`: a request carries the **copy** of the ticket its session loaded (columns at
  `Begin`, collaborators, lazily, at `Authorize`) and decides on it; its commit writes the columns
  that differ from the copy (`Written`) and one association row (`AssociationsAfter`). An insert
  of an existing row breaks the primary key and a delete of a missing row is an ORM
  `StaleDataError`; both are uncaught and answered 500. `edit` with the details it loaded is also
  `reassign_ticket`, the per-ticket call of bulk reassign. `Details` stands for the five other
  columns together. A reply (`CommitReply`) is inserted with its timeline event in one commit,
  which also writes nothing of the ticket; `MaxReplies` bounds them.
* `SlaAlerts`: `Listed` is the loop body of `list_alerts`. `Acknowledge` reads the permission, the epoch
  and the existing row; `InsertAck` commits. `seen` is a history variable: which alert was shown to
  whom. It is also what lets a user acknowledge at all, at any later time, since the only form is on
  the alerts page. The 0.9 of the at-risk threshold is given as the least clock reading that
  reaches it, one constant per priority.

* `BulkActions`: the loop is `Get`, `Check`, `Select`, `Commit`, `Refresh` for a line that succeeds,
  `Refuse` or `NotFound` for one that does not, and `failed` when `one()` raises. The session's
  identity map is `held` and `copy`: a commit or rollback expires everything, and the `refresh` or
  the `ticket.subject` after it reads that one ticket again, so a line that repeats the id just
  handled works on that copy. Others move and reassign tickets in one step; how that looks inside
  is the subject of `LifecycleRequests` and `TeamRequests`. `commits` and `was` are history variables.
  The periods that a race or an upgrade
  leaves are initial states here (`PeriodsOf`): a Resolved ticket can have one in progress, two, after a
  race, or none, if it was Resolved when revision `0195f8a5916d` added their table; and one can be left
  over on a ticket that has moved on. The `UPDATE` of a reassignment writes the one column that
  changed (`Reassigned`).
* `QueueSearch`: the queries are operators on a table, a function from ids to rows: `JoinedRows` is
  the outer join with the collaborators, `Matching` the `DISTINCT` ids, `Page` the `LIMIT` and
  `OFFSET`. The reader's request is two actions, `CountMatches` and `ReadPage`, because it is two
  statements, and going on with Next is the next request. Any commit of another request can fall
  between any two of them; it is given as one step, since its inside is the subject of other
  modules, with timestamps that need not be the newest, because `now()` is the start of a
  transaction. Whether the clock of a ticket has reached its target is a column here (`overdue`).
  `walk.stayed`, `grew_only`, `shrank_only` and `torn`, and `changes`, are history.
* `Dashboard`: one operator per figure, all of them over one table. In the code each is a
  statement of its own, so a dashboard drawn while others commit may show figures of different
  moments; nothing promises otherwise.
* `Deployment`: `Upgrade` is all of `upgrade head` at once, because `alembic/env.py` runs the
  revisions in one transaction and PostgreSQL rolls back DDL. The seed is one action per commit:
  `SeedUser`, `CountTickets` (the early return), and then the calls of `Script`, the list of calls
  that `seed_tickets` makes for one entry of its data, each accepted or refused as its service
  would (`Accepts`). `Crash` can come before any of them, and the build can be started again. Times
  are in minutes. `Init` is a database that any earlier revision can have left, with none or one
  ticket: before the period tables there was no way to change a status, so such a ticket is New
  (`docs/ai-prompts.md:89`), and one Resolved before the last revision has no resolved period,
  because there was no table for it. Nobody uses the application while it is built.
* `ConnectionPool`: a request runs `get_current_user` on a thread, then its route on a thread. A
  page takes a second connection for its template while the first is held; a form post gives its
  connection back with `commit()` and takes one for `refresh()`, and the forms in `Panels` (a status
  move, when refused; archive and restore; the bulk actions) may then be answered with a page too.
  Users are signed in; the login and home pages, whose sessions hold at most the template's
  connection, are left out. From the libraries as pinned in
  `requirements.txt` and used with their defaults: plain functions run in anyio's thread pool (40
  threads, served in order), the exit of a `yield` dependency does not wait for one of these
  threads, and the engine has 5 connections and 10 more in overflow, waited for at most 30 seconds.
  A timeout is possible only while the pool is exhausted. `CloseInjected` and `Close` are the two
  `finally`s: they come whether what they follow returned or raised, so a look-up that fails with
  both connections held is the step from `rendering` to `close` too.

## 3. What the runs check

Only `pool` checks liveness, under weak fairness of each running request (`Proceed`: a thread goes
on, and a wait for a connection ends at the latest at its timeout) and strong fairness of getting
a thread (`GetThread`: anyio serves the queue in order, so a request is not passed over for ever)
and of `Refresh`, because a batch is a finite list and does not go on to a next line for ever.
Nothing is assumed of users, who may never click. `pool` and `deployment` also check for deadlock.
`CHECK_DEADLOCK FALSE` in the others: the bounds on clock, events and changes stop each model, a
ticket closed past its window rightly stops for ever, and a batch ends.

| run | instance | shows |
|---|---|---|
| `lifecycle` | 1 supervisor, 2 agents, window 2, time 5, 8 moves | open periods match the status (`OpenPeriodsMatchStatus`); no instant in two periods; closed for good after the window; past readings are final; the clock is a stopwatch |
| `racing_requests` | 2 workers, 1 supervisor, 1 agent, 5 events | what survives every interleaving: the clock never runs while waiting, ticket, timeline and logs account for one another, the window holds; and until two requests overlap: no 500 (`ErrorsNeedOverlap`), the timeline ends at the status, and the requests implement `Lifecycle` |
| `racing_team` | 2 workers, 1 supervisor, 2 agents, 3 committed reassignments, 1 reply | only supervisors reassign, even against stale edits; no collaborator change lost; the last event is the assignee and none names an assignee the ticket never had (`RecordsNameAssignees`), though overlapping reassignments can leave a gap; a request that was not overtaken is authorized at its commit (replies included) and does not fail |
| `alerts` | 1 supervisor, 1 agent, 2 priorities, 7 moves | alerts return after each of two reopens; only one's own acknowledgement clears an alert; it holds until a reopen |
| `bulk` | 1 supervisor, 2 agents, 2 tickets and a missing id, selections of two and three lines with repeated ids, 2 moves by others | the report is true of what was committed; every outcome had a reason; an agent's batch commits nothing, however tickets are reassigned under it; three ways to fail (`FailsForAReason`: a Resolved ticket without a period in progress, one with two, one that somebody changed after it was read); and nobody makes a ticket Resolved without a period (`NobodyStrandsATicket`) |
| `pool` | 2 pages, a form that may be answered with a page and one that is not, against 3 connections and 3 threads | nothing leaks, every request answered, though requests do wait in a ring until a timeout; a ring takes the whole pool (`GridlockTakesThePool`) |
| `reports` | 3 tickets at most, 1 supervisor, 2 agents, 4 tables, 4 queries with pages of one and two, 2 changes meanwhile | arrivals make a reader pass over nothing unless one falls between count and page; departures repeat nothing; an undisturbed walk is the export; every list agrees with the detail page; dashboard, queue and export agree; a resolution is in exactly one week |
| `deployment` | the data of `seed.py` itself, over what any earlier revision may have left, any number of kills | no demo ticket twice; every ticket has an agent with an account; a build fails for good only where there are tickets and no agent; every ticket can leave its status (but one that was Resolved when its period table was added); the demo tickets are what the data and its comments say, response clock included |

The runs that end in a counterexample are disagreements between code and documentation:

| run | what happens |
|---|---|
| `wedged_ticket` | two overlapping Open → Pending leave two open rows; Pending → Open then fails with 500 at every attempt. (The same race, with a stale move out of New, leaves a period open on an Open ticket, whose response clock then stands still; and since the timeline is sorted by transaction start, its last change need not be the current status.) |
| `stale_page` | acknowledging from a page loaded before a reopen hides the breach after it, never shown |
| `double_role` | reassigning to a collaborator makes one agent assignee and collaborator, which `add_collaborator` refuses |
| `batch_fails` | a ticket closed by someone else under a bulk close makes it answer 500, without a report on the tickets it had closed |

**Bounds.** Eight moves are two full rounds of open, resolve, close and reopen, so that a
second round meets the rows of the first; five units of time let the window of two both hold
and lapse after a period of non-zero length. Two workers are enough for every conflict of
`transition()` and of the team services, each of which is between one read and one
write; the theorems on `TeamRequests` confirm it for any number. In `racing_requests` five
events (committed or in flight) reach a reopen with another request in flight. In `alerts`
seven moves reach the second reopen, and the urgent target is passed within the time. In `bulk`
two moves by others can undo and redo what a line does (close and reopen, reassign twice), and
the theorems hold for any number; the second ticket of that instance is only Open or Resolved, has
no collaborators and neither a left-over nor a second period, the first is anything. `batch_fails`
starts with the periods that the statuses call for, so that only the race is left to blame. In `pool` both limits are below the number of tabs, so
that every wait happens, and three requests at their templates form a ring. In `reports` three
tickets on pages of one are three requests, so that a change can come before, within and after
the one in the middle; two changes can undo each other, or first add and then remove; its instants
are a Monday and a moment within each of the weeks around it. In `deployment` nothing is bounded: the data is finite, and one older
ticket is enough, since no step looks at two. All
bounds are constants named `Max...` and appear only as guards of the actions they cap.
Symmetry is over agents, workers and details, which the specifications never tell apart, and only
in `racing_requests`, `racing_team`, `bulk` and `batch_fails`, whose properties are invariants or
about single steps.

## 4. What is proved

`Lifecycle_proofs` (any users, window and bounds). The safety invariants are not inductive one by
one. The inductive invariant is `IInv`: types, `OpenPeriodsMatchStatus`, and `PeriodsInThePast`
(every row has started by now and, if it has ended, ended between its start and now). The middle
part is what makes `one()` succeed; the last is what makes a new row, which starts now, disjoint
from all the old ones, so that `PeriodsNeverOverlap` can be carried along step by step.
From it follow `OpenRowsFollowStatus`, `NoInstantTwice` and `ClosedStaysClosed`, and, stated only
as theorems, `TypeCorrect`, `EndedRowsAreFinal`, `ReopensAreTimely`, `ResolvedAtIsNewest` and
`TimelineIsAWalk`. Lemmas about the two writes (`StartPeriodFacts`, `EndPeriodFacts`, ...) come first.
`PastReadingsStand` says that a reading of the clock as of an earlier instant is final: a step can
only start a row now or end one now, so each row, clipped to an instant already past, counts as
before. What holds row by row holds of the sum over a log because a recursive function has least
counterexamples: the first partial sum to differ would follow one that does not. `ClockIsAStopwatch`
is the refinement of `ResponseClock`. Its steps need one more invariant, `NeverNegative`: a tick
adds to exactly one log or, when the clock runs, to none, and a move adds to none, so what is
excluded never exceeds the age of the ticket, and the code's rounding up to zero never hides a step.

`LifecycleRequests_proofs` (any number of workers). What holds of every interleaving rests on
types, on what a request has read by each of its steps (`Ready`), and on `HoldsRow`: a request about
to commit holds a row of the log its move leaves, for a reopen one within the window. From these:
`TypeCorrect`, `ClockStops`, `ReopensAreTimely`, `TimelineAccounts` and, stated only as a theorem,
`EpochRises`. For the states before two
requests overlap there is a second invariant, `SerialInv`: at most one request is in flight
(`Alone`), the logs match the status, the timeline's dates ascend, and what the request has read is
still so (`InStep`). From it `ServerErrorsNeedOverlap` and `TimelineEnds`, and with `StampInv` (a
request's stamp is not in the future and its actor may make the move) the refinement
`RequestsImplementLifecycle`.

`SlaAlerts_proofs` (any users, priorities and targets). First that every behaviour of the alerts is
one of `Lifecycle`, so that its theorems can be used. The invariant of its own is `NoAckAhead`: no
acknowledgement, committed or about to be, is of an epoch beyond the current one. With the
lemma that the epoch rises at a reopen and only there: `AlertReturns` and `AcksHold`; and
`AlertsTypeCorrect`, stated only as a theorem. `OnlyOwnAckClears` needs besides that the reading of an active ticket never
falls, so that an alert does not go away by itself; it takes this from the clock's lemmas.

`TeamRequests_proofs` (any users, any number of workers). The inductive invariant adds to the
types that a request about to commit passed its checks **on the copy it holds**
(`CommitsPermitted`); that nothing is said about the copy being current is the point. From it:
`TypeCorrect`, `SupervisorsReassign`, `ReassignmentsAccount`, `NamedCollaboratorOnly`; and, for a
request whose copy still has the ticket's team, `CurrentCommitsAuthorized` and `FailureIsOvertaking`.
`RecordsAreOfAssignees` holds of overtaken requests too. Its invariant is `CopiesName`, that every copy
in flight names an assignee the timeline tells of (`AssigneesSoFar`); that set never loses anybody,
because the assignee a commit replaces is the new one of the event before it, or the old one of its own.

`ConnectionPool_proofs` (any tabs, pool and threads). The inductive invariant says at which steps
a connection is held: the first from `resolved` to `close`, except around `refresh`; the second only
while `rendering`. The counts follow from facts on finite sets. From it: `TypeCorrect`,
`ConnectionsReturn`, `RingsTakeThePool` (if everybody waits, nobody has a second connection and a
form that waits to refresh has none, so the holders wait for their template's connection, or for
their second thread, and they hold the whole pool), and from that `HeadroomSuffices`: fewer requests
that can be shown a page than connections, and a thread for every tab, form no ring. With the defaults
that is 14 at a time,
however many of the other forms are posted.

`BulkActions_proofs` (any tickets, selection and moves by others). The inductive invariant has the
position of the loop against the report, which lines have committed (only those behind, and the
current one from `Commit` to `Refresh`), that what was checked about rights does not depend on the
copy's age, and that a copy nobody overtook has the ticket's status. Nothing is assumed of the periods
a Resolved ticket starts with. From it: `TypeCorrect`, `ReportIsTrue`, `AgentsBatchesChangeNothing`,
`ThreeWaysToFail` and `NoTicketIsStranded`. `LinesHaveReasons`, that every outcome in the report had a
reason in what the ticket once was, needs a second invariant: a copy is one of the rows that its
ticket was since the batch began (`CopyWasTrue`), and so each line's reason is too (`Reasons`).

`Reports_proofs` (any tickets, queries and changes, any length of a week). `ListsAgree` is about the two ways the scope
is written and needs only types. What a reader meets needs positions: a ticket's position is one more
than the number of tickets ahead of it, so it can only rise while the result gains tickets and
only fall while it loses some. The invariant is what that makes of the pages shown so far: while the
result only gains, a ticket that stayed and was not shown is beyond the pages read; while it only
loses, one that was shown is not. `ReadersMissNothing` and `ReadersMeetNothingTwice` follow. If the
result has not changed at all, a second invariant (`QuietInv`) says that the pages shown and the
count are those of now; one after the other they are the matches by position, as the export is
(`QuietWalksReadTheExport`). `FiguresAddUp` and `WeeksAddUp` compare figures that the code adds up in
different ways. A sum over a set is a fold, and a fold is a subtotal that the set alone determines
(`SubtotalIsUnique`), so the figures of a breakdown are the cardinalities of disjoint parts of the
scope. For the weeks it takes some arithmetic besides: an instant of the last `Weeks` weeks is in
exactly one of them.

`Deployment_proofs` (any demo data that is as the assumptions ask, and whatever an earlier release left). The inductive invariant
places the seed against the tickets made: in the middle of entry n there are n tickets, or n - 1
before its create, each made from the entry of its place (`Placed`, `SeedIsAPrefix`). With it go
that the seed runs only on the last revision, that every ticket then has an assignee with an
account, and that in each ticket only the log of its status can have a row in progress, and has
one (`Fits`), which each call of the script preserves. A lemma says that a script is one create and
then other calls. From it `TypeCorrect`, `SeedStaysAPrefix`, `EveryTicketIsAssigned` and
`TicketsCanLeave`. The last two theorems follow a script call by call. `ScriptShape` says at which
position each of its calls is, `AsFarAs` what a ticket looks like before the call at a position,
and `MoveOn` that each call is accepted there and leads to the next, which is where every permission,
move and timestamp of the seed is checked. With these in the invariant (`SInv`),
`OnlyTheUpgradeFails`: no call of the seed is ever refused; and `DemoDataIsBuiltAsMeant`: at the end of
its script a ticket is as its entry says, and its clock reads what the comments say of it.

The proofs use only the assumptions named in the modules, which TLC evaluates on every instance:
`NULL` is no instant, no user and no status, the window and the bounds are natural numbers,
supervisors are users, users, workers, tabs and ticket ids are finite sets, the pool
and the threads are positive numbers, pages and posts are different tabs, panels are posts, a selection is a
non-empty list of ids and `NULL` is no id, the tables and queries a reader starts from have their types, and
the demo data has its fields, names demo users as assignees and lies in the past. The two last
theorems of `Deployment_proofs` need more of the demo data (`SeedAssumption`), and what it says is what the
next person to add an entry to `seed.py` has to keep: the first demo user is a supervisor, assignees
and collaborators are agents and not the same one, who replies is in the team or a supervisor, a Resolved or
Closed entry is at least two minutes old, every at-risk threshold is above the three hours that a
Pending entry runs, and the entries the comments name are the New and Open ones that are old
enough. TLC evaluates it on the data of `seed.py` itself.

Only model-checked: `EveryRequestAnswered`, which is liveness under fairness and out of the
prover's reach, that `pool` and `deployment` do not deadlock, and the four counterexamples. Every other
property that a run checks is stated by a theorem. No induction over data is used: where a
property is about a sum of any length, the model has it as a recursive function or a
fold over a set, and the proof either takes a least counterexample or shows another function to be that sum.

## 5. What is not modelled

Not modelled for good: accounts and the signed cookie (no state on the server; who is signed in is
an input of every request); form schemas, templates, styling and wiring (no state); password
hashing and token signing (libraries); the migrations' downgrades, which nothing runs, and the
columns and indexes that only add room. Reads that only fill a menu or sort one list
(`available_agents_for_ticket`, `list_replies_for_ticket`) are left out of the handlers, and so are free-text search and
category, two more filters like status and priority.

Abstractions that matter: one ticket at a time outside `BulkActions`, `QueueSearch` and `Deployment`
(no other operation writes a second); who is in the team is fixed in the lifecycle and alert
modules, and the status in `TeamRequests`; `list_alerts` is one step, though it runs several
queries, and so is a dashboard; only `ConnectionPool` has the pool's timeout, an error that would
also end any request of the other modules before its commit, or between its commit and its
refresh; SQLite, whose `now()` differs, is not the modelled database.

Worth doing next: a composition of `LifecycleRequests` and `TeamRequests` over one ticket (close and
reassign, a collaborator removed while moving the ticket), in which who is in the team and the status
change together, and the theorems of both on it.
