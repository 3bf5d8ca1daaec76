---------------------------- MODULE QueueSearch ----------------------------
(***************************************************************************)
(* The ticket queue (ticket_service.search_tickets behind GET /tickets)    *)
(* and the other lists, while tickets change.  A reader goes through the   *)
(* queue with the Next link; each page is a request of its own, and each   *)
(* request counts the matches in one statement and reads its page in       *)
(* another, over PostgreSQL at READ COMMITTED.  Search and category are    *)
(* two more filters like status and priority, and are left out.            *)
(***************************************************************************)
EXTENDS Permissions, TicketPeriods, FiniteSets

CONSTANTS
    TicketIds,      \* ids the sequence can hand out
    Priorities,     \* priorities in use
    Instants,       \* timestamps in use
    InitialTables,  \* what tickets may hold when the reader arrives
    Queries,        \* what the reader may ask for
    MaxChanges      \* bound on changes to the tickets meanwhile

PriorityRank == [low |-> 1, normal |-> 2, high |-> 3, urgent |-> 4]

\* A row of tickets, with the collaborators that ticket_collaborators has for it, and
\* whether its elapsed response time has reached the target of its priority.
Row == [is_archived : BOOLEAN, status : TicketStatus, priority : Priorities,
        primary_assignee_id : Agents, collaborator_ids : SUBSET Agents,
        created_at : Instants, updated_at : Instants,
        resolved_at : Instants \cup {NULL}, overdue : BOOLEAN]

IsTable(table) == DOMAIN table \subseteq TicketIds /\ table \in [DOMAIN table -> Row]

\* The arguments of GET /tickets; a filter that is not set is NULL.
Query == [viewer : Users, status : TicketStatus \cup {NULL},
          priority : Priorities \cup {NULL}, assignee_id : Users \cup {NULL},
          sort : {"created", "updated", "priority"}, direction : {"asc", "desc"},
          page_size : 1..100]

ASSUME QueueAssumption ==
    /\ IsFiniteSet(TicketIds) /\ TicketIds \subseteq Nat
    /\ Priorities \subseteq DOMAIN PriorityRank
    /\ Instants \subseteq Nat
    /\ \A table \in InitialTables : IsTable(table)
    /\ Queries \subseteq Query
    /\ MaxChanges \in Nat
    /\ NULL \notin Users

VARIABLES
    tickets,    \* the rows there are, by id
    walk,       \* the reader's way through the pages
    changes     \* history: how many times tickets has changed

vars == <<tickets, walk, changes>>
-----------------------------------------------------------------------------
(***************************************************************************)
(* The queries, over a table.                                              *)
(***************************************************************************)
\* The outer join with ticket_collaborators: a row per collaborator, or one with none.
JoinedRows_InnerJoin(table) ==
    UNION {{<<t, c>> : c \in table[t].collaborator_ids} : t \in DOMAIN table}

JoinedRows(table) ==
    UNION {{<<t, c>> : c \in IF table[t].collaborator_ids = {} THEN {NULL}
                             ELSE table[t].collaborator_ids} : t \in DOMAIN table}

Filters(q, ticket) ==
    /\ q.status # NULL => ticket.status = q.status
    /\ q.priority # NULL => ticket.priority = q.priority
    /\ q.assignee_id # NULL => ticket.primary_assignee_id = q.assignee_id

MatchingRows(table, q, archived) ==
    {row \in JoinedRows(table) :
        LET ticket == table[row[1]]
        IN  /\ ticket.is_archived = archived
            /\ \/ CanViewFullQueue(q.viewer)
               \/ ticket.primary_assignee_id = q.viewer
               \/ row[2] = q.viewer
            /\ Filters(q, ticket)}

\* matching_ticket_ids: DISTINCT makes one id of the rows of a ticket.
Matching(table, q, archived) == {row[1] : row \in MatchingRows(table, q, archived)}

Total_PerCollaborator(table, q) == Cardinality(MatchingRows(table, q, FALSE))

Total(table, q) == Cardinality(Matching(table, q, FALSE))

SortKey(q, ticket) ==
    CASE q.sort = "created"  -> ticket.created_at
      [] q.sort = "updated"  -> ticket.updated_at
      [] q.sort = "priority" -> PriorityRank[ticket.priority]

\* order_by the column, asc or desc, then id desc.
Before(table, q, a, b) ==
    LET ka == SortKey(q, table[a])
        kb == SortKey(q, table[b])
    IN  \/ IF q.direction = "asc" THEN ka < kb ELSE ka > kb
        \/ ka = kb /\ a > b

Ahead(table, q, t) == {u \in Matching(table, q, FALSE) : Before(table, q, u, t)}
Position(table, q, t) == Cardinality(Ahead(table, q, t)) + 1

Page_Inclusive(table, q, n) ==
    {t \in Matching(table, q, FALSE) :
        /\ (n - 1) * q.page_size <= Position(table, q, t)
        /\ Position(table, q, t) <= n * q.page_size}

\* limit page_size offset (page - 1) * page_size.
Page(table, q, n) ==
    {t \in Matching(table, q, FALSE) :
        /\ (n - 1) * q.page_size < Position(table, q, t)
        /\ Position(table, q, t) <= n * q.page_size}

TotalPages_RoundsDown(q, total) ==
    IF total < q.page_size THEN 1 ELSE total \div q.page_size

\* max(1, ceil(total / page_size)).
TotalPages(q, total) ==
    IF total = 0 THEN 1 ELSE (total + q.page_size - 1) \div q.page_size

\* all_matching_tickets, the rows of the CSV export, in its order.
AllMatching(table, q) ==
    LET matching == Matching(table, q, FALSE)
    IN  [i \in 1..Cardinality(matching) |->
            CHOOSE t \in matching : Position(table, q, t) = i]

\* list_my_tickets: the same scope, written again.
MyTickets(table, user, archived) ==
    {row[1] : row \in {r \in JoinedRows(table) :
        /\ table[r[1]].is_archived = archived
        /\ table[r[1]].primary_assignee_id = user \/ r[2] = user}}

\* list_tickets, behind GET /tickets/archived.
ListTickets(table, viewer, archived) ==
    IF CanViewFullQueue(viewer) THEN {t \in DOMAIN table : table[t].is_archived = archived}
    ELSE MyTickets(table, viewer, archived)
-----------------------------------------------------------------------------
(***************************************************************************)
(* The reader.  pages are the pages shown so far; stayed are the tickets   *)
(* that have matched since the walk began; grew_only and shrank_only say   *)
(* that since then the result has only gained, or only lost, tickets; torn *)
(* that it changed between the two statements of one request.  The last    *)
(* four are history.                                                       *)
(***************************************************************************)
Walk == [query : Queries, pc : {"count", "page", "done"}, page : Nat, total : Nat,
         pages : Seq(SUBSET TicketIds), stayed : SUBSET TicketIds,
         grew_only : BOOLEAN, shrank_only : BOOLEAN, torn : BOOLEAN]

Init ==
    /\ tickets \in InitialTables
    /\ \E q \in Queries :
         walk = [query |-> q, pc |-> "count", page |-> 1, total |-> 0, pages |-> <<>>,
                 stayed |-> Matching(tickets, q, FALSE),
                 grew_only |-> TRUE, shrank_only |-> TRUE, torn |-> FALSE]
    /\ changes = 0

CountMatches ==
    /\ walk.pc = "count"
    /\ walk' = [walk EXCEPT !.pc = "page", !.total = Total(tickets, walk.query)]
    /\ UNCHANGED <<tickets, changes>>

\* The page is read and shown; the reader goes on while its Next link is enabled.
ReadPage ==
    LET more == walk.page < TotalPages(walk.query, walk.total)
    IN  /\ walk.pc = "page"
        /\ walk' = [walk EXCEPT
             !.pages = Append(@, Page(tickets, walk.query, walk.page)),
             !.pc = IF more THEN "count" ELSE "done",
             !.page = IF more THEN @ + 1 ELSE @]
        /\ UNCHANGED <<tickets, changes>>

KeepsOrder(ids, table) ==
    \A a, b \in ids : Before(tickets, walk.query, a, b) <=> Before(table, walk.query, a, b)

\* A commit of another request, and what the walk's history has to say of it.
Change(table) ==
    LET old == Matching(tickets, walk.query, FALSE)
        new == Matching(table, walk.query, FALSE)
    IN  /\ changes < MaxChanges
        /\ walk.pc # "done"
        /\ changes' = changes + 1
        /\ tickets' = table
        /\ walk' = [walk EXCEPT
             !.stayed = @ \cap new,
             !.grew_only = @ /\ old \subseteq new /\ KeepsOrder(old, table),
             !.shrank_only = @ /\ new \subseteq old /\ KeepsOrder(new, table),
             !.torn = @ \/ walk.pc = "page"]

With(t, row) == [u \in DOMAIN tickets \cup {t} |-> IF u = t THEN row ELSE tickets[u]]
-----------------------------------------------------------------------------
(***************************************************************************)
(* The commits of other requests.  Who may make them is the subject of     *)
(* TeamRequests and Lifecycle; here a supervisor makes them.  created_at   *)
(* and updated_at are now(), the time a transaction began, so they need    *)
(* not be the newest in the table when it commits.                         *)
(***************************************************************************)
\* create_ticket: an agent is the assignee, whoever creates it.
Create(t, priority, assignee, at) ==
    /\ t \notin DOMAIN tickets
    /\ Change(With(t, [is_archived |-> FALSE, status |-> "new", priority |-> priority,
                       primary_assignee_id |-> assignee, collaborator_ids |-> {},
                       created_at |-> at, updated_at |-> at,
                       resolved_at |-> NULL, overdue |-> FALSE]))

\* update_ticket, reassign_ticket.  Another priority has another target.
Edit(t, priority, assignee, at) ==
    /\ \/ priority # tickets[t].priority
       \/ assignee # tickets[t].primary_assignee_id
    /\ \E overdue \in IF priority = tickets[t].priority THEN {tickets[t].overdue} ELSE BOOLEAN :
         Change(With(t, [tickets[t] EXCEPT
             !.priority = priority, !.primary_assignee_id = assignee,
             !.overdue = overdue, !.updated_at = at]))

\* transition(): resolved_at is the time it read, which is not before its transaction.
ChangeStatus(t, new_status, at) ==
    /\ new_status \in AllowedTransitions[tickets[t].status]
    /\ \E now \in {i \in Instants : i >= at} :
         Change(With(t, [tickets[t] EXCEPT
             !.status = new_status, !.updated_at = at,
             !.resolved_at = IF new_status = "resolved" THEN now ELSE @]))

\* archive_ticket and restore_ticket.
Archive(t, is_archived, at) ==
    /\ is_archived # tickets[t].is_archived
    /\ Change(With(t, [tickets[t] EXCEPT !.is_archived = is_archived, !.updated_at = at]))

\* add_collaborator and remove_collaborator write no column of the ticket.
AddCollaborator(t, user) ==
    /\ user \notin tickets[t].collaborator_ids \cup {tickets[t].primary_assignee_id}
    /\ Change(With(t, [tickets[t] EXCEPT !.collaborator_ids = @ \cup {user}]))

RemoveCollaborator(t, user) ==
    /\ user \in tickets[t].collaborator_ids
    /\ Change(With(t, [tickets[t] EXCEPT !.collaborator_ids = @ \ {user}]))

\* Time passes, and a ticket whose clock runs reaches its target.
BecomeOverdue(t) ==
    /\ ClockRuns(tickets[t].status) /\ ~ tickets[t].overdue
    /\ Change(With(t, [tickets[t] EXCEPT !.overdue = TRUE]))

Next ==
    \/ CountMatches
    \/ ReadPage
    \/ \E t \in TicketIds, priority \in Priorities, user \in Agents, at \in Instants :
         Create(t, priority, user, at)
    \/ \E t \in DOMAIN tickets :
         \/ \E priority \in Priorities, user \in Agents, at \in Instants :
              Edit(t, priority, user, at)
         \/ \E new_status \in TicketStatus, at \in Instants : ChangeStatus(t, new_status, at)
         \/ \E is_archived \in BOOLEAN, at \in Instants : Archive(t, is_archived, at)
         \/ \E user \in Agents : AddCollaborator(t, user) \/ RemoveCollaborator(t, user)
         \/ BecomeOverdue(t)

Spec == Init /\ [][Next]_vars
-----------------------------------------------------------------------------
TypeOK ==
    /\ IsTable(tickets)
    /\ walk \in Walk
    /\ changes \in Nat

Shown == UNION {walk.pages[n] : n \in DOMAIN walk.pages}

\* New tickets push the others towards later pages, so a reader may meet one twice, but
\* passes over none that was there all along.  Not so if one arrives between the count
\* and the page of one request: then the total is too low and Next may be missing.
ArrivalsHideNothing ==
    walk.pc = "done" /\ walk.grew_only /\ ~ walk.torn => walk.stayed \subseteq Shown

\* Tickets that leave the result pull the others forward, so a reader may pass over one,
\* but meets none twice, whichever statements the departures fall between.
DeparturesRepeatNothing ==
    walk.shrank_only =>
        \A m, n \in DOMAIN walk.pages : m # n => walk.pages[m] \cap walk.pages[n] = {}

\* If the result has not changed, the pages one after the other are the CSV export: each
\* match once, in order, every page but the last full, as many pages and matches as shown.
QuietWalkIsExport ==
    walk.pc = "done" /\ walk.grew_only /\ walk.shrank_only =>
        LET export == AllMatching(tickets, walk.query)
        IN  /\ Len(walk.pages) = TotalPages(walk.query, walk.total)
            /\ walk.total = Len(export)
            /\ \A n \in DOMAIN walk.pages :
                 walk.pages[n] = {export[i] : i \in {j \in DOMAIN export :
                     (n - 1) * walk.query.page_size < j /\ j <= n * walk.query.page_size}}

Unfiltered(viewer) == [viewer |-> viewer, status |-> NULL, priority |-> NULL,
                       assignee_id |-> NULL, sort |-> "created", direction |-> "desc",
                       page_size |-> 20]

\* Every list agrees with can_view_ticket, the rule of the detail page: a ticket that a
\* user may open is on exactly one of the queue and the archive, and no other is on either.
ListsMatchDetailPage ==
    \A viewer \in Users, t \in DOMAIN tickets, archived \in BOOLEAN :
        LET visible == CanViewTicket(viewer, tickets[t]) /\ tickets[t].is_archived = archived
        IN  /\ t \in ListTickets(tickets, viewer, archived) <=> visible
            /\ t \in Matching(tickets, Unfiltered(viewer), archived) <=> visible
=============================================================================
