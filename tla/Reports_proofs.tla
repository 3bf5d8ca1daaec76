--------------------------- MODULE Reports_proofs ---------------------------
(***************************************************************************)
(* Proofs about the queue, the export and the dashboard, for any tables,   *)
(* any query, any page size, any length of a week and any number of        *)
(* changes while somebody reads.                                           *)
(***************************************************************************)
EXTENDS Dashboard, FiniteSetTheorems, TLAPS

\* The matches of the reader's query in a table.
Matches(table) == Matching(table, walk.query, FALSE)

(***************************************************************************)
(* The queries.                                                            *)
(***************************************************************************)
LEMMA MatchesAreRows ==
    ASSUME NEW table, NEW q, NEW archived
    PROVE  Matching(table, q, archived) \subseteq DOMAIN table
<1>1. ASSUME NEW row \in JoinedRows(table) PROVE row[1] \in DOMAIN table
  BY <1>1 DEF JoinedRows
<1>. QED
  BY <1>1 DEF Matching, MatchingRows

LEMMA MatchesFinite ==
    ASSUME NEW table, IsTable(table), NEW q, NEW archived
    PROVE  /\ Matching(table, q, archived) \subseteq TicketIds
           /\ IsFiniteSet(Matching(table, q, archived))
<1>1. Matching(table, q, archived) \subseteq TicketIds
  BY MatchesAreRows DEF IsTable
<1>. QED
  BY <1>1, FS_Subset, QueueAssumption

LEMMA AheadFinite ==
    ASSUME NEW table, IsTable(table), NEW q, NEW t
    PROVE  /\ Ahead(table, q, t) \subseteq Matching(table, q, FALSE)
           /\ IsFiniteSet(Ahead(table, q, t))
           /\ Position(table, q, t) \in Nat
<1>1. Ahead(table, q, t) \subseteq Matching(table, q, FALSE)
  BY DEF Ahead
<1>2. IsFiniteSet(Ahead(table, q, t))
  BY <1>1, MatchesFinite, FS_Subset
<1>. DEFINE n == Cardinality(Ahead(table, q, t))
<1>3. n \in Nat
  BY <1>2, FS_CardinalityType
<1>4. Position(table, q, t) = n + 1
  BY DEF Position
<1>. HIDE DEF n
<1>5. Position(table, q, t) \in Nat
  BY <1>3, <1>4
<1>. QED
  BY <1>1, <1>2, <1>5

\* No ticket comes before itself.
LEMMA BeforeIsStrict ==
    ASSUME NEW table, IsTable(table), NEW q \in Query, NEW t \in DOMAIN table
    PROVE  ~ Before(table, q, t, t)
<1>1. table[t] \in Row
  BY DEF IsTable
<1>2. /\ table[t].created_at \in Nat /\ table[t].updated_at \in Nat
      /\ table[t].priority \in DOMAIN PriorityRank
  BY <1>1, QueueAssumption DEF Row
<1>3. PriorityRank[table[t].priority] \in Nat
  BY <1>2 DEF PriorityRank
<1>4. q.sort \in {"created", "updated", "priority"}
  BY DEF Query
<1>5. SortKey(q, table[t]) \in Nat
  BY <1>2, <1>3, <1>4 DEF SortKey
<1>6. t \in Nat
  BY QueueAssumption DEF IsTable
<1>. QED
  BY <1>5, <1>6 DEF Before

\* A match's position is at most the number of matches.
LEMMA PositionBound ==
    ASSUME NEW table, IsTable(table), NEW q \in Query, NEW t \in Matching(table, q, FALSE)
    PROVE  /\ Total(table, q) \in Nat
           /\ Position(table, q, t) <= Total(table, q)
<1>. DEFINE M == Matching(table, q, FALSE)
<1>1. IsFiniteSet(M) /\ t \in DOMAIN table
  BY MatchesFinite, MatchesAreRows
<1>2. Ahead(table, q, t) \subseteq M \ {t}
  BY <1>1, BeforeIsStrict DEF Ahead
<1>3. IsFiniteSet(M \ {t}) /\ Cardinality(M \ {t}) = Cardinality(M) - 1
  BY <1>1, FS_RemoveElement
<1>4. Cardinality(Ahead(table, q, t)) <= Cardinality(M \ {t})
  BY <1>2, <1>3, FS_Subset
<1>5. Cardinality(M) \in Nat /\ Cardinality(Ahead(table, q, t)) \in Nat
  BY <1>1, AheadFinite, FS_CardinalityType
<1>. DEFINE m == Cardinality(M)
            n == Cardinality(Ahead(table, q, t))
<1>6. n <= m - 1 /\ m \in Nat /\ n \in Nat
  BY <1>3, <1>4, <1>5
<1>7. Total(table, q) = m /\ Position(table, q, t) = n + 1
  BY DEF Position, Total
<1>. HIDE DEF m, n
<1>. QED
  BY <1>6, <1>7

\* If all that was ahead of a ticket still is, it has not moved forward.
LEMMA PositionGrows ==
    ASSUME NEW old, IsTable(old), NEW new, IsTable(new), NEW q, NEW t,
           Ahead(old, q, t) \subseteq Ahead(new, q, t)
    PROVE  Position(old, q, t) <= Position(new, q, t)
<1>1. Cardinality(Ahead(old, q, t)) <= Cardinality(Ahead(new, q, t))
  BY AheadFinite, FS_Subset
<1>2. Cardinality(Ahead(old, q, t)) \in Nat /\ Cardinality(Ahead(new, q, t)) \in Nat
  BY AheadFinite, FS_CardinalityType
<1>. DEFINE m == Cardinality(Ahead(old, q, t))
            n == Cardinality(Ahead(new, q, t))
<1>3. m <= n /\ m \in Nat /\ n \in Nat
  BY <1>1, <1>2
<1>4. Position(old, q, t) = m + 1 /\ Position(new, q, t) = n + 1
  BY DEF Position
<1>. HIDE DEF m, n
<1>. QED
  BY <1>3, <1>4

LEMMA PagesAreWhole ==
    ASSUME NEW q, q.page_size \in Nat \ {0}, NEW total \in Nat
    PROVE  TotalPages(q, total) \in Int
BY DEF TotalPages

\* total_pages pages have room for total tickets.
LEMMA PagesSuffice ==
    ASSUME NEW q, q.page_size \in Nat \ {0}, NEW total \in Nat, NEW n \in Nat,
           n >= TotalPages(q, total)
    PROVE  total <= n * q.page_size
<1>. DEFINE d == q.page_size
            a == total + d - 1
<1>1. CASE total = 0
  BY <1>1
<1>2. CASE total # 0
  <2>1. n >= a \div d
    BY <1>2 DEF TotalPages
  <2>2. d \in Nat /\ d > 0 /\ a \in Nat
    OBVIOUS
  <2>. HIDE DEF d, a
  <2>3. /\ (a \div d) \in Int
        /\ a = d * (a \div d) + (a % d)
        /\ a % d \in 0..(d - 1)
    BY <2>2, Z3
  <2>4. d * (a \div d) <= n * d
    BY <2>1, <2>2, <2>3, Z3
  <2>5. a - (d - 1) <= n * d
    BY <2>2, <2>3, <2>4
  <2>. QED
    BY <2>2, <2>5 DEF a, d
<1>. QED
  BY <1>1, <1>2
-----------------------------------------------------------------------------
(***************************************************************************)
(* Types.                                                                  *)
(***************************************************************************)
LEMMA TypedRow == ASSUME IsTable(tickets), NEW t \in DOMAIN tickets PROVE tickets[t] \in Row
BY DEF IsTable

LEMMA TypedWith ==
    ASSUME IsTable(tickets), NEW t \in TicketIds, NEW row \in Row
    PROVE  IsTable(With(t, row))
BY DEF IsTable, With

\* Every commit of another request replaces the table by a table.
LEMMA ChangesAreTables ==
    ASSUME IsTable(tickets), Next
    PROVE  \/ CountMatches \/ ReadPage
           \/ \E table : IsTable(table) /\ Change(table)
<1>1. ASSUME NEW t \in TicketIds, NEW priority \in Priorities, NEW user \in Agents,
             NEW at \in Instants, Create(t, priority, user, at)
      PROVE  \E table : IsTable(table) /\ Change(table)
  <2>. DEFINE row == [is_archived |-> FALSE, status |-> "new", priority |-> priority,
                      primary_assignee_id |-> user, collaborator_ids |-> {},
                      created_at |-> at, updated_at |-> at,
                      resolved_at |-> NULL, overdue |-> FALSE]
  <2>1. row \in Row
    BY <1>1 DEF Row, TicketStatus
  <2>2. Change(With(t, row))
    BY <1>1 DEF Create
  <2>. HIDE DEF row
  <2>. QED
    BY <2>1, <2>2, TypedWith
<1>. SUFFICES ASSUME NEW t \in DOMAIN tickets,
                     \E row \in Row : Change(With(t, row))
              PROVE  \E table : IsTable(table) /\ Change(table)
  <2>. SUFFICES ASSUME NEW t \in DOMAIN tickets,
           \/ \E priority \in Priorities, user \in Agents, at \in Instants :
                Edit(t, priority, user, at)
           \/ \E new_status \in TicketStatus, at \in Instants : ChangeStatus(t, new_status, at)
           \/ \E is_archived \in BOOLEAN, at \in Instants : Archive(t, is_archived, at)
           \/ \E user \in Agents : AddCollaborator(t, user) \/ RemoveCollaborator(t, user)
           \/ BecomeOverdue(t)
         PROVE  \E row \in Row : Change(With(t, row))
    BY <1>1 DEF Next
  <2>1. tickets[t] \in Row
    BY TypedRow
  <2>2. ASSUME NEW priority \in Priorities, NEW user \in Agents, NEW at \in Instants,
               Edit(t, priority, user, at)
        PROVE  \E row \in Row : Change(With(t, row))
    <3>1. PICK overdue \in BOOLEAN :
            Change(With(t, [tickets[t] EXCEPT
              !.priority = priority, !.primary_assignee_id = user,
              !.overdue = overdue, !.updated_at = at]))
      BY <2>1, <2>2 DEF Edit, Row
    <3>2. [tickets[t] EXCEPT !.priority = priority, !.primary_assignee_id = user,
             !.overdue = overdue, !.updated_at = at] \in Row
      BY <2>1 DEF Row
    <3>. QED
      BY <3>1, <3>2
  <2>3. ASSUME NEW new_status \in TicketStatus, NEW at \in Instants,
               ChangeStatus(t, new_status, at)
        PROVE  \E row \in Row : Change(With(t, row))
    <3>1. PICK now \in Instants :
            Change(With(t, [tickets[t] EXCEPT
              !.status = new_status, !.updated_at = at,
              !.resolved_at = IF new_status = "resolved" THEN now ELSE @]))
      BY <2>3 DEF ChangeStatus
    <3>2. [tickets[t] EXCEPT !.status = new_status, !.updated_at = at,
              !.resolved_at = IF new_status = "resolved" THEN now ELSE @] \in Row
      BY <2>1 DEF Row
    <3>. QED
      BY <3>1, <3>2
  <2>4. ASSUME NEW is_archived \in BOOLEAN, NEW at \in Instants, Archive(t, is_archived, at)
        PROVE  \E row \in Row : Change(With(t, row))
    <3>1. [tickets[t] EXCEPT !.is_archived = is_archived, !.updated_at = at] \in Row
      BY <2>1 DEF Row
    <3>. QED
      BY <2>4, <3>1 DEF Archive
  <2>5. ASSUME NEW user \in Agents, AddCollaborator(t, user)
        PROVE  \E row \in Row : Change(With(t, row))
    <3>1. [tickets[t] EXCEPT !.collaborator_ids = @ \cup {user}] \in Row
      BY <2>1 DEF Row
    <3>. QED
      BY <2>5, <3>1 DEF AddCollaborator
  <2>6. ASSUME NEW user \in Agents, RemoveCollaborator(t, user)
        PROVE  \E row \in Row : Change(With(t, row))
    <3>1. [tickets[t] EXCEPT !.collaborator_ids = @ \ {user}] \in Row
      BY <2>1 DEF Row
    <3>. QED
      BY <2>6, <3>1 DEF RemoveCollaborator
  <2>7. ASSUME BecomeOverdue(t) PROVE \E row \in Row : Change(With(t, row))
    <3>1. [tickets[t] EXCEPT !.overdue = TRUE] \in Row
      BY <2>1 DEF Row
    <3>. QED
      BY <2>7, <3>1 DEF BecomeOverdue
  <2>. QED
    BY <2>2, <2>3, <2>4, <2>5, <2>6, <2>7
<1>2. t \in TicketIds
  BY DEF IsTable
<1>. QED
  BY <1>2, TypedWith

\* What each step does to the reader.
LEMMA CountSteps ==
    ASSUME TypeOK, CountMatches
    PROVE  /\ walk' \in Walk
           /\ walk.pc = "count" /\ walk'.pc = "page"
           /\ walk'.total = Total(tickets, walk.query)
           /\ \A field \in {"query", "page", "pages", "stayed", "grew_only", "shrank_only", "torn"} :
                walk'[field] = walk[field]
           /\ UNCHANGED <<tickets, changes>>
<1>1. Total(tickets, walk.query) \in Nat
  BY MatchesFinite, FS_CardinalityType DEF TypeOK, Total
<1>. DEFINE total == Total(tickets, walk.query)
<1>2. walk' = [walk EXCEPT !.pc = "page", !.total = total]
  BY DEF CountMatches
<1>. HIDE DEF total
<1>3. walk \in Walk
  BY DEF TypeOK
<1>4. walk' \in Walk
  BY <1>1, <1>2, <1>3 DEF Walk, total
<1>5. /\ walk'.pc = "page" /\ walk'.total = total
      /\ walk'.query = walk.query /\ walk'.page = walk.page /\ walk'.pages = walk.pages
      /\ walk'.stayed = walk.stayed /\ walk'.grew_only = walk.grew_only
      /\ walk'.shrank_only = walk.shrank_only /\ walk'.torn = walk.torn
  BY <1>2, <1>3 DEF Walk
<1>. QED
  BY <1>4, <1>5 DEF CountMatches, total

LEMMA ReadSteps ==
    ASSUME TypeOK, ReadPage
    PROVE  /\ walk' \in Walk
           /\ walk.pc = "page"
           /\ walk'.pages = Append(walk.pages, Page(tickets, walk.query, walk.page))
           /\ IF walk.page < TotalPages(walk.query, walk.total)
              THEN walk'.pc = "count" /\ walk'.page = walk.page + 1
              ELSE walk'.pc = "done" /\ walk'.page = walk.page
           /\ \A field \in {"query", "total", "stayed", "grew_only", "shrank_only", "torn"} :
                walk'[field] = walk[field]
           /\ UNCHANGED <<tickets, changes>>
<1>. DEFINE page == Page(tickets, walk.query, walk.page)
            more == walk.page < TotalPages(walk.query, walk.total)
<1>1. page \in SUBSET TicketIds
  BY MatchesFinite DEF TypeOK, Page
<1>2. walk' = [walk EXCEPT !.pages = Append(@, page),
                           !.pc = IF more THEN "count" ELSE "done",
                           !.page = IF more THEN @ + 1 ELSE @]
  BY DEF ReadPage
<1>3. more \in BOOLEAN
  OBVIOUS
<1>. HIDE DEF page, more
<1>4. walk \in Walk
  BY DEF TypeOK
<1>5. walk.pages \in Seq(SUBSET TicketIds) /\ walk.page \in Nat
  BY <1>4 DEF Walk
<1>6. Append(walk.pages, page) \in Seq(SUBSET TicketIds)
  BY <1>1, <1>5
<1>. DEFINE pages == Append(walk.pages, page)
<1>. DEFINE pc == IF more THEN "count" ELSE "done"
            next == IF more THEN walk.page + 1 ELSE walk.page
<1>7. walk' = [walk EXCEPT !.pages = pages, !.pc = pc, !.page = next]
  BY <1>2, <1>4 DEF Walk
<1>8. pages \in Seq(SUBSET TicketIds) /\ pc \in {"count", "page", "done"} /\ next \in Nat
  BY <1>3, <1>5, <1>6
<1>. HIDE DEF pages, pc, next
<1>9. walk' \in Walk
  BY <1>4, <1>7, <1>8 DEF Walk
<1>10. /\ walk'.pages = pages /\ walk'.pc = pc /\ walk'.page = next
       /\ walk'.query = walk.query /\ walk'.total = walk.total /\ walk'.stayed = walk.stayed
       /\ walk'.grew_only = walk.grew_only /\ walk'.shrank_only = walk.shrank_only
       /\ walk'.torn = walk.torn
  BY <1>4, <1>7 DEF Walk
<1>. QED
  BY <1>9, <1>10 DEF ReadPage, pages, page, more, pc, next

LEMMA ChangeSteps ==
    ASSUME TypeOK, NEW table, IsTable(table), Change(table)
    PROVE  /\ walk' \in Walk /\ changes' \in Nat
           /\ tickets' = table
           /\ walk.pc # "done"
           /\ walk'.stayed = walk.stayed \cap Matches(table)
           /\ walk'.grew_only => /\ walk.grew_only
                                 /\ Matches(tickets) \subseteq Matches(table)
                                 /\ KeepsOrder(Matches(tickets), table)
           /\ walk'.shrank_only => /\ walk.shrank_only
                                   /\ Matches(table) \subseteq Matches(tickets)
                                   /\ KeepsOrder(Matches(table), table)
           /\ walk'.torn = (walk.torn \/ walk.pc = "page")
           /\ \A field \in {"query", "pc", "page", "total", "pages"} : walk'[field] = walk[field]
<1>. DEFINE old == Matches(tickets)
            new == Matches(table)
            grew == walk.grew_only /\ old \subseteq new /\ KeepsOrder(old, table)
            shrank == walk.shrank_only /\ new \subseteq old /\ KeepsOrder(new, table)
            torn == walk.torn \/ walk.pc = "page"
            stayed == walk.stayed \cap new
<1>1. walk \in Walk
  BY DEF TypeOK
<1>2. walk.grew_only \in BOOLEAN /\ walk.shrank_only \in BOOLEAN /\ walk.torn \in BOOLEAN
  BY <1>1 DEF Walk
<1>3. /\ grew \in BOOLEAN /\ shrank \in BOOLEAN /\ torn \in BOOLEAN
  BY <1>2, Zenon
<1>4. stayed \in SUBSET TicketIds
  BY <1>1 DEF Walk
<1>5. walk' = [walk EXCEPT !.stayed = stayed, !.grew_only = grew,
                           !.shrank_only = shrank, !.torn = torn]
  BY <1>1 DEF Change, Matches, Walk
<1>6. /\ tickets' = table /\ walk.pc # "done" /\ changes' = changes + 1
  BY DEF Change
<1>. HIDE DEF grew, shrank, torn, stayed
<1>7. walk' \in Walk
  BY <1>1, <1>3, <1>4, <1>5 DEF Walk
<1>8. /\ walk'.stayed = stayed /\ walk'.grew_only = grew /\ walk'.shrank_only = shrank
      /\ walk'.torn = torn /\ walk'.query = walk.query /\ walk'.pc = walk.pc
      /\ walk'.page = walk.page /\ walk'.total = walk.total /\ walk'.pages = walk.pages
  BY <1>1, <1>5 DEF Walk
<1>9. changes' \in Nat
  BY <1>6 DEF TypeOK
<1>10. /\ walk'.grew_only => grew
       /\ walk'.shrank_only => shrank
  BY <1>8
<1>. QED
  BY <1>6, <1>7, <1>8, <1>9, <1>10 DEF grew, shrank, torn, stayed

LEMMA TypedStart == Init => TypeOK
<1>. SUFFICES ASSUME Init PROVE TypeOK
  OBVIOUS
<1>1. IsTable(tickets)
  BY QueueAssumption DEF Init
<1>2. PICK q \in Queries :
         walk = [query |-> q, pc |-> "count", page |-> 1, total |-> 0, pages |-> <<>>,
                 stayed |-> Matching(tickets, q, FALSE),
                 grew_only |-> TRUE, shrank_only |-> TRUE, torn |-> FALSE]
  BY DEF Init
<1>3. Matching(tickets, q, FALSE) \in SUBSET TicketIds
  BY <1>1, MatchesFinite
<1>. DEFINE pages == <<>>
            stayed == Matching(tickets, q, FALSE)
<1>4. pages \in Seq(SUBSET TicketIds)
  OBVIOUS
<1>5. stayed \in SUBSET TicketIds
  BY <1>3
<1>. HIDE DEF pages, stayed
<1>6. walk = [query |-> q, pc |-> "count", page |-> 1, total |-> 0, pages |-> pages,
              stayed |-> stayed, grew_only |-> TRUE, shrank_only |-> TRUE, torn |-> FALSE]
  BY <1>2 DEF pages, stayed
<1>7. walk \in Walk
  BY <1>4, <1>5, <1>6 DEF Walk
<1>. QED
  BY <1>1, <1>7 DEF TypeOK, Init

LEMMA TypedStep == TypeOK /\ [Next]_vars => TypeOK'
<1>. SUFFICES ASSUME TypeOK, [Next]_vars PROVE TypeOK'
  OBVIOUS
<1>1. CASE CountMatches
  BY <1>1, CountSteps DEF TypeOK, IsTable
<1>2. CASE ReadPage
  BY <1>2, ReadSteps DEF TypeOK, IsTable
<1>3. ASSUME NEW table, IsTable(table), Change(table) PROVE TypeOK'
  BY <1>3, ChangeSteps DEF TypeOK, IsTable
<1>4. CASE UNCHANGED vars
  BY <1>4 DEF TypeOK, IsTable, vars
<1>. QED
  BY <1>1, <1>2, <1>3, <1>4, ChangesAreTables DEF TypeOK

\* Whatever is created, edited, moved, archived and shared meanwhile, rows have their types
\* and the reader's pages are sets of tickets.
THEOREM TypeCorrect == Spec => []TypeOK
BY TypedStart, TypedStep, PTL DEF Spec
-----------------------------------------------------------------------------
(***************************************************************************)
(* The walk.  Behind is how many places of the result the pages shown so   *)
(* far stand for.                                                          *)
(***************************************************************************)
Behind == Len(walk.pages) * walk.query.page_size
PositionNow(t) == Position(tickets, walk.query, t)

PageFollowsPages == walk.pc # "done" => walk.page = Len(walk.pages) + 1

\* While the result only shrinks, what was shown is behind the reader.
NothingFallsBack ==
    walk.shrank_only => /\ DeparturesRepeatNothing
                        /\ \A t \in Shown \cap Matches(tickets) : PositionNow(t) <= Behind

\* While it only grows, what was not shown is still ahead.
NothingSlipsBy ==
    /\ walk.stayed \subseteq Matches(tickets)
    /\ walk.grew_only => \A t \in walk.stayed \ Shown : PositionNow(t) > Behind

CountIsFresh ==
    walk.pc = "page" /\ ~ walk.torn => walk.total = Total(tickets, walk.query)

\* Once the reader has seen the last page, every ticket that stayed has been shown.
EndIsComplete ==
    walk.pc = "done" /\ walk.grew_only /\ ~ walk.torn => walk.stayed \subseteq Shown

WalkInv == /\ TypeOK /\ PageFollowsPages /\ NothingFallsBack /\ NothingSlipsBy
           /\ CountIsFresh /\ EndIsComplete

LEMMA TypedWalk ==
    ASSUME TypeOK
    PROVE  /\ walk.query \in Query /\ walk.query.page_size \in Nat \ {0}
           /\ walk.pages \in Seq(SUBSET TicketIds) /\ Len(walk.pages) \in Nat
           /\ walk.total \in Nat /\ walk.page \in Nat /\ Behind \in Nat
<1>1. /\ walk.query \in Query /\ walk.pages \in Seq(SUBSET TicketIds)
      /\ walk.total \in Nat /\ walk.page \in Nat
  BY QueueAssumption DEF TypeOK, Walk
<1>2. walk.query.page_size \in Nat \ {0}
  <2>1. walk.query.page_size \in 1..100
    BY <1>1 DEF Query
  <2>. QED
    BY <2>1
<1>3. Len(walk.pages) \in Nat
  BY <1>1
<1>4. Behind \in Nat
  BY <1>2, <1>3 DEF Behind
<1>. QED
  BY <1>1, <1>2, <1>3, <1>4

\* The pages after one more is shown, and how many places they stand for.
LEMMA OnePageMore ==
    ASSUME WalkInv, ReadPage
    PROVE  LET page == Page(tickets, walk.query, walk.page)
           IN  /\ walk.page = Len(walk.pages) + 1
               /\ Len(walk'.pages) = walk.page
               /\ walk'.query = walk.query
               /\ \A n \in DOMAIN walk'.pages :
                    IF n = walk.page THEN walk'.pages[n] = page
                    ELSE n \in DOMAIN walk.pages /\ walk'.pages[n] = walk.pages[n]
               /\ \A n \in DOMAIN walk.pages : n \in DOMAIN walk'.pages /\ n # walk.page
               /\ walk.page \in DOMAIN walk'.pages
               /\ Shown' = Shown \cup page
               /\ Behind' = Behind + walk.query.page_size
               /\ \A t \in Matches(tickets) :
                    t \in page <=> Behind < PositionNow(t) /\ PositionNow(t) <= Behind'
<1>. DEFINE page == Page(tickets, walk.query, walk.page)
            size == walk.query.page_size
<1>1. walk.page = Len(walk.pages) + 1
  BY ReadSteps DEF WalkInv, PageFollowsPages
<1>2. walk.pages \in Seq(SUBSET TicketIds) /\ size \in Nat \ {0}
  BY TypedWalk DEF WalkInv
<1>3. walk'.pages = Append(walk.pages, page) /\ walk'.query = walk.query
  BY ReadSteps DEF WalkInv
<1>4. page \in SUBSET TicketIds
  BY MatchesFinite DEF WalkInv, TypeOK, Page
<1>. DEFINE L == Len(walk.pages)
<1>5. L \in Nat /\ Behind = L * size /\ Behind' = walk.page * size /\ UNCHANGED tickets
  <2>1. Len(walk'.pages) = L + 1
    BY <1>2, <1>3, <1>4
  <2>. QED
    BY <1>1, <1>2, <1>3, <2>1, ReadSteps DEF Behind, WalkInv
<1>6. (walk.page - 1) * size = Behind /\ Behind' = Behind + size
  BY <1>1, <1>2, <1>5
<1>7. /\ Len(walk'.pages) = walk.page
      /\ \A n \in DOMAIN walk'.pages :
           IF n = walk.page THEN walk'.pages[n] = page
           ELSE n \in DOMAIN walk.pages /\ walk'.pages[n] = walk.pages[n]
      /\ \A n \in DOMAIN walk.pages : n \in DOMAIN walk'.pages /\ n # walk.page
      /\ walk.page \in DOMAIN walk'.pages
  <2>. HIDE DEF page
  <2>. QED
    BY <1>1, <1>2, <1>3, <1>4
<1>8. Shown' = Shown \cup page
  <2>. HIDE DEF page
  <2>. QED
    BY <1>7 DEF Shown
<1>9. \A t \in Matches(tickets) :
        t \in page <=> Behind < PositionNow(t) /\ PositionNow(t) <= Behind'
  BY <1>5, <1>6, <1>1 DEF Page, Matches, PositionNow
<1>. QED
  BY <1>1, <1>3, <1>6, <1>7, <1>8, <1>9

LEMMA WalkStarts == Init => WalkInv
<1>. SUFFICES ASSUME Init PROVE WalkInv
  OBVIOUS
<1>1. TypeOK
  BY TypedStart
<1>2. /\ walk.pages = <<>> /\ walk.pc = "count" /\ walk.page = 1
      /\ walk.stayed = Matches(tickets)
  BY DEF Init, Matches
<1>3. Len(walk.pages) = 0 /\ DOMAIN walk.pages = {} /\ Shown = {}
  BY <1>2 DEF Shown
<1>4. \A t \in Matches(tickets) : PositionNow(t) > Behind
  <2>. SUFFICES ASSUME NEW t PROVE PositionNow(t) > Behind
    OBVIOUS
  <2>1. Behind = 0
    BY <1>1, <1>3, TypedWalk DEF Behind
  <2>2. IsFiniteSet(Ahead(tickets, walk.query, t))
    BY <1>1, AheadFinite DEF TypeOK
  <2>. DEFINE n == Cardinality(Ahead(tickets, walk.query, t))
  <2>3. n \in Nat
    BY <2>2, FS_CardinalityType
  <2>4. PositionNow(t) = n + 1
    BY DEF PositionNow, Position
  <2>. HIDE DEF n
  <2>. QED
    BY <2>1, <2>3, <2>4
<1>. QED
  BY <1>1, <1>2, <1>3, <1>4 DEF WalkInv, PageFollowsPages, NothingFallsBack, NothingSlipsBy,
     CountIsFresh, EndIsComplete, DeparturesRepeatNothing

LEMMA CountKeepsWalk == ASSUME WalkInv, CountMatches PROVE WalkInv'
<1>1. TypeOK /\ TypeOK'
  BY TypedStep DEF WalkInv, Next
<1>2. /\ walk'.query = walk.query /\ walk'.page = walk.page /\ walk'.pages = walk.pages
      /\ walk'.stayed = walk.stayed /\ walk'.grew_only = walk.grew_only
      /\ walk'.shrank_only = walk.shrank_only /\ walk'.torn = walk.torn
      /\ walk.pc = "count" /\ walk'.pc = "page" /\ tickets' = tickets
      /\ walk'.total = Total(tickets, walk.query)
  BY <1>1, CountSteps
<1>3. Behind' = Behind /\ Shown' = Shown
  BY <1>2 DEF Behind, Shown
<1>4. \A t : PositionNow(t)' = PositionNow(t)
  BY <1>2 DEF PositionNow
<1>5. Matches(tickets)' = Matches(tickets)
  BY <1>2 DEF Matches
<1>6. PageFollowsPages'
  BY <1>2 DEF WalkInv, PageFollowsPages
<1>7. NothingFallsBack'
  BY <1>2, <1>3, <1>4, <1>5 DEF WalkInv, NothingFallsBack, DeparturesRepeatNothing
<1>8. NothingSlipsBy'
  BY <1>2, <1>3, <1>4, <1>5 DEF WalkInv, NothingSlipsBy
<1>9. CountIsFresh' /\ EndIsComplete'
  BY <1>2 DEF CountIsFresh, EndIsComplete
<1>. QED
  BY <1>1, <1>6, <1>7, <1>8, <1>9 DEF WalkInv

LEMMA ReadKeepsWalk == ASSUME WalkInv, ReadPage PROVE WalkInv'
<1>. DEFINE page == Page(tickets, walk.query, walk.page)
            size == walk.query.page_size
<1>1. TypeOK /\ TypeOK'
  BY TypedStep DEF WalkInv, Next
<1>2. /\ walk'.query = walk.query /\ walk'.total = walk.total
      /\ walk'.stayed = walk.stayed /\ walk'.grew_only = walk.grew_only
      /\ walk'.shrank_only = walk.shrank_only /\ walk'.torn = walk.torn
      /\ walk.pc = "page" /\ tickets' = tickets
      /\ IF walk.page < TotalPages(walk.query, walk.total)
         THEN walk'.pc = "count" /\ walk'.page = walk.page + 1
         ELSE walk'.pc = "done" /\ walk'.page = walk.page
  BY <1>1, ReadSteps
<1>3. /\ walk.page = Len(walk.pages) + 1
      /\ Len(walk'.pages) = walk.page
      /\ \A n \in DOMAIN walk'.pages :
           IF n = walk.page THEN walk'.pages[n] = page
           ELSE n \in DOMAIN walk.pages /\ walk'.pages[n] = walk.pages[n]
      /\ Shown' = Shown \cup page
      /\ Behind' = Behind + size
      /\ \A t \in Matches(tickets) :
           t \in page <=> Behind < PositionNow(t) /\ PositionNow(t) <= Behind'
  BY OnePageMore
<1>4. \A t : PositionNow(t)' = PositionNow(t) /\ PositionNow(t) \in Nat
  BY <1>1, <1>2, AheadFinite DEF PositionNow, TypeOK
<1>5. Matches(tickets)' = Matches(tickets) /\ page \subseteq Matches(tickets)
  BY <1>2 DEF Matches, Page
<1>6. Behind \in Nat /\ size \in Nat \ {0}
  BY <1>1, TypedWalk
<1>. HIDE DEF page, size
<1>7. PageFollowsPages'
  BY <1>2, <1>3 DEF PageFollowsPages
<1>8. NothingFallsBack'
  <2>. SUFFICES ASSUME walk.shrank_only PROVE (DeparturesRepeatNothing /\
           \A t \in Shown \cap Matches(tickets) : PositionNow(t) <= Behind)'
    BY <1>2 DEF NothingFallsBack
  <2>1. DeparturesRepeatNothing /\ \A t \in Shown \cap Matches(tickets) : PositionNow(t) <= Behind
    BY DEF WalkInv, NothingFallsBack
  <2>2. Shown \cap page = {}
    <3>. SUFFICES ASSUME NEW t \in Shown, t \in page PROVE FALSE
      OBVIOUS
    <3>1. t \in Matches(tickets)
      BY <1>5
    <3>. QED
      BY <1>3, <1>4, <1>6, <2>1, <3>1
  <2>3. \A n \in DOMAIN walk.pages : walk.pages[n] \subseteq Shown
    BY DEF Shown
  <2>4. DeparturesRepeatNothing'
    BY <1>3, <2>1, <2>2, <2>3 DEF DeparturesRepeatNothing
  <2>5. (\A t \in Shown \cap Matches(tickets) : PositionNow(t) <= Behind)'
    <3>. SUFFICES ASSUME NEW t \in Matches(tickets), t \in Shown \cup page
                  PROVE  PositionNow(t) <= Behind'
      BY <1>3, <1>4, <1>5
    <3>. QED
      BY <1>3, <1>4, <1>6, <2>1
  <2>. QED
    BY <2>4, <2>5
<1>9. NothingSlipsBy'
  <2>1. walk'.stayed \subseteq Matches(tickets)'
    BY <1>2, <1>5 DEF WalkInv, NothingSlipsBy
  <2>2. ASSUME walk.grew_only, NEW t \in walk.stayed \ (Shown \cup page)
        PROVE  PositionNow(t) > Behind'
    <3>1. t \in Matches(tickets) /\ PositionNow(t) > Behind
      BY <2>2 DEF WalkInv, NothingSlipsBy
    <3>. QED
      BY <1>3, <1>4, <1>6, <2>2, <3>1
  <2>. QED
    BY <1>2, <1>3, <1>4, <2>1, <2>2 DEF NothingSlipsBy
<1>10. CountIsFresh'
  BY <1>2 DEF CountIsFresh
<1>11. EndIsComplete'
  <2>. SUFFICES ASSUME walk'.pc = "done", walk.grew_only, ~ walk.torn,
                       NEW t \in walk.stayed, t \notin Shown'
                PROVE  FALSE
    BY <1>2 DEF EndIsComplete
  <2>1. t \in Matches(tickets)
    BY DEF WalkInv, NothingSlipsBy
  <2>2. PositionNow(t) > Behind'
    BY <1>2, <1>4, <1>9 DEF NothingSlipsBy
  <2>3. walk.total = Total(tickets, walk.query)
    BY <1>2 DEF WalkInv, CountIsFresh
  <2>4. PositionNow(t) <= walk.total
    BY <1>1, <2>1, <2>3, PositionBound, TypedWalk DEF PositionNow, Matches, TypeOK
  <2>5. walk.page >= TotalPages(walk.query, walk.total)
    <3>1. ~ (walk.page < TotalPages(walk.query, walk.total))
      BY <1>2
    <3>2. TotalPages(walk.query, walk.total) \in Int
      BY <1>1, TypedWalk, PagesAreWhole
    <3>. QED
      BY <1>1, <3>1, <3>2, TypedWalk
  <2>6. walk.total <= walk.page * size
    BY <1>1, <2>5, PagesSuffice, TypedWalk DEF size
  <2>7. Behind' = walk.page * size
    BY <1>2, <1>3 DEF Behind, size
  <2>. QED
    BY <1>1, <1>4, <1>6, <1>3, <2>2, <2>4, <2>6, <2>7, TypedWalk
<1>. QED
  BY <1>1, <1>7, <1>8, <1>9, <1>10, <1>11 DEF WalkInv

LEMMA ChangeKeepsWalk ==
    ASSUME WalkInv, NEW table, IsTable(table), Change(table)
    PROVE  TypeOK' => WalkInv'
<1>. SUFFICES ASSUME TypeOK' PROVE WalkInv'
  OBVIOUS
<1>1. TypeOK
  BY DEF WalkInv
<1>2. /\ walk'.query = walk.query /\ walk'.pc = walk.pc /\ walk'.page = walk.page
      /\ walk'.total = walk.total /\ walk'.pages = walk.pages
      /\ walk.pc # "done" /\ tickets' = table
      /\ walk'.stayed = walk.stayed \cap Matches(table)
      /\ walk'.torn = (walk.torn \/ walk.pc = "page")
  BY <1>1, ChangeSteps
<1>3. Behind' = Behind /\ Shown' = Shown /\ Behind \in Nat
  BY <1>1, <1>2, TypedWalk DEF Behind, Shown
<1>4. Matches(tickets)' = Matches(table)
  BY <1>2 DEF Matches
<1>5. \A t : /\ PositionNow(t)' = Position(table, walk.query, t)
             /\ PositionNow(t) \in Nat /\ PositionNow(t)' \in Nat
  BY <1>1, <1>2, AheadFinite DEF PositionNow, TypeOK
<1>6. IsTable(tickets)
  BY <1>1 DEF TypeOK
<1>7. PageFollowsPages'
  BY <1>2 DEF WalkInv, PageFollowsPages
<1>8. NothingFallsBack'
  <2>. SUFFICES ASSUME walk'.shrank_only
                PROVE  /\ DeparturesRepeatNothing'
                       /\ \A t \in Shown \cap Matches(table) : PositionNow(t)' <= Behind
    BY <1>3, <1>4 DEF NothingFallsBack
  <2>1. /\ walk.shrank_only /\ Matches(table) \subseteq Matches(tickets)
        /\ KeepsOrder(Matches(table), table)
    BY <1>1, ChangeSteps
  <2>2. DeparturesRepeatNothing'
    BY <1>2, <2>1 DEF WalkInv, NothingFallsBack, DeparturesRepeatNothing
  <2>3. ASSUME NEW t \in Shown \cap Matches(table) PROVE PositionNow(t)' <= Behind
    <3>1. PositionNow(t) <= Behind
      BY <2>1 DEF WalkInv, NothingFallsBack
    <3>2. Ahead(table, walk.query, t) \subseteq Ahead(tickets, walk.query, t)
      BY <2>1 DEF Ahead, KeepsOrder, Matches
    <3>3. PositionNow(t)' <= PositionNow(t)
      BY <1>5, <1>6, <3>2, PositionGrows DEF PositionNow
    <3>. QED
      BY <1>3, <1>5, <3>1, <3>3
  <2>. QED
    BY <2>2, <2>3
<1>9. NothingSlipsBy'
  <2>. SUFFICES ASSUME walk'.grew_only, NEW t \in walk'.stayed \ Shown
                PROVE  PositionNow(t)' > Behind
    BY <1>2, <1>3, <1>4 DEF NothingSlipsBy
  <2>1. /\ walk.grew_only /\ Matches(tickets) \subseteq Matches(table)
        /\ KeepsOrder(Matches(tickets), table)
    BY <1>1, ChangeSteps
  <2>2. t \in walk.stayed /\ t \in Matches(tickets) /\ PositionNow(t) > Behind
    BY <1>2, <2>1 DEF WalkInv, NothingSlipsBy
  <2>3. Ahead(tickets, walk.query, t) \subseteq Ahead(table, walk.query, t)
    BY <2>1, <2>2 DEF Ahead, KeepsOrder, Matches
  <2>4. PositionNow(t) <= PositionNow(t)'
    BY <1>5, <1>6, <2>3, PositionGrows DEF PositionNow
  <2>. QED
    BY <1>3, <1>5, <2>2, <2>4
<1>10. CountIsFresh' /\ EndIsComplete'
  BY <1>2 DEF CountIsFresh, EndIsComplete
<1>. QED
  BY <1>7, <1>8, <1>9, <1>10 DEF WalkInv

\* The invariant the two theorems below rest on.
THEOREM WalkInvariant == Spec => []WalkInv
<1>1. Init => WalkInv
  BY WalkStarts
<1>2. WalkInv /\ [Next]_vars => WalkInv'
  <2>. SUFFICES ASSUME WalkInv, [Next]_vars PROVE WalkInv'
    OBVIOUS
  <2>1. CASE CountMatches
    BY <2>1, CountKeepsWalk
  <2>2. CASE ReadPage
    BY <2>2, ReadKeepsWalk
  <2>3. ASSUME NEW table, IsTable(table), Change(table) PROVE WalkInv'
    BY <2>3, ChangeKeepsWalk, TypedStep DEF WalkInv
  <2>4. CASE UNCHANGED vars
    <3>1. walk' = walk /\ tickets' = tickets
      BY <2>4 DEF vars
    <3>2. Behind' = Behind /\ Shown' = Shown /\ Matches(tickets)' = Matches(tickets)
      BY <3>1 DEF Behind, Shown, Matches
    <3>3. \A t : PositionNow(t)' = PositionNow(t)
      BY <3>1 DEF PositionNow
    <3>4. TypeOK'
      BY <2>4, TypedStep DEF WalkInv
    <3>. QED
      BY <3>1, <3>2, <3>3, <3>4 DEF WalkInv, PageFollowsPages, NothingFallsBack,
         NothingSlipsBy, CountIsFresh, EndIsComplete, DeparturesRepeatNothing
  <2>. QED
    BY <2>1, <2>2, <2>3, <2>4, ChangesAreTables DEF WalkInv, TypeOK
<1>. QED
  BY <1>1, <1>2, PTL DEF Spec

\* A reader who follows Next to the end passes over no ticket that was in the result all
\* along, if tickets only arrived and none of them between the count and the page of one
\* request (search_tickets).
THEOREM ReadersMissNothing == Spec => []ArrivalsHideNothing
<1>1. WalkInv => ArrivalsHideNothing
  BY DEF WalkInv, EndIsComplete, ArrivalsHideNothing
<1>. QED
  BY <1>1, WalkInvariant, PTL

\* A reader meets no ticket on two pages if tickets only left the result, between
\* whichever statements (search_tickets).
THEOREM ReadersMeetNothingTwice == Spec => []DeparturesRepeatNothing
<1>1. WalkInv => DeparturesRepeatNothing
  BY DEF WalkInv, NothingFallsBack, DeparturesRepeatNothing
<1>. QED
  BY <1>1, WalkInvariant, PTL
-----------------------------------------------------------------------------
(***************************************************************************)
(* The export: every place of the result is somebody's.                    *)
(***************************************************************************)
\* The order of the queue is total: the id decides between equals.
LEMMA BeforeIsTotal ==
    ASSUME NEW table, IsTable(table), NEW q \in Query
    PROVE  /\ \A a, b \in DOMAIN table : a # b => Before(table, q, a, b) \/ Before(table, q, b, a)
           /\ \A a, b, c \in DOMAIN table :
                Before(table, q, a, b) /\ Before(table, q, b, c) => Before(table, q, a, c)
<1>1. ASSUME NEW t \in DOMAIN table PROVE SortKey(q, table[t]) \in Nat /\ t \in Nat
  <2>1. table[t] \in Row
    BY DEF IsTable
  <2>2. /\ table[t].created_at \in Nat /\ table[t].updated_at \in Nat
        /\ table[t].priority \in DOMAIN PriorityRank
    BY <2>1, QueueAssumption DEF Row
  <2>3. PriorityRank[table[t].priority] \in Nat
    BY <2>2 DEF PriorityRank
  <2>4. q.sort \in {"created", "updated", "priority"}
    BY DEF Query
  <2>. QED
    BY <2>2, <2>3, <2>4, QueueAssumption DEF SortKey, IsTable
<1>. DEFINE Key(t) == SortKey(q, table[t])
<1>2. \A t \in DOMAIN table : Key(t) \in Nat /\ t \in Nat
  BY <1>1
<1>3. \A a, b : Before(table, q, a, b) <=>
          \/ IF q.direction = "asc" THEN Key(a) < Key(b) ELSE Key(a) > Key(b)
          \/ Key(a) = Key(b) /\ a > b
  BY DEF Before
<1>. HIDE DEF Key
<1>. QED
  BY <1>2, <1>3

\* Two matches never share a place.
LEMMA PositionsDiffer ==
    ASSUME NEW table, IsTable(table), NEW q \in Query,
           NEW a \in Matching(table, q, FALSE), NEW b \in Matching(table, q, FALSE),
           Before(table, q, a, b)
    PROVE  Position(table, q, a) < Position(table, q, b)
<1>1. a \in DOMAIN table /\ b \in DOMAIN table
  BY MatchesAreRows
<1>2. a \notin Ahead(table, q, a)
  BY <1>1, BeforeIsStrict DEF Ahead
<1>3. Ahead(table, q, a) \cup {a} \subseteq Ahead(table, q, b)
  <2>1. \A u \in Matching(table, q, FALSE) : u \in DOMAIN table
    BY MatchesAreRows
  <2>. QED
    BY <1>1, <2>1, BeforeIsTotal DEF Ahead
<1>4. IsFiniteSet(Ahead(table, q, a)) /\ IsFiniteSet(Ahead(table, q, b))
  BY AheadFinite
<1>5. Cardinality(Ahead(table, q, a) \cup {a}) = Cardinality(Ahead(table, q, a)) + 1
  BY <1>2, <1>4, FS_AddElement
<1>6. Cardinality(Ahead(table, q, a) \cup {a}) <= Cardinality(Ahead(table, q, b))
  BY <1>3, <1>4, FS_Subset
<1>7. Cardinality(Ahead(table, q, a)) \in Nat /\ Cardinality(Ahead(table, q, b)) \in Nat
  BY <1>4, FS_CardinalityType
<1>. DEFINE m == Cardinality(Ahead(table, q, a))
            n == Cardinality(Ahead(table, q, b))
<1>8. m + 1 <= n /\ m \in Nat /\ n \in Nat
  BY <1>5, <1>6, <1>7
<1>9. Position(table, q, a) = m + 1 /\ Position(table, q, b) = n + 1
  BY DEF Position
<1>. HIDE DEF m, n
<1>. QED
  BY <1>8, <1>9

\* The places of the matches are 1, 2, 3, ... up to their number.
LEMMA PositionsAreAll ==
    ASSUME NEW table, IsTable(table), NEW q \in Query
    PROVE  LET matching == Matching(table, q, FALSE)
           IN  /\ \A t \in matching : Position(table, q, t) \in 1..Total(table, q)
               /\ \A a, b \in matching : Position(table, q, a) = Position(table, q, b) => a = b
               /\ \A i \in 1..Total(table, q) : \E t \in matching : Position(table, q, t) = i
<1>. DEFINE matching == Matching(table, q, FALSE)
            n == Total(table, q)
            place == [t \in matching |-> Position(table, q, t)]
<1>1. IsFiniteSet(matching) /\ n = Cardinality(matching) /\ n \in Nat
  BY MatchesFinite, FS_CardinalityType DEF Total
<1>2. ASSUME NEW t \in matching PROVE Position(table, q, t) \in 1..n
  <2>1. Position(table, q, t) <= n
    BY PositionBound
  <2>2. Cardinality(Ahead(table, q, t)) \in Nat
    BY AheadFinite, FS_CardinalityType
  <2>3. Position(table, q, t) \in Nat /\ Position(table, q, t) >= 1
    BY <2>2 DEF Position
  <2>. DEFINE p == Position(table, q, t)
  <2>4. p <= n /\ p \in Nat /\ p >= 1 /\ n \in Nat
    BY <1>1, <2>1, <2>3
  <2>. HIDE DEF n, p
  <2>5. p \in 1..n
    BY <2>4
  <2>. QED
    BY <2>5 DEF p
<1>3. ASSUME NEW a \in matching, NEW b \in matching, a # b
      PROVE  Position(table, q, a) # Position(table, q, b)
  <2>1. a \in DOMAIN table /\ b \in DOMAIN table
    BY MatchesAreRows
  <2>2. Before(table, q, a, b) \/ Before(table, q, b, a)
    BY <1>3, <2>1, BeforeIsTotal
  <2>3. Position(table, q, a) \in Nat /\ Position(table, q, b) \in Nat
    BY AheadFinite
  <2>4. \/ Position(table, q, a) < Position(table, q, b)
        \/ Position(table, q, b) < Position(table, q, a)
    BY <2>2, PositionsDiffer
  <2>. QED
    BY <2>3, <2>4
<1>. HIDE DEF matching, n
<1>4. place \in Injection(matching, 1..n)
  BY <1>2, <1>3 DEF Injection, IsInjective
<1>5. IsFiniteSet(1..n) /\ Cardinality(1..n) = n
  BY <1>1, FS_Interval
<1>6. place \in Surjection(matching, 1..n)
  BY <1>1, <1>4, <1>5, FS_Injection
<1>7. \A i \in 1..n : \E t \in matching : Position(table, q, t) = i
  BY <1>6 DEF Surjection
<1>8. \A a, b \in matching : Position(table, q, a) = Position(table, q, b) => a = b
  BY <1>3
<1>. QED
  BY <1>2, <1>7, <1>8 DEF matching, n

\* all_matching_tickets has every match, each at its place.
LEMMA ExportHasAll ==
    ASSUME NEW table, IsTable(table), NEW q \in Query
    PROVE  LET export == AllMatching(table, q)
           IN  /\ Total(table, q) \in Nat
               /\ export \in [1..Total(table, q) -> Matching(table, q, FALSE)]
               /\ Len(export) = Total(table, q)
               /\ \A i \in 1..Total(table, q) : Position(table, q, export[i]) = i
               /\ \A t \in Matching(table, q, FALSE) : export[Position(table, q, t)] = t
<1>. DEFINE matching == Matching(table, q, FALSE)
            n == Total(table, q)
            export == AllMatching(table, q)
<1>1. n \in Nat
  BY MatchesFinite, FS_CardinalityType DEF Total
<1>2. export = [i \in 1..n |-> CHOOSE t \in matching : Position(table, q, t) = i]
  BY DEF AllMatching, Total
<1>3. /\ \A t \in matching : Position(table, q, t) \in 1..n
      /\ \A a, b \in matching : Position(table, q, a) = Position(table, q, b) => a = b
      /\ \A i \in 1..n : \E t \in matching : Position(table, q, t) = i
  BY PositionsAreAll, Zenon
<1>. HIDE DEF matching, n, export
<1>4. \A i \in 1..n : export[i] \in matching /\ Position(table, q, export[i]) = i
  BY <1>2, <1>3
<1>5. export \in [1..n -> matching]
  BY <1>2, <1>4
<1>6. Len(export) = n
  <2>1. export \in Seq(matching)
    BY <1>1, <1>5
  <2>. QED
    BY <1>1, <1>2, <2>1
<1>7. \A t \in matching : export[Position(table, q, t)] = t
  BY <1>3, <1>4
<1>. QED
  BY <1>1, <1>4, <1>5, <1>6, <1>7 DEF matching, n, export

\* A page is a stretch of the export.
LEMMA PageOfExport ==
    ASSUME NEW table, IsTable(table), NEW q \in Query, NEW n
    PROVE  LET export == AllMatching(table, q)
           IN  Page(table, q, n) = {export[i] : i \in {j \in DOMAIN export :
                  (n - 1) * q.page_size < j /\ j <= n * q.page_size}}
<1>. DEFINE export == AllMatching(table, q)
            Inside(j) == (n - 1) * q.page_size < j /\ j <= n * q.page_size
            matching == Matching(table, q, FALSE)
            total == Total(table, q)
<1>1. /\ export \in [1..total -> matching]
      /\ \A i \in 1..total : Position(table, q, export[i]) = i
      /\ \A t \in matching : export[Position(table, q, t)] = t
      /\ \A t \in matching : Position(table, q, t) \in 1..total
  BY ExportHasAll, PositionsAreAll, ZenonT(30)
<1>2. Page(table, q, n) = {t \in matching : Inside(Position(table, q, t))}
  BY DEF Page
<1>. HIDE DEF export, Inside, matching, total
<1>3. {t \in matching : Inside(Position(table, q, t))}
        = {export[i] : i \in {j \in DOMAIN export : Inside(j)}}
  BY <1>1
<1>. QED
  BY <1>2, <1>3 DEF export, Inside
-----------------------------------------------------------------------------
(***************************************************************************)
(* A walk during which the result has not changed.  What has been read of  *)
(* it, at whatever time, is what would be read of it now.                  *)
(***************************************************************************)
Quiet == walk.grew_only /\ walk.shrank_only
TotalNow == Total(tickets, walk.query)
PagesNow == TotalPages(walk.query, TotalNow)

PagesStand ==
    Quiet => \A n \in DOMAIN walk.pages : walk.pages[n] = Page(tickets, walk.query, n)

CountStands ==
    Quiet /\ walk.pc # "count" => walk.total = TotalNow

EndIsLastPage ==
    Quiet => IF walk.pc = "done" THEN Len(walk.pages) = PagesNow
             ELSE Len(walk.pages) < PagesNow

QuietInv == PagesStand /\ CountStands /\ EndIsLastPage

\* Even an empty result has a page.
LEMMA AtLeastOnePage ==
    ASSUME NEW q, q.page_size \in Nat \ {0}, NEW total \in Nat
    PROVE  TotalPages(q, total) >= 1
<1>. DEFINE d == q.page_size
            a == total + d - 1
<1>1. CASE total = 0
  BY <1>1 DEF TotalPages
<1>2. CASE total # 0
  <2>1. d \in Nat /\ d > 0 /\ a \in Nat /\ a >= d
    BY <1>2
  <2>2. TotalPages(q, total) = a \div d
    BY <1>2 DEF TotalPages
  <2>. HIDE DEF d, a
  <2>3. /\ (a \div d) \in Int
        /\ a = d * (a \div d) + (a % d)
        /\ a % d \in 0..(d - 1)
    BY <2>1, Z3
  <2>4. a \div d >= 1
    BY <2>1, <2>3, Z3
  <2>. QED
    BY <2>2, <2>4
<1>. QED
  BY <1>1, <1>2

\* A table with the same matches in the same order has the same total and pages.
LEMMA SameResult ==
    ASSUME NEW table, Matches(table) = Matches(tickets), KeepsOrder(Matches(tickets), table)
    PROVE  /\ Total(table, walk.query) = TotalNow
           /\ \A n : Page(table, walk.query, n) = Page(tickets, walk.query, n)
<1>1. Total(table, walk.query) = TotalNow
  BY DEF Total, TotalNow, Matches
<1>2. ASSUME NEW t \in Matches(tickets)
      PROVE  Position(table, walk.query, t) = PositionNow(t)
  <2>1. Ahead(table, walk.query, t) = Ahead(tickets, walk.query, t)
    BY <1>2 DEF Ahead, KeepsOrder, Matches
  <2>. QED
    BY <2>1 DEF Position, PositionNow
<1>3. ASSUME NEW n PROVE Page(table, walk.query, n) = Page(tickets, walk.query, n)
  BY <1>2 DEF Page, Matches, PositionNow
<1>. QED
  BY <1>1, <1>3

LEMMA PagesNowType ==
    ASSUME TypeOK PROVE TotalNow \in Nat /\ PagesNow \in Int /\ PagesNow >= 1
<1>1. TotalNow \in Nat
  BY MatchesFinite, FS_CardinalityType DEF TypeOK, TotalNow, Total
<1>. QED
  BY <1>1, TypedWalk, PagesAreWhole, AtLeastOnePage DEF PagesNow

LEMMA QuietStarts == Init => QuietInv
<1>. SUFFICES ASSUME Init PROVE QuietInv
  OBVIOUS
<1>1. walk.pages = <<>> /\ walk.pc = "count"
  BY DEF Init
<1>2. PagesNow \in Int /\ PagesNow >= 1
  BY TypedStart, PagesNowType
<1>3. Len(walk.pages) = 0 /\ DOMAIN walk.pages = {}
  BY <1>1
<1>. QED
  BY <1>1, <1>2, <1>3 DEF QuietInv, PagesStand, CountStands, EndIsLastPage

LEMMA QuietCount == ASSUME WalkInv, QuietInv, CountMatches PROVE QuietInv'
<1>1. /\ walk'.query = walk.query /\ walk'.pages = walk.pages
      /\ walk'.grew_only = walk.grew_only /\ walk'.shrank_only = walk.shrank_only
      /\ walk.pc = "count" /\ walk'.pc = "page" /\ tickets' = tickets
      /\ walk'.total = TotalNow
  BY CountSteps DEF WalkInv, TotalNow
<1>2. Quiet' = Quiet /\ TotalNow' = TotalNow /\ PagesNow' = PagesNow
  BY <1>1 DEF Quiet, TotalNow, PagesNow
<1>. QED
  BY <1>1, <1>2 DEF QuietInv, PagesStand, CountStands, EndIsLastPage

LEMMA QuietRead == ASSUME WalkInv, QuietInv, ReadPage PROVE QuietInv'
<1>1. /\ walk'.query = walk.query /\ walk'.total = walk.total
      /\ walk'.grew_only = walk.grew_only /\ walk'.shrank_only = walk.shrank_only
      /\ walk.pc = "page" /\ tickets' = tickets
      /\ IF walk.page < TotalPages(walk.query, walk.total) THEN walk'.pc = "count"
         ELSE walk'.pc = "done"
  BY ReadSteps DEF WalkInv
<1>2. Quiet' = Quiet /\ TotalNow' = TotalNow /\ PagesNow' = PagesNow
  BY <1>1 DEF Quiet, TotalNow, PagesNow
<1>3. /\ walk.page = Len(walk.pages) + 1
      /\ Len(walk'.pages) = walk.page
      /\ \A n \in DOMAIN walk'.pages :
           IF n = walk.page THEN walk'.pages[n] = Page(tickets, walk.query, walk.page)
           ELSE n \in DOMAIN walk.pages /\ walk'.pages[n] = walk.pages[n]
  BY OnePageMore
<1>4. PagesStand'
  BY <1>1, <1>2, <1>3 DEF QuietInv, PagesStand
<1>5. CountStands'
  BY <1>1, <1>2 DEF QuietInv, CountStands
<1>6. EndIsLastPage'
  <2>. SUFFICES ASSUME Quiet
                PROVE  IF walk'.pc = "done" THEN walk.page = PagesNow
                       ELSE walk.page < PagesNow
    BY <1>2, <1>3 DEF EndIsLastPage
  <2>1. walk.total = TotalNow /\ Len(walk.pages) < PagesNow
    BY <1>1 DEF QuietInv, CountStands, EndIsLastPage
  <2>2. TotalPages(walk.query, walk.total) = PagesNow
    BY <2>1 DEF PagesNow
  <2>3. PagesNow \in Int /\ Len(walk.pages) \in Nat
    BY PagesNowType, TypedWalk DEF WalkInv
  <2>. QED
    BY <1>1, <1>3, <2>1, <2>2, <2>3
<1>. QED
  BY <1>4, <1>5, <1>6 DEF QuietInv

LEMMA QuietChange ==
    ASSUME WalkInv, QuietInv, NEW table, IsTable(table), Change(table) PROVE QuietInv'
<1>1. /\ walk'.query = walk.query /\ walk'.pc = walk.pc /\ walk'.total = walk.total
      /\ walk'.pages = walk.pages /\ tickets' = table
  BY ChangeSteps DEF WalkInv
<1>. SUFFICES ASSUME Quiet' PROVE QuietInv'
  BY DEF QuietInv, PagesStand, CountStands, EndIsLastPage
<1>2. /\ Quiet /\ Matches(table) = Matches(tickets)
      /\ KeepsOrder(Matches(tickets), table)
  BY ChangeSteps DEF WalkInv, Quiet
<1>3. /\ Total(table, walk.query) = TotalNow
      /\ \A n : Page(table, walk.query, n) = Page(tickets, walk.query, n)
  BY <1>2, SameResult
<1>4. TotalNow' = TotalNow /\ PagesNow' = PagesNow
  BY <1>1, <1>3 DEF TotalNow, PagesNow
<1>. QED
  BY <1>1, <1>2, <1>3, <1>4 DEF QuietInv, PagesStand, CountStands, EndIsLastPage

\* If the result has not changed, the pages one after the other are the CSV export, with as
\* many pages and matches as were counted (search_tickets, all_matching_tickets).
THEOREM QuietWalksReadTheExport == Spec => []QuietWalkIsExport
<1>1. Init => QuietInv
  BY QuietStarts
<1>2. WalkInv /\ QuietInv /\ [Next]_vars => QuietInv'
  <2>. SUFFICES ASSUME WalkInv, QuietInv, [Next]_vars PROVE QuietInv'
    OBVIOUS
  <2>1. CASE UNCHANGED vars
    <3>1. walk' = walk /\ tickets' = tickets
      BY <2>1 DEF vars
    <3>. QED
      BY <3>1 DEF QuietInv, PagesStand, CountStands, EndIsLastPage, Quiet, TotalNow, PagesNow
  <2>. QED
    BY <2>1, QuietCount, QuietRead, QuietChange, ChangesAreTables DEF WalkInv, TypeOK
<1>3. WalkInv /\ QuietInv => QuietWalkIsExport
  <2>. DEFINE export == AllMatching(tickets, walk.query)
              q == walk.query
  <2>. SUFFICES ASSUME WalkInv, QuietInv, walk.pc = "done", Quiet
                PROVE  /\ Len(walk.pages) = TotalPages(q, walk.total)
                       /\ walk.total = Len(export)
                       /\ \A n \in DOMAIN walk.pages :
                            walk.pages[n] = {export[i] : i \in {j \in DOMAIN export :
                              (n - 1) * q.page_size < j /\ j <= n * q.page_size}}
    BY DEF QuietWalkIsExport, Quiet
  <2>1. IsTable(tickets) /\ q \in Query
    BY TypedWalk DEF WalkInv, TypeOK
  <2>2. /\ walk.total = TotalNow /\ Len(walk.pages) = PagesNow
        /\ \A n \in DOMAIN walk.pages : walk.pages[n] = Page(tickets, q, n)
    BY DEF QuietInv, PagesStand, CountStands, EndIsLastPage
  <2>3. Len(export) = TotalNow
    BY <2>1, ExportHasAll, Zenon DEF TotalNow
  <2>4. \A n : Page(tickets, q, n) = {export[i] : i \in {j \in DOMAIN export :
                              (n - 1) * q.page_size < j /\ j <= n * q.page_size}}
    <3>. TAKE n
    <3>. QED
      BY <2>1, PageOfExport
  <2>. HIDE DEF export
  <2>. QED
    BY <2>2, <2>3, <2>4 DEF PagesNow
<1>. QED
  BY <1>1, <1>2, <1>3, WalkInvariant, PTL DEF Spec
-----------------------------------------------------------------------------
(***************************************************************************)
(* The scope of the lists.                                                 *)
(***************************************************************************)
LEMMA JoinedRowsOf ==
    ASSUME NEW table, NEW t \in DOMAIN table, NEW c
    PROVE  <<t, c>> \in JoinedRows(table) <=>
              \/ c \in table[t].collaborator_ids
              \/ c = NULL /\ table[t].collaborator_ids = {}
<1>. DEFINE Rows(u) == {<<u, d>> : d \in IF table[u].collaborator_ids = {} THEN {NULL}
                                         ELSE table[u].collaborator_ids}
<1>1. \A u \in DOMAIN table : <<t, c>> \in Rows(u) => u = t
  OBVIOUS
<1>2. <<t, c>> \in Rows(t) <=>
         \/ c \in table[t].collaborator_ids
         \/ c = NULL /\ table[t].collaborator_ids = {}
  OBVIOUS
<1>3. JoinedRows(table) = UNION {Rows(u) : u \in DOMAIN table}
  BY DEF JoinedRows
<1>. HIDE DEF Rows
<1>. QED
  BY <1>1, <1>2, <1>3

LEMMA JoinedRowsArePairs ==
    ASSUME NEW table, NEW row \in JoinedRows(table)
    PROVE  row[1] \in DOMAIN table /\ row = <<row[1], row[2]>>
BY DEF JoinedRows

\* A user's tickets after the join and the DISTINCT, whatever the other conditions are.
LEMMA JoinScope ==
    ASSUME NEW table, NEW t \in DOMAIN table, NEW user, user # NULL
    PROVE  /\ \E row \in JoinedRows(table) : row[1] = t
           /\ (\E row \in JoinedRows(table) : row[1] = t /\ row[2] = user)
                <=> user \in table[t].collaborator_ids
<1>1. \E row \in JoinedRows(table) : row[1] = t
  <2>1. CASE table[t].collaborator_ids = {}
    <3>1. <<t, NULL>> \in JoinedRows(table)
      BY <2>1, JoinedRowsOf
    <3>. QED
      BY <3>1
  <2>2. CASE table[t].collaborator_ids # {}
    <3>1. PICK c \in table[t].collaborator_ids : TRUE
      BY <2>2
    <3>2. <<t, c>> \in JoinedRows(table)
      BY <3>1, JoinedRowsOf
    <3>. QED
      BY <3>2
  <2>. QED
    BY <2>1, <2>2
<1>2. ASSUME NEW row \in JoinedRows(table), row[1] = t, row[2] = user
      PROVE  user \in table[t].collaborator_ids
  <2>1. <<t, user>> \in JoinedRows(table)
    BY <1>2, JoinedRowsArePairs
  <2>. QED
    BY <2>1, JoinedRowsOf
<1>3. ASSUME user \in table[t].collaborator_ids
      PROVE  \E row \in JoinedRows(table) : row[1] = t /\ row[2] = user
  <2>1. <<t, user>> \in JoinedRows(table)
    BY <1>3, JoinedRowsOf
  <2>. QED
    BY <2>1
<1>. QED
  BY <1>1, <1>2, <1>3

\* Without filters the queue has every ticket that the user may open.
LEMMA QueueScope ==
    ASSUME NEW viewer \in Users, NEW t \in DOMAIN tickets, NEW archived \in BOOLEAN
    PROVE  t \in Matching(tickets, Unfiltered(viewer), archived) <=>
             CanViewTicket(viewer, tickets[t]) /\ tickets[t].is_archived = archived
<1>. DEFINE q == Unfiltered(viewer)
<1>1. q.viewer = viewer /\ \A ticket : Filters(q, ticket)
  BY DEF Unfiltered, Filters
<1>. HIDE DEF q
<1>2. t \in Matching(tickets, q, archived) <=>
        \E row \in JoinedRows(tickets) :
          /\ row[1] = t
          /\ tickets[row[1]].is_archived = archived
          /\ \/ CanViewFullQueue(viewer)
             \/ tickets[row[1]].primary_assignee_id = viewer
             \/ row[2] = viewer
  BY <1>1 DEF Matching, MatchingRows
<1>3. viewer # NULL
  BY QueueAssumption
<1>4. t \in Matching(tickets, q, archived) <=>
        (IsSupervisor(viewer) \/ IsAssignedTo(viewer, tickets[t])) /\ tickets[t].is_archived = archived
  BY <1>2, <1>3, JoinScope DEF IsAssignedTo, CanViewFullQueue
<1>. QED
  BY <1>4 DEF q, CanViewTicket

\* The queue, the archive and "my tickets" show a user exactly the tickets whose detail
\* page they may open (matching_ticket_ids, list_my_tickets, can_view_ticket).
THEOREM ListsAgree == Spec => []ListsMatchDetailPage
<1>1. ListsMatchDetailPage
  <2>. SUFFICES ASSUME NEW viewer \in Users, NEW t \in DOMAIN tickets, NEW archived \in BOOLEAN
                PROVE  LET visible == /\ CanViewTicket(viewer, tickets[t])
                                      /\ tickets[t].is_archived = archived
                       IN  /\ t \in ListTickets(tickets, viewer, archived) <=> visible
                           /\ t \in Matching(tickets, Unfiltered(viewer), archived) <=> visible
    BY DEF ListsMatchDetailPage
  <2>. DEFINE mine == IsAssignedTo(viewer, tickets[t])
  <2>1. viewer # NULL
    BY QueueAssumption
  <2>2. t \in MyTickets(tickets, viewer, archived) <=>
           mine /\ tickets[t].is_archived = archived
    <3>1. t \in MyTickets(tickets, viewer, archived) <=>
            \E row \in JoinedRows(tickets) :
              /\ row[1] = t
              /\ tickets[row[1]].is_archived = archived
              /\ tickets[row[1]].primary_assignee_id = viewer \/ row[2] = viewer
      BY DEF MyTickets
    <3>. QED
      BY <2>1, <3>1, JoinScope DEF IsAssignedTo
  <2>3. t \in ListTickets(tickets, viewer, archived) <=>
           (IsSupervisor(viewer) \/ mine) /\ tickets[t].is_archived = archived
    BY <2>2 DEF ListTickets, CanViewFullQueue
  <2>4. t \in Matching(tickets, Unfiltered(viewer), archived) <=>
           (IsSupervisor(viewer) \/ mine) /\ tickets[t].is_archived = archived
    BY QueueScope DEF CanViewTicket
  <2>. QED
    BY <2>3, <2>4 DEF CanViewTicket
<1>. QED
  BY <1>1, PTL
-----------------------------------------------------------------------------
(***************************************************************************)
(* Sums.  Sum is the value of a recursive function on the subsets of the   *)
(* domain; that another function is its value is shown by induction on     *)
(* the subsets, as the absence of a smallest one where they differ.        *)
(***************************************************************************)
IsSubtotal(total, f) ==
    total = [S \in SUBSET DOMAIN f |->
                IF S = {} THEN 0
                ELSE LET x == CHOOSE x \in S : TRUE IN f[x] + total[S \ {x}]]

LEMMA SumIsSubtotal == ASSUME NEW f PROVE Sum(f) = (CHOOSE total : IsSubtotal(total, f))[DOMAIN f]
BY DEF Sum, MapThenFoldSet, IsSubtotal

LEMMA SubtotalIsUnique ==
    ASSUME NEW f, IsFiniteSet(DOMAIN f),
           NEW g, IsSubtotal(g, f), NEW h, IsSubtotal(h, f)
    PROVE  g[DOMAIN f] = h[DOMAIN f]
<1>. DEFINE D == DOMAIN f
            differ == {S \in SUBSET D : g[S] # h[S]}
<1>. SUFFICES ASSUME differ # {} PROVE FALSE
  OBVIOUS
<1>1. IsWellFoundedOn(StrictSubsetOrdering(D), SUBSET D)
  BY FS_StrictSubsetOrderingWellFounded, FS_FiniteSubsetsOfFinite
<1>2. differ \subseteq SUBSET D
  OBVIOUS
<1>. HIDE DEF differ
<1>3. PICK S \in differ : \A T \in differ : <<T, S>> \notin StrictSubsetOrdering(D)
  BY <1>1, <1>2, WFMin
<1>. DEFINE x == CHOOSE x \in S : TRUE
            T == S \ {x}
<1>4. S \in SUBSET D /\ g[S] # h[S]
  BY <1>3 DEF differ
<1>5. /\ g[S] = IF S = {} THEN 0 ELSE f[x] + g[T]
      /\ h[S] = IF S = {} THEN 0 ELSE f[x] + h[T]
  BY <1>4 DEF IsSubtotal
<1>6. S # {}
  BY <1>4, <1>5
<1>7. x \in S
  BY <1>6
<1>. HIDE DEF x
<1>8. T \in SUBSET D /\ <<T, S>> \in StrictSubsetOrdering(D)
  BY <1>4, <1>7 DEF StrictSubsetOrdering
<1>9. g[T] = h[T]
  BY <1>3, <1>8 DEF differ
<1>. QED
  BY <1>4, <1>5, <1>6, <1>9

\* The elements of A sorted by g into the parts D: the parts add up to A.
LEMMA SumOfParts ==
    ASSUME NEW D, IsFiniteSet(D), NEW A, IsFiniteSet(A), NEW g \in [A -> D]
    PROVE  Sum([d \in D |-> Cardinality({a \in A : g[a] = d})]) = Cardinality(A)
<1>. DEFINE f == [d \in D |-> Cardinality({a \in A : g[a] = d})]
            Part(S) == {a \in A : g[a] \in S}
            total == [S \in SUBSET D |-> Cardinality(Part(S))]
<1>1. ASSUME NEW S \in SUBSET D, NEW x \in S
      PROVE  Cardinality(Part(S)) = f[x] + Cardinality(Part(S \ {x}))
  <2>. DEFINE here == Part({x})
              rest == Part(S \ {x})
  <2>1. Part(S) = here \cup rest /\ here \cap rest = {}
    OBVIOUS
  <2>2. here \subseteq A /\ rest \subseteq A
    OBVIOUS
  <2>3. f[x] = Cardinality(here)
    <3>1. here = {a \in A : g[a] = x}
      OBVIOUS
    <3>. QED
      BY <3>1
  <2>. HIDE DEF here, rest, Part, f
  <2>4. IsFiniteSet(here) /\ IsFiniteSet(rest)
    BY <2>2, FS_Subset
  <2>5. Cardinality(here \cup rest) = Cardinality(here) + Cardinality(rest) - Cardinality(here \cap rest)
    BY <2>4, FS_Union
  <2>6. Cardinality(here) \in Nat /\ Cardinality(rest) \in Nat /\ Cardinality({}) = 0
    BY <2>4, FS_CardinalityType, FS_EmptySet
  <2>. DEFINE m == Cardinality(here)
              n == Cardinality(rest)
              none == Cardinality(here \cap rest)
              all == Cardinality(here \cup rest)
  <2>7. Cardinality(Part(S)) = Cardinality(here) + Cardinality(rest)
    <3>1. all = m + n - none /\ none = 0 /\ m \in Nat /\ n \in Nat
      BY <2>1, <2>5, <2>6
    <3>2. Cardinality(Part(S)) = all
      BY <2>1
    <3>. HIDE DEF m, n, none, all
    <3>3. all = m + n
      BY <3>1
    <3>. QED
      BY <3>2, <3>3 DEF m, n
  <2>8. Cardinality(Part(S)) = f[x] + Cardinality(rest)
    BY <2>3, <2>7
  <2>. QED
    BY <2>8 DEF rest
<1>2. Cardinality(Part({})) = 0
  <2>1. Part({}) = {}
    OBVIOUS
  <2>. QED
    BY <2>1, FS_EmptySet
<1>3. DOMAIN f = D
  OBVIOUS
<1>. HIDE DEF Part, f
<1>4. IsSubtotal(total, f)
  <2>1. ASSUME NEW S \in SUBSET D
        PROVE  total[S] = IF S = {} THEN 0
                          ELSE LET x == CHOOSE x \in S : TRUE IN f[x] + total[S \ {x}]
    <3>1. CASE S = {}
      BY <1>2, <3>1
    <3>2. CASE S # {}
      <4>. DEFINE x == CHOOSE x \in S : TRUE
      <4>1. x \in S
        BY <3>2
      <4>. HIDE DEF x
      <4>2. total[S] = f[x] + total[S \ {x}]
        BY <1>1, <4>1
      <4>. QED
        BY <3>2, <4>2 DEF x
    <3>. QED
      BY <3>1, <3>2
  <2>2. total = [S \in SUBSET D |-> total[S]]
    OBVIOUS
  <2>. HIDE DEF total
  <2>3. total = [S \in SUBSET D |-> IF S = {} THEN 0
                          ELSE LET x == CHOOSE x \in S : TRUE IN f[x] + total[S \ {x}]]
    BY <2>1, <2>2
  <2>. QED
    BY <1>3, <2>3 DEF IsSubtotal
<1>5. total[D] = Cardinality(A)
  <2>1. Part(D) = A
    BY DEF Part
  <2>. QED
    BY <2>1
<1>. HIDE DEF total
<1>6. IsSubtotal(CHOOSE t : IsSubtotal(t, f), f)
  BY <1>4
<1>7. Sum(f) = total[D]
  BY <1>3, <1>4, <1>6, SumIsSubtotal, SubtotalIsUnique
<1>. QED
  BY <1>5, <1>7 DEF f
-----------------------------------------------------------------------------
(***************************************************************************)
(* The dashboard.                                                          *)
(***************************************************************************)
LEMMA ScopeFacts ==
    ASSUME TypeOK, NEW viewer \in Users
    PROVE  /\ Unfiltered(viewer) \in Query
           /\ IsFiniteSet(Scope(viewer))
           /\ Scope(viewer) \subseteq DOMAIN tickets
           /\ \A t \in Scope(viewer) : tickets[t] \in Row
<1>1. Unfiltered(viewer) \in Query
  BY DEF Unfiltered, Query
<1>2. IsFiniteSet(Scope(viewer)) /\ Scope(viewer) \subseteq DOMAIN tickets
  BY MatchesFinite, MatchesAreRows DEF Scope, TypeOK
<1>. QED
  BY <1>1, <1>2 DEF TypeOK, IsTable

\* Filtering the queue by a status leaves the tickets of the scope that have it.
LEMMA StatusFilter ==
    ASSUME NEW viewer, NEW s \in TicketStatus
    PROVE  Matching(tickets, [Unfiltered(viewer) EXCEPT !.status = s], FALSE)
             = {t \in Scope(viewer) : tickets[t].status = s}
<1>. DEFINE all == Unfiltered(viewer)
            q == [all EXCEPT !.status = s]
<1>1. /\ q.viewer = all.viewer
      /\ \A ticket : Filters(q, ticket) <=> Filters(all, ticket) /\ ticket.status = s
  BY DashboardAssumption DEF Unfiltered, Filters
<1>. HIDE DEF all, q
<1>2. MatchingRows(tickets, q, FALSE)
        = {row \in MatchingRows(tickets, all, FALSE) : tickets[row[1]].status = s}
  BY <1>1 DEF MatchingRows
<1>3. Matching(tickets, q, FALSE) = {t \in Matching(tickets, all, FALSE) : tickets[t].status = s}
  BY <1>2 DEF Matching
<1>. QED
  BY <1>3 DEF Scope, all, q

\* The groups of GROUP BY status add up to the tickets grouped.
LEMMA StatusesAddUp ==
    ASSUME TypeOK, NEW viewer \in Users
    PROVE  Sum(BreakdownByStatus(viewer)) = Cardinality(Scope(viewer))
<1>. DEFINE A == Scope(viewer)
            g == [t \in A |-> tickets[t].status]
            D == {tickets[t].status : t \in A}
<1>1. IsFiniteSet(A)
  BY ScopeFacts
<1>2. g \in [A -> D] /\ g \in Surjection(A, D)
  BY DEF Surjection
<1>3. IsFiniteSet(D)
  BY <1>1, <1>2, FS_Surjection DEF ExistsSurjection
<1>4. BreakdownByStatus(viewer) = [d \in D |-> Cardinality({t \in A : g[t] = d})]
  <2>1. \A d : {t \in A : g[t] = d} = {t \in A : tickets[t].status = d}
    OBVIOUS
  <2>2. BreakdownByStatus(viewer) = [d \in D |-> Cardinality({t \in A : tickets[t].status = d})]
    BY DEF BreakdownByStatus, InScope
  <2>. QED
    BY <2>1, <2>2
<1>. HIDE DEF A, g, D
<1>. QED
  BY <1>1, <1>2, <1>3, <1>4, SumOfParts DEF A

\* Every ticket that is not archived has an agent for its assignee.
LEMMA AgentsAddUp ==
    ASSUME TypeOK, NEW viewer \in Users, CanViewFullQueue(viewer)
    PROVE  Sum(BreakdownByAgent) = Cardinality(Scope(viewer))
<1>. DEFINE A == Scope(viewer)
            g == [t \in A |-> tickets[t].primary_assignee_id]
<1>1. IsFiniteSet(A) /\ A \subseteq DOMAIN tickets
  BY ScopeFacts
<1>2. g \in [A -> Agents]
  BY ScopeFacts DEF Row
<1>3. IsFiniteSet(Agents)
  BY DashboardAssumption, FS_Subset DEF Agents
<1>4. A = {t \in DOMAIN tickets : ~ tickets[t].is_archived}
  <2>1. \A t \in DOMAIN tickets : tickets[t].is_archived \in BOOLEAN
    BY DEF TypeOK, IsTable, Row
  <2>2. \A t \in DOMAIN tickets : t \in A <=> tickets[t].is_archived = FALSE
    BY QueueScope DEF CanViewTicket, CanViewFullQueue, Scope
  <2>. QED
    BY <1>1, <2>1, <2>2
<1>5. BreakdownByAgent = [a \in Agents |-> Cardinality({t \in A : g[t] = a})]
  <2>1. \A a : {t \in A : g[t] = a}
                 = {t \in DOMAIN tickets :
                      tickets[t].primary_assignee_id = a /\ ~ tickets[t].is_archived}
    BY <1>4
  <2>. QED
    BY <2>1 DEF BreakdownByAgent
<1>. HIDE DEF A, g
<1>. QED
  BY <1>1, <1>2, <1>3, <1>5, SumOfParts DEF A

\* The active tickets past their target are the active rows of the CSV that say so.
LEMMA BreachingRows ==
    ASSUME TypeOK, NEW viewer \in Users
    PROVE  LET csv == AllMatching(tickets, Unfiltered(viewer))
           IN  Cardinality({t \in Scope(viewer) :
                   tickets[t].status \in ActiveStatuses /\ tickets[t].overdue})
               = Cardinality({i \in DOMAIN csv :
                   /\ BreachStatus(tickets[csv[i]]) = "breaching"
                   /\ tickets[csv[i]].status \in ActiveStatuses})
<1>. DEFINE queue == Unfiltered(viewer)
            csv == AllMatching(tickets, queue)
            A == Scope(viewer)
            n == Total(tickets, queue)
            P(t) == tickets[t].status \in ActiveStatuses /\ tickets[t].overdue
            late == {t \in A : P(t)}
            rows == {i \in DOMAIN csv : P(csv[i])}
            place == [t \in late |-> Position(tickets, queue, t)]
<1>1. IsTable(tickets) /\ queue \in Query /\ IsFiniteSet(A)
  BY ScopeFacts DEF TypeOK
<1>2. /\ csv \in [1..n -> A]
      /\ \A i \in 1..n : Position(tickets, queue, csv[i]) = i
      /\ \A t \in A : csv[Position(tickets, queue, t)] = t
      /\ \A t \in A : Position(tickets, queue, t) \in 1..n
  BY <1>1, ExportHasAll, PositionsAreAll, ZenonT(30) DEF Scope
<1>3. rows = {i \in DOMAIN csv : /\ BreachStatus(tickets[csv[i]]) = "breaching"
                                 /\ tickets[csv[i]].status \in ActiveStatuses}
  <2>1. \A i \in DOMAIN csv : tickets[csv[i]].overdue \in BOOLEAN
    BY <1>2, ScopeFacts DEF Row
  <2>2. \A i \in DOMAIN csv : BreachStatus(tickets[csv[i]]) = "breaching" <=> tickets[csv[i]].overdue
    BY <2>1 DEF BreachStatus
  <2>. QED
    BY <2>2
<1>4. IsFiniteSet(late)
  BY <1>1, FS_Subset
<1>. HIDE DEF A, n, csv, P, queue
<1>5. place \in [late -> rows]
  BY <1>2
<1>6. place \in Bijection(late, rows)
  <2>1. \A a, b \in late : place[a] = place[b] => a = b
    BY <1>2
  <2>2. \A i \in rows : csv[i] \in late /\ place[csv[i]] = i
    BY <1>2
  <2>. HIDE DEF late, rows, place
  <2>. QED
    BY <1>5, <2>1, <2>2 DEF Bijection, Injection, Surjection, IsInjective
<1>7. Cardinality(late) = Cardinality(rows)
  BY <1>4, <1>6, FS_Bijection DEF ExistsBijection
<1>. QED
  BY <1>3, <1>7 DEF A, csv, queue, P

\* The figures of a dashboard that nobody writes during count what the queue and the CSV
\* show (headline_counts, breakdown_by_status, breakdown_by_agent, _breach_status).
THEOREM FiguresAddUp == Spec => []FiguresAgree
<1>1. TypeOK => FiguresAgree
  <2>. SUFFICES ASSUME TypeOK, NEW viewer \in Users
                PROVE  LET headline == HeadlineCounts(viewer, 0)
                           queue == Unfiltered(viewer)
                           csv == AllMatching(tickets, queue)
                       IN  /\ headline.open = Total(tickets, [queue EXCEPT !.status = "open"])
                           /\ headline.pending = Total(tickets, [queue EXCEPT !.status = "pending"])
                           /\ Sum(BreakdownByStatus(viewer)) = Total(tickets, queue)
                           /\ CanViewFullQueue(viewer) =>
                                Sum(BreakdownByAgent) = Total(tickets, queue)
                           /\ headline.breaching = Cardinality({i \in DOMAIN csv :
                                /\ BreachStatus(tickets[csv[i]]) = "breaching"
                                /\ tickets[csv[i]].status \in ActiveStatuses})
    BY DEF FiguresAgree
  <2>. DEFINE headline == HeadlineCounts(viewer, 0)
              queue == Unfiltered(viewer)
  <2>1. /\ headline.open = Cardinality({t \in Scope(viewer) : tickets[t].status = "open"})
        /\ headline.pending = Cardinality({t \in Scope(viewer) : tickets[t].status = "pending"})
        /\ headline.breaching = Cardinality({t \in Scope(viewer) :
              tickets[t].status \in ActiveStatuses /\ tickets[t].overdue})
    BY DEF HeadlineCounts, InScope
  <2>2. \A s \in TicketStatus : Total(tickets, [queue EXCEPT !.status = s])
           = Cardinality({t \in Scope(viewer) : tickets[t].status = s})
    BY StatusFilter DEF Total
  <2>3. "open" \in TicketStatus /\ "pending" \in TicketStatus
    BY DEF TicketStatus
  <2>4. Total(tickets, queue) = Cardinality(Scope(viewer))
    BY DEF Total, Scope
  <2>. HIDE DEF headline, queue
  <2>5. /\ headline.open = Total(tickets, [queue EXCEPT !.status = "open"])
        /\ headline.pending = Total(tickets, [queue EXCEPT !.status = "pending"])
    BY <2>1, <2>2, <2>3
  <2>6. /\ Sum(BreakdownByStatus(viewer)) = Total(tickets, queue)
        /\ CanViewFullQueue(viewer) => Sum(BreakdownByAgent) = Total(tickets, queue)
    BY <2>4, StatusesAddUp, AgentsAddUp
  <2>. QED
    BY <2>1, <2>5, <2>6, BreachingRows, Zenon DEF headline, queue
<1>. QED
  BY <1>1, TypeCorrect, PTL
-----------------------------------------------------------------------------
(***************************************************************************)
(* The weeks.                                                              *)
(***************************************************************************)
LEMMA DivMod ==
    ASSUME NEW r \in Nat, NEW w \in Nat, w > 0
    PROVE  /\ r \div w \in Nat
           /\ r = w * (r \div w) + (r % w)
           /\ r % w \in Nat /\ r % w < w
BY Z3

\* An instant lies in the k-th week if and only if k is its number of whole weeks.
LEMMA InWeek ==
    ASSUME NEW r \in Nat, NEW w \in Nat, w > 0, NEW k \in Int
    PROVE  w * k <= r /\ r < w * k + w <=> r \div w = k
<1>. DEFINE d == r \div w
            m == r % w
<1>1. d \in Nat /\ r = w * d + m /\ m \in Nat /\ m < w
  BY DivMod
<1>. HIDE DEF d, m
<1>2. ASSUME d < k PROVE w * d + w <= w * k
  <2>1. d + 1 <= k
    BY <1>1, <1>2
  <2>. QED
    BY <1>1, <2>1, Z3
<1>3. ASSUME k < d PROVE w * k + w <= w * d
  <2>1. k + 1 <= d
    BY <1>1, <1>3
  <2>. QED
    BY <1>1, <2>1, Z3
<1>4. w * k \in Int /\ w * d \in Int
  BY <1>1
<1>5. CASE d = k
  BY <1>1, <1>4, <1>5 DEF d
<1>6. CASE d < k
  BY <1>1, <1>2, <1>4, <1>6 DEF d
<1>7. CASE k < d
  BY <1>1, <1>3, <1>4, <1>7 DEF d
<1>. QED
  BY <1>1, <1>5, <1>6, <1>7

LEMMA LaterWeek ==
    ASSUME NEW r \in Nat, NEW s \in Nat, NEW w \in Nat, w > 0, r <= s
    PROVE  r \div w <= s \div w
<1>. DEFINE d == r \div w
            e == s \div w
<1>1. /\ d \in Nat /\ r = w * d + (r % w) /\ r % w \in Nat
      /\ e \in Nat /\ s = w * e + (s % w) /\ s % w \in Nat /\ s % w < w
  BY DivMod
<1>. DEFINE m == r % w
            n == s % w
<1>. HIDE DEF d, e, m, n
<1>2. /\ d \in Nat /\ r = w * d + m /\ m \in Nat
      /\ e \in Nat /\ s = w * e + n /\ n \in Nat /\ n < w
  BY <1>1 DEF m, n
<1>. SUFFICES ASSUME e < d PROVE FALSE
  BY <1>2 DEF d, e
<1>3. e + 1 <= d
  BY <1>2
<1>4. w * e + w <= w * d
  BY <1>2, <1>3, Z3
<1>. QED
  BY <1>2, <1>4, Z3

\* What a ticket was resolved at, if it was.
LEMMA ResolvedAt ==
    ASSUME TypeOK, NEW viewer \in Users, NEW t \in Scope(viewer), tickets[t].resolved_at # NULL
    PROVE  tickets[t].resolved_at \in Nat
BY ScopeFacts, QueueAssumption DEF Row

\* The start of a bar, in whole weeks.
LEMMA BarStart ==
    ASSUME NEW now \in Nat, NEW i \in Int
    PROVE  /\ WeekStart(now) \in Int
           /\ WeekStart(now) = WeekLength * (now \div WeekLength)
           /\ WeekStart(now) - (Weeks - i) * WeekLength
                = WeekLength * ((now \div WeekLength) - (Weeks - i))
<1>1. WeekLength \in Nat /\ WeekLength > 0 /\ Weeks \in Nat
  BY DashboardAssumption
<1>. DEFINE d == now \div WeekLength
            m == now % WeekLength
            w == WeekLength
            b == Weeks - i
<1>2. d \in Nat /\ now = w * d + m /\ m \in Nat
  BY <1>1, DivMod
<1>3. WeekStart(now) = now - m /\ b \in Int
  BY <1>1 DEF WeekStart
<1>4. w \in Nat
  BY <1>1
<1>. HIDE DEF d, m, w, b
<1>5. now - m = w * d
  BY <1>2, <1>4, Z3
<1>6. w * d - b * w = w * (d - b)
  BY <1>2, <1>3, <1>4, Z3
<1>7. WeekStart(now) = w * d /\ w * d \in Int
  BY <1>2, <1>3, <1>4, <1>5
<1>8. WeekStart(now) - b * w = w * (d - b)
  BY <1>6, <1>7
<1>. QED
  BY <1>7, <1>8 DEF w, d, b

\* The bars are the calendar weeks.
LEMMA Bars ==
    ASSUME TypeOK, NEW viewer \in Users, NEW now \in Nat
    PROVE  ResolvedPerWeek(viewer, now) =
             [i \in 1..Weeks |-> Cardinality({t \in Scope(viewer) :
                /\ tickets[t].resolved_at # NULL
                /\ tickets[t].resolved_at \div WeekLength
                     = (now \div WeekLength) - (Weeks - i)})]
<1>1. WeekLength \in Nat /\ WeekLength > 0 /\ Weeks \in Nat
  BY DashboardAssumption
<1>. DEFINE start(i) == WeekStart(now) - (Weeks - i) * WeekLength
            InBar(t, i) == /\ tickets[t].resolved_at # NULL
                           /\ start(i) <= tickets[t].resolved_at
                           /\ tickets[t].resolved_at < start(i) + WeekLength
            InTheWeek(t, i) == /\ tickets[t].resolved_at # NULL
                               /\ tickets[t].resolved_at \div WeekLength
                                    = (now \div WeekLength) - (Weeks - i)
<1>2. ASSUME NEW i \in 1..Weeks, NEW t \in Scope(viewer) PROVE InBar(t, i) <=> InTheWeek(t, i)
  <2>. SUFFICES ASSUME tickets[t].resolved_at # NULL PROVE InBar(t, i) <=> InTheWeek(t, i)
    OBVIOUS
  <2>. DEFINE r == tickets[t].resolved_at
              k == (now \div WeekLength) - (Weeks - i)
  <2>1. r \in Nat
    BY ResolvedAt
  <2>2. i \in Int /\ k \in Int
    BY <1>1, DivMod
  <2>3. start(i) = WeekLength * k
    BY <2>2, BarStart
  <2>. HIDE DEF r, k, start
  <2>4. start(i) <= r /\ r < start(i) + WeekLength <=> r \div WeekLength = k
    BY <1>1, <2>1, <2>2, <2>3, InWeek
  <2>. QED
    BY <2>4 DEF r, k
<1>3. ResolvedPerWeek(viewer, now)
        = [i \in 1..Weeks |-> Cardinality({t \in Scope(viewer) : InBar(t, i)})]
  BY DEF ResolvedPerWeek, InScope
<1>. HIDE DEF InBar, InTheWeek
<1>4. \A i \in 1..Weeks : {t \in Scope(viewer) : InBar(t, i)} = {t \in Scope(viewer) : InTheWeek(t, i)}
  BY <1>2
<1>5. ResolvedPerWeek(viewer, now)
        = [i \in 1..Weeks |-> Cardinality({t \in Scope(viewer) : InTheWeek(t, i)})]
  BY <1>3, <1>4
<1>. QED
  BY <1>5 DEF InTheWeek

\* On a dashboard that nobody writes during, "resolved this week" is the last bar of the
\* chart, and each resolution of the last weeks is in one bar (_week_start,
\* resolved_per_week).
THEOREM WeeksAddUp == Spec => []WeeksAgree
<1>1. TypeOK => WeeksAgree
  <2>. SUFFICES ASSUME TypeOK, NEW viewer \in Users, NEW now \in Instants,
                       \A t \in {u \in Scope(viewer) : tickets[u].resolved_at # NULL} :
                         tickets[t].resolved_at <= now
                PROVE  LET resolved == {t \in Scope(viewer) : tickets[t].resolved_at # NULL}
                           bars == ResolvedPerWeek(viewer, now)
                       IN  /\ HeadlineCounts(viewer, now).resolved_this_week = bars[Weeks]
                           /\ Sum(bars) = Cardinality({t \in resolved :
                                (now \div WeekLength) - (tickets[t].resolved_at \div WeekLength) < Weeks})
    BY DEF WeeksAgree
  <2>. DEFINE week == now \div WeekLength
              When(t) == tickets[t].resolved_at \div WeekLength
              resolved == {t \in Scope(viewer) : tickets[t].resolved_at # NULL}
              bars == ResolvedPerWeek(viewer, now)
              A == {t \in resolved : week - When(t) < Weeks}
              g == [t \in A |-> Weeks - (week - When(t))]
  <2>1. WeekLength \in Nat /\ WeekLength > 0 /\ Weeks \in Nat /\ Weeks > 0 /\ now \in Nat
    BY DashboardAssumption, QueueAssumption
  <2>2. week \in Nat
    BY <2>1, DivMod
  <2>3. \A t \in resolved : When(t) \in Nat /\ When(t) <= week /\ tickets[t].resolved_at \in Nat
    BY <2>1, ResolvedAt, DivMod, LaterWeek
  <2>4. bars = [i \in 1..Weeks |-> Cardinality({t \in resolved : When(t) = week - (Weeks - i)})]
    <3>1. \A i : {t \in Scope(viewer) : tickets[t].resolved_at # NULL
                                          /\ When(t) = week - (Weeks - i)}
               = {t \in resolved : When(t) = week - (Weeks - i)}
      OBVIOUS
    <3>2. bars = [i \in 1..Weeks |-> Cardinality({t \in Scope(viewer) :
                    tickets[t].resolved_at # NULL /\ When(t) = week - (Weeks - i)})]
      BY <2>1, Bars
    <3>. QED
      BY <3>1, <3>2
  <2>5. HeadlineCounts(viewer, now).resolved_this_week = bars[Weeks]
    <3>1. HeadlineCounts(viewer, now).resolved_this_week
            = Cardinality({t \in Scope(viewer) : /\ tickets[t].resolved_at # NULL
                                                 /\ tickets[t].resolved_at >= WeekStart(now)})
      BY DEF HeadlineCounts, InScope
    <3>2. WeekStart(now) \in Int /\ WeekStart(now) = WeekLength * week
      BY <2>1, BarStart
    <3>3. ASSUME NEW t \in resolved
          PROVE  tickets[t].resolved_at >= WeekStart(now) <=> When(t) = week - (Weeks - Weeks)
      <4>1. week - (Weeks - Weeks) = week
        BY <2>1, <2>2
      <4>2. WeekLength * week <= now /\ now < WeekLength * week + WeekLength
        BY <2>1, <2>2, InWeek
      <4>. DEFINE r == tickets[t].resolved_at
      <4>3. r \in Nat /\ r <= now
        BY <2>3
      <4>. HIDE DEF r, week
      <4>4. WeekLength * week \in Int
        BY <2>1, <2>2
      <4>5. WeekLength * week <= r /\ r < WeekLength * week + WeekLength <=> r \div WeekLength = week
        BY <2>1, <2>2, <4>3, InWeek
      <4>6. r < WeekLength * week + WeekLength
        BY <2>1, <4>2, <4>3, <4>4
      <4>7. r >= WeekStart(now) <=> r \div WeekLength = week
        BY <3>2, <4>3, <4>4, <4>5, <4>6
      <4>. QED
        BY <4>1, <4>7 DEF r
    <3>4. {t \in Scope(viewer) : tickets[t].resolved_at # NULL /\ tickets[t].resolved_at >= WeekStart(now)}
            = {t \in resolved : When(t) = week - (Weeks - Weeks)}
      BY <3>3
    <3>5. Weeks \in 1..Weeks
      BY <2>1
    <3>. HIDE DEF bars
    <3>. QED
      BY <2>4, <3>1, <3>4, <3>5
  <2>6. g \in [A -> 1..Weeks]
    BY <2>1, <2>2, <2>3
  <2>7. bars = [i \in 1..Weeks |-> Cardinality({t \in A : g[t] = i})]
    <3>1. ASSUME NEW i \in 1..Weeks
          PROVE  {t \in resolved : When(t) = week - (Weeks - i)} = {t \in A : g[t] = i}
      BY <2>1, <2>2, <2>3
    <3>. HIDE DEF A, g, resolved, bars, When, week
    <3>. QED
      BY <2>4, <3>1
  <2>8. IsFiniteSet(A) /\ IsFiniteSet(1..Weeks)
    <3>1. A \subseteq Scope(viewer)
      OBVIOUS
    <3>. HIDE DEF A
    <3>. QED
      BY <2>1, <3>1, ScopeFacts, FS_Subset, FS_Interval
  <2>9. Sum(bars) = Cardinality(A)
    <3>. DEFINE D == 1..Weeks
    <3>1. g \in [A -> D] /\ bars = [i \in D |-> Cardinality({t \in A : g[t] = i})]
      BY <2>6, <2>7
    <3>2. IsFiniteSet(A) /\ IsFiniteSet(D)
      BY <2>8
    <3>. HIDE DEF A, g, bars, D
    <3>. QED
      BY <3>1, <3>2, SumOfParts
  <2>. QED
    BY <2>5, <2>9
<1>. QED
  BY <1>1, TypeCorrect, PTL
=============================================================================
