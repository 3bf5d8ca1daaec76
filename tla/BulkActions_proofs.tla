------------------------ MODULE BulkActions_proofs -------------------------
(***************************************************************************)
(* For any tickets, any selection, any number of moves by others: the      *)
(* report of a batch is true of what was committed, each of its lines has  *)
(* a reason, an agent's batch changes nothing, a batch fails only for the  *)
(* three reasons stated, and nobody strands a ticket.                      *)
(***************************************************************************)
EXTENDS BulkActions, FiniteSetTheorems, TLAPS

Busy == {"check", "select", "commit", "refresh", "refused", "failed"}

\* Where the loop is: one outcome for every line behind it, and from db.get() to the end
\* of a line the session holds that line's ticket.
Position ==
    /\ Len(report) = batch.line - 1
    /\ IF batch.pc = "done" THEN batch.line = Len(batch.ids) + 1
                            ELSE batch.line \in 1 .. Len(batch.ids)
    /\ batch.pc \in Busy => Id \in Tickets /\ batch.held = Id
    /\ batch.held # NULL => batch.copy \in Ticket
    /\ batch.pc = "refused" => batch.answer # "done"

\* What the batch has committed so far, and what it is about to.
LinesCommitted ==
    /\ \A c \in DOMAIN commits :
         /\ commits[c].line <= batch.line
         /\ commits[c].line = batch.line => batch.pc = "refresh"
    /\ batch.kind = "close" /\ batch.pc = "refresh" => Changed(batch.line)
    /\ \A i \in DOMAIN report :
         /\ report[i] # "done" => ~ Changed(i)
         /\ report[i] = "done" /\ batch.kind = "close" => Changed(i)

\* The rights the copy was checked for do not depend on the copy, but for the assignee.
Rights ==
    /\ AgentsChangeNothing
    /\ batch.pc = "select" => batch.kind = "close"
    /\ batch.pc \in {"select", "commit"} =>
         \/ batch.actor \notin Agents
         \/ batch.kind = "reassign" /\ batch.new_assignee_id = batch.copy.primary_assignee_id

\* A copy nobody has overtaken has the status of the ticket.
CopyIsFresh ==
    /\ batch.seen <= Len(commits)
    /\ batch.held # NULL /\ batch.pc # "refresh" =>
         \/ batch.copy.status = tickets[batch.held].status
         \/ \E c \in DOMAIN commits :
              c > batch.seen /\ commits[c].line = 0 /\ commits[c].ticket = batch.held
    /\ batch.pc = "select" => batch.copy.status = "resolved"

\* The Resolved period that the batch selected exists.
SelectedRowExists ==
    batch.pc = "commit" /\ batch.kind = "close" => batch.row \in DOMAIN resolved_periods[Id]

IInv ==
    /\ TypeOK
    /\ Position
    /\ LinesCommitted
    /\ Rights
    /\ CopyIsFresh
    /\ SelectedRowExists
    /\ FailsForAReason
-----------------------------------------------------------------------------
\* A batch begins with nothing reported, held or committed.
LEMMA InitIInv == Init => IInv
<1> SUFFICES ASSUME Init PROVE IInv
  OBVIOUS
<1> USE BulkAssumption, NullAssumption, SupervisorsAssumption
<1>1. batch.ids \in Seq(Ids) /\ Len(batch.ids) \in Nat \ {0}
  BY DEF Init
<1>2. \A t \in Tickets : resolved_periods[t] \in Seq(Period)
  <2>1. InProgress \in Period
    BY DEF InProgress, Now, Period, Instant
  <2>2. /\ <<>> \in Seq(Period) /\ <<InProgress>> \in Seq(Period)
        /\ <<InProgress, InProgress>> \in Seq(Period)
    BY <2>1
  <2> QED BY <2>2 DEF Init, PeriodsOf
<1>3. TypeOK
  <2>1. tickets \in [Tickets -> Ticket] /\ was \in [Tickets -> SUBSET Ticket]
    BY DEF Init, Ticket, Agents
  <2>2. batch \in Batch
    BY DEF Init, Batch, Outcomes
  <2>3. DOMAIN resolved_periods = Tickets
    BY DEF Init
  <2> QED BY <1>2, <2>1, <2>2, <2>3 DEF Init, TypeOK
<1>4. Position
  BY <1>1 DEF Init, Position, Busy
<1>5. LinesCommitted /\ Rights /\ CopyIsFresh /\ SelectedRowExists /\ FailsForAReason
  BY DEF Init, LinesCommitted, Rights, AgentsChangeNothing, CopyIsFresh, SelectedRowExists,
         FailsForAReason
<1> QED BY <1>3, <1>4, <1>5 DEF IInv
-----------------------------------------------------------------------------
\* The types of the fields the proofs read.
LEMMA Typed ==
    ASSUME IInv
    PROVE  /\ batch.line \in Nat \ {0} /\ batch.seen \in Nat /\ Len(commits) \in Nat
           /\ batch.ids \in Seq(Ids) /\ Len(batch.ids) \in Nat
           /\ batch.held \in Tickets \cup {NULL} /\ batch.copy \in Ticket \cup {NULL}
           /\ batch.answer \in Outcomes /\ batch.kind \in Kinds
           /\ batch.new_assignee_id \in Agents /\ batch.actor \in Users
           /\ \A c \in DOMAIN commits :
                commits[c].line \in Nat /\ commits[c].ticket \in Tickets
<1>1. batch \in Batch /\ commits \in Seq([ticket : Tickets, line : Nat])
  BY DEF IInv, TypeOK
<1>2. \A c \in DOMAIN commits : commits[c] \in [ticket : Tickets, line : Nat]
  <2> DEFINE Commits == [ticket : Tickets, line : Nat]
  <2>1. commits \in Seq(Commits)
    BY <1>1
  <2> HIDE DEF Commits
  <2>2. \A c \in DOMAIN commits : commits[c] \in Commits
    BY <2>1
  <2> QED BY <2>2 DEF Commits
<1>3. \A c \in DOMAIN commits : commits[c].line \in Nat /\ commits[c].ticket \in Tickets
  BY <1>2
<1>4. batch.ids \in Seq(Ids) /\ Len(batch.ids) \in Nat
  BY <1>1, BulkAssumption DEF Batch
<1> QED BY <1>1, <1>3, <1>4 DEF Batch

\* The end of a line: a true outcome is reported and the session holds a fresh copy, or none.
LEMMA ReportStep ==
    ASSUME IInv, NEW outcome \in Outcomes, NEW held \in Tickets \cup {NULL},
           NEW copy \in Ticket \cup {NULL}, NEW seen \in 0 .. Len(commits),
           Report(outcome, held, copy, seen),
           UNCHANGED <<tickets, resolved_periods, commits, was>>,
           batch.pc \in {"get", "refresh", "refused"},
           held # NULL => copy \in Ticket,
           held # NULL =>
             \/ copy.status = tickets[held].status
             \/ \E c \in DOMAIN commits :
                  c > seen /\ commits[c].line = 0 /\ commits[c].ticket = held,
           outcome # "done" => ~ Changed(batch.line),
           outcome = "done" /\ batch.kind = "close" => Changed(batch.line)
    PROVE  IInv'
<1> USE BulkAssumption, NullAssumption
<1>1. /\ batch \in Batch
      /\ report \in Seq(Outcomes) /\ Len(report) = batch.line - 1
      /\ commits \in Seq([ticket : Tickets, line : Nat])
      /\ batch.line \in 1 .. Len(batch.ids)
  BY DEF IInv, TypeOK, Position
<1>2. /\ batch.ids \in Seq(Ids)
      /\ batch.line \in Nat \ {0} /\ Len(batch.ids) \in Nat \ {0}
  BY <1>1 DEF Batch
<1>3. /\ report' = Append(report, outcome)
      /\ batch' = [batch EXCEPT !.pc = IF batch.line = Len(batch.ids) THEN "done" ELSE "get",
                              !.line = @ + 1, !.row = NULL,
                              !.held = held, !.copy = copy, !.seen = seen]
  BY DEF Report
<1>4. /\ batch'.pc = IF batch.line = Len(batch.ids) THEN "done" ELSE "get"
      /\ batch'.line = batch.line + 1
      /\ batch'.held = held /\ batch'.copy = copy /\ batch'.seen = seen
      /\ batch'.ids = batch.ids /\ batch'.kind = batch.kind /\ batch'.actor = batch.actor
      /\ batch'.new_assignee_id = batch.new_assignee_id
  BY <1>1, <1>3 DEF Batch
<1>5. TypeOK'
  <2>1. batch.line + 1 \in Nat \ {0} /\ seen \in Nat
    BY <1>2, Typed
  <2>2. batch' \in Batch
    BY <1>1, <1>3, <2>1 DEF Batch
  <2> QED BY <1>1, <1>3, <2>2 DEF IInv, TypeOK
<1>6. Position'
  BY <1>1, <1>2, <1>3, <1>4 DEF Position, Busy
<1>7. LinesCommitted'
  <2>1. \A c \in DOMAIN commits : commits[c].line <= batch.line
    BY DEF IInv, LinesCommitted
  <2>2. \A c \in DOMAIN commits : commits[c].line \in Nat
    BY Typed
  <2>3. \A i \in DOMAIN report' : i \in DOMAIN report \/ i = batch.line
    BY <1>1, <1>3
  <2>4. /\ \A i \in DOMAIN report : report'[i] = report[i]
        /\ report'[batch.line] = outcome
    BY <1>1, <1>2, <1>3
  <2>5. \A i \in DOMAIN report' :
          /\ report'[i] # "done" => ~ Changed(i)
          /\ report'[i] = "done" /\ batch.kind = "close" => Changed(i)
    BY <2>3, <2>4 DEF IInv, LinesCommitted
  <2> QED BY <1>2, <1>4, <2>1, <2>2, <2>5 DEF LinesCommitted, Changed
<1>8. Rights'
  BY <1>4 DEF IInv, Rights, AgentsChangeNothing
<1>9. CopyIsFresh'
  BY <1>1, <1>4 DEF CopyIsFresh
<1>10. SelectedRowExists' /\ FailsForAReason'
  BY <1>4 DEF IInv, SelectedRowExists, FailsForAReason
<1> QED BY <1>5, <1>6, <1>7, <1>8, <1>9, <1>10 DEF IInv

\* A line that has committed nothing yet has changed nothing.
LEMMA LineUnchanged == ASSUME IInv, batch.pc # "refresh" PROVE ~ Changed(batch.line)
BY DEF IInv, LinesCommitted, Changed

\* A line whose ticket does not exist; the copy of an earlier line may go on being held.
LEMMA NotFoundStep == ASSUME IInv, NotFound PROVE IInv'
<1>1. batch.pc = "get" /\ UNCHANGED <<tickets, resolved_periods, commits, was>>
  BY DEF NotFound
<1>2. ~ Changed(batch.line)
  BY <1>1, LineUnchanged
<1>3. batch.seen \in 0 .. Len(commits) /\ "not found" \in Outcomes
  <2>1. batch.seen \in Nat /\ Len(commits) \in Nat
    BY Typed
  <2> QED BY <2>1 DEF IInv, CopyIsFresh, Outcomes
<1>4. CASE Report("not found", batch.held, batch.copy, batch.seen)
  <2>1. batch.held # NULL =>
          /\ batch.copy \in Ticket
          /\ \/ batch.copy.status = tickets[batch.held].status
             \/ \E c \in DOMAIN commits :
                  c > batch.seen /\ commits[c].line = 0 /\ commits[c].ticket = batch.held
    BY <1>1 DEF IInv, Position, CopyIsFresh
  <2>2. batch.held \in Tickets \cup {NULL} /\ batch.copy \in Ticket \cup {NULL}
    BY Typed
  <2> QED BY <1>1, <1>2, <1>3, <1>4, <2>1, <2>2, ReportStep
<1>5. CASE Report("not found", NULL, NULL, batch.seen)
  BY <1>1, <1>2, <1>3, <1>5, ReportStep
<1> QED BY <1>4, <1>5 DEF NotFound

\* rollback() or refresh() reads the ticket of the line again.
LEMMA RefuseStep == ASSUME IInv, Refuse PROVE IInv'
<1>1. Id \in Tickets /\ tickets[Id] \in Ticket /\ Len(commits) \in 0 .. Len(commits)
  BY Typed DEF Refuse, IInv, TypeOK, Position, Busy
<1>2. batch.answer \in Outcomes /\ batch.answer # "done"
  BY Typed DEF Refuse, IInv, Position
<1>3. ~ Changed(batch.line)
  BY LineUnchanged DEF Refuse
<1> QED BY <1>1, <1>2, <1>3, ReportStep DEF Refuse

\* After its commit a line is reported as done.
LEMMA RefreshStep == ASSUME IInv, Refresh PROVE IInv'
<1>1. Id \in Tickets /\ tickets[Id] \in Ticket /\ Len(commits) \in 0 .. Len(commits)
  BY Typed DEF Refresh, IInv, TypeOK, Position, Busy
<1>2. batch.kind = "close" => Changed(batch.line)
  BY DEF Refresh, IInv, LinesCommitted
<1>3. "done" \in Outcomes
  BY DEF Outcomes
<1> QED BY <1>1, <1>2, <1>3, ReportStep DEF Refresh

\* From db.get() on the session holds the line's ticket.
LEMMA HoldsTicket ==
    ASSUME IInv, batch.pc \in Busy
    PROVE  /\ Id \in Tickets /\ Id # NULL /\ batch.held = Id
           /\ batch.copy \in Ticket /\ tickets[Id] \in Ticket
<1>1. Id \in Tickets /\ batch.held = Id
  BY DEF IInv, Position
<1>2. Id # NULL
  BY <1>1, BulkAssumption
<1> QED BY <1>1, <1>2 DEF IInv, Position, TypeOK

\* What the checks read is the copy, but for the collaborators.
LEMMA CopyFields ==
    ASSUME IInv, batch.pc \in Busy
    PROVE  /\ Copy.status = batch.copy.status
           /\ Copy.primary_assignee_id = batch.copy.primary_assignee_id
           /\ batch.copy.status \in TicketStatus
BY HoldsTicket DEF Copy, Ticket

\* db.get() reads the row, or finds the copy that is still held.
LEMMA GetStep == ASSUME IInv, Get PROVE IInv'
<1> USE BulkAssumption
<1>1. /\ batch.pc = "get" /\ Id \in Tickets /\ Id # NULL /\ tickets[Id] \in Ticket
      /\ batch \in Batch /\ Len(commits) \in Nat /\ batch.seen \in Nat
  BY Typed DEF Get, IInv, TypeOK
<1>2. UNCHANGED <<tickets, resolved_periods, report, commits, was>>
  BY DEF Get
<1>3. /\ batch' \in Batch
      /\ batch'.pc = "check" /\ batch'.held = Id /\ batch'.copy \in Ticket
      /\ batch'.line = batch.line /\ batch'.ids = batch.ids /\ batch'.kind = batch.kind
      /\ batch'.actor = batch.actor /\ batch'.new_assignee_id = batch.new_assignee_id
  <2>1. CASE batch.held = Id
    BY <1>1, <2>1 DEF Get, Batch, IInv, Position
  <2>2. CASE batch.held # Id
    BY <1>1, <2>2 DEF Get, Batch
  <2> QED BY <2>1, <2>2
<1>4. TypeOK'
  BY <1>2, <1>3 DEF IInv, TypeOK
<1>5. Position'
  BY <1>1, <1>2, <1>3 DEF IInv, Position, Busy, Id
<1>6. LinesCommitted'
  BY <1>1, <1>2, <1>3 DEF IInv, LinesCommitted, Changed
<1>7. Rights'
  BY <1>2, <1>3 DEF IInv, Rights, AgentsChangeNothing
<1>8. CopyIsFresh'
  <2>1. CASE batch.held = Id
    <3>1. batch'.copy = batch.copy /\ batch'.seen = batch.seen
      BY <1>1, <2>1 DEF Get, Batch
    <3> QED BY <1>1, <1>2, <1>3, <2>1, <3>1 DEF IInv, CopyIsFresh
  <2>2. CASE batch.held # Id
    <3>1. batch'.copy = tickets[Id] /\ batch'.seen = Len(commits)
      BY <1>1, <2>2 DEF Get, Batch
    <3> QED BY <1>1, <1>2, <1>3, <2>2, <3>1 DEF CopyIsFresh
  <2> QED BY <2>1, <2>2
<1>9. SelectedRowExists' /\ FailsForAReason'
  BY <1>2, <1>3 DEF IInv, SelectedRowExists, FailsForAReason
<1> QED BY <1>4, <1>5, <1>6, <1>7, <1>8, <1>9 DEF IInv

\* A check that succeeds has looked at the rights, and for a close at the status.
LEMMA CheckStep == ASSUME IInv, Check PROVE IInv'
<1> DEFINE answer == IF batch.kind = "close" THEN CloseAnswer ELSE ReassignAnswer
<1>1. batch.pc = "check" /\ batch \in Batch /\ batch.kind \in Kinds
  BY Typed DEF Check, IInv, TypeOK
<1>2. UNCHANGED <<tickets, resolved_periods, report, commits, was>>
  BY DEF Check
<1>3. answer \in {"done", "403", "409"}
  BY DEF CloseAnswer, ReassignAnswer
<1>4. batch' = [batch EXCEPT !.answer = answer,
                  !.pc = IF answer # "done" THEN "refused"
                         ELSE IF batch.kind = "close" THEN "select" ELSE "commit"]
  BY DEF Check
<1>5. Id \in Tickets /\ batch.held = Id /\ batch.copy \in Ticket
  BY <1>1, HoldsTicket DEF Busy
<1>6. answer = "done" /\ batch.kind = "close" =>
        batch.copy.status = "resolved" /\ batch.actor \notin Agents
  <2>1. Copy.status = batch.copy.status /\ batch.copy.status \in TicketStatus
    BY <1>1, CopyFields DEF Busy
  <2> QED BY <2>1 DEF CloseAnswer, AllowedTransitions, TicketStatus, CanCloseTicket,
                      IsSupervisor, Agents
<1>7. answer = "done" /\ batch.kind = "reassign" =>
        \/ batch.actor \notin Agents
        \/ batch.new_assignee_id = batch.copy.primary_assignee_id
  <2>1. Copy.primary_assignee_id = batch.copy.primary_assignee_id
    BY <1>1, CopyFields DEF Busy
  <2> QED BY <2>1 DEF ReassignAnswer, CanReassignTicket, IsSupervisor, Agents
<1> HIDE DEF answer
<1>8. /\ batch'.pc = IF answer # "done" THEN "refused"
                       ELSE IF batch.kind = "close" THEN "select" ELSE "commit"
      /\ batch'.answer = answer
      /\ batch'.line = batch.line /\ batch'.ids = batch.ids /\ batch'.kind = batch.kind
      /\ batch'.actor = batch.actor /\ batch'.new_assignee_id = batch.new_assignee_id
      /\ batch'.held = batch.held /\ batch'.copy = batch.copy /\ batch'.seen = batch.seen
      /\ batch'.row = batch.row
  BY <1>1, <1>4 DEF Batch
<1>8a. /\ batch'.pc = "select" => answer = "done" /\ batch.kind = "close"
       /\ batch'.pc = "commit" => answer = "done" /\ batch.kind = "reassign"
       /\ batch'.pc # "refresh"
  BY <1>1, <1>8 DEF Kinds
<1>9. TypeOK'
  <2>1. batch' \in Batch
    BY <1>1, <1>3, <1>4 DEF Batch, Outcomes
  <2> QED BY <1>2, <2>1 DEF IInv, TypeOK
<1>10. Position'
  BY <1>1, <1>2, <1>5, <1>8 DEF IInv, Position, Busy, Id
<1>11. LinesCommitted'
  BY <1>1, <1>2, <1>8 DEF IInv, LinesCommitted, Changed
<1>12. Rights'
  <2>1. AgentsChangeNothing'
    BY <1>2, <1>8 DEF IInv, Rights, AgentsChangeNothing
  <2>2. batch'.pc \in {"select", "commit"} =>
          \/ batch.actor \notin Agents
          \/ batch.kind = "reassign" /\ batch.new_assignee_id = batch.copy.primary_assignee_id
    BY <1>6, <1>7, <1>8a
  <2> QED BY <1>8, <1>8a, <2>1, <2>2 DEF Rights
<1>13. CopyIsFresh'
  BY <1>1, <1>2, <1>6, <1>8, <1>8a DEF IInv, CopyIsFresh
<1>14. SelectedRowExists' /\ FailsForAReason'
  BY <1>1, <1>2, <1>8 DEF IInv, SelectedRowExists, FailsForAReason
<1> QED BY <1>9, <1>10, <1>11, <1>12, <1>13, <1>14 DEF IInv

\* A log with a period in progress, but not just one, has two or more.
LEMMA SeveralOpen ==
    ASSUME NEW log \in Seq(Period), OpenRows(log) # {}, Cardinality(OpenRows(log)) # 1
    PROVE  Cardinality(OpenRows(log)) > 1
<1>1. Len(log) \in Nat /\ OpenRows(log) \in SUBSET (1 .. Len(log))
  BY DEF OpenRows
<1>2. IsFiniteSet(OpenRows(log))
  <2>1. IsFiniteSet(1 .. Len(log))
    BY <1>1, FS_Interval
  <2> QED BY <1>1, <2>1, FS_Subset
<1>3. Cardinality(OpenRows(log)) \in Nat /\ Cardinality(OpenRows(log)) # 0
  BY <1>2, FS_CardinalityType, FS_EmptySet
<1> QED BY <1>3

\* one() finds its row, or the batch fails for one of the three reasons.
LEMMA SelectStep == ASSUME IInv, Select PROVE IInv'
<1>1. batch.pc = "select" /\ batch \in Batch
  BY DEF Select, IInv, TypeOK
<1>2. UNCHANGED <<tickets, resolved_periods, report, commits, was>>
  BY DEF Select
<1>3. Id \in Tickets /\ batch.held = Id /\ Id # NULL /\ resolved_periods[Id] \in Seq(Period)
  BY <1>1, HoldsTicket DEF Busy, IInv, TypeOK
<1>4. CASE \E row \in OpenRows(resolved_periods[Id]) :
             batch' = [batch EXCEPT !.pc = "commit", !.row = row]
  <2>1. PICK row \in OpenRows(resolved_periods[Id]) :
          batch' = [batch EXCEPT !.pc = "commit", !.row = row]
    BY <1>4
  <2>2. row \in Nat /\ row \in DOMAIN resolved_periods[Id]
    BY <1>3 DEF OpenRows
  <2>3. /\ batch'.pc = "commit" /\ batch'.row = row
        /\ batch'.line = batch.line /\ batch'.ids = batch.ids /\ batch'.kind = batch.kind
        /\ batch'.actor = batch.actor /\ batch'.new_assignee_id = batch.new_assignee_id
        /\ batch'.held = batch.held /\ batch'.copy = batch.copy /\ batch'.seen = batch.seen
    BY <1>1, <2>1 DEF Batch
  <2>4. TypeOK'
    <3>1. batch' \in Batch
      BY <1>1, <2>1, <2>2 DEF Batch
    <3> QED BY <1>2, <3>1 DEF IInv, TypeOK
  <2>5. Position'
    BY <1>1, <1>2, <1>3, <2>3 DEF IInv, Position, Busy, Id
  <2>6. LinesCommitted'
    BY <1>1, <1>2, <2>3 DEF IInv, LinesCommitted, Changed
  <2>7. Rights'
    BY <1>1, <1>2, <2>3 DEF IInv, Rights, AgentsChangeNothing
  <2>8. CopyIsFresh'
    BY <1>1, <1>2, <2>3 DEF IInv, CopyIsFresh
  <2>9. SelectedRowExists' /\ FailsForAReason'
    BY <1>1, <1>2, <2>2, <2>3 DEF IInv, SelectedRowExists, FailsForAReason, Id
  <2> QED BY <2>4, <2>5, <2>6, <2>7, <2>8, <2>9 DEF IInv
<1>5. CASE /\ Cardinality(OpenRows(resolved_periods[Id])) # 1
           /\ batch' = [batch EXCEPT !.pc = "failed"]
  <2>1. /\ batch'.pc = "failed"
        /\ batch'.line = batch.line /\ batch'.ids = batch.ids /\ batch'.kind = batch.kind
        /\ batch'.actor = batch.actor /\ batch'.new_assignee_id = batch.new_assignee_id
        /\ batch'.held = batch.held /\ batch'.copy = batch.copy /\ batch'.seen = batch.seen
    BY <1>1, <1>5 DEF Batch
  <2>2. TypeOK'
    <3>1. batch' \in Batch
      BY <1>1, <1>5 DEF Batch
    <3> QED BY <1>2, <3>1 DEF IInv, TypeOK
  <2>3. Position'
    BY <1>1, <1>2, <1>3, <2>1 DEF IInv, Position, Busy, Id
  <2>4. LinesCommitted'
    BY <1>1, <1>2, <2>1 DEF IInv, LinesCommitted, Changed
  <2>5. Rights'
    BY <1>1, <1>2, <2>1 DEF IInv, Rights, AgentsChangeNothing
  <2>6. CopyIsFresh'
    BY <1>1, <1>2, <2>1 DEF IInv, CopyIsFresh
  <2>7. SelectedRowExists'
    BY <1>2, <2>1 DEF IInv, SelectedRowExists
  <2>8. \/ Stranded(Id)
        \/ Cardinality(OpenRows(resolved_periods[Id])) > 1
        \/ \E c \in DOMAIN commits :
             c > batch.seen /\ commits[c].line = 0 /\ commits[c].ticket = Id
    <3>1. CASE OpenRows(resolved_periods[Id]) # {}
      BY <1>3, <1>5, <3>1, SeveralOpen
    <3>2. CASE tickets[Id].status = "resolved" /\ OpenRows(resolved_periods[Id]) = {}
      BY <3>2 DEF Stranded
    <3>3. CASE tickets[Id].status # "resolved"
      BY <1>1, <1>3, <3>3 DEF IInv, CopyIsFresh
    <3> QED BY <3>1, <3>2, <3>3
  <2>9. FailsForAReason'
    BY <1>2, <2>1, <2>8 DEF FailsForAReason, Stranded, Id
  <2> QED BY <2>2, <2>3, <2>4, <2>5, <2>6, <2>7, <2>9 DEF IInv
<1> QED BY <1>4, <1>5 DEF Select

\* What a committed row changes.
LEMMA WriteFacts ==
    ASSUME IInv, NEW t \in Tickets, NEW row \in Ticket, NEW line \in Nat, Write(t, row, line)
    PROVE  /\ tickets' \in [Tickets -> Ticket] /\ tickets'[t] = row
           /\ \A u \in Tickets \ {t} : tickets'[u] = tickets[u]
           /\ was' \in [Tickets -> SUBSET Ticket]
           /\ commits' \in Seq([ticket : Tickets, line : Nat])
           /\ Len(commits') = Len(commits) + 1
           /\ DOMAIN commits' = DOMAIN commits \cup {Len(commits) + 1}
           /\ \A c \in DOMAIN commits : commits'[c] = commits[c]
           /\ commits'[Len(commits) + 1].ticket = t
           /\ commits'[Len(commits) + 1].line = line
<1> DEFINE note == [ticket |-> t, line |-> line]
           Notes == [ticket : Tickets, line : Nat]
<1>1. tickets' \in [Tickets -> Ticket] /\ tickets'[t] = row
      /\ \A u \in Tickets \ {t} : tickets'[u] = tickets[u]
  BY DEF Write, IInv, TypeOK
<1>2. was' \in [Tickets -> SUBSET Ticket]
  BY DEF Write, IInv, TypeOK
<1>3. commits \in Seq(Notes) /\ note \in Notes /\ commits' = Append(commits, note)
  BY DEF Write, IInv, TypeOK
<1>4. note.ticket = t /\ note.line = line
  OBVIOUS
<1> HIDE DEF note, Notes
<1>5. /\ commits' \in Seq(Notes)
      /\ Len(commits') = Len(commits) + 1
      /\ DOMAIN commits' = DOMAIN commits \cup {Len(commits) + 1}
      /\ \A c \in DOMAIN commits : commits'[c] = commits[c]
      /\ commits'[Len(commits) + 1] = note
  BY <1>3
<1> QED BY <1>1, <1>2, <1>4, <1>5 DEF Notes

\* The writes keep a log a log.
LEMMA LogWrites ==
    ASSUME NEW log \in Seq(Period)
    PROVE  /\ StartPeriod(log, Now) \in Seq(Period)
           /\ OpenRows(StartPeriod(log, Now)) # {}
           /\ DOMAIN log \subseteq DOMAIN StartPeriod(log, Now)
           /\ \A row \in DOMAIN log :
                /\ EndPeriod(log, row, Now) \in Seq(Period)
                /\ DOMAIN EndPeriod(log, row, Now) = DOMAIN log
<1> DEFINE fresh == [start |-> Now, end |-> NULL]
<1>1. fresh \in Period /\ fresh.end = NULL
  BY DEF Now, Period, Instant
<1>2. StartPeriod(log, Now) = Append(log, fresh)
  BY DEF StartPeriod
<1> HIDE DEF fresh
<1>3. /\ StartPeriod(log, Now) \in Seq(Period)
      /\ DOMAIN StartPeriod(log, Now) = DOMAIN log \cup {Len(log) + 1}
      /\ StartPeriod(log, Now)[Len(log) + 1] = fresh
  BY <1>1, <1>2
<1>4. OpenRows(StartPeriod(log, Now)) # {}
  BY <1>1, <1>3 DEF OpenRows
<1>5. ASSUME NEW row \in DOMAIN log
      PROVE  /\ EndPeriod(log, row, Now) \in Seq(Period)
             /\ DOMAIN EndPeriod(log, row, Now) = DOMAIN log
  <2>1. [log[row] EXCEPT !.end = Now] \in Period
    <3>1. log[row] \in Period
      OBVIOUS
    <3> QED BY <3>1 DEF Period, Now, Instant
  <2>2. EndPeriod(log, row, Now) = [log EXCEPT ![row] = [log[row] EXCEPT !.end = Now]]
    BY DEF EndPeriod
  <2> HIDE DEF Period
  <2> QED BY <2>1, <2>2
<1> QED BY <1>3, <1>4, <1>5

\* A commit by somebody else, with the logs it leaves behind.
LEMMA OtherWrites ==
    ASSUME IInv, NEW t \in Tickets, NEW row \in Ticket, Write(t, row, 0),
           UNCHANGED <<batch, report>>,
           resolved_periods' \in [Tickets -> Seq(Period)],
           \A u \in Tickets \ {t} : resolved_periods'[u] = resolved_periods[u],
           DOMAIN resolved_periods[t] \subseteq DOMAIN resolved_periods'[t]
    PROVE  IInv'
<1>1. /\ tickets' \in [Tickets -> Ticket] /\ tickets'[t] = row
      /\ \A u \in Tickets \ {t} : tickets'[u] = tickets[u]
      /\ was' \in [Tickets -> SUBSET Ticket]
      /\ commits' \in Seq([ticket : Tickets, line : Nat])
      /\ Len(commits') = Len(commits) + 1
      /\ DOMAIN commits' = DOMAIN commits \cup {Len(commits) + 1}
      /\ \A c \in DOMAIN commits : commits'[c] = commits[c]
      /\ commits'[Len(commits) + 1].ticket = t
      /\ commits'[Len(commits) + 1].line = 0
  BY WriteFacts
<1>2. /\ batch.seen \in Nat /\ Len(commits) \in Nat /\ batch.line \in Nat \ {0}
      /\ batch.seen <= Len(commits) /\ Len(report) = batch.line - 1
      /\ batch.held \in Tickets \cup {NULL} /\ DOMAIN report = 1 .. Len(report)
  BY Typed DEF IInv, TypeOK, CopyIsFresh, Position
<1>2a. /\ Len(commits) + 1 \in DOMAIN commits' /\ Len(commits) + 1 > batch.seen
       /\ commits'[Len(commits) + 1].line <= batch.line
       /\ commits'[Len(commits) + 1].line # batch.line
  BY <1>1, <1>2
<1>3. TypeOK'
  BY <1>1 DEF IInv, TypeOK
<1>4. Position'
  BY DEF IInv, Position, Id
<1>5. LinesCommitted'
  <2>1. \A i \in Nat \ {0} : Changed(i)' <=> Changed(i)
    BY <1>1 DEF Changed
  <2>2. \A c \in DOMAIN commits' :
          commits'[c].line <= batch.line /\ (commits'[c].line = batch.line => batch.pc = "refresh")
    BY <1>1, <1>2a DEF IInv, LinesCommitted
  <2>3. \A i \in DOMAIN report : i \in Nat \ {0}
    BY <1>2
  <2> QED BY <1>2, <2>1, <2>2, <2>3 DEF IInv, LinesCommitted
<1>6. Rights'
  BY <1>1 DEF IInv, Rights, AgentsChangeNothing
<1>7. CopyIsFresh'
  <2>1. batch.seen <= Len(commits')
    BY <1>1, <1>2
  <2>2. ASSUME batch.held # NULL, batch.pc # "refresh"
        PROVE  \/ batch.copy.status = tickets'[batch.held].status
               \/ \E c \in DOMAIN commits' : c > batch.seen /\ commits'[c].line = 0
                                             /\ commits'[c].ticket = batch.held
    <3>1. CASE batch.held = t
      BY <1>1, <1>2a, <3>1
    <3>2. CASE batch.held # t
      <4>1. tickets'[batch.held] = tickets[batch.held]
        BY <1>1, <1>2, <2>2, <3>2
      <4>2. \/ batch.copy.status = tickets[batch.held].status
            \/ \E c \in DOMAIN commits :
                 c > batch.seen /\ commits[c].line = 0 /\ commits[c].ticket = batch.held
        BY <2>2 DEF IInv, CopyIsFresh
      <4> QED BY <1>1, <4>1, <4>2
    <3> QED BY <3>1, <3>2
  <2>3. batch.pc = "select" => batch.copy.status = "resolved"
    BY DEF IInv, CopyIsFresh
  <2> QED BY <2>1, <2>2, <2>3 DEF CopyIsFresh
<1>8. SelectedRowExists'
  BY <1>1, HoldsTicket DEF IInv, SelectedRowExists, Id, Busy
<1>9. FailsForAReason'
  <2>1. CASE batch.pc = "failed" /\ Id # t
    <3>1. resolved_periods'[Id] = resolved_periods[Id] /\ tickets'[Id] = tickets[Id]
      BY <1>1, <2>1, HoldsTicket DEF Busy
    <3> QED BY <1>1, <2>1, <3>1 DEF IInv, FailsForAReason, Stranded, Id
  <2>2. CASE batch.pc = "failed" /\ Id = t
    BY <1>1, <1>2a, <2>2 DEF FailsForAReason, Id
  <2> QED BY <2>1, <2>2 DEF FailsForAReason
<1> QED BY <1>3, <1>4, <1>5, <1>6, <1>7, <1>8, <1>9 DEF IInv

\* A reassignment by somebody else.
LEMMA OtherReassignStep ==
    ASSUME IInv, NEW t \in Tickets, NEW assignee \in Agents, OtherReassign(t, assignee)
    PROVE  IInv'
<1> DEFINE row == [tickets[t] EXCEPT !.primary_assignee_id = assignee]
<1>1. tickets[t] \in Ticket
  BY DEF IInv, TypeOK
<1>2. row \in Ticket /\ row.status = tickets[t].status
  BY <1>1 DEF Ticket, Agents
<1>3. Write(t, row, 0) /\ UNCHANGED <<resolved_periods, batch, report>>
  BY DEF OtherReassign
<1> HIDE DEF row
<1> QED BY <1>2, <1>3, OtherWrites DEF IInv, TypeOK, SelectedRowExists

\* A move by somebody else: it ends a Resolved period, starts one, or neither.
LEMMA OtherMoveStep ==
    ASSUME IInv, NEW t \in Tickets, NEW new_status \in TicketStatus, OtherMove(t, new_status)
    PROVE  IInv'
<1> DEFINE row == [tickets[t] EXCEPT !.status = new_status]
           log == resolved_periods[t]
<1>1. tickets[t] \in Ticket /\ log \in Seq(Period)
  BY DEF IInv, TypeOK
<1>2. row \in Ticket /\ row.status = new_status
  BY <1>1 DEF Ticket
<1>3. Write(t, row, 0) /\ UNCHANGED <<batch, report>>
  BY DEF OtherMove
<1>4. new_status = "resolved" => tickets[t].status # "resolved"
  BY <1>1 DEF OtherMove, AllowedTransitions, Ticket, TicketStatus
<1>5. resolved_periods \in [Tickets -> Seq(Period)]
  BY DEF IInv, TypeOK
<1>6. CASE /\ tickets[t].status = "resolved"
           /\ \E r \in DOMAIN log :
                resolved_periods' = [resolved_periods EXCEPT ![t] = EndPeriod(@, r, Now)]
  <2>1. PICK r \in DOMAIN log :
          resolved_periods' = [resolved_periods EXCEPT ![t] = EndPeriod(@, r, Now)]
    BY <1>6
  <2>2. EndPeriod(log, r, Now) \in Seq(Period) /\ DOMAIN EndPeriod(log, r, Now) = DOMAIN log
    BY <1>1, LogWrites
  <2>3. /\ resolved_periods' \in [Tickets -> Seq(Period)]
        /\ \A u \in Tickets \ {t} : resolved_periods'[u] = resolved_periods[u]
        /\ DOMAIN log \subseteq DOMAIN resolved_periods'[t]
    BY <1>5, <2>1, <2>2
  <2> HIDE DEF row
  <2> QED BY <1>2, <1>3, <1>4, <1>6, <2>3, OtherWrites
<1>7. CASE /\ new_status = "resolved"
           /\ resolved_periods' = [resolved_periods EXCEPT ![t] = StartPeriod(@, Now)]
  <2>1. /\ StartPeriod(log, Now) \in Seq(Period)
        /\ OpenRows(StartPeriod(log, Now)) # {}
        /\ DOMAIN log \subseteq DOMAIN StartPeriod(log, Now)
    BY <1>1, LogWrites
  <2>2. /\ resolved_periods' \in [Tickets -> Seq(Period)]
        /\ \A u \in Tickets \ {t} : resolved_periods'[u] = resolved_periods[u]
        /\ resolved_periods'[t] = StartPeriod(log, Now)
    BY <1>5, <1>7, <2>1
  <2> HIDE DEF row
  <2> QED BY <1>2, <1>3, <2>1, <2>2, OtherWrites
<1>8. CASE /\ "resolved" \notin {tickets[t].status, new_status}
           /\ UNCHANGED resolved_periods
  <2> HIDE DEF row
  <2> QED BY <1>2, <1>3, <1>5, <1>8, OtherWrites
<1> QED BY <1>6, <1>7, <1>8 DEF OtherMove

\* The batch changes the ticket of its line, and only as the rights it checked allow.
LEMMA CommitWrites ==
    ASSUME IInv, batch.pc = "commit", batch.actor \notin Agents,
           NEW row \in Ticket, Write(Id, row, batch.line),
           batch' = [batch EXCEPT !.pc = "refresh"], UNCHANGED report,
           resolved_periods' \in [Tickets -> Seq(Period)],
           \A u \in Tickets \ {Id} : resolved_periods'[u] = resolved_periods[u]
    PROVE  IInv'
<1>1. /\ Id \in Tickets /\ batch.held = Id /\ batch.copy \in Ticket
      /\ batch \in Batch /\ batch.line \in Nat \ {0} /\ batch.seen \in Nat
      /\ Len(commits) \in Nat
  BY HoldsTicket, Typed DEF Busy, IInv, TypeOK
<1>2. /\ tickets' \in [Tickets -> Ticket] /\ tickets'[Id] = row
      /\ \A u \in Tickets \ {Id} : tickets'[u] = tickets[u]
      /\ was' \in [Tickets -> SUBSET Ticket]
      /\ commits' \in Seq([ticket : Tickets, line : Nat])
      /\ Len(commits') = Len(commits) + 1
      /\ DOMAIN commits' = DOMAIN commits \cup {Len(commits) + 1}
      /\ \A c \in DOMAIN commits : commits'[c] = commits[c]
      /\ commits'[Len(commits) + 1].line = batch.line
  BY <1>1, WriteFacts
<1>3. /\ batch'.pc = "refresh"
      /\ batch'.line = batch.line /\ batch'.ids = batch.ids /\ batch'.kind = batch.kind
      /\ batch'.actor = batch.actor /\ batch'.new_assignee_id = batch.new_assignee_id
      /\ batch'.held = batch.held /\ batch'.copy = batch.copy /\ batch'.seen = batch.seen
  BY <1>1 DEF Batch
<1>4. TypeOK'
  <2>1. batch' \in Batch
    BY <1>1 DEF Batch
  <2> QED BY <1>2, <2>1 DEF IInv, TypeOK
<1>5. Position'
  BY <1>1, <1>3 DEF IInv, Position, Busy, Id
<1>6. LinesCommitted'
  <2>1. \A i \in Nat : i # batch.line => (Changed(i)' <=> Changed(i))
    BY <1>2 DEF Changed
  <2>2. Changed(batch.line)'
    BY <1>2 DEF Changed
  <2>3. \A c \in DOMAIN commits' : commits'[c].line <= batch.line
    BY <1>1, <1>2 DEF IInv, LinesCommitted
  <2>4. \A i \in DOMAIN report : i \in Nat /\ i # batch.line
    BY <1>1 DEF IInv, TypeOK, Position
  <2> QED BY <1>3, <2>1, <2>2, <2>3, <2>4 DEF IInv, LinesCommitted, Changed
<1>7. Rights'
  BY <1>3 DEF Rights, AgentsChangeNothing
<1>8. CopyIsFresh'
  BY <1>1, <1>2, <1>3 DEF IInv, CopyIsFresh
<1>9. SelectedRowExists' /\ FailsForAReason'
  BY <1>2, <1>3 DEF IInv, SelectedRowExists, FailsForAReason
<1> QED BY <1>4, <1>5, <1>6, <1>7, <1>8, <1>9 DEF IInv

\* A close, a reassignment, or a reassignment to the same agent, which writes nothing.
LEMMA CommitStep == ASSUME IInv, Commit PROVE IInv'
<1>1. /\ batch.pc = "commit" /\ Id \in Tickets /\ tickets[Id] \in Ticket
      /\ batch.new_assignee_id \in Users /\ resolved_periods[Id] \in Seq(Period)
      /\ resolved_periods \in [Tickets -> Seq(Period)]
      /\ Copy.primary_assignee_id = batch.copy.primary_assignee_id
  BY HoldsTicket, CopyFields, Typed DEF Commit, Busy, Agents, IInv, TypeOK
<1>2. batch' = [batch EXCEPT !.pc = "refresh"] /\ UNCHANGED report
  BY DEF Commit
<1>3. CASE /\ batch.kind = "close"
           /\ Write(Id, [tickets[Id] EXCEPT !.status = "closed"], batch.line)
           /\ resolved_periods' = [resolved_periods EXCEPT ![Id] = EndPeriod(@, batch.row, Now)]
  <2> DEFINE row == [tickets[Id] EXCEPT !.status = "closed"]
  <2>1. row \in Ticket /\ row.status = "closed"
    BY <1>1 DEF Ticket, TicketStatus
  <2>2. batch.row \in DOMAIN resolved_periods[Id] /\ batch.actor \notin Agents
    BY <1>1, <1>3 DEF IInv, SelectedRowExists, Rights
  <2>3. EndPeriod(resolved_periods[Id], batch.row, Now) \in Seq(Period)
    BY <1>1, <2>2, LogWrites
  <2>4. /\ resolved_periods' \in [Tickets -> Seq(Period)]
        /\ \A u \in Tickets \ {Id} : resolved_periods'[u] = resolved_periods[u]
    BY <1>1, <1>3, <2>3
  <2>5. Write(Id, row, batch.line)
    BY <1>3
  <2> HIDE DEF row
  <2> QED BY <1>1, <1>2, <2>1, <2>2, <2>4, <2>5, CommitWrites
<1>4. CASE /\ batch.kind = "reassign"
           /\ batch.new_assignee_id # Copy.primary_assignee_id
           /\ Write(Id, Reassigned, batch.line)
           /\ UNCHANGED resolved_periods
  <2> DEFINE row == [tickets[Id] EXCEPT !.primary_assignee_id = batch.new_assignee_id]
  <2>1. row \in Ticket
    BY <1>1 DEF Ticket
  <2>2. batch.actor \notin Agents
    BY <1>1, <1>4 DEF IInv, Rights
  <2>4. Write(Id, row, batch.line)
    BY <1>4 DEF Reassigned
  <2> HIDE DEF row
  <2> QED BY <1>1, <1>2, <1>4, <2>1, <2>2, <2>4, CommitWrites
<1>5. CASE /\ batch.kind = "reassign"
           /\ batch.new_assignee_id = Copy.primary_assignee_id
           /\ UNCHANGED <<tickets, resolved_periods, commits, was>>
  <2>1. batch \in Batch /\ batch.held = Id
    BY <1>1, HoldsTicket DEF IInv, TypeOK, Busy
  <2>2. /\ batch'.pc = "refresh"
        /\ batch'.line = batch.line /\ batch'.ids = batch.ids /\ batch'.kind = batch.kind
        /\ batch'.actor = batch.actor /\ batch'.new_assignee_id = batch.new_assignee_id
        /\ batch'.held = batch.held /\ batch'.copy = batch.copy /\ batch'.seen = batch.seen
    BY <1>2, <2>1 DEF Batch
  <2>3. TypeOK'
    <3>1. batch' \in Batch
      BY <1>2, <2>1 DEF Batch
    <3> QED BY <1>2, <1>5, <3>1 DEF IInv, TypeOK
  <2>4. Position'
    BY <1>1, <1>2, <2>1, <2>2 DEF IInv, Position, Busy, Id
  <2>5. LinesCommitted'
    BY <1>1, <1>2, <1>5, <2>2 DEF IInv, LinesCommitted, Changed
  <2>6. Rights' /\ CopyIsFresh'
    BY <1>1, <1>5, <2>2 DEF IInv, Rights, AgentsChangeNothing, CopyIsFresh
  <2>7. SelectedRowExists' /\ FailsForAReason'
    BY <1>5, <2>2 DEF IInv, SelectedRowExists, FailsForAReason
  <2> QED BY <2>3, <2>4, <2>5, <2>6, <2>7 DEF IInv
<1> QED BY <1>3, <1>4, <1>5 DEF Commit
-----------------------------------------------------------------------------
\* Every step of the batch and of the others.
LEMMA NextIInv == IInv /\ [Next]_vars => IInv'
<1> SUFFICES ASSUME IInv, [Next]_vars PROVE IInv'
  OBVIOUS
<1>1. CASE UNCHANGED vars
  BY <1>1 DEF vars, IInv, TypeOK, Position, LinesCommitted, Changed, Rights, CopyIsFresh,
              AgentsChangeNothing, SelectedRowExists, FailsForAReason, Stranded, Id
<1>2. CASE BatchStep
  BY <1>2, NotFoundStep, GetStep, CheckStep, SelectStep, CommitStep, RefreshStep, RefuseStep
     DEF BatchStep
<1>3. ASSUME NEW t \in Tickets, NEW new_status \in TicketStatus, OtherMove(t, new_status)
      PROVE  IInv'
  BY <1>3, OtherMoveStep
<1>4. ASSUME NEW t \in Tickets, NEW assignee \in Agents, OtherReassign(t, assignee)
      PROVE  IInv'
  BY <1>4, OtherReassignStep
<1> QED BY <1>1, <1>2, <1>3, <1>4 DEF Next

\* The invariant holds throughout.
LEMMA Invariance == Spec => []IInv
BY InitIInv, NextIInv, PTL DEF Spec

\* Whatever the interleaving, rows, reports and copies have their types.
THEOREM TypeCorrect == Spec => []TypeOK
<1>1. IInv => TypeOK
  BY DEF IInv
<1> QED BY Invariance, <1>1, PTL

\* Whatever others do to the tickets meanwhile, the page that a bulk close or reassign
\* answers with has one outcome per selected ticket, in order, and is true of what the
\* batch committed.
THEOREM ReportIsTrue == Spec => []ReportMatchesCommits
<1>1. IInv => ReportMatchesCommits
  <2> SUFFICES ASSUME IInv PROVE ReportMatchesCommits
    OBVIOUS
  <2>1. batch.line \in Nat \ {0} /\ Len(batch.ids) \in Nat
    BY Typed
  <2> QED BY <2>1 DEF IInv, Position, LinesCommitted, ReportMatchesCommits
<1> QED BY Invariance, <1>1, PTL

\* A batch submitted by an agent commits nothing.
THEOREM AgentsBatchesChangeNothing == Spec => []AgentsChangeNothing
<1>1. IInv => AgentsChangeNothing
  BY DEF IInv, Rights
<1> QED BY Invariance, <1>1, PTL

\* A batch that fails met a stranded ticket, one with two periods in progress, or one that
\* was changed between its db.get() and its one().
THEOREM ThreeWaysToFail == Spec => []FailsForAReason
<1>1. IInv => FailsForAReason
  BY DEF IInv
<1> QED BY Invariance, <1>1, PTL

\* A move into Resolved starts a period, a close ends it, and nothing else ends one or writes
\* a status, whoever commits and whatever copy it decided on.
THEOREM NoTicketIsStranded == Spec => NobodyStrandsATicket
<1>1. IInv /\ [Next]_vars => [\A t \in Tickets : Stranded(t)' => Stranded(t)]_vars
  <2>. SUFFICES ASSUME IInv, Next, NEW t \in Tickets, Stranded(t)' PROVE Stranded(t)
    OBVIOUS
  <2>1. /\ tickets \in [Tickets -> Ticket] /\ resolved_periods \in [Tickets -> Seq(Period)]
        /\ batch.new_assignee_id \in Users
    BY Typed DEF IInv, TypeOK, Agents
  <2>2. CASE UNCHANGED <<tickets, resolved_periods>>
    BY <2>2 DEF Stranded
  <2>3. CASE Commit
    <3>1. Id \in Tickets /\ tickets[Id] \in Ticket
      BY <2>1, <2>3, HoldsTicket DEF Commit, Busy
    <3>2. CASE batch.kind = "close"
      <4>1. tickets' = [tickets EXCEPT ![Id] = [tickets[Id] EXCEPT !.status = "closed"]]
            /\ resolved_periods' = [resolved_periods EXCEPT ![Id] = EndPeriod(@, batch.row, Now)]
        BY <2>3, <3>2 DEF Commit, Write
      <4>2. tickets'[Id].status = "closed"
        BY <2>1, <3>1, <4>1 DEF Ticket
      <4>3. t # Id
        BY <4>2 DEF Stranded
      <4>. QED
        BY <2>1, <4>1, <4>3 DEF Stranded
    <3>3. CASE batch.kind # "close"
      <4>1. resolved_periods' = resolved_periods
            /\ (tickets' = tickets \/ tickets' = [tickets EXCEPT ![Id] = Reassigned])
        BY <2>3, <3>3 DEF Commit, Write
      <4>2. Reassigned.status = tickets[Id].status
        BY <3>1 DEF Reassigned, Ticket
      <4>3. tickets'[t].status = tickets[t].status
        BY <2>1, <3>1, <4>1, <4>2
      <4>. QED
        BY <4>1, <4>3 DEF Stranded
    <3>. QED
      BY <3>2, <3>3
  <2>4. ASSUME NEW u \in Tickets, NEW assignee \in Agents, OtherReassign(u, assignee)
        PROVE  Stranded(t)
    <3>1. tickets'[t].status = tickets[t].status
      BY <2>1, <2>4 DEF OtherReassign, Write, Ticket
    <3>. QED
      BY <2>4, <3>1 DEF OtherReassign, Stranded
  <2>5. ASSUME NEW u \in Tickets, NEW new_status \in TicketStatus, OtherMove(u, new_status)
        PROVE  Stranded(t)
    <3>1. /\ tickets' = [tickets EXCEPT ![u] = [tickets[u] EXCEPT !.status = new_status]]
          /\ resolved_periods[u] \in Seq(Period) /\ tickets[u] \in Ticket
      BY <2>1, <2>5 DEF OtherMove, Write
    <3>2. tickets'[u].status = new_status
      BY <2>1, <3>1 DEF Ticket
    <3>3. \A v \in Tickets \ {u} : /\ tickets'[v] = tickets[v]
                                   /\ resolved_periods'[v] = resolved_periods[v]
      BY <2>1, <2>5, <3>1 DEF OtherMove
    <3>4. new_status = "resolved" => OpenRows(resolved_periods'[u]) # {}
      <4>1. new_status = "resolved" => tickets[u].status # "resolved"
        BY <2>5, <3>1 DEF OtherMove, AllowedTransitions, Ticket, TicketStatus
      <4>2. new_status = "resolved" =>
              resolved_periods' = [resolved_periods EXCEPT ![u] = StartPeriod(@, Now)]
        BY <2>5, <4>1 DEF OtherMove
      <4>. QED
        BY <2>1, <3>1, <4>2, LogWrites
    <3>. QED
      BY <3>2, <3>3, <3>4 DEF Stranded
  <2>. QED
    BY <2>2, <2>3, <2>4, <2>5
       DEF Next, BatchStep, NotFound, Get, Check, Select, Refresh, Refuse
<1>. QED
  BY <1>1, Invariance, PTL DEF Spec, NobodyStrandsATicket
-----------------------------------------------------------------------------
(***************************************************************************)
(* The reasons a report gives.                                             *)
(***************************************************************************)
\* A reason for an outcome that was true of the ticket at some time.
HasReason(t, outcome) ==
    /\ outcome = "not found" <=> t \notin Tickets
    /\ outcome = "403" => batch.actor \in Agents
    /\ outcome = "409" => \E row \in was[t] : row.status # "resolved"
    /\ outcome = "done" /\ batch.kind = "reassign" =>
         \E row \in was[t] : row.primary_assignee_id = batch.new_assignee_id

\* What the session holds was once the ticket, and what the line is about to report of it
\* has its reason.
CopyWasTrue ==
    /\ \A t \in Tickets : tickets[t] \in was[t]
    /\ batch.held # NULL => batch.copy \in was[batch.held]
    /\ batch.pc = "refused" => batch.answer # "not found" /\ HasReason(Id, batch.answer)
    /\ batch.pc = "refresh" => HasReason(Id, "done")

Reasons == CopyWasTrue /\ \A i \in DOMAIN report : HasReason(batch.ids[i], report[i])

\* The batch keeps its request, and what a ticket was stays true of it.
LEMMA RequestKept ==
    ASSUME IInv, [Next]_vars
    PROVE  /\ batch'.actor = batch.actor /\ batch'.kind = batch.kind
           /\ batch'.ids = batch.ids /\ batch'.new_assignee_id = batch.new_assignee_id
           /\ \A t \in Tickets : was[t] \subseteq was'[t]
<1>1. batch \in Batch /\ was \in [Tickets -> SUBSET Ticket]
  BY DEF IInv, TypeOK
<1>2. CASE UNCHANGED vars
  BY <1>2 DEF vars
<1>3. ASSUME NEW t, NEW row, NEW line, Write(t, row, line)
      PROVE  \A u \in Tickets : was[u] \subseteq was'[u]
  BY <1>1, <1>3 DEF Write
<1>4. CASE BatchStep
  <2>1. /\ batch'.actor = batch.actor /\ batch'.kind = batch.kind
        /\ batch'.ids = batch.ids /\ batch'.new_assignee_id = batch.new_assignee_id
    BY <1>1, <1>4 DEF Batch, BatchStep, NotFound, Get, Check, Select, Commit, Refresh, Refuse,
                      Report
  <2>2. was' = was \/ \E t, row, line : Write(t, row, line)
    BY <1>4 DEF BatchStep, NotFound, Get, Check, Select, Commit, Refresh, Refuse
  <2>. QED
    BY <1>3, <2>1, <2>2
<1>5. ASSUME NEW t \in Tickets,
             \/ \E new_status \in TicketStatus : OtherMove(t, new_status)
             \/ \E assignee \in Agents : OtherReassign(t, assignee)
      PROVE  batch' = batch /\ \E row : Write(t, row, 0)
  BY <1>5 DEF OtherMove, OtherReassign
<1>. QED
  BY <1>2, <1>3, <1>4, <1>5 DEF Next

\* A reason stays a reason.
LEMMA ReasonsStand ==
    ASSUME IInv, [Next]_vars, NEW t, NEW outcome, HasReason(t, outcome)
    PROVE  /\ outcome = "not found" <=> t \notin Tickets
           /\ outcome = "403" => batch'.actor \in Agents
           /\ outcome = "409" => \E row \in was'[t] : row.status # "resolved"
           /\ outcome = "done" /\ batch'.kind = "reassign" =>
                \E row \in was'[t] : row.primary_assignee_id = batch'.new_assignee_id
<1>1. /\ batch'.actor = batch.actor /\ batch'.kind = batch.kind
      /\ batch'.new_assignee_id = batch.new_assignee_id
      /\ t \in Tickets => was[t] \subseteq was'[t]
  BY RequestKept
<1>2. outcome \in {"409", "done"} => t \in Tickets
  BY DEF HasReason
<1>. QED
  BY <1>1, <1>2 DEF HasReason

\* The rows that are current are among those the tickets have been.
LEMMA CurrentRows ==
    ASSUME IInv, [Next]_vars, \A t \in Tickets : tickets[t] \in was[t]
    PROVE  \A t \in Tickets : tickets'[t] \in was'[t]
<1>1. was \in [Tickets -> SUBSET Ticket] /\ tickets \in [Tickets -> Ticket]
  BY DEF IInv, TypeOK
<1>2. ASSUME NEW u, NEW row, NEW line, Write(u, row, line)
      PROVE  \A t \in Tickets : tickets'[t] \in was'[t]
  BY <1>1, <1>2 DEF Write
<1>3. UNCHANGED <<tickets, was>> \/ \E u, row, line : Write(u, row, line)
  BY DEF Next, vars, BatchStep, NotFound, Get, Check, Select, Commit, Refresh, Refuse,
         OtherMove, OtherReassign
<1>. QED
  BY <1>2, <1>3

\* A refusal is for want of rights, which a supervisor has, or for the status of the copy.
LEMMA CheckHasReason ==
    ASSUME IInv, Reasons, Check, batch'.pc = "refused"
    PROVE  batch'.answer # "not found" /\ HasReason(Id, batch'.answer)
<1>. DEFINE answer == IF batch.kind = "close" THEN CloseAnswer ELSE ReassignAnswer
<1>1. batch.pc = "check" /\ batch \in Batch /\ batch.actor \in Users
  BY DEF Check, IInv, TypeOK, Batch
<1>2. batch'.answer = answer /\ answer # "done"
  BY <1>1 DEF Check, Batch
<1>3. /\ Id \in Tickets /\ batch.held = Id /\ Id # NULL
      /\ Copy.status = batch.copy.status
  BY <1>1, HoldsTicket, CopyFields DEF Busy
<1>4. batch.copy \in was[Id]
  BY <1>3 DEF Reasons, CopyWasTrue
<1>5. answer \in {"403", "409"}
  BY <1>2 DEF CloseAnswer, ReassignAnswer
<1>6. answer = "403" => batch.actor \in Agents
  BY <1>1 DEF CloseAnswer, ReassignAnswer, CanActOnTicket, CanCloseTicket, CanReassignTicket,
              IsSupervisor, Agents
<1>7. answer = "409" => batch.copy.status # "resolved"
  <2>1. answer = "409" => "closed" \notin AllowedTransitions[Copy.status]
    BY DEF CloseAnswer, ReassignAnswer
  <2>. QED
    BY <1>3, <2>1 DEF AllowedTransitions
<1>. HIDE DEF answer
<1>. QED
  BY <1>2, <1>3, <1>4, <1>5, <1>6, <1>7 DEF HasReason

\* Once a line has committed its ticket has been the new assignee's.
LEMMA CommitHasReason ==
    ASSUME IInv, Reasons, Commit
    PROVE  /\ Id \in Tickets
           /\ batch.kind = "reassign" =>
                \E row \in was'[Id] : row.primary_assignee_id = batch.new_assignee_id
<1>1. /\ batch.pc = "commit" /\ Id \in Tickets /\ batch.held = Id /\ Id # NULL
      /\ tickets[Id] \in Ticket /\ was \in [Tickets -> SUBSET Ticket]
      /\ Copy.primary_assignee_id = batch.copy.primary_assignee_id
  BY HoldsTicket, CopyFields DEF Commit, Busy, IInv, TypeOK
<1>2. CASE /\ batch.kind = "reassign"
           /\ Write(Id, Reassigned, batch.line)
  <2>. DEFINE row == [tickets[Id] EXCEPT !.primary_assignee_id = batch.new_assignee_id]
  <2>1. row.primary_assignee_id = batch.new_assignee_id
    BY <1>1 DEF Ticket
  <2>2. Write(Id, row, batch.line)
    BY <1>2 DEF Reassigned
  <2>. HIDE DEF row
  <2>3. row \in was'[Id]
    BY <1>1, <2>2 DEF Write
  <2>. QED
    BY <1>1, <2>1, <2>3
<1>3. CASE /\ batch.kind = "reassign"
           /\ batch.new_assignee_id = Copy.primary_assignee_id
           /\ UNCHANGED was
  <2>1. batch.copy \in was'[Id]
    BY <1>1, <1>3 DEF Reasons, CopyWasTrue
  <2>. QED
    BY <1>1, <1>3, <2>1
<1>. QED
  BY <1>1, <1>2, <1>3 DEF Commit

\* One more line is reported, with its reason, and the session holds what the ticket was.
LEMMA ReasonsReport ==
    ASSUME IInv, Reasons, [Next]_vars, NEW outcome, NEW held, NEW copy, NEW seen,
           Report(outcome, held, copy, seen), batch.pc \in {"get", "refresh", "refused"},
           HasReason(Id, outcome), held # NULL => held \in Tickets /\ copy \in was[held]
    PROVE  Reasons'
<1>1. /\ batch \in Batch /\ report \in Seq(Outcomes)
      /\ Len(report) = batch.line - 1 /\ batch.line \in Nat \ {0}
  BY Typed DEF IInv, TypeOK, Position
<1>2. /\ batch'.pc \in {"done", "get"} /\ batch'.held = held /\ batch'.copy = copy
      /\ batch'.ids = batch.ids
      /\ report' = Append(report, outcome)
  BY <1>1 DEF Report, Batch
<1>3. CopyWasTrue'
  <2>1. held # NULL => copy \in was'[held]
    BY RequestKept
  <2>. QED
    BY <1>2, <2>1, CurrentRows DEF Reasons, CopyWasTrue
<1>4. ASSUME NEW i \in DOMAIN report' PROVE HasReason(batch.ids[i], report'[i])
  <2>1. CASE i \in DOMAIN report
    BY <1>1, <1>2, <2>1 DEF Reasons
  <2>2. CASE i \notin DOMAIN report
    <3>1. i = batch.line /\ report'[i] = outcome
      BY <1>1, <1>2, <2>2
    <3>. QED
      BY <3>1 DEF Id
  <2>. QED
    BY <2>1, <2>2
<1>5. (\A i \in DOMAIN report : HasReason(batch.ids[i], report[i]))'
  BY <1>2, <1>4, ReasonsStand DEF HasReason
<1>. QED
  BY <1>3, <1>5 DEF Reasons

\* A step that reports nothing keeps the reasons given.
LEMMA ReasonsKept ==
    ASSUME IInv, Reasons, [Next]_vars, report' = report, CopyWasTrue'
    PROVE  Reasons'
<1>1. batch'.ids = batch.ids
  BY RequestKept
<1>2. \A i \in DOMAIN report : HasReason(batch.ids[i], report[i])'
  BY <1>1, ReasonsStand DEF Reasons, HasReason
<1>. QED
  BY <1>1, <1>2 DEF Reasons

LEMMA ReasonsStep == IInv /\ Reasons /\ [Next]_vars => Reasons'
<1>. SUFFICES ASSUME IInv, Reasons, [Next]_vars PROVE Reasons'
  OBVIOUS
<1>0. /\ batch \in Batch /\ CopyWasTrue
      /\ \A t \in Tickets : tickets'[t] \in was'[t]
      /\ batch.held # NULL => batch.held \in Tickets /\ batch.copy \in was[batch.held]
  BY CurrentRows, Typed DEF IInv, TypeOK, Reasons, CopyWasTrue
<1>1. CASE NotFound
  <2>1. batch.pc = "get" /\ HasReason(Id, "not found")
    BY <1>1 DEF NotFound, HasReason
  <2>. QED
    BY <1>0, <1>1, <2>1, ReasonsReport DEF NotFound
<1>2. CASE Refresh
  <2>1. batch.pc = "refresh" /\ HasReason(Id, "done") /\ Id \in Tickets /\ tickets[Id] \in was[Id]
    BY <1>0, <1>2, HoldsTicket DEF Refresh, CopyWasTrue, Busy
  <2>. QED
    BY <1>2, <2>1, ReasonsReport DEF Refresh
<1>3. CASE Refuse
  <2>1. /\ batch.pc = "refused" /\ HasReason(Id, batch.answer)
        /\ Id \in Tickets /\ tickets[Id] \in was[Id]
    BY <1>0, <1>3, HoldsTicket DEF Refuse, CopyWasTrue, Busy
  <2>. QED
    BY <1>3, <2>1, ReasonsReport DEF Refuse
<1>4. CASE Get
  <2>1. /\ report' = report /\ was' = was
        /\ batch'.pc = "check" /\ Id \in Tickets
    BY <1>0, <1>4 DEF Get, Batch
  <2>2. batch'.held # NULL => batch'.copy \in was[batch'.held]
    BY <1>0, <1>4, <2>1 DEF Get, Batch, CopyWasTrue
  <2>3. CopyWasTrue'
    BY <1>0, <2>1, <2>2 DEF CopyWasTrue
  <2>. QED
    BY <2>1, <2>3, ReasonsKept
<1>5. CASE Check
  <2>1. /\ report' = report /\ was' = was
        /\ batch'.held = batch.held /\ batch'.copy = batch.copy /\ batch'.line = batch.line
        /\ batch'.ids = batch.ids /\ batch'.actor = batch.actor /\ batch'.kind = batch.kind
        /\ batch'.new_assignee_id = batch.new_assignee_id
        /\ batch'.pc # "refresh"
    BY <1>0, <1>5 DEF Check, Batch
  <2>2. batch'.pc = "refused" => batch'.answer # "not found" /\ HasReason(Id, batch'.answer)
    BY <1>5, CheckHasReason
  <2>3. CopyWasTrue'
    BY <1>0, <2>1, <2>2 DEF CopyWasTrue, HasReason, Id
  <2>. QED
    BY <2>1, <2>3, ReasonsKept
<1>6. CASE Select
  <2>1. /\ report' = report /\ was' = was
        /\ batch'.held = batch.held /\ batch'.copy = batch.copy
        /\ batch'.pc \notin {"refresh", "refused"}
    BY <1>0, <1>6 DEF Select, Batch
  <2>2. CopyWasTrue'
    BY <1>0, <2>1 DEF CopyWasTrue
  <2>. QED
    BY <2>1, <2>2, ReasonsKept
<1>7. CASE Commit
  <2>1. /\ report' = report
        /\ batch'.held = batch.held /\ batch'.copy = batch.copy /\ batch'.line = batch.line
        /\ batch'.ids = batch.ids /\ batch'.kind = batch.kind
        /\ batch'.new_assignee_id = batch.new_assignee_id
        /\ batch'.pc = "refresh"
    BY <1>0, <1>7 DEF Commit, Batch
  <2>2. HasReason(Id, "done")'
    BY <1>7, <2>1, CommitHasReason DEF HasReason, Id
  <2>3. batch'.held # NULL => batch'.copy \in was'[batch'.held]
    BY <1>0, <2>1, RequestKept
  <2>4. CopyWasTrue'
    BY <1>0, <2>1, <2>2, <2>3 DEF CopyWasTrue
  <2>. QED
    BY <2>1, <2>4, ReasonsKept
<1>8. CASE batch' = batch /\ report' = report
  <2>1. batch'.held # NULL => batch'.copy \in was'[batch'.held]
    BY <1>0, <1>8, RequestKept
  <2>2. batch.pc = "refused" => batch.answer # "not found" /\ HasReason(Id, batch.answer)'
    BY <1>0, <1>8, ReasonsStand DEF CopyWasTrue, HasReason, Id
  <2>3. batch.pc = "refresh" => HasReason(Id, "done")'
    BY <1>0, <1>8, ReasonsStand DEF CopyWasTrue, HasReason, Id
  <2>4. CopyWasTrue'
    BY <1>0, <1>8, <2>1, <2>2, <2>3 DEF CopyWasTrue
  <2>. QED
    BY <1>8, <2>4, ReasonsKept
<1>. QED
  BY <1>1, <1>2, <1>3, <1>4, <1>5, <1>6, <1>7, <1>8
     DEF Next, BatchStep, OtherMove, OtherReassign, vars

\* Whatever others do to the tickets meanwhile, each line of the page has a reason that was
\* true of its ticket at some time since the batch began.
THEOREM LinesHaveReasons == Spec => []ReportHasReasons
<1>1. Init => Reasons
  BY DEF Init, Reasons, CopyWasTrue
<1>2. Reasons => ReportHasReasons
  BY DEF Reasons, HasReason, ReportHasReasons
<1>. QED
  BY <1>1, <1>2, ReasonsStep, Invariance, PTL DEF Spec
=============================================================================
