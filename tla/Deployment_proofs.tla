------------------------- MODULE Deployment_proofs -------------------------
(***************************************************************************)
(* Proofs about deployments, for any demo data that is as the assumptions  *)
(* of Deployment ask, and any places at which builds are killed.           *)
(***************************************************************************)
EXTENDS Deployment, WellFoundedInduction, TLAPS

(***************************************************************************)
(* The script of a ticket: one create, then only other calls.              *)
(***************************************************************************)
LaterKinds == {"backdate", "transition", "archive", "collaborate", "reply"}

CallSet == [kind : LaterKinds \cup {"create"}, actor : Users, user : Users \cup {NULL},
            status : TicketStatus \cup {NULL}, at : Instant]

LaterCalls == {call \in CallSet : call.kind \in LaterKinds}

IsScript(s, spec) ==
    /\ s \in Seq(CallSet)
    /\ Len(s) >= 1
    /\ s[1].kind = "create" /\ s[1].user = spec.assignee
    /\ \A k \in DOMAIN s : k # 1 => s[k].kind \in LaterKinds

\* The calls that may follow keep a script a script.
LEMMA ScriptGoesOn ==
    ASSUME NEW spec, NEW s, IsScript(s, spec), NEW t \in Seq(LaterCalls)
    PROVE  IsScript(s \o t, spec)
<1>1. s \in Seq(CallSet) /\ Len(s) \in Nat /\ Len(s) >= 1 /\ Len(t) \in Nat
  BY DEF IsScript
<1>2. \A k \in 1..Len(t) : t[k] \in LaterCalls
  OBVIOUS
<1>3. \A k \in 1..Len(s) : s[k] \in CallSet
  BY <1>1
<1>4. LaterCalls \subseteq CallSet
  BY DEF LaterCalls
<1>5. t \in Seq(CallSet)
  BY <1>4
<1>6. /\ s \o t \in Seq(CallSet)
      /\ Len(s \o t) = Len(s) + Len(t)
      /\ \A k \in 1..Len(s) : (s \o t)[k] = s[k]
      /\ \A k \in Len(s) + 1..Len(s) + Len(t) : (s \o t)[k] = t[k - Len(s)]
  BY <1>1, <1>5
<1>7. ASSUME NEW k \in 1..Len(s) + Len(t), k # 1 PROVE (s \o t)[k].kind \in LaterKinds
  <2>1. CASE k \in 1..Len(s)
    BY <1>6, <1>7, <2>1 DEF IsScript
  <2>2. CASE k \notin 1..Len(s)
    <3>1. k - Len(s) \in 1..Len(t) /\ k \in Len(s) + 1..Len(s) + Len(t)
      BY <1>1, <1>7, <2>2
    <3>2. t[k - Len(s)] \in LaterCalls
      BY <1>2, <3>1
    <3>. QED
      BY <1>6, <3>1, <3>2 DEF LaterCalls
  <2>. QED
    BY <2>1, <2>2
<1>8. (s \o t)[1] = s[1] /\ Len(s \o t) >= 1
  BY <1>1, <1>6
<1>. QED
  BY <1>1, <1>6, <1>7, <1>8 DEF IsScript

LEMMA TransitionIsCall ==
    ASSUME NEW new_status \in TicketStatus, NEW actor \in Users, NEW at \in Instant
    PROVE  Transition(new_status, actor, at) \in LaterCalls
<1>. DEFINE call == [kind |-> "transition", actor |-> actor, user |-> NULL,
                     status |-> NULL, at |-> SeedNow]
<1>1. Transition(new_status, actor, at) = [call EXCEPT !.status = new_status, !.at = at]
  BY Zenon DEF Transition, Call
<1>2. [call EXCEPT !.status = new_status, !.at = at] =
        [kind |-> "transition", actor |-> actor, user |-> NULL, status |-> new_status, at |-> at]
  <2>. DEFINE moved == [call EXCEPT !.status = new_status]
  <2>1. moved = [kind |-> "transition", actor |-> actor, user |-> NULL,
                 status |-> new_status, at |-> SeedNow]
    OBVIOUS
  <2>2. [call EXCEPT !.status = new_status, !.at = at] = [moved EXCEPT !.at = at]
    BY Zenon
  <2>. HIDE DEF moved
  <2>3. [moved EXCEPT !.at = at] =
          [kind |-> "transition", actor |-> actor, user |-> NULL, status |-> new_status, at |-> at]
    BY <2>1
  <2>. QED
    BY <2>2, <2>3, Zenon
<1>. QED
  BY <1>1, <1>2 DEF LaterCalls, CallSet, LaterKinds

LEMMA SupervisorIsUser == Supervisor \in Users
BY DeploymentAssumption DEF Supervisor

-----------------------------------------------------------------------------
(***************************************************************************)
(* The script of an entry, part by part.                                   *)
(***************************************************************************)
CreatedAt(entry) == SeedNow - entry.age
OpenAt(entry) == CreatedAt(entry) + Least(entry.age \div 10, 60)
PendingAt(entry) == OpenAt(entry) + Least(entry.age \div 5, 120)
ResolvedAt(entry) == Least(OpenAt(entry) + entry.resolved_after, SeedNow - 2)
ClosedAt(entry) == Least(ResolvedAt(entry) + entry.closed_after, SeedNow - 1)

CreateCall(entry) == [Call("create", Supervisor) EXCEPT !.user = entry.assignee]
BackdateCall(entry) == [Call("backdate", Supervisor) EXCEPT !.at = CreatedAt(entry)]
MoveCall(entry, status) ==
    CASE status = "open"     -> Transition("open", entry.assignee, OpenAt(entry))
      [] status = "pending"  -> Transition("pending", entry.assignee, PendingAt(entry))
      [] status = "resolved" -> Transition("resolved", entry.assignee, ResolvedAt(entry))
      [] status = "closed"   -> Transition("closed", Supervisor, ClosedAt(entry))
JoinCall(entry) == [Call("collaborate", Supervisor) EXCEPT !.user = entry.collaborator]
Answers(entry) == [i \in DOMAIN entry.replies |-> Call("reply", entry.replies[i])]

\* The statuses an entry's ticket moves to.
MovesOf(entry) ==
    CASE entry.status = "new"      -> <<>>
      [] entry.status = "open"     -> <<"open">>
      [] entry.status = "pending"  -> <<"open", "pending">>
      [] entry.status = "resolved" -> <<"open", "resolved">>
      [] entry.status = "closed"   -> <<"open", "resolved", "closed">>

\* The number of calls up to the last move, the archiving, the collaborator, the last reply.
LastMove(entry) == 2 + Len(MovesOf(entry))
LastArchive(entry) == LastMove(entry) + (IF entry.archived THEN 1 ELSE 0)
LastJoin(entry) == LastArchive(entry) + (IF entry.collaborator # NULL THEN 1 ELSE 0)
LastCall(entry) == LastJoin(entry) + Len(entry.replies)

IfSo(condition, call) == IF condition THEN <<call>> ELSE <<>>

\* The times that seed_tickets computes lie between the entry's creation and its now.
LEMMA TimesOf ==
    ASSUME NEW entry \in TicketSpec
    PROVE  /\ CreatedAt(entry) \in Nat /\ CreatedAt(entry) <= SeedNow
           /\ OpenAt(entry) \in Nat /\ CreatedAt(entry) <= OpenAt(entry)
           /\ PendingAt(entry) \in Nat /\ OpenAt(entry) <= PendingAt(entry)
           /\ PendingAt(entry) <= SeedNow
           /\ PendingAt(entry) - CreatedAt(entry) <= 180
           /\ ResolvedAt(entry) \in Nat /\ ResolvedAt(entry) <= SeedNow
           /\ ClosedAt(entry) \in Nat /\ ClosedAt(entry) <= SeedNow
           /\ ResolvedAt(entry) <= ClosedAt(entry)
           /\ entry.age >= 2 => /\ CreatedAt(entry) <= ResolvedAt(entry)
                                /\ CreatedAt(entry) <= ClosedAt(entry)
<1>. DEFINE age == entry.age
            ten == age \div 10
            five == age \div 5
<1>1. /\ age \in 0..SeedNow /\ SeedNow \in Nat /\ SeedNow >= 2
      /\ entry.resolved_after \in Nat /\ entry.closed_after \in Nat
  BY DeploymentAssumption DEF TicketSpec
<1>2. ten \in Nat /\ five \in Nat /\ ten + five <= age
  <2>1. age \in Nat
    BY <1>1
  <2>. HIDE DEF age
  <2>2. ten \in Nat /\ 10 * ten <= age
    BY <2>1, Z3
  <2>3. five \in Nat /\ 5 * five <= age
    BY <2>1, Z3
  <2>. HIDE DEF ten, five
  <2>. QED
    BY <2>1, <2>2, <2>3
<1>3. /\ Least(ten, 60) \in Nat /\ Least(ten, 60) <= ten /\ Least(ten, 60) <= 60
      /\ Least(five, 120) \in Nat /\ Least(five, 120) <= five /\ Least(five, 120) <= 120
  BY <1>2 DEF Least
<1>. DEFINE a == Least(ten, 60)
            b == Least(five, 120)
<1>4. CreatedAt(entry) = SeedNow - age /\ OpenAt(entry) = CreatedAt(entry) + a
      /\ PendingAt(entry) = OpenAt(entry) + b
  BY DEF CreatedAt, OpenAt, PendingAt
<1>5. /\ a \in Nat /\ a <= ten /\ a <= 60
      /\ b \in Nat /\ b <= five /\ b <= 120
  BY <1>3
<1>. HIDE DEF age, ten, five, a, b
<1>9. a + b <= age
  BY <1>1, <1>2, <1>5
<1>6. CreatedAt(entry) \in Nat /\ OpenAt(entry) \in Nat /\ PendingAt(entry) \in Nat
  BY <1>1, <1>4, <1>5, <1>9
<1>7. ResolvedAt(entry) \in Nat /\ ResolvedAt(entry) <= SeedNow - 2
      /\ (ResolvedAt(entry) >= OpenAt(entry) \/ ResolvedAt(entry) = SeedNow - 2)
  BY <1>1, <1>6 DEF ResolvedAt, Least
<1>8. ClosedAt(entry) \in Nat /\ ClosedAt(entry) <= SeedNow - 1
      /\ (ClosedAt(entry) >= ResolvedAt(entry) \/ ClosedAt(entry) = SeedNow - 1)
  BY <1>1, <1>7 DEF ClosedAt, Least
<1>. QED
  BY <1>1, <1>4, <1>5, <1>6, <1>7, <1>8, <1>9 DEF age

LEMMA CallsOf ==
    ASSUME NEW entry \in TicketSpec
    PROVE  /\ CreateCall(entry) \in CallSet /\ CreateCall(entry).kind = "create"
           /\ CreateCall(entry).user = entry.assignee
           /\ BackdateCall(entry) \in LaterCalls
           /\ \A s \in TicketStatus \ {"new"} : MoveCall(entry, s) \in LaterCalls
           /\ Call("archive", Supervisor) \in LaterCalls
           /\ entry.collaborator # NULL => JoinCall(entry) \in LaterCalls
           /\ Answers(entry) \in Seq(LaterCalls)
           /\ Len(Answers(entry)) = Len(entry.replies)
           /\ \A r \in 1..Len(entry.replies) : Answers(entry)[r] = Call("reply", entry.replies[r])
<1>1. /\ entry.assignee \in Users /\ Supervisor \in Users /\ SeedNow \in Nat
      /\ entry.collaborator \in Users \cup {NULL} /\ entry.replies \in Seq(Users)
  BY DeploymentAssumption, SupervisorIsUser DEF TicketSpec
<1>2. CreateCall(entry) = [kind |-> "create", actor |-> Supervisor, user |-> entry.assignee,
                           status |-> NULL, at |-> SeedNow]
  BY DEF Call, CreateCall
<1>3. CreateCall(entry) \in CallSet
  BY <1>1, <1>2 DEF CallSet, Instant
<1>4. BackdateCall(entry) \in LaterCalls
  <2>1. BackdateCall(entry) = [kind |-> "backdate", actor |-> Supervisor, user |-> NULL,
                               status |-> NULL, at |-> CreatedAt(entry)]
    BY DEF Call, BackdateCall
  <2>. QED
    BY <1>1, <2>1, TimesOf DEF LaterCalls, CallSet, LaterKinds, Instant
<1>5. ASSUME NEW s \in TicketStatus \ {"new"} PROVE MoveCall(entry, s) \in LaterCalls
  <2>1. /\ Transition("open", entry.assignee, OpenAt(entry)) \in LaterCalls
        /\ Transition("pending", entry.assignee, PendingAt(entry)) \in LaterCalls
        /\ Transition("resolved", entry.assignee, ResolvedAt(entry)) \in LaterCalls
        /\ Transition("closed", Supervisor, ClosedAt(entry)) \in LaterCalls
    BY <1>1, TimesOf, TransitionIsCall DEF TicketStatus, Instant
  <2>. QED
    BY <2>1 DEF MoveCall, TicketStatus
<1>6. Call("archive", Supervisor) \in LaterCalls
  BY <1>1 DEF Call, LaterCalls, CallSet, LaterKinds, Instant
<1>7. entry.collaborator # NULL => JoinCall(entry) \in LaterCalls
  <2>1. JoinCall(entry) = [kind |-> "collaborate", actor |-> Supervisor,
                           user |-> entry.collaborator, status |-> NULL, at |-> SeedNow]
    BY DEF Call, JoinCall
  <2>. QED
    BY <1>1, <2>1 DEF LaterCalls, CallSet, LaterKinds, Instant
<1>8. \A r \in 1..Len(entry.replies) : Call("reply", entry.replies[r]) \in LaterCalls
  BY <1>1 DEF Call, LaterCalls, CallSet, LaterKinds, Instant
<1>9. /\ Answers(entry) \in Seq(LaterCalls)
      /\ Len(Answers(entry)) = Len(entry.replies)
      /\ \A r \in 1..Len(entry.replies) : Answers(entry)[r] = Call("reply", entry.replies[r])
  <2>1. DOMAIN entry.replies = 1..Len(entry.replies) /\ Len(entry.replies) \in Nat
    BY <1>1
  <2>2. Answers(entry) = [r \in 1..Len(entry.replies) |-> Call("reply", entry.replies[r])]
    BY <2>1 DEF Answers
  <2>. QED
    BY <1>8, <2>1, <2>2
<1>. QED
  BY <1>2, <1>3, <1>4, <1>5, <1>6, <1>7, <1>9

LEMMA ScriptParts ==
    ASSUME NEW entry \in TicketSpec
    PROVE  Script(entry) =
             <<CreateCall(entry), BackdateCall(entry)>>
                 \o IfSo(entry.status # "new", MoveCall(entry, "open"))
                 \o IfSo(entry.status = "pending", MoveCall(entry, "pending"))
                 \o IfSo(entry.status \in {"resolved", "closed"}, MoveCall(entry, "resolved"))
                 \o IfSo(entry.status = "closed", MoveCall(entry, "closed"))
                 \o IfSo(entry.archived, Call("archive", Supervisor))
                 \o IfSo(entry.collaborator # NULL, JoinCall(entry))
                 \o Answers(entry)
<1>1. /\ MoveCall(entry, "open") = Transition("open", entry.assignee, OpenAt(entry))
      /\ MoveCall(entry, "pending") = Transition("pending", entry.assignee, PendingAt(entry))
      /\ MoveCall(entry, "resolved") = Transition("resolved", entry.assignee, ResolvedAt(entry))
      /\ MoveCall(entry, "closed") = Transition("closed", Supervisor, ClosedAt(entry))
  BY DEF MoveCall
<1>2. Script(entry) =
        <<CreateCall(entry), BackdateCall(entry)>>
            \o IfSo(entry.status # "new", Transition("open", entry.assignee, OpenAt(entry)))
            \o IfSo(entry.status = "pending", Transition("pending", entry.assignee, PendingAt(entry)))
            \o IfSo(entry.status \in {"resolved", "closed"},
                    Transition("resolved", entry.assignee, ResolvedAt(entry)))
            \o IfSo(entry.status = "closed", Transition("closed", Supervisor, ClosedAt(entry)))
            \o IfSo(entry.archived, Call("archive", Supervisor))
            \o IfSo(entry.collaborator # NULL, JoinCall(entry))
            \o Answers(entry)
  BY Zenon DEF Script, IfSo, CreateCall, BackdateCall, JoinCall, Answers,
               CreatedAt, OpenAt, PendingAt, ResolvedAt, ClosedAt
<1>. QED
  BY <1>1, <1>2, Zenon

LEMMA IfSoIsCalls ==
    ASSUME NEW condition, NEW call, condition => call \in LaterCalls
    PROVE  IfSo(condition, call) \in Seq(LaterCalls)
<1>1. CASE condition
  <2>1. <<call>> \in Seq(LaterCalls)
    BY <1>1
  <2>. QED
    BY <1>1, <2>1 DEF IfSo
<1>2. CASE ~ condition
  BY <1>2 DEF IfSo
<1>. QED
  BY <1>1, <1>2

LEMMA ScriptIsScript ==
    ASSUME NEW entry \in TicketSpec
    PROVE  IsScript(Script(entry), entry)
<1>. DEFINE start == <<CreateCall(entry), BackdateCall(entry)>>
            opens == IfSo(entry.status # "new", MoveCall(entry, "open"))
            holds == IfSo(entry.status = "pending", MoveCall(entry, "pending"))
            solves == IfSo(entry.status \in {"resolved", "closed"}, MoveCall(entry, "resolved"))
            closes == IfSo(entry.status = "closed", MoveCall(entry, "closed"))
            stores == IfSo(entry.archived, Call("archive", Supervisor))
            joins == IfSo(entry.collaborator # NULL, JoinCall(entry))
            answers == Answers(entry)
<1>1. Script(entry) = start \o opens \o holds \o solves \o closes \o stores \o joins \o answers
  BY ScriptParts
<1>2. IsScript(start, entry)
  <2>1. /\ CreateCall(entry) \in CallSet /\ BackdateCall(entry) \in CallSet
        /\ BackdateCall(entry).kind \in LaterKinds
        /\ CreateCall(entry).kind = "create" /\ CreateCall(entry).user = entry.assignee
    BY CallsOf DEF LaterCalls
  <2>. QED
    BY <2>1 DEF IsScript
<1>3. /\ opens \in Seq(LaterCalls) /\ holds \in Seq(LaterCalls)
      /\ solves \in Seq(LaterCalls) /\ closes \in Seq(LaterCalls)
      /\ stores \in Seq(LaterCalls) /\ joins \in Seq(LaterCalls) /\ answers \in Seq(LaterCalls)
  <2>1. /\ MoveCall(entry, "open") \in LaterCalls /\ MoveCall(entry, "pending") \in LaterCalls
        /\ MoveCall(entry, "resolved") \in LaterCalls /\ MoveCall(entry, "closed") \in LaterCalls
    BY CallsOf DEF TicketStatus
  <2>. QED
    BY <2>1, CallsOf, IfSoIsCalls
<1>. HIDE DEF start, opens, holds, solves, closes, stores, joins, answers
<1>4. IsScript(start \o opens, entry)
  BY <1>2, <1>3, ScriptGoesOn, Zenon
<1>5. IsScript(start \o opens \o holds, entry)
  BY <1>3, <1>4, ScriptGoesOn, Zenon
<1>6. IsScript(start \o opens \o holds \o solves, entry)
  BY <1>3, <1>5, ScriptGoesOn, Zenon
<1>7. IsScript(start \o opens \o holds \o solves \o closes, entry)
  BY <1>3, <1>6, ScriptGoesOn, Zenon
<1>8. IsScript(start \o opens \o holds \o solves \o closes \o stores, entry)
  BY <1>3, <1>7, ScriptGoesOn, Zenon
<1>9. IsScript(start \o opens \o holds \o solves \o closes \o stores \o joins, entry)
  BY <1>3, <1>8, ScriptGoesOn, Zenon
<1>. QED
  BY <1>1, <1>3, <1>9, ScriptGoesOn, Zenon
-----------------------------------------------------------------------------
(***************************************************************************)
(* What a call does to the ticket it is made for.                          *)
(***************************************************************************)
Logged == {"pending", "closed", "resolved"}

\* Only the log of the status can have an open row, and it has one unless the ticket was
\* Resolved before there was a log for that.
Fits(ticket) ==
    /\ \A s \in Logged : s # ticket.status => OpenRows(PeriodsOf(ticket, s)) = {}
    /\ HasOpenRow(ticket) \/ ticket.legacy = "resolved"

LEMMA StartOpensOne ==
    ASSUME NEW log \in Seq(Period), NEW at \in Instant, OpenRows(log) = {}
    PROVE  /\ StartPeriod(log, at) \in Seq(Period)
           /\ \E row \in DOMAIN StartPeriod(log, at) : OnlyOpenRow(StartPeriod(log, at), row)
<1>. DEFINE new == StartPeriod(log, at)
<1>1. [start |-> at, end |-> NULL] \in Period
  BY DEF Period
<1>2. /\ new \in Seq(Period)
      /\ DOMAIN new = DOMAIN log \cup {Len(log) + 1}
      /\ Len(log) + 1 \notin DOMAIN log
      /\ \A i \in DOMAIN log : new[i] = log[i]
      /\ new[Len(log) + 1] = [start |-> at, end |-> NULL]
  BY <1>1 DEF StartPeriod
<1>. HIDE DEF new
<1>3. \A i \in DOMAIN log : log[i].end # NULL
  BY DEF OpenRows
<1>4. OpenRows(new) = {Len(log) + 1}
  BY <1>2, <1>3 DEF OpenRows
<1>5. OnlyOpenRow(new, Len(log) + 1) /\ Len(log) + 1 \in DOMAIN new
  BY <1>2, <1>4 DEF OnlyOpenRow
<1>6. new \in Seq(Period) /\ \E row \in DOMAIN new : OnlyOpenRow(new, row)
  BY <1>2, <1>5
<1>. QED
  BY <1>6 DEF new

LEMMA EndOpensNone ==
    ASSUME NEW log \in Seq(Period), NEW at \in Instant
    PROVE  EndOpenRows(log, at) \in Seq(Period) /\ OpenRows(EndOpenRows(log, at)) = {}
<1>. DEFINE new == EndOpenRows(log, at)
<1>1. at # NULL
  BY NullAssumption DEF Instant
<1>2. /\ DOMAIN log = 1..Len(log) /\ Len(log) \in Nat
      /\ \A row \in 1..Len(log) : log[row] \in Period
  OBVIOUS
<1>3. \A row \in 1..Len(log) : [log[row] EXCEPT !.end = at] \in Period
                                /\ [log[row] EXCEPT !.end = at].end = at
  BY <1>2 DEF Period
<1>4. /\ DOMAIN new = 1..Len(log)
      /\ \A row \in 1..Len(log) :
           new[row] = IF row \in OpenRows(log) THEN [log[row] EXCEPT !.end = at] ELSE log[row]
  BY <1>2 DEF EndOpenRows
<1>5. \A row \in 1..Len(log) : new[row] \in Period /\ new[row].end # NULL
  BY <1>1, <1>2, <1>3, <1>4 DEF OpenRows
<1>6. new = [row \in 1..Len(log) |-> new[row]]
  BY <1>2 DEF EndOpenRows
<1>. HIDE DEF new
<1>7. new \in Seq(Period)
  BY <1>2, <1>5, <1>6
<1>8. OpenRows(new) = {}
  BY <1>4, <1>5 DEF OpenRows
<1>. QED
  BY <1>7, <1>8 DEF new

LEMMA LogsTyped ==
    ASSUME NEW ticket \in Ticket, NEW s \in Logged
    PROVE  PeriodsOf(ticket, s) \in Seq(Period)
BY DEF Ticket, PeriodsOf, Logged

\* A move starts a period in the log of the new status, ends what is open in that of the
\* old one, and leaves the third alone.
LEMMA LogAfterFacts ==
    ASSUME NEW ticket \in Ticket, Fits(ticket), NEW call \in LaterCalls,
           call.status \in AllowedTransitions[ticket.status], NEW s \in Logged
    PROVE  /\ LogAfter(s, ticket, call) \in Seq(Period)
           /\ s # call.status => OpenRows(LogAfter(s, ticket, call)) = {}
           /\ s = call.status =>
                \E row \in DOMAIN LogAfter(s, ticket, call) :
                    OnlyOpenRow(LogAfter(s, ticket, call), row)
<1>. DEFINE log == PeriodsOf(ticket, s)
<1>1. log \in Seq(Period) /\ call.at \in Instant
  BY LogsTyped DEF LaterCalls, CallSet
<1>2. ticket.status \in TicketStatus /\ call.status # ticket.status
  BY DEF Ticket, TicketStatus, AllowedTransitions
<1>3. s # ticket.status => OpenRows(log) = {}
  BY DEF Fits
<1>. HIDE DEF log
<1>4. CASE s = call.status
  <2>1. LogAfter(s, ticket, call) = StartPeriod(log, call.at)
    BY <1>2, <1>4 DEF LogAfter, log
  <2>2. OpenRows(log) = {}
    BY <1>2, <1>3, <1>4
  <2>. QED
    BY <1>1, <1>4, <2>1, <2>2, StartOpensOne
<1>5. CASE s # call.status /\ s = ticket.status
  <2>1. LogAfter(s, ticket, call) = EndOpenRows(log, call.at)
    BY <1>5 DEF LogAfter, log
  <2>. QED
    BY <1>1, <1>5, <2>1, EndOpensNone
<1>6. CASE s # call.status /\ s # ticket.status
  <2>1. LogAfter(s, ticket, call) = log
    BY <1>6 DEF LogAfter, log
  <2>. QED
    BY <1>1, <1>3, <1>6, <2>1
<1>. QED
  BY <1>4, <1>5, <1>6

TransitionAfter(ticket, call) ==
    [ticket EXCEPT !.status = call.status,
                   !.pending = LogAfter("pending", ticket, call),
                   !.closed = LogAfter("closed", ticket, call),
                   !.resolved = LogAfter("resolved", ticket, call)]

LEMMA TransitionAfterFields ==
    ASSUME NEW ticket \in Ticket, NEW call
    PROVE  TransitionAfter(ticket, call) =
             [spec |-> ticket.spec, legacy |-> ticket.legacy,
              primary_assignee_id |-> ticket.primary_assignee_id,
              collaborator_ids |-> ticket.collaborator_ids, status |-> call.status,
              is_archived |-> ticket.is_archived, created_at |-> ticket.created_at,
              pending |-> LogAfter("pending", ticket, call),
              closed |-> LogAfter("closed", ticket, call),
              resolved |-> LogAfter("resolved", ticket, call), replies |-> ticket.replies]
<1>. DEFINE t1 == [ticket EXCEPT !.status = call.status]
            t2 == [t1 EXCEPT !.pending = LogAfter("pending", ticket, call)]
            t3 == [t2 EXCEPT !.closed = LogAfter("closed", ticket, call)]
            t4 == [t3 EXCEPT !.resolved = LogAfter("resolved", ticket, call)]
            Fields(status, pending, closed, resolved) ==
              [spec |-> ticket.spec, legacy |-> ticket.legacy,
               primary_assignee_id |-> ticket.primary_assignee_id,
               collaborator_ids |-> ticket.collaborator_ids, status |-> status,
               is_archived |-> ticket.is_archived, created_at |-> ticket.created_at,
               pending |-> pending, closed |-> closed, resolved |-> resolved,
               replies |-> ticket.replies]
<1>0. ticket = Fields(ticket.status, ticket.pending, ticket.closed, ticket.resolved)
  BY DEF Ticket
<1>1. t1 = Fields(call.status, ticket.pending, ticket.closed, ticket.resolved)
  <2>. DEFINE old == Fields(ticket.status, ticket.pending, ticket.closed, ticket.resolved)
  <2>1. [old EXCEPT !.status = call.status] =
          Fields(call.status, ticket.pending, ticket.closed, ticket.resolved)
    OBVIOUS
  <2>2. t1 = [old EXCEPT !.status = call.status]
    BY <1>0, Zenon
  <2>. QED
    BY <2>1, <2>2, Zenon
<1>2. TransitionAfter(ticket, call) = t4
  BY Zenon DEF TransitionAfter
<1>. HIDE DEF t1
<1>3. t2 = Fields(call.status, LogAfter("pending", ticket, call), ticket.closed, ticket.resolved)
  BY <1>1
<1>. HIDE DEF t2
<1>4. t3 = Fields(call.status, LogAfter("pending", ticket, call),
                  LogAfter("closed", ticket, call), ticket.resolved)
  BY <1>3
<1>. HIDE DEF t3
<1>5. t4 = Fields(call.status, LogAfter("pending", ticket, call),
                  LogAfter("closed", ticket, call), LogAfter("resolved", ticket, call))
  BY <1>4
<1>. QED
  BY <1>2, <1>5

\* No call but the create changes which ticket it is or who its assignee is, and each
\* leaves the logs in step with the status.
LEMMA AfterFacts ==
    ASSUME NEW ticket \in Ticket, Fits(ticket), NEW call \in LaterCalls, Accepts(ticket, call)
    PROVE  /\ After(ticket, call) \in Ticket
           /\ After(ticket, call).spec = ticket.spec
           /\ After(ticket, call).primary_assignee_id = ticket.primary_assignee_id
           /\ Fits(After(ticket, call))
<1>. DEFINE new == After(ticket, call)
<1>0. call \in CallSet /\ call.kind \in LaterKinds
  BY DEF LaterCalls
<1>1. CASE call.kind = "transition"
  <2>1. new = TransitionAfter(ticket, call)
    BY <1>1 DEF After, TransitionAfter
  <2>2. call.status \in AllowedTransitions[ticket.status]
    BY <1>1 DEF Accepts
  <2>3. ticket.status \in TicketStatus
    BY DEF Ticket
  <2>4. call.status \in TicketStatus
    BY <2>2, <2>3 DEF TicketStatus, AllowedTransitions
  <2>. HIDE DEF new
  <2>5. /\ new = [spec |-> ticket.spec, legacy |-> ticket.legacy,
                  primary_assignee_id |-> ticket.primary_assignee_id,
                  collaborator_ids |-> ticket.collaborator_ids, status |-> call.status,
                  is_archived |-> ticket.is_archived, created_at |-> ticket.created_at,
                  pending |-> LogAfter("pending", ticket, call),
                  closed |-> LogAfter("closed", ticket, call),
                  resolved |-> LogAfter("resolved", ticket, call), replies |-> ticket.replies]
    BY <2>1, TransitionAfterFields
  <2>6. \A s \in Logged :
          /\ LogAfter(s, ticket, call) \in Seq(Period)
          /\ s # call.status => OpenRows(LogAfter(s, ticket, call)) = {}
          /\ s = call.status => \E row \in DOMAIN LogAfter(s, ticket, call) :
                                    OnlyOpenRow(LogAfter(s, ticket, call), row)
    BY <2>2, LogAfterFacts
  <2>7. /\ LogAfter("pending", ticket, call) \in Seq(Period)
        /\ LogAfter("closed", ticket, call) \in Seq(Period)
        /\ LogAfter("resolved", ticket, call) \in Seq(Period)
    BY <2>6 DEF Logged
  <2>8. new \in Ticket
    BY <2>4, <2>5, <2>7 DEF Ticket
  <2>9. \A s \in Logged : PeriodsOf(new, s) = LogAfter(s, ticket, call)
    BY <2>5 DEF PeriodsOf, Logged
  <2>10. new.status = call.status /\ new.spec = ticket.spec
         /\ new.primary_assignee_id = ticket.primary_assignee_id
    BY <2>5
  <2>11. Fits(new)
    <3>1. new.status \in Logged => \E row \in DOMAIN PeriodsOf(new, new.status) :
                                      OnlyOpenRow(PeriodsOf(new, new.status), row)
      BY <2>6, <2>9, <2>10
    <3>2. HasOpenRow(new)
      BY <3>1 DEF HasOpenRow, Logged
    <3>. QED
      BY <2>6, <2>9, <2>10, <3>2 DEF Fits
  <2>. QED
    BY <2>8, <2>10, <2>11 DEF new
<1>2. CASE call.kind # "transition"
  <2>1. /\ new \in Ticket
        /\ new.spec = ticket.spec /\ new.legacy = ticket.legacy
        /\ new.primary_assignee_id = ticket.primary_assignee_id
        /\ new.status = ticket.status
        /\ new.pending = ticket.pending /\ new.closed = ticket.closed
        /\ new.resolved = ticket.resolved
    <3>1. CASE call.kind = "backdate"
      <4>1. new = [ticket EXCEPT !.created_at = call.at] /\ call.at \in Instant
        BY <1>0, <3>1 DEF After, CallSet
      <4>. QED
        BY <4>1 DEF Ticket
    <3>2. CASE call.kind = "archive"
      <4>1. new = [ticket EXCEPT !.is_archived = TRUE]
        BY <3>2 DEF After
      <4>. QED
        BY <4>1 DEF Ticket
    <3>3. CASE call.kind = "reply"
      <4>1. new = [ticket EXCEPT !.replies = Append(ticket.replies, call.actor)]
            /\ call.actor \in Users
        BY <1>0, <3>3 DEF After, CallSet
      <4>2. Append(ticket.replies, call.actor) \in Seq(Users)
        BY <4>1 DEF Ticket
      <4>. QED
        BY <4>1, <4>2 DEF Ticket
    <3>4. CASE call.kind = "collaborate"
      <4>1. new = [ticket EXCEPT !.collaborator_ids = ticket.collaborator_ids \cup {call.user}]
        BY <3>4 DEF After
      <4>2. call.user \in Users
        BY <3>4 DEF Accepts, Agents
      <4>3. ticket.collaborator_ids \cup {call.user} \in SUBSET Users
        BY <4>2 DEF Ticket
      <4>. HIDE DEF new
      <4>. QED
        BY <4>1, <4>3 DEF Ticket
    <3>. QED
      BY <1>0, <1>2, <3>1, <3>2, <3>3, <3>4 DEF LaterKinds
  <2>. HIDE DEF new
  <2>2. \A s \in Logged : PeriodsOf(new, s) = PeriodsOf(ticket, s)
    BY <2>1 DEF PeriodsOf, Logged
  <2>3. HasOpenRow(ticket) => HasOpenRow(new)
    BY <2>1, <2>2 DEF HasOpenRow, Logged
  <2>4. Fits(new)
    BY <2>1, <2>2, <2>3 DEF Fits
  <2>. QED
    BY <2>1, <2>4 DEF new
<1>. QED
  BY <1>1, <1>2
-----------------------------------------------------------------------------
(***************************************************************************)
(* The inductive invariant.                                                *)
(***************************************************************************)
\* The seed has made the tickets of the data up to its place in it, and nothing else.
Placed ==
    At("tickets") =>
        /\ build.spec \in 1..Len(Tickets)
        /\ build.step \in 1..Len(Script(Tickets[build.spec]))
        /\ \A i \in DOMAIN DemoUsers : DemoUsers[i] \in accounts
        /\ Len(tickets) = IF build.step = 1 THEN build.spec - 1 ELSE build.spec
        /\ \A i \in DOMAIN tickets : tickets[i].spec = i

Upgraded == build.pc \in {"users", "tickets"} => schema = HeadRevision

Assigned ==
    \A i \in DOMAIN tickets :
        /\ tickets[i].primary_assignee_id \in (accounts \cap Agents) \cup {NULL}
        /\ schema = HeadRevision => tickets[i].primary_assignee_id # NULL

IInv ==
    /\ TypeOK
    /\ SeedIsAPrefix
    /\ Placed
    /\ Upgraded
    /\ Assigned
    /\ \A i \in DOMAIN tickets : Fits(tickets[i])

LEMMA NewTicketFits ==
    ASSUME NEW spec \in Nat, NEW assignee \in Users \cup {NULL}
    PROVE  /\ NewTicket(spec, assignee) \in Ticket /\ Fits(NewTicket(spec, assignee))
           /\ NewTicket(spec, assignee).spec = spec
           /\ NewTicket(spec, assignee).primary_assignee_id = assignee
<1>. DEFINE new == NewTicket(spec, assignee)
<1>1. <<>> \in Seq(Period) /\ <<>> \in Seq(Users) /\ SeedNow \in Instant
  BY DeploymentAssumption DEF Instant
<1>2. new \in Ticket /\ new.spec = spec /\ new.primary_assignee_id = assignee
  BY <1>1 DEF NewTicket, Ticket, TicketStatus
<1>3. new.status = "new" /\ new.pending = <<>> /\ new.closed = <<>> /\ new.resolved = <<>>
  BY DEF NewTicket
<1>. HIDE DEF new
<1>4. \A s \in Logged : OpenRows(PeriodsOf(new, s)) = {}
  BY <1>3 DEF Logged, PeriodsOf, OpenRows
<1>5. HasOpenRow(new)
  BY <1>3 DEF HasOpenRow
<1>6. new \in Ticket /\ Fits(new) /\ new.spec = spec /\ new.primary_assignee_id = assignee
  BY <1>2, <1>4, <1>5 DEF Fits
<1>. QED
  BY <1>6 DEF new

LEMMA LegacyFits ==
    ASSUME NEW ticket \in LegacyTickets
    PROVE  /\ ticket \in Ticket /\ ticket.spec = 0 /\ Fits(ticket)
           /\ ticket.primary_assignee_id \in (accounts \cap Agents) \cup {NULL}
<1>1. PICK assignee \in (accounts \cap Agents) \cup {NULL}, s \in TicketStatus :
        ticket = LegacyTicket(assignee, s)
  <2>1. PICK assignee \in IF Applied(AssigneeColumn) THEN accounts \cap Agents ELSE {NULL},
             s \in IF Applied(PeriodTables) THEN TicketStatus ELSE {"new"} :
          ticket = LegacyTicket(assignee, s)
    BY DEF LegacyTickets
  <2>2. assignee \in (accounts \cap Agents) \cup {NULL} /\ s \in TicketStatus
    BY DEF TicketStatus
  <2>. QED
    BY <2>1, <2>2, Zenon
<1>. DEFINE none == <<>>
            nobody == {}
            no == FALSE
            epoch == 0
            pending == IF s = "pending" THEN StartPeriod(<<>>, 1) ELSE <<>>
            closed == IF s = "closed" THEN StartPeriod(<<>>, 1) ELSE <<>>
            Fields(legacy, status, created_at, p, c) ==
              [spec |-> epoch, legacy |-> legacy, primary_assignee_id |-> assignee,
               collaborator_ids |-> nobody, status |-> status, is_archived |-> no,
               created_at |-> created_at, pending |-> p, closed |-> c, resolved |-> none,
               replies |-> none]
            t0 == NewTicket(0, assignee)
            t1 == [t0 EXCEPT !.legacy = s]
            t2 == [t1 EXCEPT !.status = s]
            t3 == [t2 EXCEPT !.created_at = epoch]
            t4 == [t3 EXCEPT !.pending = pending]
            t5 == [t4 EXCEPT !.closed = closed]
<1>2. ticket = t5
  BY <1>1, Zenon DEF LegacyTicket
<1>3. t0 = Fields(NULL, "new", SeedNow, none, none)
  BY DEF NewTicket
<1>. HIDE DEF t0, pending, closed, none, nobody, no, epoch
<1>4. t1 = Fields(s, "new", SeedNow, none, none)
  BY <1>3
<1>. HIDE DEF t1
<1>5. t2 = Fields(s, s, SeedNow, none, none)
  BY <1>4
<1>. HIDE DEF t2
<1>6. t3 = Fields(s, s, epoch, none, none)
  BY <1>5
<1>. HIDE DEF t3
<1>7. t4 = Fields(s, s, epoch, pending, none)
  BY <1>6
<1>. HIDE DEF t4
<1>8. ticket = Fields(s, s, epoch, pending, closed)
  BY <1>2, <1>7
<1>9. /\ StartPeriod(<<>>, 1) \in Seq(Period)
      /\ \E row \in DOMAIN StartPeriod(<<>>, 1) : OnlyOpenRow(StartPeriod(<<>>, 1), row)
  <2>1. <<>> \in Seq(Period) /\ 1 \in Instant /\ OpenRows(<<>>) = {}
    BY DEF OpenRows, Instant
  <2>. QED
    BY <2>1, StartOpensOne
<1>10. /\ pending \in Seq(Period) /\ closed \in Seq(Period)
       /\ s = "pending" => \E row \in DOMAIN pending : OnlyOpenRow(pending, row)
       /\ s = "closed" => \E row \in DOMAIN closed : OnlyOpenRow(closed, row)
       /\ s # "pending" => OpenRows(pending) = {}
       /\ s # "closed" => OpenRows(closed) = {}
  BY <1>9 DEF pending, closed, OpenRows
<1>11. ticket.status = s /\ ticket.legacy = s /\ ticket.pending = pending
       /\ ticket.closed = closed /\ ticket.resolved = <<>> /\ ticket.spec = 0
       /\ ticket.primary_assignee_id = assignee
  BY <1>8 DEF none, epoch
<1>12. \A r \in Logged : r # s => OpenRows(PeriodsOf(ticket, r)) = {}
  BY <1>10, <1>11 DEF PeriodsOf, Logged, OpenRows
<1>13. HasOpenRow(ticket) \/ s = "resolved"
  BY <1>10, <1>11 DEF HasOpenRow, PeriodsOf
<1>14. ticket \in Ticket
  <2>1. assignee \in Users \cup {NULL}
    BY DEF Agents
  <2>. QED
    BY <1>8, <1>10, <2>1 DEF Ticket, Instant, none, nobody, no, epoch
<1>. QED
  BY <1>11, <1>12, <1>13, <1>14 DEF Fits

LEMMA RevisionCount == HeadRevision \in Nat /\ HeadRevision >= 1
BY DEF HeadRevision, Revisions

LEMMA InitIInv == Init => IInv
<1>. SUFFICES ASSUME Init PROVE IInv
  OBVIOUS
<1>1. schema \in 0..HeadRevision /\ schema # HeadRevision
  BY RevisionCount DEF Init
<1>2. accounts \in SUBSET Users
  BY DeploymentAssumption DEF Init
<1>3. build = [pc |-> "idle", spec |-> 0, step |-> 0]
  BY DEF Init
<1>4. tickets \in Seq(Ticket) /\ \A i \in DOMAIN tickets : tickets[i] \in LegacyTickets
  <2>1. CASE tickets = <<>>
    BY <2>1
  <2>2. CASE tickets # <<>>
    <3>1. PICK ticket \in LegacyTickets : tickets = <<ticket>>
      BY <2>2 DEF Init
    <3>2. ticket \in Ticket
      BY LegacyFits
    <3>. QED
      BY <3>1, <3>2
  <2>. QED
    BY <2>1, <2>2
<1>5. \A i \in DOMAIN tickets :
        /\ tickets[i].spec = 0 /\ Fits(tickets[i])
        /\ tickets[i].primary_assignee_id \in (accounts \cap Agents) \cup {NULL}
  BY <1>4, LegacyFits
<1>6. TypeOK
  BY <1>1, <1>2, <1>3, <1>4 DEF TypeOK
<1>7. SeedIsAPrefix
  BY <1>5 DEF SeedIsAPrefix, Seeded
<1>. QED
  BY <1>1, <1>3, <1>5, <1>6, <1>7 DEF IInv, Placed, Upgraded, Assigned, At
-----------------------------------------------------------------------------
\* The steps that leave the tickets alone.
LEMMA BuildOnly ==
    ASSUME IInv, UNCHANGED <<schema, accounts, tickets>>, GoTo("idle") \/ GoTo("failed")
               \/ GoTo("serving") \/ GoTo("upgrade")
    PROVE  IInv'
<1>1. build'.pc \notin {"users", "tickets"} /\ TypeOK'
  BY DEF IInv, TypeOK, GoTo
<1>. QED
  BY <1>1 DEF IInv, SeedIsAPrefix, Seeded, Placed, Upgraded, Assigned, At, Fits

LEMMA BackfilledFacts ==
    ASSUME NEW ticket \in Ticket, Fits(ticket),
           ticket.primary_assignee_id \in (accounts \cap Agents) \cup {NULL}
    PROVE  /\ Backfilled(ticket) \in Ticket /\ Fits(Backfilled(ticket))
           /\ Backfilled(ticket).spec = ticket.spec
           /\ Backfilled(ticket).primary_assignee_id \in (accounts \cap Agents) \cup {NULL}
<1>1. CASE ticket.primary_assignee_id # NULL \/ Fallback = {}
  <2>1. Backfilled(ticket) = ticket
    BY <1>1 DEF Backfilled
  <2>. QED
    BY <2>1
<1>2. CASE ~ (ticket.primary_assignee_id # NULL \/ Fallback = {})
  <2>. DEFINE agent == CHOOSE user \in Fallback : TRUE
              new == Backfilled(ticket)
  <2>1. agent \in Fallback
    BY <1>2
  <2>2. Fallback \subseteq accounts \cap Agents
    BY DEF Fallback
  <2>3. agent \in accounts \cap Agents /\ agent \in Users
    BY <2>1, <2>2 DEF Agents
  <2>4. new = [ticket EXCEPT !.primary_assignee_id = agent]
    BY <1>2 DEF Backfilled
  <2>. HIDE DEF agent, new
  <2>5. /\ new \in Ticket /\ new.spec = ticket.spec /\ new.primary_assignee_id = agent
        /\ new.status = ticket.status /\ new.legacy = ticket.legacy
        /\ new.pending = ticket.pending /\ new.closed = ticket.closed
        /\ new.resolved = ticket.resolved
    BY <2>3, <2>4 DEF Ticket
  <2>6. Fits(new)
    BY <2>5 DEF Fits, HasOpenRow, PeriodsOf, Logged
  <2>7. new \in Ticket /\ Fits(new) /\ new.spec = ticket.spec
        /\ new.primary_assignee_id \in (accounts \cap Agents) \cup {NULL}
    BY <2>3, <2>5, <2>6
  <2>. QED
    BY <2>7 DEF new
<1>. QED
  BY <1>1, <1>2

LEMMA TicketsTyped ==
    ASSUME IInv
    PROVE  /\ tickets \in Seq(Ticket) /\ DOMAIN tickets = 1..Len(tickets) /\ Len(tickets) \in Nat
           /\ \A i \in DOMAIN tickets :
                /\ tickets[i] \in Ticket /\ Fits(tickets[i])
                /\ tickets[i].primary_assignee_id \in (accounts \cap Agents) \cup {NULL}
<1>1. tickets \in Seq(Ticket)
  BY DEF IInv, TypeOK
<1>. QED
  BY <1>1 DEF IInv, Assigned

LEMMA UpgradeStep == ASSUME IInv, Upgrade PROVE IInv'
<1>. DEFINE rows == [i \in DOMAIN tickets |-> Backfilled(tickets[i])]
<1>1. CASE \E i \in DOMAIN rows : rows[i].primary_assignee_id = NULL
  BY <1>1, BuildOnly DEF Upgrade
<1>2. CASE ~ \E i \in DOMAIN rows : rows[i].primary_assignee_id = NULL
  <2>1. GoTo("users") /\ schema' = HeadRevision /\ tickets' = rows /\ accounts' = accounts
    BY <1>2 DEF Upgrade
  <2>2. DOMAIN rows = DOMAIN tickets /\ \A i \in DOMAIN tickets : rows[i] = Backfilled(tickets[i])
    OBVIOUS
  <2>3. \A i \in DOMAIN tickets :
          /\ rows[i] \in Ticket /\ Fits(rows[i])
          /\ rows[i].spec = tickets[i].spec
          /\ rows[i].primary_assignee_id \in (accounts \cap Agents) \cup {NULL}
    BY <2>2, TicketsTyped, BackfilledFacts
  <2>4. rows \in Seq(Ticket)
    BY <2>3, TicketsTyped
  <2>. HIDE DEF rows
  <2>5. build'.pc = "users" /\ TypeOK'
    BY <2>1, <2>4, RevisionCount DEF IInv, TypeOK, GoTo
  <2>6. Assigned'
    BY <1>2, <2>1, <2>2, <2>3 DEF Assigned
  <2>7. SeedIsAPrefix'
    BY <2>1, <2>2, <2>3 DEF IInv, SeedIsAPrefix, Seeded
  <2>8. \A i \in DOMAIN tickets' : Fits(tickets'[i])
    BY <2>1, <2>2, <2>3
  <2>. QED
    BY <2>1, <2>5, <2>6, <2>7, <2>8 DEF IInv, Placed, Upgraded, At, Fits
<1>. QED
  BY <1>1, <1>2

LEMMA SeedUserStep == ASSUME IInv, SeedUser PROVE IInv'
<1>1. PICK i \in DOMAIN DemoUsers : accounts' = accounts \cup {DemoUsers[i]}
  BY DEF SeedUser
<1>2. DemoUsers[i] \in Users
  BY DeploymentAssumption
<1>3. build.pc = "users" /\ UNCHANGED <<schema, tickets, build>>
  BY DEF SeedUser, At
<1>4. TypeOK'
  BY <1>1, <1>2, <1>3 DEF IInv, TypeOK
<1>5. Assigned'
  BY <1>1, <1>3 DEF IInv, Assigned
<1>. QED
  BY <1>3, <1>4, <1>5 DEF IInv, SeedIsAPrefix, Seeded, Placed, Upgraded, At, Fits

LEMMA ScriptOfEntry ==
    ASSUME NEW i \in 1..Len(Tickets)
    PROVE  IsScript(Script(Tickets[i]), Tickets[i])
<1>1. Tickets[i] \in TicketSpec
  BY DeploymentAssumption
<1>. QED
  BY <1>1, ScriptIsScript

LEMMA CountStep == ASSUME IInv, CountTickets PROVE IInv'
<1>1. CASE MaySeed /\ Tickets # <<>>
  <2>1. /\ build' = [pc |-> "tickets", spec |-> 1, step |-> 1]
        /\ \A i \in DOMAIN DemoUsers : DemoUsers[i] \in accounts
        /\ build.pc = "users"
        /\ UNCHANGED <<schema, accounts, tickets>>
    BY <1>1 DEF CountTickets, At
  <2>2. tickets = <<>> /\ 1 \in 1..Len(Tickets)
    BY <1>1, DeploymentAssumption DEF MaySeed
  <2>3. 1 \in 1..Len(Script(Tickets[1]))
    BY <2>2, ScriptOfEntry DEF IsScript
  <2>4. TypeOK'
    BY <2>1 DEF IInv, TypeOK
  <2>5. Placed'
    BY <2>1, <2>2, <2>3 DEF Placed, At
  <2>. QED
    BY <2>1, <2>4, <2>5 DEF IInv, SeedIsAPrefix, Seeded, Upgraded, Assigned, Fits
<1>2. CASE ~ (MaySeed /\ Tickets # <<>>)
  BY <1>2, BuildOnly DEF CountTickets
<1>. QED
  BY <1>1, <1>2

\* After a call the seed is at the next one, or at the next ticket, or done.
LEMMA ProceedStep ==
    ASSUME IInv, At("tickets"), Proceed, UNCHANGED <<schema, accounts>>,
           tickets' \in Seq(Ticket), Len(tickets') = build.spec,
           \A i \in DOMAIN tickets' :
               /\ tickets'[i].spec = i /\ Fits(tickets'[i])
               /\ tickets'[i].primary_assignee_id \in accounts \cap Agents
    PROVE  IInv'
<1>1. /\ build.spec \in 1..Len(Tickets)
      /\ build.step \in 1..Len(Script(Tickets[build.spec]))
      /\ \A i \in DOMAIN DemoUsers : DemoUsers[i] \in accounts
      /\ schema = HeadRevision
      /\ build.pc = "tickets"
  BY DEF IInv, Placed, Upgraded, At
<1>2. Len(Tickets) \in Nat /\ Len(Script(Tickets[build.spec])) \in Nat
  BY <1>1, DeploymentAssumption, ScriptOfEntry DEF IsScript
<1>3. build \in [pc : {"idle", "upgrade", "users", "tickets", "serving", "failed"},
                 spec : Nat, step : Nat]
  BY DEF IInv, TypeOK
<1>4. TypeOK' /\ Placed' /\ build'.pc \in {"tickets", "serving"}
  <2>. DEFINE calls == Len(Script(Tickets[build.spec]))
  <2>1. CASE build.step < calls
    <3>0. ~ (build.step >= calls)
      BY <1>1, <1>2, <2>1
    <3>1. build' = [build EXCEPT !.step = build.step + 1]
      BY <2>1, <3>0 DEF Proceed
    <3>2. build' = [pc |-> "tickets", spec |-> build.spec, step |-> build.step + 1]
      BY <1>1, <1>3, <3>1
    <3>3. build.step + 1 \in 1..calls /\ build.step + 1 # 1 /\ build.step + 1 \in Nat
      BY <1>1, <1>2, <2>1
    <3>4. TypeOK'
      BY <1>1, <1>3, <3>2, <3>3 DEF IInv, TypeOK
    <3>5. Placed'
      BY <1>1, <3>2, <3>3 DEF Placed, At
    <3>. QED
      BY <3>2, <3>4, <3>5
  <2>2. CASE build.step >= calls /\ build.spec < Len(Tickets)
    <3>1. ~ (build.step < calls)
      BY <1>1, <1>2, <2>2
    <3>2. build' = [build EXCEPT !.spec = build.spec + 1, !.step = 1]
      BY <2>2, <3>1 DEF Proceed
    <3>3. build' = [pc |-> "tickets", spec |-> build.spec + 1, step |-> 1]
      <4>. DEFINE half == [build EXCEPT !.spec = build.spec + 1]
      <4>1. half = [pc |-> "tickets", spec |-> build.spec + 1, step |-> build.step]
        BY <1>1, <1>3
      <4>2. build' = [half EXCEPT !.step = 1]
        BY <3>2, Zenon
      <4>. HIDE DEF half
      <4>. QED
        BY <4>1, <4>2
    <3>4. build.spec + 1 \in 1..Len(Tickets) /\ build.spec + 1 \in Nat
          /\ (build.spec + 1) - 1 = build.spec
      BY <1>1, <1>2, <2>2
    <3>5. 1 \in 1..Len(Script(Tickets[build.spec + 1]))
      BY <3>4, ScriptOfEntry DEF IsScript
    <3>6. TypeOK'
      BY <1>1, <1>3, <3>3, <3>4 DEF IInv, TypeOK
    <3>7. Placed'
      BY <1>1, <3>3, <3>4, <3>5 DEF Placed, At
    <3>. QED
      BY <3>3, <3>6, <3>7
  <2>3. CASE ~ (build.step < calls) /\ ~ (build.step >= calls /\ build.spec < Len(Tickets))
    <3>1. build' = [pc |-> "serving", spec |-> 0, step |-> 0]
      BY <2>3, Zenon DEF Proceed
    <3>2. TypeOK' /\ Placed'
      BY <3>1 DEF IInv, TypeOK, Placed, At
    <3>. QED
      BY <3>1, <3>2
  <2>. QED
    BY <2>1, <2>2, <2>3
<1>5. NULL \notin accounts
  BY DeploymentAssumption DEF IInv, TypeOK
<1>6. Assigned'
  BY <1>5 DEF Assigned
<1>7. SeedIsAPrefix'
  BY DEF SeedIsAPrefix
<1>8. Upgraded'
  BY <1>1 DEF Upgraded
<1>9. \A i \in DOMAIN tickets' : Fits(tickets'[i])
  OBVIOUS
<1>. QED
  BY <1>4, <1>6, <1>7, <1>8, <1>9 DEF IInv, Fits

\* The entry the seed is at, and what its next call is.
LEMMA NextCallFacts ==
    ASSUME IInv, At("tickets")
    PROVE  /\ build.spec \in 1..Len(Tickets) /\ build.spec \in Nat
           /\ NextCall \in CallSet
           /\ NextCall.kind = "create" =>
                build.step = 1 /\ NextCall.user = Tickets[build.spec].assignee
           /\ NextCall.kind # "create" => build.step # 1 /\ NextCall \in LaterCalls
<1>1. /\ build.spec \in 1..Len(Tickets)
      /\ build.step \in 1..Len(Script(Tickets[build.spec]))
  BY DEF IInv, Placed
<1>. DEFINE s == Script(Tickets[build.spec])
<1>2. IsScript(s, Tickets[build.spec])
  BY <1>1, ScriptOfEntry
<1>3. NextCall = s[build.step]
  BY DEF NextCall
<1>. HIDE DEF s
<1>4. s \in Seq(CallSet) /\ DOMAIN s = 1..Len(s) /\ build.step \in 1..Len(s)
  BY <1>1, <1>2 DEF IsScript, s
<1>5. s[build.step] \in CallSet
  BY <1>4
<1>6. build.step # 1 => s[build.step].kind \in LaterKinds
  BY <1>2, <1>4 DEF IsScript
<1>7. "create" \notin LaterKinds
  BY DEF LaterKinds
<1>8. s[1].kind = "create" /\ s[1].user = Tickets[build.spec].assignee
  BY <1>2 DEF IsScript
<1>. QED
  BY <1>1, <1>3, <1>5, <1>6, <1>7, <1>8 DEF LaterCalls

LEMMA SeedCreateStep == ASSUME IInv, SeedCreate PROVE IInv'
<1>1. /\ At("tickets") /\ NextCall.kind = "create" /\ UNCHANGED <<schema, accounts>>
  BY DEF SeedCreate
<1>2. /\ build.spec \in 1..Len(Tickets) /\ build.spec \in Nat /\ build.step = 1
      /\ NextCall.user = Tickets[build.spec].assignee
  BY <1>1, NextCallFacts
<1>3. CASE NextCall.user \notin Agents
  BY <1>1, <1>3, BuildOnly DEF SeedCreate
<1>4. CASE NextCall.user \in Agents
  <2>. DEFINE new == NewTicket(build.spec, NextCall.user)
  <2>1. tickets' = Append(tickets, new) /\ Proceed
    BY <1>4 DEF SeedCreate
  <2>2. NextCall.user \in accounts
    <3>1. NextCall.user \in {DemoUsers[k] : k \in DOMAIN DemoUsers}
      BY <1>2, DeploymentAssumption
    <3>2. \A i \in DOMAIN DemoUsers : DemoUsers[i] \in accounts
      BY <1>1 DEF IInv, Placed
    <3>. QED
      BY <3>1, <3>2
  <2>3. NextCall.user \in Users \cup {NULL}
    BY <1>4 DEF Agents
  <2>4. new \in Ticket /\ Fits(new) /\ new.spec = build.spec /\ new.primary_assignee_id = NextCall.user
    BY <1>2, <2>3, NewTicketFits
  <2>. HIDE DEF new
  <2>5. /\ Len(tickets) = build.spec - 1 /\ \A i \in DOMAIN tickets : tickets[i].spec = i
        /\ schema = HeadRevision
    BY <1>1, <1>2 DEF IInv, Placed, Upgraded, At
  <2>6. \A i \in DOMAIN tickets : tickets[i].primary_assignee_id \in accounts \cap Agents
    BY <2>5 DEF IInv, Assigned
  <2>7. /\ tickets' \in Seq(Ticket) /\ Len(tickets') = Len(tickets) + 1
        /\ DOMAIN tickets' = 1..Len(tickets) + 1
        /\ \A i \in DOMAIN tickets : tickets'[i] = tickets[i]
        /\ tickets'[Len(tickets) + 1] = new
    BY <2>1, <2>4, TicketsTyped
  <2>8. Len(tickets') = build.spec
    BY <1>2, <2>5, <2>7
  <2>9. ASSUME NEW i \in DOMAIN tickets'
        PROVE  /\ tickets'[i].spec = i /\ Fits(tickets'[i])
               /\ tickets'[i].primary_assignee_id \in accounts \cap Agents
    <3>1. CASE i \in DOMAIN tickets
      BY <2>5, <2>6, <2>7, <3>1, TicketsTyped
    <3>2. CASE i \notin DOMAIN tickets
      <4>1. i = Len(tickets) + 1 /\ i = build.spec
        BY <1>2, <2>5, <2>7, <3>2, TicketsTyped
      <4>. QED
        BY <1>4, <2>2, <2>4, <2>7, <4>1
    <3>. QED
      BY <3>1, <3>2
  <2>. QED
    BY <1>1, <2>1, <2>7, <2>8, <2>9, ProceedStep
<1>. QED
  BY <1>3, <1>4

LEMMA SeedCallStep == ASSUME IInv, SeedCall PROVE IInv'
<1>. DEFINE last == Len(tickets)
            new == After(tickets[last], NextCall)
<1>1. At("tickets") /\ NextCall.kind # "create" /\ UNCHANGED <<schema, accounts>>
  BY DEF SeedCall
<1>2. /\ build.spec \in 1..Len(Tickets) /\ build.spec \in Nat /\ build.step # 1
      /\ NextCall \in LaterCalls
  BY <1>1, NextCallFacts
<1>3. CASE ~ Accepts(tickets[last], NextCall)
  BY <1>1, <1>3, BuildOnly DEF SeedCall
<1>4. CASE Accepts(tickets[last], NextCall)
  <2>1. tickets' = [tickets EXCEPT ![last] = new] /\ Proceed
    BY <1>4 DEF SeedCall
  <2>2. /\ Len(tickets) = build.spec /\ \A i \in DOMAIN tickets : tickets[i].spec = i
        /\ schema = HeadRevision
    BY <1>1, <1>2 DEF IInv, Placed, Upgraded, At
  <2>3. last \in DOMAIN tickets /\ tickets[last] \in Ticket /\ Fits(tickets[last])
    BY <1>2, <2>2, TicketsTyped
  <2>4. /\ new \in Ticket /\ Fits(new) /\ new.spec = tickets[last].spec
        /\ new.primary_assignee_id = tickets[last].primary_assignee_id
    BY <1>2, <1>4, <2>3, AfterFacts
  <2>5. \A i \in DOMAIN tickets : tickets[i].primary_assignee_id \in accounts \cap Agents
    BY <2>2 DEF IInv, Assigned
  <2>. HIDE DEF last, new
  <2>6. /\ tickets' \in Seq(Ticket) /\ Len(tickets') = Len(tickets)
        /\ DOMAIN tickets' = DOMAIN tickets
        /\ \A i \in DOMAIN tickets : tickets'[i] = IF i = last THEN new ELSE tickets[i]
    BY <2>1, <2>3, <2>4, TicketsTyped
  <2>7. \A i \in DOMAIN tickets' :
          /\ tickets'[i].spec = i /\ Fits(tickets'[i])
          /\ tickets'[i].primary_assignee_id \in accounts \cap Agents
    BY <2>2, <2>3, <2>4, <2>5, <2>6, TicketsTyped
  <2>8. Len(tickets') = build.spec
    BY <2>2, <2>6
  <2>. QED
    BY <1>1, <2>1, <2>6, <2>7, <2>8, ProceedStep
<1>. QED
  BY <1>3, <1>4

LEMMA NextIInv == IInv /\ [Next]_vars => IInv'
<1>. SUFFICES ASSUME IInv, [Next]_vars PROVE IInv'
  OBVIOUS
<1>1. CASE StartBuild
  BY <1>1, BuildOnly DEF StartBuild
<1>2. CASE Crash
  BY <1>2, BuildOnly DEF Crash
<1>3. CASE UNCHANGED vars
  BY <1>3 DEF vars, IInv, TypeOK, SeedIsAPrefix, Seeded, Placed, Upgraded, Assigned, At, Fits
<1>. QED
  BY <1>1, <1>2, <1>3, UpgradeStep, SeedUserStep, CountStep, SeedCreateStep, SeedCallStep
  DEF Next

LEMMA Invariance == Spec => []IInv
BY InitIInv, NextIInv, PTL DEF Spec
-----------------------------------------------------------------------------
\* The rows of every ticket keep their types, those an earlier release left included.
THEOREM TypeCorrect == Spec => []TypeOK
<1>1. IInv => TypeOK
  BY DEF IInv
<1>. QED
  BY <1>1, Invariance, PTL

\* However often builds are killed and started again, the demo tickets are a prefix of the
\* data, each made once, and made only in a database without tickets.
THEOREM SeedStaysAPrefix == Spec => []SeedIsAPrefix
<1>1. IInv => SeedIsAPrefix
  BY DEF IInv
<1>. QED
  BY <1>1, Invariance, PTL

\* Once upgraded, every ticket is assigned to an agent who has an account.
THEOREM EveryTicketIsAssigned == Spec => []AssigneesExist
<1>1. IInv => AssigneesExist
  BY DEF IInv, Assigned, AssigneesExist
<1>. QED
  BY <1>1, Invariance, PTL

\* Whatever the data, the one() of a move out of the status of an upgraded or seeded ticket
\* finds its row, unless an earlier release resolved the ticket.
THEOREM TicketsCanLeave == Spec => []EveryTicketCanLeave
<1>1. IInv => EveryTicketCanLeave
  BY DEF IInv, Fits, EveryTicketCanLeave
<1>. QED
  BY <1>1, Invariance, PTL
-----------------------------------------------------------------------------
(***************************************************************************)
(* Which call of a script is which.                                        *)
(***************************************************************************)
ScriptShape(entry) ==
    LET s == Script(entry)
    IN  /\ Len(s) = LastCall(entry)
        /\ s[1] = CreateCall(entry) /\ s[2] = BackdateCall(entry)
        /\ \A d \in 1..Len(MovesOf(entry)) : s[2 + d] = MoveCall(entry, MovesOf(entry)[d])
        /\ entry.archived => s[LastMove(entry) + 1] = Call("archive", Supervisor)
        /\ entry.collaborator # NULL => s[LastArchive(entry) + 1] = JoinCall(entry)
        /\ \A r \in 1..Len(entry.replies) : s[LastJoin(entry) + r] = Call("reply", entry.replies[r])

LEMMA ElementsOfBoth ==
    ASSUME NEW X, NEW s \in Seq(X), NEW t \in Seq(X)
    PROVE  /\ Len(s \o t) = Len(s) + Len(t)
           /\ \A k \in 1..Len(s) : (s \o t)[k] = s[k]
           /\ \A k \in 1..Len(t) : (s \o t)[Len(s) + k] = t[k]
<1>1. Len(s) \in Nat /\ Len(t) \in Nat /\ Len(s \o t) = Len(s) + Len(t)
  OBVIOUS
<1>2. \A k \in 1..Len(s) + Len(t) :
        (s \o t)[k] = IF k <= Len(s) THEN s[k] ELSE t[k - Len(s)]
  OBVIOUS
<1>. QED
  BY <1>1, <1>2

IsExtended(s, t, X, condition, call) ==
    /\ t \in Seq(X)
    /\ Len(t) = Len(s) + (IF condition THEN 1 ELSE 0)
    /\ \A k \in 1..Len(s) : t[k] = s[k]
    /\ condition => t[Len(s) + 1] = call

LEMMA OneMoreIfSo ==
    ASSUME NEW X, NEW s \in Seq(X), NEW condition \in BOOLEAN, NEW call,
           condition => call \in X
    PROVE  IsExtended(s, s \o IfSo(condition, call), X, condition, call)
<1>1. CASE condition
  <2>1. call \in X /\ IfSo(condition, call) = <<call>>
    BY <1>1 DEF IfSo
  <2>. DEFINE t == s \o <<call>>
  <2>2. t \in Seq(X) /\ Len(t) = Len(s) + 1 /\ Len(s) \in Nat
    BY <2>1
  <2>3. \A k \in 1..Len(s) : t[k] = s[k]
    BY <2>1
  <2>4. t[Len(s) + 1] = call
    BY <2>1
  <2>. HIDE DEF t
  <2>5. s \o IfSo(condition, call) = t
    BY <2>1 DEF t
  <2>. QED
    BY <1>1, <2>2, <2>3, <2>4, <2>5 DEF IsExtended
<1>2. CASE ~ condition
  <2>1. IfSo(condition, call) = <<>>
    BY <1>2 DEF IfSo
  <2>2. s \o <<>> = s /\ Len(s) \in Nat
    OBVIOUS
  <2>. QED
    BY <1>2, <2>1, <2>2 DEF IsExtended
<1>. QED
  BY <1>1, <1>2

LEMMA ScriptHasItsShape ==
    ASSUME NEW entry \in TicketSpec
    PROVE  ScriptShape(entry)
<1>. DEFINE opens == IfSo(entry.status # "new", MoveCall(entry, "open"))
            holds == IfSo(entry.status = "pending", MoveCall(entry, "pending"))
            solves == IfSo(entry.status \in {"resolved", "closed"}, MoveCall(entry, "resolved"))
            closes == IfSo(entry.status = "closed", MoveCall(entry, "closed"))
            stores == IfSo(entry.archived, Call("archive", Supervisor))
            joins == IfSo(entry.collaborator # NULL, JoinCall(entry))
            t0 == <<CreateCall(entry), BackdateCall(entry)>>
            t1 == t0 \o opens
            t2 == t1 \o holds
            t3 == t2 \o solves
            t4 == t3 \o closes
            t5 == t4 \o stores
            t6 == t5 \o joins
            s == t6 \o Answers(entry)
<1>1. Script(entry) = s
  BY ScriptParts
<1>2. /\ CreateCall(entry) \in CallSet /\ BackdateCall(entry) \in CallSet
      /\ \A m \in TicketStatus \ {"new"} : MoveCall(entry, m) \in CallSet
      /\ Call("archive", Supervisor) \in CallSet
      /\ entry.collaborator # NULL => JoinCall(entry) \in CallSet
      /\ Answers(entry) \in Seq(LaterCalls) /\ LaterCalls \subseteq CallSet
  BY CallsOf DEF LaterCalls
<1>3. entry.status \in TicketStatus /\ entry.archived \in BOOLEAN /\ Len(entry.replies) \in Nat
  BY DEF TicketSpec
<1>4. t0 \in Seq(CallSet) /\ Len(t0) = 2 /\ t0[1] = CreateCall(entry) /\ t0[2] = BackdateCall(entry)
  BY <1>2
<1>. HIDE DEF t0
<1>5. IsExtended(t0, t1, CallSet, entry.status # "new", MoveCall(entry, "open"))
  <2>1. (entry.status # "new") \in BOOLEAN /\ ((entry.status # "new") => MoveCall(entry, "open") \in CallSet)
    BY <1>2, <1>3 DEF TicketStatus
  <2>2. t0 \in Seq(CallSet)
    BY <1>4
  <2>. QED
    BY <2>1, <2>2, OneMoreIfSo, Zenon
<1>. HIDE DEF t1
<1>6. IsExtended(t1, t2, CallSet, entry.status = "pending", MoveCall(entry, "pending"))
  <2>1. (entry.status = "pending") \in BOOLEAN /\ ((entry.status = "pending") => MoveCall(entry, "pending") \in CallSet)
    BY <1>2, <1>3 DEF TicketStatus
  <2>2. t1 \in Seq(CallSet)
    BY <1>5 DEF IsExtended
  <2>. QED
    BY <2>1, <2>2, OneMoreIfSo, Zenon
<1>. HIDE DEF t2
<1>7. IsExtended(t2, t3, CallSet, entry.status \in {"resolved", "closed"}, MoveCall(entry, "resolved"))
  <2>1. (entry.status \in {"resolved", "closed"}) \in BOOLEAN /\ ((entry.status \in {"resolved", "closed"}) => MoveCall(entry, "resolved") \in CallSet)
    BY <1>2, <1>3 DEF TicketStatus
  <2>2. t2 \in Seq(CallSet)
    BY <1>6 DEF IsExtended
  <2>. QED
    BY <2>1, <2>2, OneMoreIfSo, Zenon
<1>. HIDE DEF t3
<1>8. IsExtended(t3, t4, CallSet, entry.status = "closed", MoveCall(entry, "closed"))
  <2>1. (entry.status = "closed") \in BOOLEAN /\ ((entry.status = "closed") => MoveCall(entry, "closed") \in CallSet)
    BY <1>2, <1>3 DEF TicketStatus
  <2>2. t3 \in Seq(CallSet)
    BY <1>7 DEF IsExtended
  <2>. QED
    BY <2>1, <2>2, OneMoreIfSo, Zenon
<1>. HIDE DEF t4
<1>9. IsExtended(t4, t5, CallSet, entry.archived, Call("archive", Supervisor))
  <2>1. (entry.archived) \in BOOLEAN /\ ((entry.archived) => Call("archive", Supervisor) \in CallSet)
    BY <1>2, <1>3 DEF TicketStatus
  <2>2. t4 \in Seq(CallSet)
    BY <1>8 DEF IsExtended
  <2>. QED
    BY <2>1, <2>2, OneMoreIfSo, Zenon
<1>. HIDE DEF t5
<1>10. IsExtended(t5, t6, CallSet, entry.collaborator # NULL, JoinCall(entry))
  <2>1. (entry.collaborator # NULL) \in BOOLEAN /\ ((entry.collaborator # NULL) => JoinCall(entry) \in CallSet)
    BY <1>2, <1>3 DEF TicketStatus
  <2>2. t5 \in Seq(CallSet)
    BY <1>9 DEF IsExtended
  <2>. QED
    BY <2>1, <2>2, OneMoreIfSo, Zenon
<1>. HIDE DEF t6
<1>11. /\ Len(s) = Len(t6) + Len(entry.replies)
       /\ \A k \in 1..Len(t6) : s[k] = t6[k]
       /\ \A r \in 1..Len(entry.replies) : s[Len(t6) + r] = Answers(entry)[r]
  <2>1. Answers(entry) \in Seq(CallSet) /\ Len(Answers(entry)) = Len(entry.replies)
    BY <1>2, CallsOf
  <2>. HIDE DEF s
  <2>. DEFINE a == Answers(entry)
  <2>2. s = t6 \o a /\ t6 \in Seq(CallSet)
    BY <1>10 DEF s, IsExtended
  <2>. HIDE DEF a
  <2>3. /\ Len(s) = Len(t6) + Len(a)
        /\ \A k \in 1..Len(t6) : s[k] = t6[k]
        /\ \A k \in 1..Len(a) : s[Len(t6) + k] = a[k]
    <3>1. a \in Seq(CallSet)
      BY <2>1 DEF a
    <3>2. /\ Len(t6 \o a) = Len(t6) + Len(a)
          /\ \A k \in 1..Len(t6) : (t6 \o a)[k] = t6[k]
          /\ \A k \in 1..Len(a) : (t6 \o a)[Len(t6) + k] = a[k]
      BY <2>2, <3>1, ElementsOfBoth
    <3>. QED
      BY <2>2, <3>2, Zenon
  <2>. QED
    BY <2>1, <2>3 DEF a
<1>. HIDE DEF s
<1>12. \A r \in 1..Len(entry.replies) : s[Len(t6) + r] = Call("reply", entry.replies[r])
  BY <1>11, CallsOf
<1>13. /\ Len(t4) = LastMove(entry) /\ Len(t4) \in Nat
       /\ t4[1] = CreateCall(entry) /\ t4[2] = BackdateCall(entry)
       /\ \A d \in 1..Len(MovesOf(entry)) : t4[2 + d] = MoveCall(entry, MovesOf(entry)[d])
  <2>1. CASE entry.status = "new"
    BY <1>4, <1>5, <1>6, <1>7, <1>8, <2>1 DEF LastMove, MovesOf, IsExtended
  <2>2. CASE entry.status = "open"
    BY <1>4, <1>5, <1>6, <1>7, <1>8, <2>2 DEF LastMove, MovesOf, IsExtended
  <2>3. CASE entry.status = "pending"
    BY <1>4, <1>5, <1>6, <1>7, <1>8, <2>3 DEF LastMove, MovesOf, IsExtended
  <2>4. CASE entry.status = "resolved"
    BY <1>4, <1>5, <1>6, <1>7, <1>8, <2>4 DEF LastMove, MovesOf, IsExtended
  <2>5. CASE entry.status = "closed"
    BY <1>4, <1>5, <1>6, <1>7, <1>8, <2>5 DEF LastMove, MovesOf, IsExtended
  <2>. QED
    BY <1>3, <2>1, <2>2, <2>3, <2>4, <2>5 DEF TicketStatus
<1>14. /\ Len(t5) = LastArchive(entry) /\ Len(t6) = LastJoin(entry) /\ Len(s) = LastCall(entry)
       /\ Len(t5) \in Nat /\ Len(t6) \in Nat
  BY <1>9, <1>10, <1>11, <1>13 DEF LastArchive, LastJoin, LastCall, IsExtended
<1>15. \A k \in 1..Len(t4) : s[k] = t4[k]
  BY <1>9, <1>10, <1>11, <1>13, <1>14 DEF IsExtended
<1>16. Len(MovesOf(entry)) \in Nat /\ LastMove(entry) = 2 + Len(MovesOf(entry))
  BY <1>3 DEF LastMove, MovesOf, TicketStatus
<1>17. /\ s[1] = CreateCall(entry) /\ s[2] = BackdateCall(entry)
       /\ \A d \in 1..Len(MovesOf(entry)) : s[2 + d] = MoveCall(entry, MovesOf(entry)[d])
  BY <1>13, <1>15, <1>16
<1>18. entry.archived => s[LastMove(entry) + 1] = Call("archive", Supervisor)
  BY <1>9, <1>10, <1>11, <1>13, <1>14 DEF IsExtended
<1>19. entry.collaborator # NULL => s[LastArchive(entry) + 1] = JoinCall(entry)
  BY <1>10, <1>11, <1>14 DEF IsExtended
<1>20. \A r \in 1..Len(entry.replies) : s[LastJoin(entry) + r] = Call("reply", entry.replies[r])
  BY <1>12, <1>14
<1>. QED
  BY <1>1, <1>14, <1>17, <1>18, <1>19, <1>20 DEF ScriptShape
-----------------------------------------------------------------------------
(***************************************************************************)
(* How far a ticket is built: what the first n calls of a script make.     *)
(***************************************************************************)
OneRow(log, start, end) == Len(log) = 1 /\ log[1] = [start |-> start, end |-> end]

\* The status and the logs of an entry's ticket once it has moved to a status.
MovedTo(ticket, entry, status) ==
    /\ ticket.status = status
    /\ IF status = "pending" THEN OneRow(ticket.pending, PendingAt(entry), NULL)
       ELSE Len(ticket.pending) = 0
    /\ CASE status = "resolved" -> OneRow(ticket.resolved, ResolvedAt(entry), NULL)
         [] status = "closed" -> OneRow(ticket.resolved, ResolvedAt(entry), ClosedAt(entry))
         [] OTHER -> Len(ticket.resolved) = 0
    /\ IF status = "closed" THEN OneRow(ticket.closed, ClosedAt(entry), NULL)
       ELSE Len(ticket.closed) = 0

StatusAfter(entry, moves) == IF moves = 0 THEN "new" ELSE MovesOf(entry)[moves]

MovesMade(entry, n) == IF n < 2 THEN 0 ELSE Least(n - 2, Len(MovesOf(entry)))

AsFarAs(ticket, entry, n) ==
    /\ ticket.primary_assignee_id = entry.assignee
    /\ n >= 2 => ticket.created_at = CreatedAt(entry)
    /\ MovedTo(ticket, entry, StatusAfter(entry, MovesMade(entry, n)))
    /\ ticket.is_archived = (n > LastMove(entry) /\ entry.archived)
    /\ ticket.collaborator_ids = IF n > LastArchive(entry) THEN {entry.collaborator} \ {NULL} ELSE {}
    /\ Len(ticket.replies) = IF n > LastJoin(entry) THEN n - LastJoin(entry) ELSE 0
    /\ \A r \in 1..Len(ticket.replies) : ticket.replies[r] = entry.replies[r]
-----------------------------------------------------------------------------
(***************************************************************************)
(* One more call of a script.                                              *)
(***************************************************************************)
IsOld(entry, reading) ==
    entry.status \in {"new", "open"} /\ entry.age >= reading[entry.priority]

LEMMA EntryFacts ==
    ASSUME NEW i \in 1..Len(Tickets)
    PROVE  /\ Tickets[i] \in TicketSpec
           /\ Supervisor \in Supervisors
           /\ Tickets[i].assignee \in Agents
           /\ Tickets[i].collaborator # NULL => Tickets[i].collaborator \in Agents \ {Tickets[i].assignee}
           /\ \A r \in 1..Len(Tickets[i].replies) :
                Tickets[i].replies[r] \in {Tickets[i].assignee, Tickets[i].collaborator} \cup Supervisors
           /\ Tickets[i].status \in {"resolved", "closed"} => Tickets[i].age >= 2
           /\ i \in MeantBreaching <=> IsOld(Tickets[i], Target)
           /\ i \in MeantBreaching \cup MeantAtRisk <=> IsOld(Tickets[i], AtRiskFrom)
<1>1. Tickets[i] \in TicketSpec /\ i \in DOMAIN Tickets
  BY DeploymentAssumption
<1>2. Tickets[i].replies \in Seq(Users)
  BY <1>1 DEF TicketSpec
<1>3. DOMAIN Tickets[i].replies = 1..Len(Tickets[i].replies)
  BY <1>2
<1>. QED
  BY <1>1, <1>3, SeedAssumption DEF Supervisor, IsOld

LEMMA FirstRow ==
    ASSUME NEW log \in Seq(Period), Len(log) = 0, NEW at \in Instant
    PROVE  OneRow(StartPeriod(log, at), at, NULL)
<1>1. [start |-> at, end |-> NULL] \in Period
  BY DEF Period
<1>. QED
  BY <1>1 DEF OneRow, StartPeriod

LEMMA RowEnded ==
    ASSUME NEW log \in Seq(Period), NEW start \in Instant, OneRow(log, start, NULL), NEW at \in Instant
    PROVE  /\ OnlyOpenRow(log, 1) /\ 1 \in DOMAIN log
           /\ OneRow(EndOpenRows(log, at), start, at)
<1>1. /\ DOMAIN log = 1..1 /\ log[1] = [start |-> start, end |-> NULL]
  BY DEF OneRow
<1>2. OpenRows(log) = {1}
  BY <1>1 DEF OpenRows
<1>3. EndOpenRows(log, at) = [row \in 1..1 |-> [start |-> start, end |-> at]]
  <2>1. \A row \in 1..1 : row = 1
    OBVIOUS
  <2>2. [log[1] EXCEPT !.end = at] = [start |-> start, end |-> at]
    BY <1>1
  <2>. QED
    BY <1>1, <1>2, <2>1, <2>2 DEF EndOpenRows
<1>. QED
  BY <1>1, <1>2, <1>3 DEF OnlyOpenRow, OneRow

\* The moves of a script are four legal ones.
LEMMA MovesAreLegal ==
    ASSUME NEW entry \in TicketSpec, NEW d \in 1..Len(MovesOf(entry))
    PROVE  \E from, to \in TicketStatus :
             /\ from = StatusAfter(entry, d - 1) /\ to = StatusAfter(entry, d)
             /\ to = MovesOf(entry)[d]
             /\ \/ from = "new" /\ to = "open"
                \/ from = "open" /\ to = "pending"
                \/ from = "open" /\ to = "resolved"
                \/ from = "resolved" /\ to = "closed"
<1>1. entry.status \in TicketStatus
  BY DEF TicketSpec
<1>2. CASE entry.status = "new"
  BY <1>2 DEF MovesOf
<1>3. CASE entry.status = "open"
  BY <1>3 DEF MovesOf, StatusAfter, TicketStatus
<1>4. CASE entry.status = "pending"
  BY <1>4 DEF MovesOf, StatusAfter, TicketStatus
<1>5. CASE entry.status = "resolved"
  BY <1>5 DEF MovesOf, StatusAfter, TicketStatus
<1>6. CASE entry.status = "closed"
  BY <1>6 DEF MovesOf, StatusAfter, TicketStatus
<1>. QED
  BY <1>1, <1>2, <1>3, <1>4, <1>5, <1>6 DEF TicketStatus

LEMMA AgentOrSupervisorActs ==
    ASSUME NEW ticket, NEW actor, actor = ticket.primary_assignee_id \/ actor \in Supervisors
    PROVE  CanActOnTicket(actor, ticket)
BY DEF CanActOnTicket, IsSupervisor, IsAssignedTo

LEMMA MoveFields ==
    ASSUME NEW entry \in TicketSpec, NEW status \in TicketStatus \ {"new"}
    PROVE  /\ MoveCall(entry, status).kind = "transition"
           /\ MoveCall(entry, status).status = status
           /\ MoveCall(entry, status).actor = IF status = "closed" THEN Supervisor ELSE entry.assignee
           /\ MoveCall(entry, status).at = CASE status = "open" -> OpenAt(entry)
                                             [] status = "pending" -> PendingAt(entry)
                                             [] status = "resolved" -> ResolvedAt(entry)
                                             [] status = "closed" -> ClosedAt(entry)
<1>1. ASSUME NEW actor, NEW at
      PROVE  Transition(status, actor, at) =
               [kind |-> "transition", actor |-> actor, user |-> NULL, status |-> status, at |-> at]
  <2>. DEFINE half == [Call("transition", actor) EXCEPT !.status = status]
  <2>1. half = [kind |-> "transition", actor |-> actor, user |-> NULL, status |-> status, at |-> SeedNow]
    BY DEF Call
  <2>2. Transition(status, actor, at) = [half EXCEPT !.at = at]
    BY Zenon DEF Transition
  <2>. HIDE DEF half
  <2>. QED
    BY <2>1, <2>2
<1>2. CASE status = "open"
  BY <1>1, <1>2 DEF MoveCall
<1>3. CASE status = "pending"
  BY <1>1, <1>3 DEF MoveCall
<1>4. CASE status = "resolved"
  BY <1>1, <1>4 DEF MoveCall
<1>5. CASE status = "closed"
  BY <1>1, <1>5 DEF MoveCall
<1>. QED
  BY <1>2, <1>3, <1>4, <1>5 DEF TicketStatus

\* A move of the script is accepted, and writes the logs as it should.
LEMMA MoveOn ==
    ASSUME NEW entry \in TicketSpec, Supervisor \in Supervisors,
           NEW d \in 1..Len(MovesOf(entry)), NEW ticket \in Ticket,
           ticket.primary_assignee_id = entry.assignee,
           MovedTo(ticket, entry, StatusAfter(entry, d - 1))
    PROVE  LET call == MoveCall(entry, MovesOf(entry)[d])
               new  == After(ticket, call)
           IN  /\ Accepts(ticket, call)
               /\ MovedTo(new, entry, StatusAfter(entry, d))
               /\ new.primary_assignee_id = ticket.primary_assignee_id
               /\ new.created_at = ticket.created_at
               /\ new.is_archived = ticket.is_archived
               /\ new.collaborator_ids = ticket.collaborator_ids
               /\ new.replies = ticket.replies
<1>1. PICK from, to \in TicketStatus :
             /\ from = StatusAfter(entry, d - 1) /\ to = StatusAfter(entry, d)
             /\ to = MovesOf(entry)[d]
             /\ \/ from = "new" /\ to = "open"
                \/ from = "open" /\ to = "pending"
                \/ from = "open" /\ to = "resolved"
                \/ from = "resolved" /\ to = "closed"
  BY MovesAreLegal
<1>. DEFINE call == MoveCall(entry, to)
            new == After(ticket, call)
<1>2. to \in TicketStatus \ {"new"}
  BY <1>1
<1>3. /\ call.kind = "transition" /\ call.status = to
      /\ call.actor = IF to = "closed" THEN Supervisor ELSE entry.assignee
      /\ to = "pending" => call.at = PendingAt(entry)
      /\ to = "resolved" => call.at = ResolvedAt(entry)
      /\ to = "closed" => call.at = ClosedAt(entry)
  BY <1>2, MoveFields
<1>4. /\ ticket.pending \in Seq(Period) /\ ticket.closed \in Seq(Period)
      /\ ticket.resolved \in Seq(Period)
      /\ PendingAt(entry) \in Instant /\ ResolvedAt(entry) \in Instant /\ ClosedAt(entry) \in Instant
  BY TimesOf DEF Ticket, Instant
<1>5. MovedTo(ticket, entry, from)
  BY <1>1
<1>. HIDE DEF call
<1>6. new = TransitionAfter(ticket, call)
  BY <1>3 DEF After, TransitionAfter
<1>. HIDE DEF new
<1>7. /\ new.status = to
      /\ new.pending = LogAfter("pending", ticket, call)
      /\ new.closed = LogAfter("closed", ticket, call)
      /\ new.resolved = LogAfter("resolved", ticket, call)
      /\ new.primary_assignee_id = ticket.primary_assignee_id
      /\ new.created_at = ticket.created_at /\ new.is_archived = ticket.is_archived
      /\ new.collaborator_ids = ticket.collaborator_ids /\ new.replies = ticket.replies
  BY <1>3, <1>6, TransitionAfterFields
<1>8. ticket.status = from
  BY <1>5 DEF MovedTo
<1>9. CanActOnTicket(call.actor, ticket)
  BY <1>3, AgentOrSupervisorActs
<1>10. to \in AllowedTransitions[from]
  BY <1>1 DEF AllowedTransitions
<1>11. from = "resolved" => CanCloseTicket(call.actor, ticket)
  BY <1>1, <1>3 DEF CanCloseTicket, IsSupervisor
<1>12. HasOpenRow(ticket)
  <2>1. CASE from = "resolved"
    <3>1. OneRow(ticket.resolved, ResolvedAt(entry), NULL)
      BY <1>5, <2>1 DEF MovedTo
    <3>2. OnlyOpenRow(ticket.resolved, 1) /\ 1 \in DOMAIN ticket.resolved
      BY <1>4, <3>1, RowEnded
    <3>. QED
      BY <1>8, <2>1, <3>2 DEF HasOpenRow, PeriodsOf
  <2>2. CASE from # "resolved"
    BY <1>1, <1>8, <2>2 DEF HasOpenRow
  <2>. QED
    BY <2>1, <2>2
<1>13. Accepts(ticket, call)
  BY <1>3, <1>8, <1>9, <1>10, <1>11, <1>12 DEF Accepts
<1>14. MovedTo(new, entry, to)
  <2>1. CASE from = "new" /\ to = "open"
    BY <1>3, <1>5, <1>7, <1>8, <2>1 DEF MovedTo, LogAfter, PeriodsOf
  <2>2. CASE from = "open" /\ to = "pending"
    <3>1. /\ new.pending = StartPeriod(ticket.pending, PendingAt(entry))
          /\ new.closed = ticket.closed /\ new.resolved = ticket.resolved
      BY <1>3, <1>7, <1>8, <2>2 DEF LogAfter, PeriodsOf
    <3>2. Len(ticket.pending) = 0 /\ Len(ticket.closed) = 0 /\ Len(ticket.resolved) = 0
      BY <1>5, <2>2 DEF MovedTo
    <3>. QED
      BY <1>4, <1>7, <2>2, <3>1, <3>2, FirstRow DEF MovedTo
  <2>3. CASE from = "open" /\ to = "resolved"
    <3>1. /\ new.resolved = StartPeriod(ticket.resolved, ResolvedAt(entry))
          /\ new.closed = ticket.closed /\ new.pending = ticket.pending
      BY <1>3, <1>7, <1>8, <2>3 DEF LogAfter, PeriodsOf
    <3>2. Len(ticket.pending) = 0 /\ Len(ticket.closed) = 0 /\ Len(ticket.resolved) = 0
      BY <1>5, <2>3 DEF MovedTo
    <3>. QED
      BY <1>4, <1>7, <2>3, <3>1, <3>2, FirstRow DEF MovedTo
  <2>4. CASE from = "resolved" /\ to = "closed"
    <3>1. /\ new.closed = StartPeriod(ticket.closed, ClosedAt(entry))
          /\ new.resolved = EndOpenRows(ticket.resolved, ClosedAt(entry))
          /\ new.pending = ticket.pending
      BY <1>3, <1>7, <1>8, <2>4 DEF LogAfter, PeriodsOf
    <3>2. /\ Len(ticket.pending) = 0 /\ Len(ticket.closed) = 0
          /\ OneRow(ticket.resolved, ResolvedAt(entry), NULL)
      BY <1>5, <2>4 DEF MovedTo
    <3>3. OneRow(new.resolved, ResolvedAt(entry), ClosedAt(entry))
      BY <1>4, <3>1, <3>2, RowEnded
    <3>4. OneRow(new.closed, ClosedAt(entry), NULL)
      BY <1>4, <3>1, <3>2, FirstRow
    <3>. QED
      BY <1>7, <2>4, <3>1, <3>2, <3>3, <3>4 DEF MovedTo
  <2>. QED
    BY <1>1, <2>1, <2>2, <2>3, <2>4
<1>. QED
  BY <1>1, <1>7, <1>13, <1>14 DEF new, call

\* Where the parts of a script end.
LEMMA PartsInOrder ==
    ASSUME NEW entry \in TicketSpec
    PROVE  /\ Len(MovesOf(entry)) \in Nat /\ Len(entry.replies) \in Nat
           /\ LastMove(entry) \in Nat /\ LastMove(entry) = 2 + Len(MovesOf(entry))
           /\ LastArchive(entry) \in Nat
           /\ LastArchive(entry) = IF entry.archived THEN LastMove(entry) + 1 ELSE LastMove(entry)
           /\ LastJoin(entry) \in Nat
           /\ LastJoin(entry) = IF entry.collaborator # NULL THEN LastArchive(entry) + 1
                                ELSE LastArchive(entry)
           /\ LastCall(entry) \in Nat /\ LastCall(entry) = LastJoin(entry) + Len(entry.replies)
<1>1. entry.status \in TicketStatus /\ Len(entry.replies) \in Nat
  BY DEF TicketSpec
<1>2. Len(MovesOf(entry)) \in Nat
  BY <1>1 DEF MovesOf, TicketStatus
<1>3. LastMove(entry) = 2 + Len(MovesOf(entry)) /\ LastMove(entry) \in Nat
  BY <1>2 DEF LastMove
<1>4. /\ LastArchive(entry) = IF entry.archived THEN LastMove(entry) + 1 ELSE LastMove(entry)
      /\ LastArchive(entry) \in Nat
  BY <1>3 DEF LastArchive
<1>5. /\ LastJoin(entry) = IF entry.collaborator # NULL THEN LastArchive(entry) + 1
                           ELSE LastArchive(entry)
      /\ LastJoin(entry) \in Nat
  BY <1>4 DEF LastJoin
<1>6. LastCall(entry) = LastJoin(entry) + Len(entry.replies) /\ LastCall(entry) \in Nat
  BY <1>1, <1>5 DEF LastCall
<1>. QED
  BY <1>1, <1>2, <1>3, <1>4, <1>5, <1>6

\* What a call other than a move leaves as it is.
LEMMA StaysMoved ==
    ASSUME NEW entry, NEW status, NEW old, MovedTo(old, entry, status), NEW new,
           new.status = old.status, new.pending = old.pending,
           new.resolved = old.resolved, new.closed = old.closed
    PROVE  MovedTo(new, entry, status)
BY DEF MovedTo

LEMMA BackdateOn ==
    ASSUME NEW entry \in TicketSpec, NEW ticket \in Ticket, AsFarAs(ticket, entry, 1)
    PROVE  /\ Accepts(ticket, BackdateCall(entry))
           /\ AsFarAs(After(ticket, BackdateCall(entry)), entry, 2)
<1>. DEFINE call == BackdateCall(entry)
            new == After(ticket, call)
<1>1. call.kind = "backdate" /\ call.at = CreatedAt(entry)
  BY DEF BackdateCall, Call
<1>. HIDE DEF call
<1>2. new = [ticket EXCEPT !.created_at = call.at]
  BY <1>1 DEF After
<1>. HIDE DEF new
<1>3. /\ new.created_at = CreatedAt(entry)
      /\ new.primary_assignee_id = ticket.primary_assignee_id
      /\ new.status = ticket.status /\ new.pending = ticket.pending
      /\ new.closed = ticket.closed /\ new.resolved = ticket.resolved
      /\ new.is_archived = ticket.is_archived
      /\ new.collaborator_ids = ticket.collaborator_ids /\ new.replies = ticket.replies
  BY <1>1, <1>2 DEF Ticket
<1>4. MovesMade(entry, 1) = 0 /\ MovesMade(entry, 2) = 0
  BY PartsInOrder DEF MovesMade, Least
<1>5. MovedTo(ticket, entry, StatusAfter(entry, MovesMade(entry, 1)))
  BY DEF AsFarAs
<1>6. MovedTo(new, entry, StatusAfter(entry, MovesMade(entry, 2)))
  BY <1>3, <1>4, <1>5, StaysMoved
<1>7. /\ ~ 1 > LastMove(entry) /\ ~ 2 > LastMove(entry)
      /\ ~ 1 > LastArchive(entry) /\ ~ 2 > LastArchive(entry)
      /\ ~ 1 > LastJoin(entry) /\ ~ 2 > LastJoin(entry)
  BY PartsInOrder
<1>8. AsFarAs(new, entry, 2)
  BY <1>3, <1>6, <1>7 DEF AsFarAs
<1>. QED
  BY <1>1, <1>8 DEF Accepts, new, call

LEMMA MoveStep ==
    ASSUME NEW entry \in TicketSpec, Supervisor \in Supervisors,
           NEW ticket \in Ticket, NEW n \in 2..LastMove(entry) - 1, AsFarAs(ticket, entry, n)
    PROVE  LET call == MoveCall(entry, MovesOf(entry)[n - 1])
           IN  Accepts(ticket, call) /\ AsFarAs(After(ticket, call), entry, n + 1)
<1>. DEFINE call == MoveCall(entry, MovesOf(entry)[n - 1])
            new == After(ticket, call)
<1>1. n - 1 \in 1..Len(MovesOf(entry)) /\ n \in Nat /\ (n - 1) - 1 = n - 2
  BY PartsInOrder
<1>2. MovesMade(entry, n) = n - 2 /\ MovesMade(entry, n + 1) = n - 1
  BY <1>1, PartsInOrder DEF MovesMade, Least
<1>3. /\ ticket.primary_assignee_id = entry.assignee
      /\ MovedTo(ticket, entry, StatusAfter(entry, (n - 1) - 1))
  BY <1>1, <1>2 DEF AsFarAs
<1>4. /\ Accepts(ticket, call)
      /\ MovedTo(new, entry, StatusAfter(entry, n - 1))
      /\ new.primary_assignee_id = ticket.primary_assignee_id
      /\ new.created_at = ticket.created_at
      /\ new.is_archived = ticket.is_archived
      /\ new.collaborator_ids = ticket.collaborator_ids
      /\ new.replies = ticket.replies
  BY <1>1, <1>3, MoveOn
<1>. HIDE DEF call, new
<1>5. /\ ~ n > LastMove(entry) /\ ~ n + 1 > LastMove(entry)
      /\ ~ n > LastArchive(entry) /\ ~ n + 1 > LastArchive(entry)
      /\ ~ n > LastJoin(entry) /\ ~ n + 1 > LastJoin(entry)
      /\ n >= 2
  BY <1>1, PartsInOrder
<1>6. AsFarAs(new, entry, n + 1)
  BY <1>2, <1>4, <1>5 DEF AsFarAs
<1>. QED
  BY <1>4, <1>6 DEF new, call

\* Past the moves the logs, and the creation, stay as they are.
LEMMA PastTheMoves ==
    ASSUME NEW entry \in TicketSpec, NEW n \in Nat, n >= LastMove(entry), NEW ticket,
           AsFarAs(ticket, entry, n), NEW new,
           new.primary_assignee_id = ticket.primary_assignee_id,
           new.created_at = ticket.created_at, new.status = ticket.status,
           new.pending = ticket.pending, new.closed = ticket.closed, new.resolved = ticket.resolved
    PROVE  /\ new.primary_assignee_id = entry.assignee
           /\ new.created_at = CreatedAt(entry)
           /\ MovedTo(new, entry, StatusAfter(entry, MovesMade(entry, n + 1)))
<1>1. n >= 2 /\ MovesMade(entry, n) = MovesMade(entry, n + 1)
  BY PartsInOrder DEF MovesMade, Least
<1>. QED
  BY <1>1, StaysMoved DEF AsFarAs

LEMMA ArchiveOn ==
    ASSUME NEW entry \in TicketSpec, Supervisor \in Supervisors, entry.archived,
           NEW ticket \in Ticket, AsFarAs(ticket, entry, LastMove(entry))
    PROVE  LET call == Call("archive", Supervisor)
           IN  /\ Accepts(ticket, call)
               /\ AsFarAs(After(ticket, call), entry, LastMove(entry) + 1)
<1>. DEFINE call == Call("archive", Supervisor)
            new == After(ticket, call)
            n == LastMove(entry)
<1>1. call.kind = "archive" /\ call.actor = Supervisor
  BY DEF Call
<1>. HIDE DEF call
<1>2. Accepts(ticket, call)
  BY <1>1, AgentOrSupervisorActs DEF Accepts
<1>3. new = [ticket EXCEPT !.is_archived = TRUE]
  BY <1>1 DEF After
<1>. HIDE DEF new
<1>4. /\ new.created_at = ticket.created_at
      /\ new.primary_assignee_id = ticket.primary_assignee_id
      /\ new.status = ticket.status /\ new.pending = ticket.pending
      /\ new.closed = ticket.closed /\ new.resolved = ticket.resolved
      /\ new.is_archived = TRUE
      /\ new.collaborator_ids = ticket.collaborator_ids /\ new.replies = ticket.replies
  BY <1>3 DEF Ticket
<1>5. /\ n \in Nat /\ n + 1 > n /\ n + 1 >= 2
      /\ ~ n > LastArchive(entry) /\ ~ n + 1 > LastArchive(entry)
      /\ ~ n > LastJoin(entry) /\ ~ n + 1 > LastJoin(entry)
  BY PartsInOrder
<1>. HIDE DEF n
<1>6. AsFarAs(ticket, entry, n)
  BY DEF n
<1>7. /\ new.primary_assignee_id = entry.assignee
      /\ new.created_at = CreatedAt(entry)
      /\ MovedTo(new, entry, StatusAfter(entry, MovesMade(entry, n + 1)))
  BY <1>4, <1>5, <1>6, PastTheMoves DEF n
<1>8. AsFarAs(new, entry, n + 1)
  <2>1. new.is_archived = (n + 1 > LastMove(entry) /\ entry.archived)
    BY <1>4, <1>5 DEF n
  <2>2. new.collaborator_ids = {} /\ Len(new.replies) = 0
        /\ \A r \in 1..Len(new.replies) : new.replies[r] = entry.replies[r]
    BY <1>4, <1>5, <1>6 DEF AsFarAs
  <2>. QED
    BY <1>5, <1>7, <2>1, <2>2 DEF AsFarAs
<1>. QED
  BY <1>2, <1>8 DEF new, call, n

LEMMA JoinOn ==
    ASSUME NEW entry \in TicketSpec, Supervisor \in Supervisors,
           entry.collaborator \in Agents \ {entry.assignee}, entry.collaborator # NULL,
           NEW ticket \in Ticket, AsFarAs(ticket, entry, LastArchive(entry))
    PROVE  /\ Accepts(ticket, JoinCall(entry))
           /\ AsFarAs(After(ticket, JoinCall(entry)), entry, LastArchive(entry) + 1)
<1>. DEFINE call == JoinCall(entry)
            new == After(ticket, call)
            n == LastArchive(entry)
<1>1. call.kind = "collaborate" /\ call.actor = Supervisor /\ call.user = entry.collaborator
  BY DEF Call, JoinCall
<1>. HIDE DEF call
<1>2. /\ n \in Nat /\ n >= LastMove(entry) /\ n + 1 > n /\ n + 1 >= 2
      /\ ~ n > n
      /\ ~ n > LastJoin(entry) /\ ~ n + 1 > LastJoin(entry)
      /\ (n + 1 > LastMove(entry) /\ entry.archived) = (n > LastMove(entry) /\ entry.archived)
  BY PartsInOrder
<1>3. AsFarAs(ticket, entry, n)
  OBVIOUS
<1>4. ticket.collaborator_ids = {} /\ ticket.primary_assignee_id = entry.assignee
  BY <1>2, <1>3 DEF AsFarAs
<1>5. Accepts(ticket, call)
  BY <1>1, <1>4, AgentOrSupervisorActs DEF Accepts
<1>6. new = [ticket EXCEPT !.collaborator_ids = ticket.collaborator_ids \cup {call.user}]
  BY <1>1 DEF After
<1>. HIDE DEF new
<1>7. /\ new.created_at = ticket.created_at
      /\ new.primary_assignee_id = ticket.primary_assignee_id
      /\ new.status = ticket.status /\ new.pending = ticket.pending
      /\ new.closed = ticket.closed /\ new.resolved = ticket.resolved
      /\ new.is_archived = ticket.is_archived /\ new.replies = ticket.replies
      /\ new.collaborator_ids = {entry.collaborator}
  BY <1>1, <1>4, <1>6 DEF Ticket
<1>. HIDE DEF n
<1>8. /\ new.primary_assignee_id = entry.assignee
      /\ new.created_at = CreatedAt(entry)
      /\ MovedTo(new, entry, StatusAfter(entry, MovesMade(entry, n + 1)))
  BY <1>2, <1>3, <1>7, PastTheMoves
<1>9. AsFarAs(new, entry, n + 1)
  <2>1. new.is_archived = (n + 1 > LastMove(entry) /\ entry.archived)
    BY <1>2, <1>3, <1>7 DEF AsFarAs
  <2>2. Len(new.replies) = 0 /\ \A r \in 1..Len(new.replies) : new.replies[r] = entry.replies[r]
    BY <1>2, <1>3, <1>7 DEF AsFarAs
  <2>3. new.collaborator_ids = {entry.collaborator} \ {NULL} /\ n + 1 > LastArchive(entry)
    BY <1>2, <1>7 DEF n
  <2>. QED
    BY <1>2, <1>8, <2>1, <2>2, <2>3 DEF AsFarAs
<1>. QED
  BY <1>5, <1>9 DEF new, call, n

LEMMA ReplyOn ==
    ASSUME NEW entry \in TicketSpec, NEW r \in 1..Len(entry.replies),
           entry.replies[r] \in {entry.assignee, entry.collaborator} \cup Supervisors,
           NEW ticket \in Ticket, AsFarAs(ticket, entry, LastJoin(entry) + (r - 1))
    PROVE  LET call == Call("reply", entry.replies[r])
           IN  /\ Accepts(ticket, call)
               /\ AsFarAs(After(ticket, call), entry, LastJoin(entry) + r)
<1>. DEFINE call == Call("reply", entry.replies[r])
            new == After(ticket, call)
            n == LastJoin(entry) + (r - 1)
<1>1. call.kind = "reply" /\ call.actor = entry.replies[r]
  BY DEF Call
<1>2. /\ entry.replies \in Seq(Users) /\ entry.replies[r] \in Users /\ NULL \notin Users
      /\ r \in Nat /\ r >= 1
  BY DeploymentAssumption DEF TicketSpec
<1>. HIDE DEF call
<1>3. /\ n \in Nat /\ n >= LastMove(entry) /\ n >= LastArchive(entry) /\ n + 1 >= 2
      /\ n + 1 = LastJoin(entry) + r /\ (n + 1) - LastJoin(entry) = r
      /\ n + 1 > LastJoin(entry) /\ n + 1 > LastArchive(entry)
      /\ (n > LastJoin(entry) => n - LastJoin(entry) = r - 1)
      /\ (~ n > LastJoin(entry) => r - 1 = 0)
      /\ entry.archived => n > LastMove(entry) /\ n + 1 > LastMove(entry)
      /\ entry.collaborator # NULL => n > LastArchive(entry)
  <2>1. LastJoin(entry) \in Nat /\ n = LastJoin(entry) + (r - 1) /\ n \in Nat
    BY <1>2, PartsInOrder
  <2>2. /\ LastMove(entry) \in Nat /\ LastArchive(entry) \in Nat
        /\ LastMove(entry) <= LastArchive(entry) /\ LastArchive(entry) <= LastJoin(entry)
        /\ entry.archived => LastMove(entry) < LastArchive(entry)
        /\ entry.collaborator # NULL => LastArchive(entry) < LastJoin(entry)
        /\ LastMove(entry) >= 2
    BY PartsInOrder
  <2>. HIDE DEF n
  <2>3. /\ n >= LastJoin(entry) /\ n + 1 = LastJoin(entry) + r /\ (n + 1) - LastJoin(entry) = r
        /\ n + 1 > LastJoin(entry)
        /\ (n > LastJoin(entry) => n - LastJoin(entry) = r - 1)
        /\ (~ n > LastJoin(entry) => r - 1 = 0)
    BY <1>2, <2>1
  <2>4. /\ n >= LastArchive(entry) /\ n >= LastMove(entry) /\ n + 1 > LastArchive(entry)
        /\ n + 1 >= 2
    BY <2>1, <2>2, <2>3
  <2>5. LastMove(entry) < LastArchive(entry) => n > LastMove(entry) /\ n + 1 > LastMove(entry)
    BY <2>1, <2>2, <2>3
  <2>6. LastArchive(entry) < LastJoin(entry) => n > LastArchive(entry)
    BY <2>1, <2>2, <2>3
  <2>. QED
    BY <2>1, <2>2, <2>3, <2>4, <2>5, <2>6
<1>4. AsFarAs(ticket, entry, n)
  OBVIOUS
<1>. HIDE DEF n
<1>5. /\ ticket.primary_assignee_id = entry.assignee
      /\ ticket.collaborator_ids = {entry.collaborator} \ {NULL}
      /\ Len(ticket.replies) = r - 1
      /\ \A q \in 1..r - 1 : ticket.replies[q] = entry.replies[q]
      /\ ticket.is_archived = entry.archived
  <2>1. ticket.collaborator_ids = {entry.collaborator} \ {NULL}
    BY <1>3, <1>4 DEF AsFarAs
  <2>2. entry.archived \in BOOLEAN /\ ticket.is_archived = (n > LastMove(entry) /\ entry.archived)
    BY <1>4 DEF AsFarAs, TicketSpec
  <2>. QED
    BY <1>3, <1>4, <2>1, <2>2 DEF AsFarAs
<1>6. CanActOnTicket(call.actor, ticket)
  BY <1>1, <1>2, <1>5 DEF CanActOnTicket, IsSupervisor, IsAssignedTo
<1>7. Accepts(ticket, call)
  BY <1>1, <1>6 DEF Accepts
<1>8. new = [ticket EXCEPT !.replies = Append(ticket.replies, call.actor)]
  BY <1>1 DEF After
<1>. HIDE DEF new
<1>9. /\ new.created_at = ticket.created_at
      /\ new.primary_assignee_id = ticket.primary_assignee_id
      /\ new.status = ticket.status /\ new.pending = ticket.pending
      /\ new.closed = ticket.closed /\ new.resolved = ticket.resolved
      /\ new.is_archived = ticket.is_archived
      /\ new.collaborator_ids = ticket.collaborator_ids
      /\ new.replies = Append(ticket.replies, call.actor)
  BY <1>8 DEF Ticket
<1>10. /\ Len(new.replies) = r
       /\ \A q \in 1..r : new.replies[q] = entry.replies[q]
  <2>1. ticket.replies \in Seq(Users)
    BY DEF Ticket
  <2>. QED
    BY <1>1, <1>2, <1>5, <1>9, <2>1
<1>11. /\ new.primary_assignee_id = entry.assignee
       /\ new.created_at = CreatedAt(entry)
       /\ MovedTo(new, entry, StatusAfter(entry, MovesMade(entry, n + 1)))
  BY <1>3, <1>4, <1>9, PastTheMoves
<1>12. AsFarAs(new, entry, n + 1)
  <2>1. new.is_archived = (n + 1 > LastMove(entry) /\ entry.archived)
    <3>1. entry.archived \in BOOLEAN
      BY DEF TicketSpec
    <3>. QED
      BY <1>3, <1>5, <1>9, <3>1
  <2>. QED
    BY <1>3, <1>5, <1>9, <1>10, <1>11, <2>1 DEF AsFarAs
<1>. QED
  BY <1>3, <1>7, <1>12 DEF new, call

\* No call of the seed is refused, and each brings the ticket one call further.
LEMMA OneMoreCall ==
    ASSUME NEW i \in 1..Len(Tickets), NEW ticket \in Ticket,
           NEW n \in 1..Len(Script(Tickets[i])) - 1, AsFarAs(ticket, Tickets[i], n)
    PROVE  LET call == Script(Tickets[i])[n + 1]
           IN  Accepts(ticket, call) /\ AsFarAs(After(ticket, call), Tickets[i], n + 1)
<1>. DEFINE entry == Tickets[i]
            call == Script(entry)[n + 1]
            Goal(c) == Accepts(ticket, c) /\ AsFarAs(After(ticket, c), entry, n + 1)
<1>1. /\ entry \in TicketSpec /\ Supervisor \in Supervisors
      /\ entry.collaborator # NULL => entry.collaborator \in Agents \ {entry.assignee}
      /\ \A r \in 1..Len(entry.replies) :
           entry.replies[r] \in {entry.assignee, entry.collaborator} \cup Supervisors
  BY EntryFacts
<1>. HIDE DEF entry
<1>2. ScriptShape(entry)
  BY <1>1, ScriptHasItsShape
<1>3. n \in Nat /\ n >= 1 /\ n + 1 <= LastCall(entry)
  <2>1. Len(Script(entry)) = LastCall(entry)
    BY <1>2 DEF ScriptShape
  <2>. QED
    BY <1>1, <2>1, PartsInOrder DEF entry
<1>4. AsFarAs(ticket, entry, n)
  BY DEF entry
<1>5. CASE n = 1
  <2>1. call = BackdateCall(entry)
    BY <1>2, <1>5 DEF ScriptShape
  <2>2. Goal(BackdateCall(entry))
    BY <1>1, <1>4, <1>5, BackdateOn
  <2>. QED
    BY <2>1, <2>2 DEF entry
<1>6. CASE n # 1 /\ n < LastMove(entry)
  <2>1. n \in 2..LastMove(entry) - 1 /\ n - 1 \in 1..Len(MovesOf(entry)) /\ 2 + (n - 1) = n + 1
    BY <1>1, <1>3, <1>6, PartsInOrder
  <2>2. call = MoveCall(entry, MovesOf(entry)[n - 1])
    BY <1>2, <2>1 DEF ScriptShape
  <2>3. Goal(MoveCall(entry, MovesOf(entry)[n - 1]))
    BY <1>1, <1>4, <2>1, MoveStep
  <2>. QED
    BY <2>2, <2>3 DEF entry
<1>7. CASE n = LastMove(entry) /\ entry.archived
  <2>1. call = Call("archive", Supervisor)
    BY <1>2, <1>7 DEF ScriptShape
  <2>2. Goal(Call("archive", Supervisor))
    BY <1>1, <1>4, <1>7, ArchiveOn
  <2>. QED
    BY <2>1, <2>2 DEF entry
<1>8. CASE n = LastArchive(entry) /\ entry.collaborator # NULL
  <2>1. call = JoinCall(entry)
    BY <1>2, <1>8 DEF ScriptShape
  <2>2. Goal(JoinCall(entry))
    BY <1>1, <1>4, <1>8, JoinOn
  <2>. QED
    BY <2>1, <2>2 DEF entry
<1>9. CASE n >= LastJoin(entry)
  <2>. DEFINE r == n + 1 - LastJoin(entry)
  <2>1. r \in 1..Len(entry.replies) /\ LastJoin(entry) + r = n + 1 /\ LastJoin(entry) + (r - 1) = n
    <3>1. /\ LastJoin(entry) \in Nat /\ Len(entry.replies) \in Nat
          /\ n + 1 <= LastJoin(entry) + Len(entry.replies)
      BY <1>1, <1>3, PartsInOrder
    <3>. QED
      BY <1>3, <1>9, <3>1
  <2>. HIDE DEF r
  <2>2. call = Call("reply", entry.replies[r])
    BY <1>2, <2>1 DEF ScriptShape
  <2>3. AsFarAs(ticket, entry, LastJoin(entry) + (r - 1))
    BY <1>4, <2>1
  <2>4. Goal(Call("reply", entry.replies[r]))
    BY <1>1, <2>1, <2>3, ReplyOn
  <2>. QED
    BY <2>2, <2>4 DEF entry
<1>10. \/ n = 1
       \/ n # 1 /\ n < LastMove(entry)
       \/ n = LastMove(entry) /\ entry.archived
       \/ n = LastArchive(entry) /\ entry.collaborator # NULL
       \/ n >= LastJoin(entry)
  BY <1>1, <1>3, PartsInOrder
<1>. QED
  BY <1>5, <1>6, <1>7, <1>8, <1>9, <1>10
-----------------------------------------------------------------------------
(***************************************************************************)
(* A ticket that has been through all its calls is as the data means it.   *)
(***************************************************************************)
\* A log of no row, or of one, sums up to nothing, or to that row.
LEMMA ExcludedOfShortLogs ==
    ASSUME NEW log \in Seq(Period), NEW as_of \in Instant
    PROVE  /\ Len(log) = 0 => Excluded(log, as_of) = 0
           /\ Len(log) = 1 => Excluded(log, as_of) = ExcludedDuration(log[1], as_of)
<1>. DEFINE n == Len(log)
            d == ExcludedDuration(log[1], as_of)
            Body(f) == [k \in 0..n |-> IF k = 0 THEN 0
                                       ELSE f[k - 1] + ExcludedDuration(log[k], as_of)]
            chosen == CHOOSE f : f = Body(f)
            total == [k \in 0..n |-> IF k = 0 THEN 0 ELSE d]
<1>1. d \in Nat \/ n # 1
  <2>1. n = 1 => log[1] \in Period
    OBVIOUS
  <2>2. ASSUME n = 1 PROVE d \in Nat
    <3>. log[1].start \in Nat /\ log[1].end \in Nat \cup {NULL} /\ as_of \in Nat
      BY <2>1, <2>2 DEF Period, Instant
    <3>. QED
      BY DEF ExcludedDuration
  <2>. QED
    BY <2>2
<1>2. Excluded(log, as_of) = chosen[n]
  BY DEF Excluded
<1>3. ASSUME n \in {0, 1} PROVE chosen[n] = IF n = 0 THEN 0 ELSE d
  <2>. HIDE DEF n
  <2>1. total = Body(total)
    <3>1. \A k \in 0..n : k = 0 \/ (k = 1 /\ n = 1)
      BY <1>3
    <3>2. ASSUME NEW k \in 0..n PROVE total[k] = Body(total)[k]
      <4>1. CASE k = 0
        BY <4>1
      <4>2. CASE k = 1 /\ n = 1
        <5>1. total[0] = 0 /\ total[1] = d
          BY <4>2
        <5>2. Body(total)[k] = total[0] + d
          BY <4>2
        <5>. HIDE DEF total, Body, d
        <5>. QED
          BY <1>1, <4>2, <5>1, <5>2
      <4>. QED
        BY <3>1, <4>1, <4>2
    <3>. DEFINE B == Body(total)
    <3>3. DOMAIN total = 0..n /\ DOMAIN B = 0..n
      OBVIOUS
    <3>4. total = [k \in 0..n |-> total[k]] /\ B = [k \in 0..n |-> B[k]]
      OBVIOUS
    <3>. HIDE DEF total, Body, B
    <3>5. \A k \in 0..n : total[k] = B[k]
      BY <3>2 DEF B
    <3>6. total = B
      BY <3>4, <3>5
    <3>. QED
      BY <3>6 DEF B
  <2>2. chosen = Body(chosen)
    <3>. HIDE DEF Body, total
    <3>. QED
      BY <2>1
  <2>. HIDE DEF chosen
  <2>3. chosen[0] = 0 /\ (n = 1 => chosen[1] = chosen[0] + d)
    BY <1>3, <2>2
  <2>. HIDE DEF d
  <2>. QED
    BY <1>1, <1>3, <2>3
<1>. HIDE DEF chosen
<1>. QED
  BY <1>2, <1>3

LEMMA BuiltInFull ==
    ASSUME NEW entry \in TicketSpec, NEW ticket \in Ticket,
           AsFarAs(ticket, entry, LastCall(entry))
    PROVE  /\ ticket.primary_assignee_id = entry.assignee
           /\ ticket.created_at = CreatedAt(entry)
           /\ MovedTo(ticket, entry, entry.status)
           /\ ticket.is_archived = entry.archived
           /\ ticket.collaborator_ids = {entry.collaborator} \ {NULL}
           /\ ticket.replies = entry.replies
<1>. DEFINE n == LastCall(entry)
<1>1. /\ n \in Nat /\ n >= 2 /\ n - 2 >= Len(MovesOf(entry)) /\ Len(MovesOf(entry)) \in Nat
      /\ entry.archived => n > LastMove(entry)
      /\ entry.collaborator # NULL => n > LastArchive(entry)
      /\ (IF n > LastJoin(entry) THEN n - LastJoin(entry) ELSE 0) = Len(entry.replies)
  <2>1. /\ LastMove(entry) \in Nat /\ LastArchive(entry) \in Nat /\ LastJoin(entry) \in Nat
        /\ LastMove(entry) = 2 + Len(MovesOf(entry)) /\ Len(MovesOf(entry)) \in Nat
        /\ LastMove(entry) <= LastArchive(entry) /\ LastArchive(entry) <= LastJoin(entry)
        /\ entry.archived => LastMove(entry) < LastArchive(entry)
        /\ entry.collaborator # NULL => LastArchive(entry) < LastJoin(entry)
        /\ n = LastJoin(entry) + Len(entry.replies) /\ Len(entry.replies) \in Nat
    BY PartsInOrder
  <2>. HIDE DEF n
  <2>2. n \in Nat /\ n >= LastJoin(entry)
    BY <2>1
  <2>3. n >= 2 /\ n - 2 >= Len(MovesOf(entry))
    BY <2>1, <2>2
  <2>4. LastMove(entry) < LastArchive(entry) => n > LastMove(entry)
    BY <2>1, <2>2
  <2>5. LastArchive(entry) < LastJoin(entry) => n > LastArchive(entry)
    BY <2>1, <2>2
  <2>6. (IF n > LastJoin(entry) THEN n - LastJoin(entry) ELSE 0) = Len(entry.replies)
    BY <2>1
  <2>. QED
    BY <2>1, <2>2, <2>3, <2>4, <2>5, <2>6
<1>2. AsFarAs(ticket, entry, n)
  OBVIOUS
<1>. HIDE DEF n
<1>3. MovesMade(entry, n) = Len(MovesOf(entry))
  BY <1>1 DEF MovesMade, Least
<1>4. StatusAfter(entry, Len(MovesOf(entry))) = entry.status
  <2>1. entry.status \in TicketStatus
    BY DEF TicketSpec
  <2>. QED
    BY <2>1 DEF StatusAfter, MovesOf, TicketStatus
<1>5. ticket.is_archived = entry.archived
  <2>1. entry.archived \in BOOLEAN /\ ticket.is_archived = (n > LastMove(entry) /\ entry.archived)
    BY <1>2 DEF AsFarAs, TicketSpec
  <2>. QED
    BY <1>1, <2>1
<1>6. ticket.replies = entry.replies
  <2>1. ticket.replies \in Seq(Users) /\ entry.replies \in Seq(Users)
    BY DEF Ticket, TicketSpec
  <2>2. /\ Len(ticket.replies) = Len(entry.replies)
        /\ \A r \in 1..Len(entry.replies) : ticket.replies[r] = entry.replies[r]
    BY <1>1, <1>2 DEF AsFarAs
  <2>. QED
    BY <2>1, <2>2
<1>7. ticket.collaborator_ids = {entry.collaborator} \ {NULL}
  BY <1>1, <1>2 DEF AsFarAs
<1>. QED
  BY <1>1, <1>2, <1>3, <1>4, <1>5, <1>6, <1>7 DEF AsFarAs

\* The rows of its logs, and its reading at the end of the seed.
LEMMA ReadingOfBuilt ==
    ASSUME NEW entry \in TicketSpec, entry.status \in {"resolved", "closed"} => entry.age >= 2,
           NEW ticket \in Ticket, ticket.created_at = CreatedAt(entry),
           MovedTo(ticket, entry, entry.status)
    PROVE  /\ \A log \in {ticket.pending, ticket.closed, ticket.resolved} :
                TimesInOrder(log, CreatedAt(entry))
           /\ entry.status \in {"new", "open"} => ReadingNow(ticket) = entry.age
           /\ entry.status = "pending" => ReadingNow(ticket) \in 0..180
<1>1. /\ ticket.pending \in Seq(Period) /\ ticket.closed \in Seq(Period)
      /\ ticket.resolved \in Seq(Period)
      /\ entry.status \in TicketStatus /\ entry.age \in Nat /\ SeedNow \in Nat
  BY DeploymentAssumption DEF Ticket, TicketSpec
<1>2. /\ CreatedAt(entry) \in Nat /\ CreatedAt(entry) = SeedNow - entry.age
      /\ PendingAt(entry) \in Nat /\ PendingAt(entry) \in CreatedAt(entry)..SeedNow
      /\ PendingAt(entry) - CreatedAt(entry) <= 180
      /\ entry.status \in {"resolved", "closed"} =>
           /\ ResolvedAt(entry) \in CreatedAt(entry)..SeedNow
           /\ ClosedAt(entry) \in CreatedAt(entry)..SeedNow
           /\ ClosedAt(entry) \in ResolvedAt(entry)..SeedNow
  <2>1. CreatedAt(entry) = SeedNow - entry.age
    BY DEF CreatedAt
  <2>. QED
    BY <1>1, <2>1, TimesOf
<1>3. ASSUME NEW log \in Seq(Period), Len(log) = 0
      PROVE  TimesInOrder(log, CreatedAt(entry))
  BY <1>3 DEF TimesInOrder
<1>4. ASSUME NEW log \in Seq(Period), NEW start \in CreatedAt(entry)..SeedNow, NEW end,
             end = NULL \/ end \in start..SeedNow, OneRow(log, start, end)
      PROVE  TimesInOrder(log, CreatedAt(entry))
  <2>1. DOMAIN log = 1..1 /\ log[1].start = start /\ log[1].end = end
    BY <1>4 DEF OneRow
  <2>. QED
    BY <1>4, <2>1 DEF TimesInOrder
<1>5. \A log \in {ticket.pending, ticket.closed, ticket.resolved} :
        TimesInOrder(log, CreatedAt(entry))
  <2>1. TimesInOrder(ticket.pending, CreatedAt(entry))
    BY <1>1, <1>2, <1>3, <1>4 DEF MovedTo
  <2>2. TimesInOrder(ticket.closed, CreatedAt(entry))
    BY <1>1, <1>2, <1>3, <1>4 DEF MovedTo
  <2>3. TimesInOrder(ticket.resolved, CreatedAt(entry))
    BY <1>1, <1>2, <1>3, <1>4 DEF MovedTo
  <2>. QED
    BY <2>1, <2>2, <2>3
<1>6. ASSUME entry.status \in {"new", "open", "pending"}
      PROVE  ReadingNow(ticket) =
               LET total == (SeedNow - CreatedAt(entry)) - Excluded(ticket.pending, SeedNow) - 0 - 0
               IN  IF total < 0 THEN 0 ELSE total
  <2>1. Len(ticket.closed) = 0 /\ Len(ticket.resolved) = 0
    BY <1>6 DEF MovedTo
  <2>2. Excluded(ticket.closed, SeedNow) = 0 /\ Excluded(ticket.resolved, SeedNow) = 0
    BY <1>1, <2>1, ExcludedOfShortLogs DEF Instant
  <2>. QED
    BY <2>2 DEF ReadingNow, ElapsedResponseTime
<1>7. ASSUME entry.status \in {"new", "open"} PROVE ReadingNow(ticket) = entry.age
  <2>1. Len(ticket.pending) = 0
    BY <1>7 DEF MovedTo
  <2>2. Excluded(ticket.pending, SeedNow) = 0
    BY <1>1, <2>1, ExcludedOfShortLogs DEF Instant
  <2>. QED
    BY <1>1, <1>2, <1>6, <1>7, <2>2
<1>8. ASSUME entry.status = "pending" PROVE ReadingNow(ticket) \in 0..180
  <2>1. OneRow(ticket.pending, PendingAt(entry), NULL)
    BY <1>8 DEF MovedTo
  <2>2. Excluded(ticket.pending, SeedNow) = ExcludedDuration(ticket.pending[1], SeedNow)
    BY <1>1, <2>1, ExcludedOfShortLogs DEF Instant, OneRow
  <2>3. ExcludedDuration(ticket.pending[1], SeedNow) = SeedNow - PendingAt(entry)
    BY <1>1, <1>2, <2>1 DEF OneRow, ExcludedDuration
  <2>. DEFINE created == CreatedAt(entry)
              pending == PendingAt(entry)
              total == (SeedNow - created) - (SeedNow - pending) - 0 - 0
  <2>4. ReadingNow(ticket) = IF total < 0 THEN 0 ELSE total
    BY <1>6, <1>8, <2>2, <2>3
  <2>5. created \in Nat /\ pending \in created..SeedNow /\ pending - created <= 180
    BY <1>2
  <2>. HIDE DEF created, pending
  <2>6. total = pending - created
    BY <1>1, <2>5
  <2>. HIDE DEF total
  <2>. QED
    BY <2>4, <2>5, <2>6
<1>. QED
  BY <1>5, <1>7, <1>8

LEMMA BuiltAsMeant ==
    ASSUME NEW i \in 1..Len(Tickets), NEW ticket \in Ticket, ticket.spec = i,
           AsFarAs(ticket, Tickets[i], LastCall(Tickets[i]))
    PROVE  /\ ticket.status = Tickets[i].status
           /\ ticket.is_archived = Tickets[i].archived
           /\ ticket.primary_assignee_id = Tickets[i].assignee
           /\ ticket.collaborator_ids = {Tickets[i].collaborator} \ {NULL}
           /\ ticket.replies = Tickets[i].replies
           /\ \A log \in {ticket.pending, ticket.closed, ticket.resolved} :
                TimesInOrder(log, ticket.created_at)
           /\ Reaches(ticket, Target) <=> i \in MeantBreaching
           /\ Reaches(ticket, AtRiskFrom) <=> i \in MeantBreaching \cup MeantAtRisk
<1>. DEFINE entry == Tickets[i]
<1>1. /\ entry \in TicketSpec
      /\ entry.status \in {"resolved", "closed"} => entry.age >= 2
      /\ i \in MeantBreaching <=> IsOld(entry, Target)
      /\ i \in MeantBreaching \cup MeantAtRisk <=> IsOld(entry, AtRiskFrom)
  BY EntryFacts
<1>2. Tickets[ticket.spec] = entry /\ AsFarAs(ticket, entry, LastCall(entry))
  OBVIOUS
<1>. HIDE DEF entry
<1>3. /\ ticket.primary_assignee_id = entry.assignee
      /\ ticket.created_at = CreatedAt(entry)
      /\ MovedTo(ticket, entry, entry.status)
      /\ ticket.is_archived = entry.archived
      /\ ticket.collaborator_ids = {entry.collaborator} \ {NULL}
      /\ ticket.replies = entry.replies
  BY <1>1, <1>2, BuiltInFull
<1>4. ticket.status = entry.status
  BY <1>3 DEF MovedTo
<1>5. /\ \A log \in {ticket.pending, ticket.closed, ticket.resolved} :
           TimesInOrder(log, ticket.created_at)
      /\ entry.status \in {"new", "open"} => ReadingNow(ticket) = entry.age
      /\ entry.status = "pending" => ReadingNow(ticket) \in 0..180
  BY <1>1, <1>3, ReadingOfBuilt
<1>6. ASSUME NEW reading, reading \in [Priorities -> Nat], \A p \in Priorities : 180 < reading[p]
      PROVE  Reaches(ticket, reading) <=> IsOld(entry, reading)
  <2>1. entry.status \in TicketStatus /\ entry.priority \in Priorities
    BY <1>1 DEF TicketSpec
  <2>2. reading[entry.priority] \in Nat /\ 180 < reading[entry.priority]
    BY <1>6, <2>1
  <2>3. CASE entry.status \in {"new", "open"}
    BY <1>2, <1>4, <1>5, <2>3 DEF Reaches, IsOld, ActiveStatuses
  <2>4. CASE entry.status = "pending"
    <3>1. ~ ReadingNow(ticket) >= reading[entry.priority]
      <4>. DEFINE now == ReadingNow(ticket)
                  limit == reading[entry.priority]
      <4>1. now \in 0..180 /\ limit \in Nat /\ 180 < limit
        BY <1>5, <2>2, <2>4
      <4>. HIDE DEF now, limit
      <4>2. ~ now >= limit
        BY <4>1
      <4>. QED
        BY <4>2 DEF now, limit
    <3>. QED
      BY <1>2, <2>4, <3>1 DEF Reaches, IsOld
  <2>5. CASE entry.status \in {"resolved", "closed"}
    BY <1>4, <2>5 DEF Reaches, IsOld, ActiveStatuses
  <2>. QED
    BY <2>1, <2>3, <2>4, <2>5 DEF TicketStatus
<1>7. Reaches(ticket, AtRiskFrom) <=> IsOld(entry, AtRiskFrom)
  BY <1>6, SeedAssumption
<1>8. Reaches(ticket, Target) <=> IsOld(entry, Target)
  <2>1. /\ Target \in [Priorities -> Nat] /\ AtRiskFrom \in [Priorities -> Nat]
        /\ \A p \in Priorities : 180 < AtRiskFrom[p] /\ AtRiskFrom[p] <= Target[p]
    BY SeedAssumption
  <2>2. \A p \in Priorities : 180 < Target[p]
    <3>1. \A p \in Priorities : AtRiskFrom[p] \in Nat /\ Target[p] \in Nat
      BY <2>1
    <3>. QED
      BY <2>1, <3>1
  <2>. QED
    BY <1>6, <2>1, <2>2
<1>. QED
  BY <1>1, <1>3, <1>4, <1>5, <1>7, <1>8 DEF entry
-----------------------------------------------------------------------------
(***************************************************************************)
(* The seed is never refused, and leaves what it means to.                 *)
(***************************************************************************)
\* A ticket with another after it, and one the seed has gone past, are as their entries are.
Made ==
    \A i \in Seeded : i < Len(tickets) \/ (At("tickets") /\ i < build.spec) =>
        i \in 1..Len(Tickets) /\ AsFarAs(tickets[i], Tickets[i], LastCall(Tickets[i]))

\* The one the seed is at has been through the calls before the next one.
Making ==
    At("tickets") /\ build.step # 1 =>
        AsFarAs(tickets[build.spec], Tickets[build.spec], build.step - 1)

DemoAccounts == accounts \subseteq {DemoUsers[k] : k \in DOMAIN DemoUsers}

SInv ==
    /\ IInv
    /\ Made
    /\ Making
    /\ DemoAccounts
    /\ BuildsFailOnlyWithoutAgents

LEMMA SomeAgentIsFallback ==
    ASSUME DemoAccounts, accounts \cap Agents # {}
    PROVE  Fallback # {}
<1>. DEFINE Places == {j \in DOMAIN DemoUsers : DemoUsers[j] \in accounts \cap Agents}
<1>1. DOMAIN DemoUsers = 1..Len(DemoUsers) /\ Len(DemoUsers) \in Nat
  BY DeploymentAssumption
<1>2. Places # {} /\ Places \in SUBSET Nat
  BY <1>1 DEF DemoAccounts
<1>3. PICK j \in Places : \A k \in Places : ~ (<<k, j>> \in OpToRel(<, Nat))
  BY <1>2, NatLessThanWellFounded, WFMin
<1>4. j \in Nat /\ j \in DOMAIN DemoUsers /\ \A k \in Places : ~ k < j
  BY <1>2, <1>3 DEF OpToRel
<1>5. ASSUME NEW k \in 1..j - 1 PROVE DemoUsers[k] \notin accounts \cap Agents
  <2>1. k \in DOMAIN DemoUsers /\ k < j
    BY <1>1, <1>4
  <2>. QED
    BY <1>4, <2>1
<1>6. DemoUsers[j] \in accounts \cap Agents
  BY <1>3
<1>7. DemoUsers[j] \in Fallback
  BY <1>4, <1>5, <1>6 DEF Fallback
<1>. QED
  BY <1>7

LEMMA InitSInv == Init => SInv
<1>. SUFFICES ASSUME Init PROVE SInv
  OBVIOUS
<1>1. IInv
  BY InitIInv
<1>2. build.pc = "idle"
  BY DEF Init
<1>3. Seeded = {}
  <2>1. CASE tickets = <<>>
    BY <2>1 DEF Seeded
  <2>2. CASE tickets # <<>>
    <3>1. PICK ticket \in LegacyTickets : tickets = <<ticket>>
      BY <2>2 DEF Init
    <3>2. ticket.spec = 0
      BY LegacyFits
    <3>. QED
      BY <3>1, <3>2 DEF Seeded
  <2>. QED
    BY <2>1, <2>2
<1>4. DemoAccounts
  <2>1. PICK n \in 0..Len(DemoUsers) :
          accounts = IF Applied(UsersTable) THEN {DemoUsers[i] : i \in 1..n} ELSE {}
    BY DEF Init
  <2>2. 1..n \subseteq DOMAIN DemoUsers
    BY DeploymentAssumption
  <2>. QED
    BY <2>1, <2>2 DEF DemoAccounts
<1>. QED
  BY <1>1, <1>2, <1>3, <1>4 DEF SInv, Made, Making, BuildsFailOnlyWithoutAgents, At

\* A step that goes elsewhere in the build, and leaves the tickets and the accounts.
LEMMA BuildGoesOn ==
    ASSUME SInv, IInv', UNCHANGED <<schema, accounts, tickets>>,
           build'.pc \notin {"tickets", "failed"}
    PROVE  SInv'
<1>1. Made'
  BY DEF SInv, Made, Seeded, At
<1>2. Making' /\ BuildsFailOnlyWithoutAgents' /\ DemoAccounts'
  BY DEF SInv, Making, BuildsFailOnlyWithoutAgents, DemoAccounts, At
<1>. QED
  BY <1>1, <1>2 DEF SInv

LEMMA AssigneeIsThere ==
    ASSUME NEW i \in 1..Len(Tickets), NEW ticket, NEW n, AsFarAs(ticket, Tickets[i], n)
    PROVE  Backfilled(ticket) = ticket
<1>1. ticket.primary_assignee_id # NULL
  BY EntryFacts, DeploymentAssumption DEF AsFarAs, Agents
<1>. QED
  BY <1>1 DEF Backfilled

LEMMA UpgradeKeeps == ASSUME SInv, IInv', Upgrade PROVE SInv'
<1>. DEFINE rows == [i \in DOMAIN tickets |-> Backfilled(tickets[i])]
<1>0. IInv /\ build.pc = "upgrade" /\ accounts' = accounts
  BY DEF SInv, Upgrade, At
<1>1. CASE \E i \in DOMAIN rows : rows[i].primary_assignee_id = NULL
  <2>1. GoTo("failed") /\ UNCHANGED <<schema, tickets>>
    BY <1>1 DEF Upgrade
  <2>2. PICK i \in DOMAIN tickets : Backfilled(tickets[i]).primary_assignee_id = NULL
    BY <1>1
  <2>3. tickets # <<>>
    BY <2>2
  <2>4. Fallback = {}
    <3>1. SUFFICES ASSUME Fallback # {} PROVE FALSE
      OBVIOUS
    <3>. DEFINE agent == CHOOSE user \in Fallback : TRUE
    <3>2. agent \in Agents
      BY <3>1 DEF Fallback
    <3>3. agent # NULL
      BY <3>2, DeploymentAssumption DEF Agents
    <3>4. CASE tickets[i].primary_assignee_id # NULL
      BY <2>2, <3>4 DEF Backfilled
    <3>5. CASE tickets[i].primary_assignee_id = NULL
      <4>1. Backfilled(tickets[i]) = [tickets[i] EXCEPT !.primary_assignee_id = agent]
        BY <3>1, <3>5 DEF Backfilled
      <4>. HIDE DEF agent
      <4>2. tickets[i] \in Ticket
        BY <1>0, TicketsTyped
      <4>3. Backfilled(tickets[i]).primary_assignee_id = agent
        BY <4>1, <4>2 DEF Ticket
      <4>. QED
        BY <2>2, <3>3, <4>3
    <3>. QED
      BY <3>4, <3>5
  <2>5. accounts \cap Agents = {}
    BY <2>4, SomeAgentIsFallback DEF SInv
  <2>6. schema < HeadRevision
    <3>1. tickets[i].primary_assignee_id = NULL
      BY <2>2, <2>4 DEF Backfilled
    <3>2. schema \in 0..HeadRevision /\ schema # HeadRevision
      BY <1>0, <3>1 DEF IInv, TypeOK, Assigned
    <3>. QED
      BY <3>2, RevisionCount
  <2>7. build'.pc = "failed"
    BY <2>1 DEF GoTo
  <2>8. BuildsFailOnlyWithoutAgents'
    BY <1>0, <2>1, <2>3, <2>5, <2>6 DEF BuildsFailOnlyWithoutAgents
  <2>9. Made' /\ Making' /\ DemoAccounts'
    BY <1>0, <2>1, <2>7 DEF SInv, Made, Making, DemoAccounts, Seeded, At
  <2>. QED
    BY <2>8, <2>9 DEF SInv
<1>2. CASE ~ \E i \in DOMAIN rows : rows[i].primary_assignee_id = NULL
  <2>1. GoTo("users") /\ tickets' = rows
    BY <1>2 DEF Upgrade
  <2>2. DOMAIN rows = DOMAIN tickets /\ \A i \in DOMAIN tickets : rows[i] = Backfilled(tickets[i])
    OBVIOUS
  <2>3. DOMAIN tickets = 1..Len(tickets) /\ Len(tickets) \in Nat
    BY <1>0, TicketsTyped
  <2>4. Len(rows) = Len(tickets)
    BY <2>2, <2>3
  <2>. HIDE DEF rows
  <2>5. \A i \in DOMAIN tickets : rows[i].spec = tickets[i].spec
    BY <1>0, <2>2, TicketsTyped, BackfilledFacts
  <2>6. build'.pc = "users"
    BY <2>1 DEF GoTo
  <2>7. ASSUME NEW i \in Seeded', i < Len(tickets')
        PROVE  i \in 1..Len(Tickets) /\ AsFarAs(tickets'[i], Tickets[i], LastCall(Tickets[i]))
    <3>1. i \in Seeded /\ i < Len(tickets) /\ i \in DOMAIN tickets
      BY <2>1, <2>2, <2>4, <2>5, <2>7 DEF Seeded
    <3>2. i \in 1..Len(Tickets) /\ AsFarAs(tickets[i], Tickets[i], LastCall(Tickets[i]))
      BY <3>1 DEF SInv, Made
    <3>3. tickets'[i] = tickets[i]
      BY <2>1, <2>2, <3>1, <3>2, AssigneeIsThere
    <3>. QED
      BY <3>2, <3>3
  <2>8. Made'
    BY <2>6, <2>7 DEF Made, At
  <2>9. Making' /\ DemoAccounts' /\ BuildsFailOnlyWithoutAgents'
    BY <1>0, <2>6 DEF SInv, Making, DemoAccounts, BuildsFailOnlyWithoutAgents, At
  <2>. QED
    BY <2>8, <2>9 DEF SInv
<1>. QED
  BY <1>1, <1>2

LEMMA SeedUserKeeps == ASSUME SInv, IInv', SeedUser PROVE SInv'
<1>1. PICK i \in DOMAIN DemoUsers : accounts' = accounts \cup {DemoUsers[i]}
  BY DEF SeedUser
<1>2. build.pc = "users" /\ UNCHANGED <<schema, tickets, build>>
  BY DEF SeedUser, At
<1>3. DemoAccounts'
  BY <1>1 DEF SInv, DemoAccounts
<1>. QED
  BY <1>2, <1>3 DEF SInv, Made, Making, BuildsFailOnlyWithoutAgents, Seeded, At

LEMMA CountKeeps == ASSUME SInv, IInv', CountTickets PROVE SInv'
<1>1. CASE MaySeed /\ Tickets # <<>>
  <2>1. /\ build' = [pc |-> "tickets", spec |-> 1, step |-> 1] /\ tickets = <<>>
        /\ UNCHANGED <<schema, accounts, tickets>>
    BY <1>1 DEF CountTickets, MaySeed
  <2>2. Seeded' = {}
    BY <2>1 DEF Seeded
  <2>. QED
    BY <2>1, <2>2 DEF SInv, Made, Making, DemoAccounts, BuildsFailOnlyWithoutAgents, At
<1>2. CASE ~ (MaySeed /\ Tickets # <<>>)
  <2>1. GoTo("serving") /\ UNCHANGED <<schema, accounts, tickets>>
    BY <1>2 DEF CountTickets
  <2>. QED
    BY <2>1, BuildGoesOn DEF GoTo
<1>. QED
  BY <1>1, <1>2

\* Where the seed goes after a call.
LEMMA ProceedCases ==
    ASSUME IInv, At("tickets"), Proceed
    PROVE  LET calls == Len(Script(Tickets[build.spec]))
           IN  \/ /\ build.step < calls
                  /\ build' = [pc |-> "tickets", spec |-> build.spec, step |-> build.step + 1]
               \/ /\ build.step = calls
                  /\ build' = [pc |-> "tickets", spec |-> build.spec + 1, step |-> 1]
               \/ /\ build.step = calls
                  /\ build' = [pc |-> "serving", spec |-> 0, step |-> 0]
<1>. DEFINE calls == Len(Script(Tickets[build.spec]))
<1>1. /\ build.spec \in 1..Len(Tickets) /\ build.step \in 1..calls /\ build.pc = "tickets"
  BY DEF IInv, Placed, At
<1>2. calls \in Nat
  BY <1>1, ScriptOfEntry DEF IsScript
<1>3. build \in [pc : {"idle", "upgrade", "users", "tickets", "serving", "failed"},
                 spec : Nat, step : Nat]
  BY DEF IInv, TypeOK
<1>4. CASE build.step < calls
  <2>1. build' = [build EXCEPT !.step = build.step + 1]
    BY <1>1, <1>2, <1>4 DEF Proceed
  <2>2. build' = [pc |-> "tickets", spec |-> build.spec, step |-> build.step + 1]
    BY <1>1, <1>3, <2>1
  <2>. QED
    BY <1>4, <2>2
<1>5. CASE ~ build.step < calls /\ build.spec < Len(Tickets)
  <2>1. build.step = calls /\ build.step >= calls
    BY <1>1, <1>2, <1>5
  <2>2. build' = [build EXCEPT !.spec = build.spec + 1, !.step = 1]
    BY <1>5, <2>1 DEF Proceed
  <2>. DEFINE half == [build EXCEPT !.spec = build.spec + 1]
  <2>3. half = [pc |-> "tickets", spec |-> build.spec + 1, step |-> build.step]
    BY <1>1, <1>3
  <2>4. build' = [half EXCEPT !.step = 1]
    BY <2>2, Zenon
  <2>. HIDE DEF half
  <2>5. build' = [pc |-> "tickets", spec |-> build.spec + 1, step |-> 1]
    BY <2>3, <2>4
  <2>. QED
    BY <2>1, <2>5
<1>6. CASE ~ build.step < calls /\ ~ build.spec < Len(Tickets)
  <2>1. build.step = calls
    BY <1>1, <1>2, <1>6
  <2>2. build' = [pc |-> "serving", spec |-> 0, step |-> 0]
    BY <1>6, Zenon DEF Proceed
  <2>. QED
    BY <2>1, <2>2
<1>. QED
  BY <1>4, <1>5, <1>6

LEMMA NewIsAsFarAsOne ==
    ASSUME NEW entry \in TicketSpec, NEW spec
    PROVE  AsFarAs(NewTicket(spec, entry.assignee), entry, 1)
<1>. DEFINE new == NewTicket(spec, entry.assignee)
<1>1. /\ new.primary_assignee_id = entry.assignee /\ new.status = "new"
      /\ Len(new.pending) = 0 /\ Len(new.closed) = 0 /\ Len(new.resolved) = 0
      /\ new.is_archived = FALSE /\ new.collaborator_ids = {} /\ Len(new.replies) = 0
  BY DEF NewTicket
<1>2. ~ 1 > LastMove(entry) /\ ~ 1 > LastArchive(entry) /\ ~ 1 > LastJoin(entry)
  BY PartsInOrder
<1>3. StatusAfter(entry, MovesMade(entry, 1)) = "new"
  BY DEF StatusAfter, MovesMade
<1>. HIDE DEF new
<1>4. MovedTo(new, entry, "new")
  BY <1>1 DEF MovedTo
<1>5. AsFarAs(new, entry, 1)
  <2>1. MovedTo(new, entry, StatusAfter(entry, MovesMade(entry, 1)))
    BY <1>3, <1>4
  <2>2. new.is_archived = (1 > LastMove(entry) /\ entry.archived)
    BY <1>1, <1>2, Zenon
  <2>3. \A r \in 1..Len(new.replies) : new.replies[r] = entry.replies[r]
    BY <1>1
  <2>4. ~ 1 >= 2
    OBVIOUS
  <2>. QED
    BY <1>1, <1>2, <2>1, <2>2, <2>3, <2>4 DEF AsFarAs
<1>. QED
  BY <1>5 DEF new

LEMMA SeedCreateKeeps == ASSUME SInv, IInv', SeedCreate PROVE SInv'
<1>. DEFINE entry == Tickets[build.spec]
            new == NewTicket(build.spec, entry.assignee)
<1>1. /\ IInv /\ At("tickets") /\ NextCall.kind = "create"
      /\ schema' = schema /\ accounts' = accounts
  BY DEF SeedCreate, SInv
<1>2. /\ build.spec \in 1..Len(Tickets) /\ build.spec \in Nat /\ build.step = 1
      /\ NextCall.user = entry.assignee
  BY <1>1, NextCallFacts
<1>3. entry \in TicketSpec /\ entry.assignee \in Agents
  BY <1>2, EntryFacts
<1>4. tickets' = Append(tickets, new) /\ Proceed
  BY <1>2, <1>3 DEF SeedCreate
<1>5. new \in Ticket
  <2>1. entry.assignee \in Users \cup {NULL}
    BY <1>3 DEF Agents
  <2>. QED
    BY <1>2, <2>1, NewTicketFits
<1>6. AsFarAs(new, entry, 1)
  BY <1>3, NewIsAsFarAsOne
<1>7. Len(tickets) = build.spec - 1 /\ \A i \in DOMAIN tickets : tickets[i].spec = i
  BY <1>1, <1>2 DEF IInv, Placed
<1>. HIDE DEF new, entry
<1>8. /\ Len(tickets') = build.spec /\ DOMAIN tickets' = 1..build.spec
      /\ \A i \in DOMAIN tickets : tickets'[i] = tickets[i]
      /\ tickets'[build.spec] = new
  <2>1. tickets \in Seq(Ticket) /\ Len(tickets) + 1 = build.spec
    BY <1>1, <1>2, <1>7, TicketsTyped
  <2>. QED
    BY <1>4, <1>5, <2>1
<1>9. build' = [pc |-> "tickets", spec |-> build.spec, step |-> 2]
  <2>1. Len(Script(entry)) = LastCall(entry)
    BY <1>3, ScriptHasItsShape DEF ScriptShape
  <2>2. 1 # LastCall(entry)
    BY <1>3, PartsInOrder
  <2>. QED
    BY <1>1, <1>2, <1>4, <2>1, <2>2, ProceedCases DEF entry
<1>10. ASSUME NEW i \in Seeded', i < Len(tickets') \/ i < build'.spec
       PROVE  i \in 1..Len(Tickets) /\ AsFarAs(tickets'[i], Tickets[i], LastCall(Tickets[i]))
  <2>1. i \in 1..build.spec /\ i < build.spec /\ i # 0
    BY <1>2, <1>8, <1>9, <1>10 DEF Seeded
  <2>2. i \in DOMAIN tickets /\ tickets[i].spec = i
    <3>1. i \in 1..Len(tickets)
      BY <1>2, <1>7, <2>1
    <3>. QED
      BY <1>1, <1>7, <3>1, TicketsTyped
  <2>3. i \in Seeded
    BY <2>1, <2>2 DEF Seeded
  <2>. QED
    BY <1>1, <1>8, <2>1, <2>2, <2>3 DEF SInv, Made
<1>11. Made'
  BY <1>10 DEF Made
<1>12. Making'
  <2>1. AsFarAs(tickets'[build.spec], Tickets[build.spec], 2 - 1)
    BY <1>6, <1>8 DEF entry
  <2>. QED
    BY <1>9, <2>1 DEF Making
<1>13. DemoAccounts' /\ BuildsFailOnlyWithoutAgents'
  BY <1>1, <1>9 DEF SInv, DemoAccounts, BuildsFailOnlyWithoutAgents, At
<1>. QED
  BY <1>11, <1>12, <1>13 DEF SInv

LEMMA SeedCallKeeps == ASSUME SInv, IInv', SeedCall PROVE SInv'
<1>. DEFINE entry == Tickets[build.spec]
            calls == Len(Script(entry))
            last == Len(tickets)
            new == After(tickets[last], NextCall)
<1>1. /\ IInv /\ At("tickets") /\ NextCall.kind # "create"
      /\ schema' = schema /\ accounts' = accounts
  BY DEF SeedCall, SInv
<1>2. /\ build.spec \in 1..Len(Tickets) /\ build.spec \in Nat /\ build.step # 1
      /\ NextCall \in LaterCalls
  BY <1>1, NextCallFacts
<1>3. /\ last = build.spec /\ \A i \in DOMAIN tickets : tickets[i].spec = i
      /\ build.step \in 1..calls
  BY <1>1, <1>2 DEF IInv, Placed
<1>4. last \in DOMAIN tickets /\ tickets[last] \in Ticket
  BY <1>1, <1>2, <1>3, TicketsTyped
<1>5. entry \in TicketSpec /\ calls = LastCall(entry) /\ calls \in Nat
  <2>1. entry \in TicketSpec
    BY <1>2, EntryFacts
  <2>. QED
    BY <2>1, ScriptHasItsShape, PartsInOrder DEF ScriptShape
<1>6. build.step \in Nat /\ build.step - 1 \in 1..calls - 1 /\ (build.step - 1) + 1 = build.step
  BY <1>2, <1>3, <1>5
<1>7. AsFarAs(tickets[last], entry, build.step - 1)
  BY <1>1, <1>2, <1>3 DEF SInv, Making
<1>8. Accepts(tickets[last], NextCall) /\ AsFarAs(new, entry, build.step)
  <2>1. NextCall = Script(entry)[(build.step - 1) + 1]
    BY <1>6 DEF NextCall
  <2>. QED
    BY <1>2, <1>4, <1>6, <1>7, <2>1, OneMoreCall
<1>9. tickets' = [tickets EXCEPT ![last] = new] /\ Proceed
  BY <1>8 DEF SeedCall
<1>. HIDE DEF new, entry, last, calls
<1>10. /\ Len(tickets') = build.spec /\ DOMAIN tickets' = 1..build.spec
       /\ \A i \in DOMAIN tickets : tickets'[i] = IF i = build.spec THEN new ELSE tickets[i]
       /\ DOMAIN tickets = 1..build.spec
  <2>1. /\ DOMAIN tickets = 1..Len(tickets) /\ Len(tickets) = build.spec /\ last = build.spec
        /\ tickets \in Seq(Ticket)
    BY <1>1, <1>3, TicketsTyped DEF last
  <2>2. DOMAIN tickets' = DOMAIN tickets
        /\ \A i \in DOMAIN tickets : tickets'[i] = IF i = build.spec THEN new ELSE tickets[i]
    BY <1>9, <2>1
  <2>3. Len(tickets') = Len(tickets)
    BY <1>9, <2>1
  <2>. QED
    BY <2>1, <2>2, <2>3
<1>11. ASSUME NEW i \in 1..build.spec, i < build.spec
       PROVE  i \in 1..Len(Tickets) /\ AsFarAs(tickets'[i], Tickets[i], LastCall(Tickets[i]))
  <2>1. i \in DOMAIN tickets /\ i # build.spec /\ i # 0 /\ tickets[i].spec = i
    BY <1>2, <1>3, <1>10, <1>11
  <2>2. i \in Seeded
    BY <2>1 DEF Seeded
  <2>3. i \in 1..Len(Tickets) /\ AsFarAs(tickets[i], Tickets[i], LastCall(Tickets[i]))
    BY <1>1, <1>11, <2>2 DEF SInv, Made
  <2>. QED
    BY <1>10, <2>1, <2>3
<1>12. tickets'[build.spec] = new
  BY <1>2, <1>10
<1>13. \/ /\ build.step < calls
          /\ build' = [pc |-> "tickets", spec |-> build.spec, step |-> build.step + 1]
       \/ /\ build.step = calls
          /\ build' = [pc |-> "tickets", spec |-> build.spec + 1, step |-> 1]
       \/ /\ build.step = calls
          /\ build' = [pc |-> "serving", spec |-> 0, step |-> 0]
  BY <1>1, <1>9, ProceedCases DEF calls, entry
<1>14. Made'
  <2>1. SUFFICES ASSUME NEW i \in Seeded',
                        i < Len(tickets') \/ (build'.pc = "tickets" /\ i < build'.spec)
                 PROVE  i \in 1..Len(Tickets)
                        /\ AsFarAs(tickets'[i], Tickets[i], LastCall(Tickets[i]))
    BY DEF Made, At
  <2>2. i \in 1..build.spec
    BY <1>10 DEF Seeded
  <2>3. CASE i < build.spec
    BY <1>11, <2>2, <2>3
  <2>4. CASE ~ i < build.spec
    <3>1. i = build.spec
      BY <1>2, <2>2, <2>4
    <3>2. build.step = calls
      BY <1>2, <1>10, <1>13, <2>1, <3>1
    <3>. QED
      BY <1>2, <1>5, <1>8, <1>12, <3>1, <3>2 DEF entry
  <2>. QED
    BY <2>3, <2>4
<1>15. Making'
  <2>1. (build.step + 1) - 1 = build.step
    BY <1>6
  <2>. QED
    BY <1>8, <1>12, <1>13, <2>1 DEF Making, At, entry
<1>16. DemoAccounts' /\ BuildsFailOnlyWithoutAgents'
  BY <1>1, <1>13 DEF SInv, DemoAccounts, BuildsFailOnlyWithoutAgents, At
<1>. QED
  BY <1>14, <1>15, <1>16 DEF SInv

LEMMA NextSInv == SInv /\ [Next]_vars => SInv'
<1>. SUFFICES ASSUME SInv, [Next]_vars PROVE SInv'
  OBVIOUS
<1>1. IInv'
  BY NextIInv DEF SInv
<1>2. CASE StartBuild
  BY <1>1, <1>2, BuildGoesOn DEF StartBuild, GoTo
<1>3. CASE Crash
  BY <1>1, <1>3, BuildGoesOn DEF Crash, GoTo
<1>4. CASE UNCHANGED vars
  BY <1>1, <1>4 DEF vars, SInv, Made, Making, DemoAccounts, BuildsFailOnlyWithoutAgents, Seeded, At
<1>. QED
  BY <1>1, <1>2, <1>3, <1>4, UpgradeKeeps, SeedUserKeeps, CountKeeps, SeedCreateKeeps, SeedCallKeeps
  DEF Next

LEMMA SeedInvariance == Spec => []SInv
BY InitSInv, NextSInv, PTL DEF Spec

\* A build ends badly only when the upgrade finds a ticket without an assignee and no agent
\* to give it to: no call of the seed is refused, wherever the builds before were killed.
THEOREM OnlyTheUpgradeFails == Spec => []BuildsFailOnlyWithoutAgents
<1>1. SInv => BuildsFailOnlyWithoutAgents
  BY DEF SInv
<1>. QED
  BY <1>1, SeedInvariance, PTL

\* Every demo ticket that another follows has the status, the archive, the team, the replies
\* and the times of its entry, and its reading is one that its comment calls breaching or
\* at-risk just when the comment says so.
THEOREM DemoDataIsBuiltAsMeant == Spec => []DemoDataIsAsMeant
<1>1. ASSUME SInv PROVE DemoDataIsAsMeant
  <2>1. ASSUME NEW i \in {n \in Seeded : n < Len(tickets)}
        PROVE  /\ i \in 1..Len(Tickets) /\ tickets[i] \in Ticket /\ tickets[i].spec = i
               /\ AsFarAs(tickets[i], Tickets[i], LastCall(Tickets[i]))
    BY <1>1, TicketsTyped DEF SInv, Made, IInv, SeedIsAPrefix, Seeded
  <2>2. ASSUME NEW i \in {n \in Seeded : n < Len(tickets)}
        PROVE  /\ tickets[i].status = Tickets[i].status
               /\ tickets[i].is_archived = Tickets[i].archived
               /\ tickets[i].primary_assignee_id = Tickets[i].assignee
               /\ tickets[i].collaborator_ids = {Tickets[i].collaborator} \ {NULL}
               /\ tickets[i].replies = Tickets[i].replies
               /\ \A log \in {tickets[i].pending, tickets[i].closed, tickets[i].resolved} :
                    TimesInOrder(log, tickets[i].created_at)
               /\ Reaches(tickets[i], Target) <=> i \in MeantBreaching
               /\ Reaches(tickets[i], AtRiskFrom) <=> i \in MeantBreaching \cup MeantAtRisk
    BY <2>1, BuiltAsMeant
  <2>. QED
    BY <2>2 DEF DemoDataIsAsMeant
<1>. QED
  BY <1>1, SeedInvariance, PTL
=============================================================================
