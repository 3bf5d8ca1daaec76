-------------------------- MODULE Lifecycle_proofs --------------------------
(***************************************************************************)
(* Proofs about the serial life of a ticket, for any users, any window and *)
(* any bounds on the clock and on the number of moves.                     *)
(***************************************************************************)
EXTENDS Lifecycle, WellFoundedInduction, TLAPS

(***************************************************************************)
(* Lemmas about the two writes a period log sees.                          *)
(***************************************************************************)
\* Starting a period appends one row, which is open, and leaves the others alone.
LEMMA StartPeriodFacts ==
    ASSUME NEW log \in Seq(Period), NEW now \in Instant
    PROVE  /\ StartPeriod(log, now) \in Seq(Period)
           /\ Len(StartPeriod(log, now)) = Len(log) + 1
           /\ DOMAIN StartPeriod(log, now) = DOMAIN log \cup {Len(log) + 1}
           /\ \A i \in DOMAIN log : StartPeriod(log, now)[i] = log[i]
           /\ StartPeriod(log, now)[Len(log) + 1] = [start |-> now, end |-> NULL]
<1>1. [start |-> now, end |-> NULL] \in Period
  BY DEF Period
<1>. QED
  BY <1>1 DEF StartPeriod

LEMMA StartPeriodOpens ==
    ASSUME NEW log \in Seq(Period), NEW now \in Instant
    PROVE  OpenRows(StartPeriod(log, now)) = OpenRows(log) \cup {Len(log) + 1}
<1>. DEFINE new == StartPeriod(log, now)
<1>1. /\ DOMAIN new = DOMAIN log \cup {Len(log) + 1}
      /\ \A i \in DOMAIN log : new[i] = log[i]
      /\ new[Len(log) + 1] = [start |-> now, end |-> NULL]
  BY StartPeriodFacts, Zenon
<1>. HIDE DEF new
<1>2. OpenRows(new) = OpenRows(log) \cup {Len(log) + 1}
  BY <1>1 DEF OpenRows
<1>. QED
  BY <1>2 DEF new

\* Ending a period writes the second column of one row and nothing else.
LEMMA EndPeriodFacts ==
    ASSUME NEW log \in Seq(Period), NEW row \in DOMAIN log, NEW now \in Instant
    PROVE  /\ EndPeriod(log, row, now) \in Seq(Period)
           /\ Len(EndPeriod(log, row, now)) = Len(log)
           /\ DOMAIN EndPeriod(log, row, now) = DOMAIN log
           /\ \A i \in DOMAIN log \ {row} : EndPeriod(log, row, now)[i] = log[i]
           /\ EndPeriod(log, row, now)[row] = [start |-> log[row].start, end |-> now]
<1>1. log[row] \in Period
  OBVIOUS
<1>2. [log[row] EXCEPT !.end = now] = [start |-> log[row].start, end |-> now]
  BY <1>1 DEF Period
<1>3. [start |-> log[row].start, end |-> now] \in Period
  BY <1>1 DEF Period
<1>. QED
  BY <1>1, <1>2, <1>3 DEF EndPeriod

LEMMA EndPeriodShuts ==
    ASSUME NEW log \in Seq(Period), NEW row \in DOMAIN log, NEW now \in Instant
    PROVE  OpenRows(EndPeriod(log, row, now)) = OpenRows(log) \ {row}
<1>. DEFINE new == EndPeriod(log, row, now)
<1>1. /\ DOMAIN new = DOMAIN log
      /\ \A i \in DOMAIN log \ {row} : new[i] = log[i]
      /\ new[row] = [start |-> log[row].start, end |-> now]
  BY EndPeriodFacts, ZenonT(30)
<1>2. now # NULL
  BY NullAssumption DEF Instant
<1>. HIDE DEF new
<1>3. OpenRows(new) = OpenRows(log) \ {row}
  BY <1>1, <1>2 DEF OpenRows
<1>. QED
  BY <1>3 DEF new
-----------------------------------------------------------------------------
(***************************************************************************)
(* Type correctness.                                                       *)
(***************************************************************************)
LEMMA TransitionType ==
    ASSUME TypeOK, NEW actor, NEW new_status, Transition(actor, new_status)
    PROVE  /\ status \in TicketStatus /\ new_status \in TicketStatus
           /\ history' \in Seq(StatusChange)
           /\ Len(history') = Len(history) + 1
           /\ status' = new_status
           /\ clock' = clock /\ team' = team
<1>1. status \in TicketStatus /\ history \in Seq(StatusChange)
  BY DEF TypeOK
<1>2. AllowedTransitions[status] \subseteq TicketStatus
  BY <1>1 DEF AllowedTransitions, TicketStatus
<1>3. new_status \in TicketStatus
  BY <1>2 DEF Transition
<1>4. [old_status |-> status, new_status |-> new_status] \in StatusChange
  BY <1>1, <1>3 DEF StatusChange
<1>. QED
  BY <1>1, <1>3, <1>4 DEF Transition

LEMMA TypeStep == TypeOK /\ [Next]_vars => TypeOK'
<1>. SUFFICES ASSUME TypeOK, [Next]_vars PROVE TypeOK'
  OBVIOUS
<1>. USE DEF TypeOK
<1>0. clock \in Instant /\ CreatedAt \in Instant
  BY DEF CreatedAt, Instant
<1>1. CASE Tick
  BY <1>1 DEF Tick, periods, Instant
<1>2. CASE UNCHANGED vars
  BY <1>2 DEF vars, periods
<1>3. ASSUME NEW actor \in Users, Open(actor) PROVE TypeOK'
  <2>1. Transition(actor, "open")
    BY <1>3 DEF Open
  <2>. QED
    BY <1>3, <2>1, TransitionType DEF Open, periods
<1>4. ASSUME NEW actor \in Users, Hold(actor) PROVE TypeOK'
  <2>1. Transition(actor, "pending")
    BY <1>4 DEF Hold
  <2>2. pending_periods' \in Seq(Period)
    BY <1>0, <1>4, StartPeriodFacts, Zenon DEF Hold
  <2>. QED
    BY <1>4, <2>1, <2>2, TransitionType DEF Hold
<1>5. ASSUME NEW actor \in Users, Resume(actor) PROVE TypeOK'
  <2>1. Transition(actor, "open")
    BY <1>5 DEF Resume
  <2>2. pending_periods' \in Seq(Period)
    <3>1. PICK row \in DOMAIN pending_periods : pending_periods' = EndPeriod(pending_periods, row, clock)
      BY <1>5 DEF Resume
    <3>. QED
      BY <1>0, <3>1, EndPeriodFacts, Zenon
  <2>. QED
    BY <1>5, <2>1, <2>2, TransitionType DEF Resume
<1>6. ASSUME NEW actor \in Users, Resolve(actor) PROVE TypeOK'
  <2>1. Transition(actor, "resolved")
    BY <1>6 DEF Resolve
  <2>2. resolved_periods' \in Seq(Period)
    BY <1>0, <1>6, StartPeriodFacts, Zenon DEF Resolve
  <2>. QED
    BY <1>0, <1>6, <2>1, <2>2, TransitionType DEF Resolve
<1>7. ASSUME NEW actor \in Users, Close(actor) PROVE TypeOK'
  <2>1. Transition(actor, "closed")
    BY <1>7 DEF Close
  <2>2. closed_periods' \in Seq(Period)
    BY <1>0, <1>7, StartPeriodFacts, Zenon DEF Close
  <2>3. resolved_periods' \in Seq(Period)
    <3>1. PICK row \in DOMAIN resolved_periods : resolved_periods' = EndPeriod(resolved_periods, row, clock)
      BY <1>7 DEF Close
    <3>. QED
      BY <1>0, <3>1, EndPeriodFacts, Zenon
  <2>. QED
    BY <1>7, <2>1, <2>2, <2>3, TransitionType DEF Close
<1>8. ASSUME NEW actor \in Users, Reopen(actor) PROVE TypeOK'
  <2>1. Transition(actor, "open")
    BY <1>8 DEF Reopen
  <2>2. closed_periods' \in Seq(Period)
    <3>1. PICK row \in DOMAIN closed_periods : closed_periods' = EndPeriod(closed_periods, row, clock)
      BY <1>8 DEF Reopen
    <3>. QED
      BY <1>0, <3>1, EndPeriodFacts, Zenon
  <2>. QED
    BY <1>8, <2>1, <2>2, TransitionType DEF Reopen
<1>. QED
  BY <1>1, <1>2, <1>3, <1>4, <1>5, <1>6, <1>7, <1>8 DEF Next, StatusRequest

\* Every variable of the ticket keeps its type.
THEOREM TypeCorrect == Spec => []TypeOK
<1>1. Init => TypeOK
  BY DEF Init, TypeOK, CreatedAt, Instant, TicketStatus
<1>. QED
  BY <1>1, TypeStep, PTL DEF Spec
-----------------------------------------------------------------------------
(***************************************************************************)
(* The open rows follow the status.                                        *)
(***************************************************************************)
LEMMA StartFromNone ==
    ASSUME NEW log \in Seq(Period), NEW now \in Instant, OpenRows(log) = {}
    PROVE  OpenRows(StartPeriod(log, now)) = {Len(StartPeriod(log, now))}
<1>1. OpenRows(StartPeriod(log, now)) = {Len(log) + 1}
  BY StartPeriodOpens
<1>2. Len(StartPeriod(log, now)) = Len(log) + 1
  BY StartPeriodFacts
<1>. QED
  BY <1>1, <1>2

LEMMA EndTheOnlyOne ==
    ASSUME NEW log \in Seq(Period), NEW row \in DOMAIN log, NEW now \in Instant,
           OnlyOpenRow(log, row)
    PROVE  OpenRows(EndPeriod(log, row, now)) = {}
<1>1. OpenRows(EndPeriod(log, row, now)) = OpenRows(log) \ {row}
  BY EndPeriodShuts
<1>. QED
  BY <1>1 DEF OnlyOpenRow

\* Three of the moves can only start from one status: the table says so.
LEMMA MoveSources ==
    ASSUME TypeOK, NEW actor, NEW new_status, Transition(actor, new_status)
    PROVE  /\ new_status \in {"pending", "resolved"} => status = "open"
           /\ new_status = "closed" => status = "resolved"
           /\ new_status = "open" => status \in {"new", "pending", "closed"}
           /\ new_status # "new"
BY DEF TypeOK, Transition, TicketStatus, AllowedTransitions

LEMMA MatchStep == TypeOK /\ OpenPeriodsMatchStatus /\ [Next]_vars => OpenPeriodsMatchStatus'
<1>. SUFFICES ASSUME TypeOK, OpenPeriodsMatchStatus, [Next]_vars
              PROVE  OpenPeriodsMatchStatus'
  OBVIOUS
<1>0. /\ clock \in Instant
      /\ pending_periods \in Seq(Period)
      /\ closed_periods \in Seq(Period)
      /\ resolved_periods \in Seq(Period)
  BY DEF TypeOK
<1>. USE DEF OpenPeriodsMatchStatus, OpenRowIffStatus
<1>1. CASE Tick \/ UNCHANGED vars
  BY <1>1 DEF Tick, vars, periods
<1>2. ASSUME NEW actor \in Users, Open(actor) PROVE OpenPeriodsMatchStatus'
  BY <1>2 DEF Open, Transition, periods
<1>3. ASSUME NEW actor \in Users, Hold(actor) PROVE OpenPeriodsMatchStatus'
  <2>1. Transition(actor, "pending")
    BY <1>3 DEF Hold
  <2>2. status = "open" /\ status' = "pending"
    BY <2>1, MoveSources, TransitionType
  <2>3. OpenRows(pending_periods') = {Len(pending_periods')}
    <3>1. OpenRows(pending_periods) = {} /\ pending_periods' = StartPeriod(pending_periods, clock)
      BY <1>3, <2>2 DEF Hold
    <3>. QED
      BY <1>0, <3>1, StartFromNone, Zenon
  <2>. QED
    BY <1>3, <2>2, <2>3 DEF Hold
<1>4. ASSUME NEW actor \in Users, Resume(actor) PROVE OpenPeriodsMatchStatus'
  <2>1. status = "pending" /\ status' = "open"
    BY <1>4 DEF Resume, Transition
  <2>2. OpenRows(pending_periods') = {}
    <3>1. PICK row \in DOMAIN pending_periods :
            OnlyOpenRow(pending_periods, row) /\ pending_periods' = EndPeriod(pending_periods, row, clock)
      BY <1>4 DEF Resume
    <3>. QED
      BY <1>0, <3>1, EndTheOnlyOne, Zenon
  <2>. QED
    BY <1>4, <2>1, <2>2 DEF Resume
<1>5. ASSUME NEW actor \in Users, Resolve(actor) PROVE OpenPeriodsMatchStatus'
  <2>1. Transition(actor, "resolved")
    BY <1>5 DEF Resolve
  <2>2. status = "open" /\ status' = "resolved"
    BY <2>1, MoveSources, TransitionType
  <2>3. OpenRows(resolved_periods') = {Len(resolved_periods')}
    <3>1. OpenRows(resolved_periods) = {} /\ resolved_periods' = StartPeriod(resolved_periods, clock)
      BY <1>5, <2>2 DEF Resolve
    <3>. QED
      BY <1>0, <3>1, StartFromNone, Zenon
  <2>. QED
    BY <1>5, <2>2, <2>3 DEF Resolve
<1>6. ASSUME NEW actor \in Users, Close(actor) PROVE OpenPeriodsMatchStatus'
  <2>1. Transition(actor, "closed")
    BY <1>6 DEF Close
  <2>2. status = "resolved" /\ status' = "closed"
    BY <2>1, MoveSources, TransitionType
  <2>3. OpenRows(closed_periods') = {Len(closed_periods')}
    <3>1. OpenRows(closed_periods) = {} /\ closed_periods' = StartPeriod(closed_periods, clock)
      BY <1>6, <2>2 DEF Close
    <3>. QED
      BY <1>0, <3>1, StartFromNone, Zenon
  <2>4. OpenRows(resolved_periods') = {}
    <3>1. PICK row \in DOMAIN resolved_periods :
            OnlyOpenRow(resolved_periods, row) /\ resolved_periods' = EndPeriod(resolved_periods, row, clock)
      BY <1>6 DEF Close
    <3>. QED
      BY <1>0, <3>1, EndTheOnlyOne, Zenon
  <2>. QED
    BY <1>6, <2>2, <2>3, <2>4 DEF Close
<1>7. ASSUME NEW actor \in Users, Reopen(actor) PROVE OpenPeriodsMatchStatus'
  <2>1. status = "closed" /\ status' = "open"
    BY <1>7 DEF Reopen, Transition
  <2>2. OpenRows(closed_periods') = {}
    <3>1. PICK row \in DOMAIN closed_periods :
            OnlyOpenRow(closed_periods, row) /\ closed_periods' = EndPeriod(closed_periods, row, clock)
      BY <1>7 DEF Reopen
    <3>. QED
      BY <1>0, <3>1, EndTheOnlyOne, Zenon
  <2>. QED
    BY <1>7, <2>1, <2>2 DEF Reopen
<1>. QED
  BY <1>1, <1>2, <1>3, <1>4, <1>5, <1>6, <1>7 DEF Next, StatusRequest

\* The one() of every legal move finds its row: at any moment the open rows of the
\* three logs are those the status calls for.
THEOREM OpenRowsFollowStatus == Spec => []OpenPeriodsMatchStatus
<1>1. Init => OpenPeriodsMatchStatus
  BY DEF Init, OpenPeriodsMatchStatus, OpenRowIffStatus, OpenRows
<1>2. Spec => []TypeOK
  BY TypeCorrect
<1>. QED
  BY <1>1, <1>2, MatchStep, PTL DEF Spec
-----------------------------------------------------------------------------
(***************************************************************************)
(* The timeline.                                                           *)
(***************************************************************************)
LEMMA TransitionKeepsWalk ==
    ASSUME TypeOK, HistoryIsAWalk, NEW actor, NEW new_status, Transition(actor, new_status)
    PROVE  HistoryIsAWalk'
<1>. DEFINE n == Len(history)
            event == [old_status |-> status, new_status |-> new_status]
<1>1. history \in Seq(StatusChange) /\ history' = Append(history, event) /\ status' = new_status
  BY DEF TypeOK, Transition
<1>2. /\ n \in Nat
      /\ DOMAIN history = 1..n
      /\ DOMAIN history' = 1..(n + 1)
      /\ Len(history') = n + 1
      /\ \A i \in 1..n : history'[i] = history[i]
      /\ history'[n + 1] = event
      /\ history = <<>> <=> n = 0
      /\ history' # <<>>
  BY <1>1
<1>3. \A i \in 1..n :
        /\ history[i].old_status = IF i = 1 THEN "new" ELSE history[i - 1].new_status
        /\ history[i].new_status \in AllowedTransitions[history[i].old_status]
  BY <1>2 DEF HistoryIsAWalk
<1>4. status = IF n = 0 THEN "new" ELSE history[n].new_status
  BY <1>2 DEF HistoryIsAWalk
<1>5. /\ event.old_status = status /\ event.new_status = new_status
      /\ new_status \in AllowedTransitions[status]
  BY DEF Transition
<1>. HIDE DEF n, event
<1>6. ASSUME NEW i \in 1..(n + 1)
      PROVE  /\ history'[i].old_status = IF i = 1 THEN "new" ELSE history'[i - 1].new_status
             /\ history'[i].new_status \in AllowedTransitions[history'[i].old_status]
  <2>1. CASE i = n + 1
    <3>1. history'[i] = event /\ (i # 1 => n # 0 /\ i - 1 = n /\ n \in 1..n)
      BY <1>2, <2>1
    <3>2. i # 1 => history'[i - 1] = history[n]
      BY <1>2, <3>1
    <3>3. (i = 1) = (n = 0)
      BY <1>2, <2>1
    <3>. QED
      BY <1>4, <1>5, <3>1, <3>2, <3>3
  <2>2. CASE i # n + 1
    <3>1. i \in 1..n /\ (i # 1 => i - 1 \in 1..n)
      BY <1>2, <2>2
    <3>2. history'[i] = history[i] /\ (i # 1 => history'[i - 1] = history[i - 1])
      BY <1>2, <3>1
    <3>. QED
      BY <1>3, <3>1, <3>2
  <2>. QED
    BY <2>1, <2>2
<1>7. status' = history'[Len(history')].new_status
  BY <1>1, <1>2, <1>5
<1>. QED
  BY <1>2, <1>6, <1>7 DEF HistoryIsAWalk

\* The timeline is an unbroken walk through the table of legal moves, from New to the
\* ticket's status.
THEOREM TimelineIsAWalk == Spec => []HistoryIsAWalk
<1>1. Init => HistoryIsAWalk
  BY DEF Init, HistoryIsAWalk
<1>2. TypeOK /\ HistoryIsAWalk /\ [Next]_vars => HistoryIsAWalk'
  <2>. SUFFICES ASSUME TypeOK, HistoryIsAWalk, [Next]_vars PROVE HistoryIsAWalk'
    OBVIOUS
  <2>1. CASE UNCHANGED <<status, history>>
    BY <2>1 DEF HistoryIsAWalk
  <2>2. CASE \E actor \in Users, new_status \in TicketStatus : Transition(actor, new_status)
    BY <2>2, TransitionKeepsWalk, Zenon
  <2>3. Tick \/ UNCHANGED vars => UNCHANGED <<status, history>>
    BY DEF Tick, vars
  <2>4. ASSUME NEW actor \in Users, StatusRequest(actor)
        PROVE  \E new_status \in TicketStatus : Transition(actor, new_status)
    BY <2>4 DEF StatusRequest, Open, Hold, Resume, Resolve, Close, Reopen, TicketStatus
  <2>. QED
    BY <2>1, <2>2, <2>3, <2>4 DEF Next
<1>3. Spec => []TypeOK
  BY TypeCorrect
<1>. QED
  BY <1>1, <1>2, <1>3, PTL DEF Spec
-----------------------------------------------------------------------------
(***************************************************************************)
(* The periods in time.                                                    *)
(***************************************************************************)
\* Every row of a log lies in the past: it started, and ended if it has, by now.
Past(log, now) ==
    \A i \in DOMAIN log : /\ log[i].start <= now
                          /\ log[i].end # NULL => log[i].start <= log[i].end /\ log[i].end <= now

PeriodsInThePast ==
    /\ Past(pending_periods, clock)
    /\ Past(closed_periods, clock)
    /\ Past(resolved_periods, clock)

LEMMA PastGrows ==
    ASSUME NEW log \in Seq(Period), NEW now \in Instant, NEW later \in Instant,
           Past(log, now), now <= later
    PROVE  Past(log, later)
<1>1. \A i \in DOMAIN log : log[i] \in Period
  OBVIOUS
<1>. QED
  BY <1>1 DEF Past, Period, Instant

LEMMA PastStart ==
    ASSUME NEW log \in Seq(Period), NEW now \in Instant, Past(log, now)
    PROVE  Past(StartPeriod(log, now), now)
<1>. DEFINE new == StartPeriod(log, now)
<1>1. /\ DOMAIN new = DOMAIN log \cup {Len(log) + 1}
      /\ \A i \in DOMAIN log : new[i] = log[i]
      /\ new[Len(log) + 1] = [start |-> now, end |-> NULL]
  BY StartPeriodFacts, Zenon
<1>. HIDE DEF new
<1>2. Past(new, now)
  BY <1>1 DEF Past, Instant
<1>. QED
  BY <1>2 DEF new

LEMMA PastEnd ==
    ASSUME NEW log \in Seq(Period), NEW row \in DOMAIN log, NEW now \in Instant, Past(log, now)
    PROVE  Past(EndPeriod(log, row, now), now)
<1>. DEFINE new == EndPeriod(log, row, now)
<1>1. /\ DOMAIN new = DOMAIN log
      /\ \A i \in DOMAIN log \ {row} : new[i] = log[i]
      /\ new[row] = [start |-> log[row].start, end |-> now]
  BY EndPeriodFacts, ZenonT(30)
<1>. HIDE DEF new
<1>2. Past(new, now)
  BY <1>1 DEF Past, Instant
<1>. QED
  BY <1>2 DEF new

\* What a step does to the three logs: nothing, or exactly the one write or pair of
\* writes that its move makes, at a time the clock has reached.
Starts(log, newlog) == OpenRows(log) = {} /\ newlog = StartPeriod(log, clock)

Ends(log, newlog) == \E row \in DOMAIN log :
    OnlyOpenRow(log, row) /\ newlog = EndPeriod(log, row, clock)

LEMMA LogStep ==
    ASSUME TypeOK, OpenPeriodsMatchStatus, [Next]_vars
    PROVE  \/ /\ UNCHANGED periods
              /\ clock' \in Instant /\ clock <= clock'
           \/ /\ UNCHANGED clock
              /\ \/ /\ Starts(pending_periods, pending_periods')
                    /\ OpenRows(closed_periods) = {} /\ OpenRows(resolved_periods) = {}
                    /\ UNCHANGED <<closed_periods, resolved_periods>>
                 \/ /\ Ends(pending_periods, pending_periods')
                    /\ UNCHANGED <<closed_periods, resolved_periods>>
                 \/ /\ Starts(resolved_periods, resolved_periods')
                    /\ OpenRows(closed_periods) = {} /\ OpenRows(pending_periods) = {}
                    /\ UNCHANGED <<closed_periods, pending_periods>>
                 \/ /\ Starts(closed_periods, closed_periods')
                    /\ Ends(resolved_periods, resolved_periods')
                    /\ OpenRows(pending_periods) = {}
                    /\ UNCHANGED pending_periods
                 \/ /\ Ends(closed_periods, closed_periods')
                    /\ UNCHANGED <<pending_periods, resolved_periods>>
<1>. USE DEF OpenPeriodsMatchStatus, OpenRowIffStatus
<1>1. CASE Tick
  BY <1>1 DEF Tick, TypeOK, Instant
<1>2. CASE UNCHANGED vars
  BY <1>2 DEF vars, TypeOK, Instant
<1>3. ASSUME NEW actor \in Users, Open(actor) PROVE UNCHANGED periods /\ UNCHANGED clock
  BY <1>3 DEF Open, Transition
<1>4. ASSUME NEW actor \in Users, Hold(actor)
      PROVE  /\ UNCHANGED clock
             /\ Starts(pending_periods, pending_periods')
             /\ OpenRows(closed_periods) = {} /\ OpenRows(resolved_periods) = {}
             /\ UNCHANGED <<closed_periods, resolved_periods>>
  <2>1. status = "open" /\ clock' = clock
    BY <1>4, MoveSources, TransitionType DEF Hold
  <2>. QED
    BY <1>4, <2>1 DEF Hold, Starts
<1>5. ASSUME NEW actor \in Users, Resume(actor)
      PROVE  /\ UNCHANGED clock
             /\ Ends(pending_periods, pending_periods')
             /\ UNCHANGED <<closed_periods, resolved_periods>>
  BY <1>5 DEF Resume, Transition, Ends
<1>6. ASSUME NEW actor \in Users, Resolve(actor)
      PROVE  /\ UNCHANGED clock
             /\ Starts(resolved_periods, resolved_periods')
             /\ OpenRows(closed_periods) = {} /\ OpenRows(pending_periods) = {}
             /\ UNCHANGED <<closed_periods, pending_periods>>
  <2>1. status = "open" /\ clock' = clock
    BY <1>6, MoveSources, TransitionType DEF Resolve
  <2>. QED
    BY <1>6, <2>1 DEF Resolve, Starts
<1>7. ASSUME NEW actor \in Users, Close(actor)
      PROVE  /\ UNCHANGED clock
             /\ Starts(closed_periods, closed_periods')
             /\ Ends(resolved_periods, resolved_periods')
             /\ OpenRows(pending_periods) = {}
             /\ UNCHANGED pending_periods
  <2>1. status = "resolved" /\ clock' = clock
    BY <1>7, MoveSources, TransitionType DEF Close
  <2>. QED
    BY <1>7, <2>1 DEF Close, Starts, Ends
<1>8. ASSUME NEW actor \in Users, Reopen(actor)
      PROVE  /\ UNCHANGED clock
             /\ Ends(closed_periods, closed_periods')
             /\ UNCHANGED <<pending_periods, resolved_periods>>
  BY <1>8 DEF Reopen, Transition, Ends
<1>9. clock \in Instant /\ clock <= clock
  BY DEF TypeOK, Instant
<1>10. [Next]_vars => \/ Tick \/ UNCHANGED vars
                      \/ \E actor \in Users : \/ Open(actor) \/ Hold(actor) \/ Resume(actor)
                                              \/ Resolve(actor) \/ Close(actor) \/ Reopen(actor)
  BY DEF Next, StatusRequest
<1>11. CASE \E actor \in Users : \/ Open(actor) \/ Hold(actor) \/ Resume(actor)
                                 \/ Resolve(actor) \/ Close(actor) \/ Reopen(actor)
  <2>1. PICK actor \in Users : \/ Open(actor) \/ Hold(actor) \/ Resume(actor)
                               \/ Resolve(actor) \/ Close(actor) \/ Reopen(actor)
    BY <1>11
  <2>. QED
    BY <1>3, <1>4, <1>5, <1>6, <1>7, <1>8, <1>9, <2>1
<1>. QED
  BY <1>1, <1>2, <1>10, <1>11 DEF Tick, vars

LEMMA PastStep ==
    TypeOK /\ OpenPeriodsMatchStatus /\ PeriodsInThePast /\ [Next]_vars => PeriodsInThePast'
<1>. SUFFICES ASSUME TypeOK, OpenPeriodsMatchStatus, PeriodsInThePast, [Next]_vars
              PROVE  PeriodsInThePast'
  OBVIOUS
<1>1. /\ clock \in Instant
      /\ pending_periods \in Seq(Period) /\ Past(pending_periods, clock)
      /\ closed_periods \in Seq(Period) /\ Past(closed_periods, clock)
      /\ resolved_periods \in Seq(Period) /\ Past(resolved_periods, clock)
  BY DEF TypeOK, PeriodsInThePast
<1>2. ASSUME UNCHANGED periods, clock' \in Instant, clock <= clock'
      PROVE  PeriodsInThePast'
  <2>1. /\ Past(pending_periods, clock') /\ Past(closed_periods, clock')
        /\ Past(resolved_periods, clock')
    BY <1>1, <1>2, PastGrows
  <2>. QED
    BY <1>2, <2>1 DEF PeriodsInThePast, periods
<1>3. ASSUME NEW log \in Seq(Period), Past(log, clock), NEW newlog, Starts(log, newlog)
      PROVE  Past(newlog, clock)
  BY <1>1, <1>3, PastStart DEF Starts
<1>4. ASSUME NEW log \in Seq(Period), Past(log, clock), NEW newlog, Ends(log, newlog)
      PROVE  Past(newlog, clock)
  BY <1>1, <1>4, PastEnd DEF Ends
<1>5. ASSUME UNCHANGED clock,
             \/ UNCHANGED pending_periods
             \/ Starts(pending_periods, pending_periods') \/ Ends(pending_periods, pending_periods'),
             \/ UNCHANGED closed_periods
             \/ Starts(closed_periods, closed_periods') \/ Ends(closed_periods, closed_periods'),
             \/ UNCHANGED resolved_periods
             \/ Starts(resolved_periods, resolved_periods') \/ Ends(resolved_periods, resolved_periods')
      PROVE  PeriodsInThePast'
  <2>1. Past(pending_periods', clock)
    BY <1>1, <1>3, <1>4, <1>5
  <2>2. Past(closed_periods', clock)
    BY <1>1, <1>3, <1>4, <1>5
  <2>3. Past(resolved_periods', clock)
    BY <1>1, <1>3, <1>4, <1>5
  <2>. QED
    BY <1>5, <2>1, <2>2, <2>3 DEF PeriodsInThePast
<1>. QED
  BY <1>2, <1>5, LogStep

\* What the serial ticket's other properties rest on.
IInv == TypeOK /\ OpenPeriodsMatchStatus /\ PeriodsInThePast

LEMMA InductiveInvariant == Spec => []IInv
<1>1. Init => PeriodsInThePast
  BY DEF Init, PeriodsInThePast, Past
<1>2. Spec => []TypeOK /\ []OpenPeriodsMatchStatus
  BY TypeCorrect, OpenRowsFollowStatus, PTL
<1>. QED
  BY <1>1, <1>2, PastStep, PTL DEF Spec, IInv
-----------------------------------------------------------------------------
(***************************************************************************)
(* A period that has ended is never written again.                         *)
(***************************************************************************)
LEMMA StartKeeps ==
    ASSUME NEW log \in Seq(Period), NEW now \in Instant
    PROVE  Kept(log, StartPeriod(log, now))
<1>. DEFINE new == StartPeriod(log, now)
<1>1. /\ Len(new) = Len(log) + 1
      /\ \A i \in DOMAIN log : new[i] = log[i]
  BY StartPeriodFacts, Zenon
<1>. HIDE DEF new
<1>2. Kept(log, new)
  BY <1>1 DEF Kept
<1>. QED
  BY <1>2 DEF new

LEMMA EndKeeps ==
    ASSUME NEW log \in Seq(Period), NEW row \in DOMAIN log, NEW now \in Instant,
           OnlyOpenRow(log, row)
    PROVE  Kept(log, EndPeriod(log, row, now))
<1>. DEFINE new == EndPeriod(log, row, now)
<1>1. /\ Len(new) = Len(log)
      /\ \A i \in DOMAIN log \ {row} : new[i] = log[i]
  BY EndPeriodFacts, ZenonT(30)
<1>2. log[row].end = NULL
  BY DEF OnlyOpenRow, OpenRows
<1>. HIDE DEF new
<1>3. Kept(log, new)
  BY <1>1, <1>2 DEF Kept
<1>. QED
  BY <1>3 DEF new

\* No step deletes a period row or writes one that has ended.
THEOREM EndedRowsAreFinal == Spec => EndedPeriodsAreFinal
<1>. DEFINE AllKept == /\ Kept(pending_periods, pending_periods')
                       /\ Kept(closed_periods, closed_periods')
                       /\ Kept(resolved_periods, resolved_periods')
<1>1. IInv /\ [Next]_vars => [AllKept]_vars
  <2>. SUFFICES ASSUME IInv, [Next]_vars PROVE AllKept
    OBVIOUS
  <2>1. /\ TypeOK /\ OpenPeriodsMatchStatus
        /\ clock \in Instant /\ pending_periods \in Seq(Period)
        /\ closed_periods \in Seq(Period) /\ resolved_periods \in Seq(Period)
    BY DEF IInv, TypeOK
  <2>2. ASSUME NEW log \in Seq(Period) PROVE Kept(log, log)
    BY DEF Kept
  <2>3. ASSUME NEW log \in Seq(Period), NEW newlog, Starts(log, newlog) PROVE Kept(log, newlog)
    BY <2>1, <2>3, StartKeeps DEF Starts
  <2>4. ASSUME NEW log \in Seq(Period), NEW newlog, Ends(log, newlog) PROVE Kept(log, newlog)
    BY <2>1, <2>4, EndKeeps DEF Ends
  <2>5. \/ pending_periods' = pending_periods
        \/ Starts(pending_periods, pending_periods') \/ Ends(pending_periods, pending_periods')
    BY <2>1, LogStep DEF periods
  <2>6. \/ closed_periods' = closed_periods
        \/ Starts(closed_periods, closed_periods') \/ Ends(closed_periods, closed_periods')
    BY <2>1, LogStep DEF periods
  <2>7. \/ resolved_periods' = resolved_periods
        \/ Starts(resolved_periods, resolved_periods') \/ Ends(resolved_periods, resolved_periods')
    BY <2>1, LogStep DEF periods
  <2>8. Kept(pending_periods, pending_periods')
    BY <2>1, <2>2, <2>3, <2>4, <2>5
  <2>9. Kept(closed_periods, closed_periods')
    BY <2>1, <2>2, <2>3, <2>4, <2>6
  <2>10. Kept(resolved_periods, resolved_periods')
    BY <2>1, <2>2, <2>3, <2>4, <2>7
  <2>. QED
    BY <2>8, <2>9, <2>10
<1>. QED
  BY <1>1, InductiveInvariant, PTL DEF Spec, EndedPeriodsAreFinal
-----------------------------------------------------------------------------
(***************************************************************************)
(* No instant is covered twice.                                            *)
(***************************************************************************)
Single(log, t) == \A i, j \in DOMAIN log : Covers(log[i], t) /\ Covers(log[j], t) => i = j

\* A log with no open row covers nothing from now on.
LEMMA NothingAhead ==
    ASSUME NEW log \in Seq(Period), NEW now \in Instant, NEW t \in Instant,
           Past(log, now), OpenRows(log) = {}, now <= t
    PROVE  ~ CoveredBy(log, t)
<1>1. \A i \in DOMAIN log : log[i].end # NULL
  BY DEF OpenRows
<1>2. \A i \in DOMAIN log : log[i] \in Period
  OBVIOUS
<1>3. ASSUME NEW i \in DOMAIN log PROVE ~ Covers(log[i], t)
  <2>1. log[i].end \in Nat /\ log[i].end <= now
    BY <1>1, <1>2 DEF Past, Period, Instant
  <2>. QED
    BY <1>1, <2>1 DEF Covers, Instant
<1>. QED
  BY <1>3 DEF CoveredBy

\* Starting a period covers every instant from now on, and changes no earlier one.
LEMMA StartCovers ==
    ASSUME NEW log \in Seq(Period), NEW now \in Instant, NEW t \in Instant,
           Past(log, now), OpenRows(log) = {}, Single(log, t)
    PROVE  /\ CoveredBy(StartPeriod(log, now), t) <=> CoveredBy(log, t) \/ now <= t
           /\ Single(StartPeriod(log, now), t)
<1>. DEFINE new == StartPeriod(log, now)
            last == Len(log) + 1
<1>1. /\ DOMAIN new = DOMAIN log \cup {last}
      /\ \A i \in DOMAIN log : new[i] = log[i]
      /\ new[last] = [start |-> now, end |-> NULL]
  BY StartPeriodFacts, Zenon
<1>. HIDE DEF new, last
<1>2. Covers(new[last], t) <=> now <= t
  BY <1>1 DEF Covers
<1>3. now <= t => ~ CoveredBy(log, t)
  BY NothingAhead
<1>4. CoveredBy(new, t) <=> CoveredBy(log, t) \/ now <= t
  BY <1>1, <1>2 DEF CoveredBy
<1>5. Single(new, t)
  BY <1>1, <1>2, <1>3 DEF Single, CoveredBy
<1>. QED
  BY <1>4, <1>5 DEF new

\* Ending a period uncovers every instant from now on, and changes no earlier one.
LEMMA EndCovers ==
    ASSUME NEW log \in Seq(Period), NEW row \in DOMAIN log, NEW now \in Instant,
           NEW t \in Instant, Past(log, now), OnlyOpenRow(log, row), Single(log, t)
    PROVE  /\ CoveredBy(EndPeriod(log, row, now), t) <=> CoveredBy(log, t) /\ t < now
           /\ Single(EndPeriod(log, row, now), t)
<1>. DEFINE new == EndPeriod(log, row, now)
<1>1. /\ DOMAIN new = DOMAIN log
      /\ \A i \in DOMAIN log \ {row} : new[i] = log[i]
      /\ new[row] = [start |-> log[row].start, end |-> now]
      /\ new \in Seq(Period)
  BY EndPeriodFacts, ZenonT(30)
<1>2. /\ log[row].end = NULL
      /\ \A i \in DOMAIN log \ {row} : log[i].end # NULL
  BY DEF OnlyOpenRow, OpenRows
<1>3. \A i \in DOMAIN log : log[i] \in Period
  OBVIOUS
<1>4. now # NULL
  BY NullAssumption DEF Instant
<1>. HIDE DEF new
<1>5. Covers(new[row], t) <=> Covers(log[row], t) /\ t < now
  BY <1>1, <1>2, <1>4 DEF Covers
<1>6. ASSUME NEW i \in DOMAIN log \ {row} PROVE Covers(new[i], t) <=> Covers(log[i], t) /\ t < now
  <2>1. new[i] = log[i] /\ log[i].end \in Nat /\ log[i].end <= now
    BY <1>1, <1>2, <1>3 DEF Past, Period, Instant
  <2>. QED
    BY <1>2, <2>1 DEF Covers, Instant
<1>7. \A i \in DOMAIN log : Covers(new[i], t) <=> Covers(log[i], t) /\ t < now
  BY <1>5, <1>6
<1>8. CoveredBy(new, t) <=> CoveredBy(log, t) /\ t < now
  BY <1>1, <1>7 DEF CoveredBy
<1>9. Single(new, t)
  BY <1>1, <1>7 DEF Single
<1>. QED
  BY <1>8, <1>9 DEF new

\* The three logs seen at one instant.
Apart(t) ==
    /\ ~ (CoveredBy(pending_periods, t) /\ CoveredBy(closed_periods, t))
    /\ ~ (CoveredBy(pending_periods, t) /\ CoveredBy(resolved_periods, t))
    /\ ~ (CoveredBy(closed_periods, t) /\ CoveredBy(resolved_periods, t))
    /\ Single(pending_periods, t)
    /\ Single(closed_periods, t)
    /\ Single(resolved_periods, t)

LEMMA ApartStep ==
    ASSUME IInv, [Next]_vars, NEW t \in Instant, Apart(t)
    PROVE  Apart(t)'
<1>1. /\ TypeOK /\ OpenPeriodsMatchStatus
      /\ clock \in Instant
      /\ pending_periods \in Seq(Period) /\ Past(pending_periods, clock)
      /\ closed_periods \in Seq(Period) /\ Past(closed_periods, clock)
      /\ resolved_periods \in Seq(Period) /\ Past(resolved_periods, clock)
      /\ Single(pending_periods, t) /\ Single(closed_periods, t) /\ Single(resolved_periods, t)
  BY DEF IInv, TypeOK, PeriodsInThePast, Apart
<1>2. ASSUME NEW log \in Seq(Period), Past(log, clock), Single(log, t),
             NEW newlog, Starts(log, newlog)
      PROVE  (CoveredBy(newlog, t) <=> CoveredBy(log, t) \/ clock <= t) /\ Single(newlog, t)
  BY <1>1, <1>2, StartCovers, Zenon DEF Starts
<1>3. ASSUME NEW log \in Seq(Period), Past(log, clock), Single(log, t),
             NEW newlog, Ends(log, newlog)
      PROVE  (CoveredBy(newlog, t) <=> CoveredBy(log, t) /\ t < clock) /\ Single(newlog, t)
  <2>1. PICK row \in DOMAIN log : OnlyOpenRow(log, row) /\ newlog = EndPeriod(log, row, clock)
    BY <1>3 DEF Ends
  <2>. QED
    BY <1>1, <1>3, <2>1, EndCovers, Zenon
<1>4. ASSUME NEW log \in Seq(Period), Past(log, clock), OpenRows(log) = {}, clock <= t
      PROVE  ~ CoveredBy(log, t)
  BY <1>1, <1>4, NothingAhead
<1>5. t < clock \/ clock <= t
  BY <1>1 DEF Instant
<1>6. ~ (t < clock /\ clock <= t)
  BY <1>1 DEF Instant
<1>7. CASE UNCHANGED periods
  BY <1>7 DEF periods, Apart
<1>8. CASE /\ Starts(pending_periods, pending_periods')
           /\ OpenRows(closed_periods) = {} /\ OpenRows(resolved_periods) = {}
           /\ UNCHANGED <<closed_periods, resolved_periods>>
  <2>1. /\ CoveredBy(pending_periods', t) <=> CoveredBy(pending_periods, t) \/ clock <= t
        /\ Single(pending_periods', t)
    BY <1>1, <1>2, <1>8
  <2>2. clock <= t => ~ CoveredBy(closed_periods, t) /\ ~ CoveredBy(resolved_periods, t)
    BY <1>1, <1>4, <1>8
  <2>. QED
    BY <1>8, <2>1, <2>2 DEF Apart
<1>9. CASE /\ Ends(pending_periods, pending_periods')
           /\ UNCHANGED <<closed_periods, resolved_periods>>
  <2>1. /\ CoveredBy(pending_periods', t) => CoveredBy(pending_periods, t)
        /\ Single(pending_periods', t)
    BY <1>1, <1>3, <1>9
  <2>. QED
    BY <1>9, <2>1 DEF Apart
<1>10. CASE /\ Starts(resolved_periods, resolved_periods')
            /\ OpenRows(closed_periods) = {} /\ OpenRows(pending_periods) = {}
            /\ UNCHANGED <<closed_periods, pending_periods>>
  <2>1. /\ CoveredBy(resolved_periods', t) <=> CoveredBy(resolved_periods, t) \/ clock <= t
        /\ Single(resolved_periods', t)
    BY <1>1, <1>2, <1>10
  <2>2. clock <= t => ~ CoveredBy(closed_periods, t) /\ ~ CoveredBy(pending_periods, t)
    BY <1>1, <1>4, <1>10
  <2>. QED
    BY <1>10, <2>1, <2>2 DEF Apart
<1>11. CASE /\ Starts(closed_periods, closed_periods')
            /\ Ends(resolved_periods, resolved_periods')
            /\ OpenRows(pending_periods) = {}
            /\ UNCHANGED pending_periods
  <2>1. /\ CoveredBy(closed_periods', t) <=> CoveredBy(closed_periods, t) \/ clock <= t
        /\ Single(closed_periods', t)
    BY <1>1, <1>2, <1>11
  <2>2. /\ CoveredBy(resolved_periods', t) <=> CoveredBy(resolved_periods, t) /\ t < clock
        /\ Single(resolved_periods', t)
    BY <1>1, <1>3, <1>11
  <2>3. clock <= t => ~ CoveredBy(pending_periods, t)
    BY <1>1, <1>4, <1>11
  <2>. QED
    BY <1>5, <1>6, <1>11, <2>1, <2>2, <2>3 DEF Apart
<1>12. CASE /\ Ends(closed_periods, closed_periods')
            /\ UNCHANGED <<pending_periods, resolved_periods>>
  <2>1. /\ CoveredBy(closed_periods', t) => CoveredBy(closed_periods, t)
        /\ Single(closed_periods', t)
    BY <1>1, <1>3, <1>12
  <2>. QED
    BY <1>12, <2>1 DEF Apart
<1>. QED
  BY <1>1, <1>7, <1>8, <1>9, <1>10, <1>11, <1>12, LogStep

\* The sum in elapsed_response_time never subtracts an instant twice.
THEOREM NoInstantTwice == Spec => []PeriodsNeverOverlap
<1>. DEFINE AllApart == \A t \in CreatedAt..MaxTime : Apart(t)
<1>1. \A t \in CreatedAt..MaxTime : t \in Instant
  BY LifecycleAssumption DEF CreatedAt, Instant
<1>2. Init => AllApart
  BY DEF Init, Apart, CoveredBy, Single
<1>3. IInv /\ AllApart /\ [Next]_vars => AllApart'
  <2>. SUFFICES ASSUME IInv, AllApart, [Next]_vars, NEW t \in CreatedAt..MaxTime
                PROVE  Apart(t)'
    BY DEF CreatedAt
  <2>. QED
    BY <1>1, ApartStep
<1>4. AllApart => PeriodsNeverOverlap
  <2>. SUFFICES ASSUME AllApart, NEW t \in CreatedAt..MaxTime
                PROVE  /\ ~ (CoveredBy(pending_periods, t) /\ CoveredBy(closed_periods, t))
                       /\ ~ (CoveredBy(pending_periods, t) /\ CoveredBy(resolved_periods, t))
                       /\ ~ (CoveredBy(closed_periods, t) /\ CoveredBy(resolved_periods, t))
                       /\ \A log \in {pending_periods, closed_periods, resolved_periods} :
                            Single(log, t)
    BY DEF PeriodsNeverOverlap, Single
  <2>. QED
    BY DEF Apart
<1>. QED
  BY <1>2, <1>3, <1>4, InductiveInvariant, PTL DEF Spec
-----------------------------------------------------------------------------
(***************************************************************************)
(* The reopen window.                                                      *)
(***************************************************************************)
\* A reopened ticket was reopened within its window.
THEOREM ReopensAreTimely == Spec => []ReopenedWithinWindow
<1>1. Init => ReopenedWithinWindow
  BY DEF Init, ReopenedWithinWindow
<1>2. IInv /\ ReopenedWithinWindow /\ [Next]_vars => ReopenedWithinWindow'
  <2>. SUFFICES ASSUME IInv, ReopenedWithinWindow, [Next]_vars PROVE ReopenedWithinWindow'
    OBVIOUS
  <2>1. /\ clock \in Instant /\ closed_periods \in Seq(Period)
        /\ Past(closed_periods, clock) /\ ReopenWindow \in Nat
    BY WindowAssumption DEF IInv, TypeOK, PeriodsInThePast
  <2>2. CASE UNCHANGED closed_periods
    BY <2>2 DEF ReopenedWithinWindow
  <2>3. ASSUME NEW actor \in Users, Close(actor) PROVE ReopenedWithinWindow'
    <3>1. /\ DOMAIN closed_periods' = DOMAIN closed_periods \cup {Len(closed_periods) + 1}
          /\ \A i \in DOMAIN closed_periods : closed_periods'[i] = closed_periods[i]
          /\ closed_periods'[Len(closed_periods) + 1] = [start |-> clock, end |-> NULL]
      <4>1. closed_periods' = StartPeriod(closed_periods, clock)
        BY <2>3 DEF Close
      <4>. QED
        BY <2>1, <4>1, StartPeriodFacts, Zenon
    <3>. QED
      BY <3>1 DEF ReopenedWithinWindow
  <2>4. ASSUME NEW actor \in Users, Reopen(actor) PROVE ReopenedWithinWindow'
    <3>1. PICK row \in DOMAIN closed_periods :
            /\ WithinWindow(closed_periods[row].start, clock)
            /\ closed_periods' = EndPeriod(closed_periods, row, clock)
      BY <2>4 DEF Reopen
    <3>2. /\ DOMAIN closed_periods' = DOMAIN closed_periods
          /\ \A i \in DOMAIN closed_periods \ {row} : closed_periods'[i] = closed_periods[i]
          /\ closed_periods'[row] = [start |-> closed_periods[row].start, end |-> clock]
      <4>. DEFINE new == EndPeriod(closed_periods, row, clock)
      <4>1. /\ DOMAIN new = DOMAIN closed_periods
            /\ \A i \in DOMAIN closed_periods \ {row} : new[i] = closed_periods[i]
            /\ new[row] = [start |-> closed_periods[row].start, end |-> clock]
        BY <2>1, EndPeriodFacts, ZenonT(30)
      <4>2. closed_periods' = new
        BY <3>1
      <4>. HIDE DEF new
      <4>. QED
        BY <4>1, <4>2
    <3>3. closed_periods[row].start <= clock
      BY <2>1 DEF Past
    <3>. QED
      BY <3>1, <3>2, <3>3 DEF ReopenedWithinWindow, WithinWindow
  <2>5. ASSUME NEW actor \in Users, Open(actor) \/ Hold(actor) \/ Resume(actor) \/ Resolve(actor)
        PROVE  UNCHANGED closed_periods
    BY <2>5 DEF Open, Hold, Resume, Resolve, periods
  <2>6. Tick \/ UNCHANGED vars => UNCHANGED closed_periods
    BY DEF Tick, vars, periods
  <2>. QED
    BY <2>2, <2>3, <2>4, <2>5, <2>6 DEF Next, StatusRequest
<1>. QED
  BY <1>1, <1>2, InductiveInvariant, PTL DEF Spec

\* Once the window has passed the ticket stays Closed: no request moves it.
THEOREM ClosedStaysClosed == Spec => ClosedForGood
<1>. DEFINE Lapsed == status = "closed" /\ clock - closed_periods[Len(closed_periods)].start > ReopenWindow
<1>1. IInv /\ [Next]_vars => [Lapsed => status' = "closed"]_vars
  <2>. SUFFICES ASSUME IInv, [Next]_vars, Lapsed PROVE status' = "closed"
    OBVIOUS
  <2>1. /\ TypeOK /\ clock \in Instant /\ closed_periods \in Seq(Period) /\ ReopenWindow \in Nat
        /\ OpenRows(closed_periods) = {Len(closed_periods)}
    BY WindowAssumption
       DEF IInv, TypeOK, OpenPeriodsMatchStatus, OpenRowIffStatus
  <2>2. ASSUME NEW actor \in Users, Reopen(actor) PROVE FALSE
    <3>1. PICK row \in DOMAIN closed_periods :
            OnlyOpenRow(closed_periods, row) /\ WithinWindow(closed_periods[row].start, clock)
      BY <2>2 DEF Reopen
    <3>2. row = Len(closed_periods)
      BY <2>1, <3>1 DEF OnlyOpenRow
    <3>3. closed_periods[row].start \in Nat
      <4>1. closed_periods[row] \in Period
        BY <2>1
      <4>. QED
        BY <4>1 DEF Period, Instant
    <3>. QED
      BY <2>1, <3>1, <3>2, <3>3 DEF Instant, WithinWindow
  <2>3. ASSUME NEW actor \in Users, Open(actor) \/ Resume(actor) PROVE FALSE
    BY <2>3 DEF Open, Resume
  <2>4. ASSUME NEW actor \in Users, Hold(actor) PROVE FALSE
    BY <2>1, <2>4, MoveSources DEF Hold
  <2>5. ASSUME NEW actor \in Users, Resolve(actor) PROVE FALSE
    BY <2>1, <2>5, MoveSources DEF Resolve
  <2>6. ASSUME NEW actor \in Users, Close(actor) PROVE FALSE
    BY <2>1, <2>6, MoveSources DEF Close
  <2>7. Tick \/ UNCHANGED vars => status' = status
    BY DEF Tick, vars
  <2>. QED
    BY <2>2, <2>3, <2>4, <2>5, <2>6, <2>7 DEF Next, StatusRequest
<1>. QED
  BY <1>1, InductiveInvariant, PTL DEF Spec, ClosedForGood
-----------------------------------------------------------------------------
(***************************************************************************)
(* The date of resolution.                                                 *)
(***************************************************************************)
\* resolved_at is the start of the newest Resolved period.
THEOREM ResolvedAtIsNewest == Spec => []ResolvedAtIsLatest
<1>1. Init => ResolvedAtIsLatest
  BY DEF Init, ResolvedAtIsLatest
<1>2. IInv /\ ResolvedAtIsLatest /\ [Next]_vars => ResolvedAtIsLatest'
  <2>. SUFFICES ASSUME IInv, ResolvedAtIsLatest, [Next]_vars PROVE ResolvedAtIsLatest'
    OBVIOUS
  <2>1. clock \in Instant /\ resolved_periods \in Seq(Period)
    BY DEF IInv, TypeOK
  <2>2. CASE UNCHANGED <<resolved_at, resolved_periods>>
    BY <2>2 DEF ResolvedAtIsLatest
  <2>3. ASSUME NEW actor \in Users, Resolve(actor) PROVE ResolvedAtIsLatest'
    <3>1. resolved_periods' = StartPeriod(resolved_periods, clock) /\ resolved_at' = clock
      BY <2>3 DEF Resolve
    <3>2. /\ resolved_periods' \in Seq(Period)
          /\ Len(resolved_periods') = Len(resolved_periods) + 1
          /\ resolved_periods'[Len(resolved_periods) + 1] = [start |-> clock, end |-> NULL]
      BY <2>1, <3>1, StartPeriodFacts, Zenon
    <3>3. resolved_periods' # <<>>
      BY <2>1, <3>2
    <3>. QED
      BY <3>1, <3>2, <3>3 DEF ResolvedAtIsLatest
  <2>4. ASSUME NEW actor \in Users, Close(actor) PROVE ResolvedAtIsLatest'
    <3>1. PICK row \in DOMAIN resolved_periods :
            resolved_periods' = EndPeriod(resolved_periods, row, clock)
      BY <2>4 DEF Close
    <3>2. /\ resolved_periods' \in Seq(Period)
          /\ Len(resolved_periods') = Len(resolved_periods)
          /\ \A i \in DOMAIN resolved_periods \ {row} : resolved_periods'[i] = resolved_periods[i]
          /\ resolved_periods'[row] = [start |-> resolved_periods[row].start, end |-> clock]
      <4>. DEFINE new == EndPeriod(resolved_periods, row, clock)
      <4>1. /\ new \in Seq(Period)
            /\ Len(new) = Len(resolved_periods)
            /\ \A i \in DOMAIN resolved_periods \ {row} : new[i] = resolved_periods[i]
            /\ new[row] = [start |-> resolved_periods[row].start, end |-> clock]
        BY <2>1, EndPeriodFacts, ZenonT(30)
      <4>2. resolved_periods' = new
        BY <3>1
      <4>. HIDE DEF new
      <4>. QED
        BY <4>1, <4>2
    <3>3. resolved_at' = resolved_at
      BY <2>4 DEF Close
    <3>4. resolved_periods # <<>> /\ resolved_periods' # <<>>
      BY <2>1, <3>2
    <3>5. Len(resolved_periods) \in DOMAIN resolved_periods
      BY <2>1, <3>4
    <3>6. resolved_periods'[Len(resolved_periods)].start = resolved_periods[Len(resolved_periods)].start
      BY <3>2, <3>5
    <3>. QED
      BY <3>2, <3>3, <3>4, <3>6 DEF ResolvedAtIsLatest
  <2>5. ASSUME NEW actor \in Users, Open(actor) \/ Hold(actor) \/ Resume(actor) \/ Reopen(actor)
        PROVE  UNCHANGED <<resolved_at, resolved_periods>>
    BY <2>5 DEF Open, Hold, Resume, Reopen, periods
  <2>6. Tick \/ UNCHANGED vars => UNCHANGED <<resolved_at, resolved_periods>>
    BY DEF Tick, vars, periods
  <2>. QED
    BY <2>2, <2>3, <2>4, <2>5, <2>6 DEF Next, StatusRequest
<1>. QED
  BY <1>1, <1>2, InductiveInvariant, PTL DEF Spec
-----------------------------------------------------------------------------
(***************************************************************************)
(* What the response clock subtracts: the sum of a log's rows.             *)
(***************************************************************************)
\* A set of numbers that is not empty has a least element: the form in which these
\* proofs use induction.
LEMMA LeastElement ==
    ASSUME NEW T \in SUBSET Nat, T # {}
    PROVE  \E n \in T : \A m \in T : n <= m
<1>1. PICK n \in T : \A m \in T : ~ (<<m, n>> \in OpToRel(<, Nat))
  BY NatLessThanWellFounded, WFMin
<1>2. \A m \in T : ~ (m < n)
  BY <1>1 DEF OpToRel
<1>. QED
  BY <1>2

LEMMA DurationType ==
    ASSUME NEW period \in Period, NEW as_of \in Instant
    PROVE  ExcludedDuration(period, as_of) \in Nat
<1>. period.start \in Nat /\ period.end \in Nat \cup {NULL} /\ as_of \in Nat
  BY DEF Period, Instant
<1>. QED
  BY DEF ExcludedDuration

\* The partial sums of the first n rows of a log.
PartialSums(total, n, log, as_of) ==
    /\ total \in [0..n -> Nat]
    /\ total[0] = 0
    /\ \A k \in 1..n : total[k] = total[k - 1] + ExcludedDuration(log[k], as_of)

LEMMA PartialSumsExist ==
    ASSUME NEW log \in Seq(Period), NEW as_of \in Instant
    PROVE  \E total : PartialSums(total, Len(log), log, as_of)
<1>. DEFINE Without == {m \in 0..Len(log) : ~ \E total : PartialSums(total, m, log, as_of)}
<1>1. SUFFICES ASSUME Without # {} PROVE FALSE
  <2>1. Len(log) \in 0..Len(log)
    OBVIOUS
  <2>. QED
    BY <2>1
<1>. HIDE DEF Without
<1>2. PICK m \in Without : \A k \in Without : m <= k
  <2>1. Without \in SUBSET Nat
    BY DEF Without
  <2>. QED
    BY <1>1, <2>1, LeastElement
<1>3. m \in 0..Len(log) /\ ~ \E total : PartialSums(total, m, log, as_of)
  BY <1>2 DEF Without
<1>4. m # 0
  <2>1. PartialSums([k \in 0..0 |-> 0], 0, log, as_of)
    BY DEF PartialSums
  <2>. QED
    BY <1>3, <2>1
<1>5. m - 1 \in 0..Len(log) /\ m - 1 \notin Without
  BY <1>2, <1>3, <1>4
<1>6. PICK old : PartialSums(old, m - 1, log, as_of)
  BY <1>5 DEF Without
<1>7. ExcludedDuration(log[m], as_of) \in Nat
  BY <1>3, <1>4, DurationType
<1>. DEFINE new == [k \in 0..m |-> IF k = m THEN old[m - 1] + ExcludedDuration(log[m], as_of)
                                   ELSE old[k]]
<1>8. new \in [0..m -> Nat]
  BY <1>3, <1>4, <1>6, <1>7 DEF PartialSums
<1>9. new[0] = 0
  BY <1>3, <1>4, <1>6 DEF PartialSums
<1>10. ASSUME NEW k \in 1..m PROVE new[k] = new[k - 1] + ExcludedDuration(log[k], as_of)
  <2>1. CASE k = m
    BY <1>3, <1>4, <2>1
  <2>2. CASE k # m
    <3>1. k \in 1..(m - 1) /\ k - 1 \in 0..m /\ k - 1 # m
      BY <1>3, <2>2
    <3>. QED
      BY <1>3, <1>6, <2>2, <3>1 DEF PartialSums
  <2>. QED
    BY <2>1, <2>2
<1>. HIDE DEF new
<1>11. PartialSums(new, m, log, as_of)
  BY <1>8, <1>9, <1>10 DEF PartialSums
<1>. QED
  BY <1>3, <1>11

\* Two lists of partial sums agree as far as the rows they add up last equally long.
LEMMA PartialSumsAgree ==
    ASSUME NEW s, NEW m \in Nat, NEW logS, NEW asOfS, PartialSums(s, m, logS, asOfS),
           NEW t, NEW n \in Nat, NEW logT, NEW asOfT, PartialSums(t, n, logT, asOfT),
           NEW k \in Nat, k <= m, k <= n,
           \A i \in 1..k : ExcludedDuration(logS[i], asOfS) = ExcludedDuration(logT[i], asOfT)
    PROVE  s[k] = t[k]
<1>. DEFINE Differ == {i \in 0..k : s[i] # t[i]}
<1>1. SUFFICES ASSUME Differ # {} PROVE FALSE
  OBVIOUS
<1>. HIDE DEF Differ
<1>2. PICK i \in Differ : \A j \in Differ : i <= j
  <2>1. Differ \in SUBSET Nat
    BY DEF Differ
  <2>. QED
    BY <1>1, <2>1, LeastElement
<1>3. i \in 0..k /\ s[i] # t[i]
  BY <1>2 DEF Differ
<1>4. i # 0
  BY <1>3 DEF PartialSums
<1>5. i - 1 \in 0..k /\ i - 1 \notin Differ
  BY <1>2, <1>3, <1>4
<1>6. s[i - 1] = t[i - 1]
  BY <1>5 DEF Differ
<1>7. i \in 1..k /\ i \in 1..m /\ i \in 1..n
  BY <1>3, <1>4
<1>8. s[i] = s[i - 1] + ExcludedDuration(logS[i], asOfS)
  BY <1>7 DEF PartialSums
<1>9. t[i] = t[i - 1] + ExcludedDuration(logT[i], asOfT)
  BY <1>7 DEF PartialSums
<1>. QED
  BY <1>3, <1>6, <1>7, <1>8, <1>9

\* What the recursive definition of Excluded computes.
LEMMA ExcludedIsTheSum ==
    ASSUME NEW log \in Seq(Period), NEW as_of \in Instant
    PROVE  \E total : /\ PartialSums(total, Len(log), log, as_of)
                      /\ Excluded(log, as_of) = total[Len(log)]
<1>. DEFINE n == Len(log)
            Body(f) == [k \in 0..n |-> IF k = 0 THEN 0
                                       ELSE f[k - 1] + ExcludedDuration(log[k], as_of)]
            chosen == CHOOSE f : f = Body(f)
<1>1. n \in Nat
  OBVIOUS
<1>2. PICK total : PartialSums(total, n, log, as_of)
  BY PartialSumsExist
<1>3. Excluded(log, as_of) = chosen[n]
  BY DEF Excluded
<1>. HIDE DEF n
<1>4. total = Body(total)
  BY <1>1, <1>2 DEF PartialSums
<1>5. chosen = Body(chosen)
  <2>. HIDE DEF Body
  <2>. QED
    BY <1>4
<1>. HIDE DEF chosen
<1>6. chosen[0] = 0 /\ \A k \in 1..n : chosen[k] = chosen[k - 1] + ExcludedDuration(log[k], as_of)
  BY <1>1, <1>5
<1>7. DOMAIN chosen = 0..n /\ chosen = [k \in 0..n |-> chosen[k]]
  BY <1>5
<1>. DEFINE Differ == {i \in 0..n : chosen[i] # total[i]}
<1>8. Differ = {}
  <2>1. SUFFICES ASSUME Differ # {} PROVE FALSE
    OBVIOUS
  <2>. HIDE DEF Differ
  <2>2. PICK i \in Differ : \A j \in Differ : i <= j
    <3>1. Differ \in SUBSET Nat
      BY <1>1 DEF Differ
    <3>. QED
      BY <2>1, <3>1, LeastElement
  <2>3. i \in 0..n /\ chosen[i] # total[i]
    BY <2>2 DEF Differ
  <2>4. i # 0
    BY <1>2, <1>6, <2>3 DEF PartialSums
  <2>5. i - 1 \in 0..n /\ i - 1 \notin Differ
    BY <1>1, <2>2, <2>3, <2>4
  <2>6. chosen[i - 1] = total[i - 1]
    BY <2>5 DEF Differ
  <2>. QED
    BY <1>1, <1>2, <1>6, <2>3, <2>4, <2>6 DEF PartialSums
<1>9. Excluded(log, as_of) = total[n]
  BY <1>1, <1>3, <1>8
<1>. QED
  BY <1>2, <1>9 DEF n

LEMMA ExcludedType ==
    ASSUME NEW log \in Seq(Period), NEW as_of \in Instant
    PROVE  Excluded(log, as_of) \in Nat
BY ExcludedIsTheSum DEF PartialSums

\* Two logs of the same length that differ in their last row at most: their sums differ
\* by what those rows differ.
LEMMA LastRowDecides ==
    ASSUME NEW logS \in Seq(Period), NEW asOfS \in Instant,
           NEW logT \in Seq(Period), NEW asOfT \in Instant,
           NEW n \in Nat, Len(logS) = n + 1, Len(logT) = n + 1,
           \A i \in 1..n : ExcludedDuration(logS[i], asOfS) = ExcludedDuration(logT[i], asOfT)
    PROVE  Excluded(logS, asOfS) - ExcludedDuration(logS[n + 1], asOfS)
             = Excluded(logT, asOfT) - ExcludedDuration(logT[n + 1], asOfT)
<1>1. PICK s : PartialSums(s, n + 1, logS, asOfS) /\ Excluded(logS, asOfS) = s[n + 1]
  BY ExcludedIsTheSum
<1>2. PICK t : PartialSums(t, n + 1, logT, asOfT) /\ Excluded(logT, asOfT) = t[n + 1]
  BY ExcludedIsTheSum
<1>3. s[n] = t[n]
  BY <1>1, <1>2, PartialSumsAgree
<1>4. /\ s[n + 1] = s[n] + ExcludedDuration(logS[n + 1], asOfS)
      /\ t[n + 1] = t[n] + ExcludedDuration(logT[n + 1], asOfT)
  <2>1. n + 1 \in 1..(n + 1) /\ (n + 1) - 1 = n
    OBVIOUS
  <2>. QED
    BY <1>1, <1>2, <2>1 DEF PartialSums
<1>5. s[n] \in Nat /\ t[n] \in Nat
  BY <1>1, <1>2 DEF PartialSums
<1>6. logS[n + 1] \in Period /\ logT[n + 1] \in Period
  OBVIOUS
<1>7. /\ ExcludedDuration(logS[n + 1], asOfS) \in Nat
      /\ ExcludedDuration(logT[n + 1], asOfT) \in Nat
  BY <1>6, DurationType
<1>. QED
  BY <1>1, <1>2, <1>3, <1>4, <1>5, <1>7

\* A log whose rows all last as long as another's has the same sum.
LEMMA SameRowsSameSum ==
    ASSUME NEW logS \in Seq(Period), NEW asOfS \in Instant,
           NEW logT \in Seq(Period), NEW asOfT \in Instant,
           Len(logS) = Len(logT),
           \A i \in DOMAIN logS :
              ExcludedDuration(logS[i], asOfS) = ExcludedDuration(logT[i], asOfT)
    PROVE  Excluded(logS, asOfS) = Excluded(logT, asOfT)
<1>. DEFINE n == Len(logS)
<1>1. PICK s : PartialSums(s, n, logS, asOfS) /\ Excluded(logS, asOfS) = s[n]
  BY ExcludedIsTheSum
<1>2. PICK t : PartialSums(t, n, logT, asOfT) /\ Excluded(logT, asOfT) = t[n]
  BY ExcludedIsTheSum
<1>3. n \in Nat /\ DOMAIN logS = 1..n
  OBVIOUS
<1>. HIDE DEF n
<1>4. s[n] = t[n]
  BY <1>1, <1>2, <1>3, PartialSumsAgree
<1>. QED
  BY <1>1, <1>2, <1>4

\* One more row adds its length.
LEMMA StartAdds ==
    ASSUME NEW log \in Seq(Period), NEW now \in Instant, NEW as_of \in Instant
    PROVE  Excluded(StartPeriod(log, now), as_of)
             = Excluded(log, as_of) + (IF as_of <= now THEN 0 ELSE as_of - now)
<1>. DEFINE n == Len(log)
            new == StartPeriod(log, now)
<1>1. /\ n \in Nat /\ DOMAIN log = 1..n
      /\ new \in Seq(Period)
      /\ Len(new) = n + 1
      /\ \A i \in 1..n : new[i] = log[i]
      /\ new[n + 1] = [start |-> now, end |-> NULL]
  <2>1. n \in Nat /\ DOMAIN log = 1..n
    OBVIOUS
  <2>2. /\ new \in Seq(Period)
        /\ Len(new) = Len(log) + 1
        /\ \A i \in DOMAIN log : new[i] = log[i]
        /\ new[Len(log) + 1] = [start |-> now, end |-> NULL]
    BY StartPeriodFacts, Zenon
  <2>. HIDE DEF new
  <2>. QED
    BY <2>1, <2>2
<1>. HIDE DEF n, new
<1>2. PICK s : PartialSums(s, n, log, as_of) /\ Excluded(log, as_of) = s[n]
  BY ExcludedIsTheSum DEF n
<1>3. PICK t : PartialSums(t, n + 1, new, as_of) /\ Excluded(new, as_of) = t[n + 1]
  BY <1>1, ExcludedIsTheSum, Zenon
<1>4. s[n] = t[n]
  <2>1. \A i \in 1..n : ExcludedDuration(log[i], as_of) = ExcludedDuration(new[i], as_of)
    BY <1>1
  <2>. QED
    BY <1>1, <1>2, <1>3, <2>1, PartialSumsAgree
<1>5. t[n + 1] = t[n] + ExcludedDuration(new[n + 1], as_of)
  <2>1. n + 1 \in 1..(n + 1) /\ (n + 1) - 1 = n
    BY <1>1
  <2>. QED
    BY <1>3, <2>1 DEF PartialSums
<1>6. ExcludedDuration(new[n + 1], as_of) = IF as_of <= now THEN 0 ELSE as_of - now
  BY <1>1 DEF ExcludedDuration
<1>7. Excluded(new, as_of) = Excluded(log, as_of) + (IF as_of <= now THEN 0 ELSE as_of - now)
  BY <1>2, <1>3, <1>4, <1>5, <1>6
<1>. QED
  BY <1>7 DEF new

\* Ending a row at a moment that has come changes no reading up to that moment: the
\* open row was clipped there.
LEMMA EndClipsAlike ==
    ASSUME NEW log \in Seq(Period), NEW row \in DOMAIN log, NEW now \in Instant,
           NEW as_of \in Instant, as_of <= now, OnlyOpenRow(log, row)
    PROVE  Excluded(EndPeriod(log, row, now), as_of) = Excluded(log, as_of)
<1>. DEFINE new == EndPeriod(log, row, now)
<1>1. /\ new \in Seq(Period)
      /\ Len(new) = Len(log)
      /\ \A i \in DOMAIN log \ {row} : new[i] = log[i]
      /\ new[row] = [start |-> log[row].start, end |-> now]
  BY EndPeriodFacts, ZenonT(30)
<1>2. log[row].end = NULL
  BY DEF OnlyOpenRow, OpenRows
<1>. HIDE DEF new
<1>3. ExcludedDuration(new[row], as_of) = ExcludedDuration(log[row], as_of)
  <2>1. now # NULL
    BY NullAssumption DEF Instant
  <2>. QED
    BY <1>1, <1>2, <2>1 DEF ExcludedDuration, Instant
<1>4. \A i \in DOMAIN log : ExcludedDuration(log[i], as_of) = ExcludedDuration(new[i], as_of)
  BY <1>1, <1>3
<1>5. Excluded(log, as_of) = Excluded(new, as_of)
  BY <1>1, <1>4, SameRowsSameSum
<1>. QED
  BY <1>5 DEF new

\* As time passes the sum of a log stands still if no row is open ...
LEMMA ShutLogStandsStill ==
    ASSUME NEW log \in Seq(Period), NEW now \in Instant, NEW later \in Instant,
           now <= later, Past(log, now), OpenRows(log) = {}
    PROVE  Excluded(log, later) = Excluded(log, now)
<1>1. ASSUME NEW i \in DOMAIN log
      PROVE  ExcludedDuration(log[i], now) = ExcludedDuration(log[i], later)
  <2>1. log[i] \in Period
    OBVIOUS
  <2>2. log[i].end # NULL
    BY DEF OpenRows
  <2>3. log[i].end \in Nat /\ log[i].end <= now
    BY <2>1, <2>2 DEF Past, Period, Instant
  <2>. QED
    BY <2>1, <2>2, <2>3 DEF ExcludedDuration, Period, Instant
<1>. QED
  BY <1>1, SameRowsSameSum

\* ... and grows with it if the last one is.
LEMMA OpenLogGrows ==
    ASSUME NEW log \in Seq(Period), NEW now \in Instant, NEW later \in Instant,
           now <= later, Past(log, now), OpenRows(log) = {Len(log)}
    PROVE  Excluded(log, later) = Excluded(log, now) + (later - now)
<1>. DEFINE n == Len(log) - 1
<1>1. Len(log) \in DOMAIN log
  BY DEF OpenRows
<1>2. n \in Nat /\ Len(log) = n + 1 /\ DOMAIN log = 1..(n + 1)
  BY <1>1
<1>. HIDE DEF n
<1>3. ASSUME NEW i \in 1..n
      PROVE  ExcludedDuration(log[i], now) = ExcludedDuration(log[i], later)
  <2>1. i \in DOMAIN log /\ i # Len(log) /\ log[i] \in Period
    BY <1>2
  <2>2. log[i].end # NULL
    BY <2>1 DEF OpenRows
  <2>3. log[i].end \in Nat /\ log[i].end <= now
    BY <2>1, <2>2 DEF Past, Period, Instant
  <2>. QED
    BY <2>1, <2>2, <2>3 DEF ExcludedDuration, Period, Instant
<1>4. /\ log[n + 1].end = NULL
      /\ log[n + 1].start \in Nat
      /\ log[n + 1].start <= now
  <2>1. n + 1 \in DOMAIN log /\ log[n + 1] \in Period
    BY <1>2
  <2>. QED
    BY <1>2, <2>1 DEF OpenRows, Past, Period, Instant
<1>5. /\ ExcludedDuration(log[n + 1], now) = now - log[n + 1].start
      /\ ExcludedDuration(log[n + 1], later) = later - log[n + 1].start
  BY <1>4 DEF ExcludedDuration, Instant
<1>6. Excluded(log, now) - ExcludedDuration(log[n + 1], now)
        = Excluded(log, later) - ExcludedDuration(log[n + 1], later)
  BY <1>2, <1>3, LastRowDecides
<1>7. Excluded(log, now) \in Nat /\ Excluded(log, later) \in Nat
  BY ExcludedType
<1>8. Excluded(log, now) - (now - log[n + 1].start)
        = Excluded(log, later) - (later - log[n + 1].start)
  BY <1>5, <1>6
<1>. DEFINE started == log[n + 1].start
<1>9. now \in Nat /\ later \in Nat /\ started \in Nat
  BY <1>4 DEF Instant
<1>. HIDE DEF started
<1>. QED
  BY <1>7, <1>8, <1>9 DEF started
-----------------------------------------------------------------------------
(***************************************************************************)
(* What the clock read.                                                    *)
(***************************************************************************)
LEMMA ReadingsKept ==
    ASSUME IInv, [Next]_vars, NEW as_of \in Instant, as_of <= clock
    PROVE  /\ Excluded(pending_periods', as_of) = Excluded(pending_periods, as_of)
           /\ Excluded(closed_periods', as_of) = Excluded(closed_periods, as_of)
           /\ Excluded(resolved_periods', as_of) = Excluded(resolved_periods, as_of)
<1>1. /\ TypeOK /\ OpenPeriodsMatchStatus
      /\ clock \in Instant
      /\ pending_periods \in Seq(Period)
      /\ closed_periods \in Seq(Period)
      /\ resolved_periods \in Seq(Period)
  BY DEF IInv, TypeOK
<1>2. ASSUME NEW log \in Seq(Period), NEW newlog, Starts(log, newlog)
      PROVE  Excluded(newlog, as_of) = Excluded(log, as_of)
  <2>1. Excluded(newlog, as_of) = Excluded(log, as_of) + 0
    BY <1>1, <1>2, StartAdds DEF Starts
  <2>2. Excluded(log, as_of) \in Nat
    BY ExcludedType
  <2>. QED
    BY <2>1, <2>2
<1>3. ASSUME NEW log \in Seq(Period), NEW newlog, Ends(log, newlog)
      PROVE  Excluded(newlog, as_of) = Excluded(log, as_of)
  BY <1>1, <1>3, EndClipsAlike DEF Ends
<1>4. \/ UNCHANGED pending_periods
      \/ Starts(pending_periods, pending_periods') \/ Ends(pending_periods, pending_periods')
  BY <1>1, LogStep DEF periods
<1>5. \/ UNCHANGED closed_periods
      \/ Starts(closed_periods, closed_periods') \/ Ends(closed_periods, closed_periods')
  BY <1>1, LogStep DEF periods
<1>6. \/ UNCHANGED resolved_periods
      \/ Starts(resolved_periods, resolved_periods') \/ Ends(resolved_periods, resolved_periods')
  BY <1>1, LogStep DEF periods
<1>. QED
  BY <1>1, <1>2, <1>3, <1>4, <1>5, <1>6

\* A reading of the response clock at a moment that has passed is never changed.
THEOREM PastReadingsStand == Spec => ReadingsAreFinal
<1>1. IInv /\ [Next]_vars
        => [\A as_of \in CreatedAt..clock : ElapsedAt(as_of)' = ElapsedAt(as_of)]_vars
  <2>. SUFFICES ASSUME IInv, [Next]_vars, NEW as_of \in CreatedAt..clock
                PROVE  ElapsedAt(as_of)' = ElapsedAt(as_of)
    OBVIOUS
  <2>1. as_of \in Instant /\ as_of <= clock
    BY DEF IInv, TypeOK, CreatedAt, Instant
  <2>. QED
    BY <2>1, ReadingsKept DEF ElapsedAt, ElapsedResponseTime, CreatedAt
<1>. QED
  BY <1>1, InductiveInvariant, PTL DEF Spec, ReadingsAreFinal
-----------------------------------------------------------------------------
(***************************************************************************)
(* The refinement of the stopwatch.                                        *)
(***************************************************************************)
\* What ElapsedResponseTime computes before it rounds a negative total up to zero.
Raw(now) == (now - CreatedAt) - Excluded(pending_periods, now)
              - Excluded(closed_periods, now) - Excluded(resolved_periods, now)

\* It never has to: the excluded stretches fit between creation and now.
NeverNegative == Raw(clock) >= 0

LEMMA RawIsElapsed ==
    ASSUME IInv, NeverNegative
    PROVE  ElapsedAt(clock) = Raw(clock) /\ Raw(clock) \in Nat
<1>1. /\ clock \in Nat
      /\ Excluded(pending_periods, clock) \in Nat
      /\ Excluded(closed_periods, clock) \in Nat
      /\ Excluded(resolved_periods, clock) \in Nat
  BY ExcludedType DEF IInv, TypeOK, Instant
<1>. QED
  BY <1>1 DEF NeverNegative, Raw, ElapsedAt, ElapsedResponseTime, CreatedAt

\* A tick adds to the total if the clock runs, and to exactly one log otherwise.
LEMMA RawTick ==
    ASSUME IInv, Tick
    PROVE  Raw(clock)' = IF ClockRuns(status) THEN Raw(clock) + (clock' - clock) ELSE Raw(clock)
<1>1. /\ clock \in Instant /\ clock' \in Instant /\ clock <= clock'
      /\ status \in TicketStatus
      /\ pending_periods \in Seq(Period) /\ Past(pending_periods, clock)
      /\ closed_periods \in Seq(Period) /\ Past(closed_periods, clock)
      /\ resolved_periods \in Seq(Period) /\ Past(resolved_periods, clock)
  <2>1. clock \in Nat /\ MaxTime \in Nat
    BY LifecycleAssumption DEF IInv, TypeOK, Instant
  <2>2. clock' \in (clock + 1)..MaxTime
    BY DEF Tick
  <2>. QED
    BY <2>1, <2>2 DEF IInv, TypeOK, PeriodsInThePast, Instant
<1>2. /\ OpenRows(pending_periods) = IF status = "pending" THEN {Len(pending_periods)} ELSE {}
      /\ OpenRows(closed_periods) = IF status = "closed" THEN {Len(closed_periods)} ELSE {}
      /\ OpenRows(resolved_periods) = IF status = "resolved" THEN {Len(resolved_periods)} ELSE {}
  BY DEF IInv, OpenPeriodsMatchStatus, OpenRowIffStatus
<1>3. ASSUME NEW log \in Seq(Period), Past(log, clock), NEW s,
             OpenRows(log) = IF status = s THEN {Len(log)} ELSE {}
      PROVE  /\ Excluded(log, clock) \in Nat
             /\ Excluded(log, clock') = Excluded(log, clock) + (IF status = s THEN clock' - clock ELSE 0)
  <2>1. Excluded(log, clock) \in Nat
    BY <1>1, ExcludedType
  <2>2. CASE status = s
    BY <1>1, <1>3, <2>1, <2>2, OpenLogGrows
  <2>3. CASE status # s
    BY <1>1, <1>3, <2>1, <2>3, ShutLogStandsStill
  <2>. QED
    BY <2>1, <2>2, <2>3
<1>4. /\ Excluded(pending_periods, clock) \in Nat
      /\ Excluded(pending_periods, clock')
           = Excluded(pending_periods, clock) + (IF status = "pending" THEN clock' - clock ELSE 0)
  BY <1>1, <1>2, <1>3
<1>5. /\ Excluded(closed_periods, clock) \in Nat
      /\ Excluded(closed_periods, clock')
           = Excluded(closed_periods, clock) + (IF status = "closed" THEN clock' - clock ELSE 0)
  BY <1>1, <1>2, <1>3
<1>6. /\ Excluded(resolved_periods, clock) \in Nat
      /\ Excluded(resolved_periods, clock')
           = Excluded(resolved_periods, clock) + (IF status = "resolved" THEN clock' - clock ELSE 0)
  BY <1>1, <1>2, <1>3
<1>7. Raw(clock)' = clock' - Excluded(pending_periods, clock')
                       - Excluded(closed_periods, clock') - Excluded(resolved_periods, clock')
  BY <1>1 DEF Raw, CreatedAt, Tick, periods, Instant
<1>8. Raw(clock) = clock - Excluded(pending_periods, clock)
                       - Excluded(closed_periods, clock) - Excluded(resolved_periods, clock)
  BY <1>1 DEF Raw, CreatedAt, Instant
<1>. QED
  BY <1>1, <1>4, <1>5, <1>6, <1>7, <1>8 DEF ClockRuns, TicketStatus, Instant

\* A move leaves the total alone.
LEMMA RawMove ==
    ASSUME IInv, [Next]_vars, UNCHANGED clock
    PROVE  Raw(clock)' = Raw(clock)
<1>1. clock \in Instant /\ clock <= clock
  BY DEF IInv, TypeOK, Instant
<1>. QED
  BY <1>1, ReadingsKept DEF Raw, CreatedAt

LEMMA NeverNegativeStep == IInv /\ NeverNegative /\ [Next]_vars => NeverNegative'
<1>. SUFFICES ASSUME IInv, NeverNegative, [Next]_vars PROVE NeverNegative'
  OBVIOUS
<1>1. Raw(clock) \in Nat
  BY RawIsElapsed
<1>2. CASE Tick
  <2>1. clock \in Nat /\ clock' \in (clock + 1)..MaxTime /\ MaxTime \in Nat
    BY <1>2, LifecycleAssumption DEF Tick, IInv, TypeOK, Instant
  <2>2. Raw(clock)' >= 0
    BY <1>1, <1>2, <2>1, RawTick
  <2>. QED
    BY <2>2 DEF NeverNegative
<1>3. CASE UNCHANGED clock
  <2>1. Raw(clock)' >= 0
    BY <1>1, <1>3, RawMove
  <2>. QED
    BY <2>1 DEF NeverNegative
<1>4. Tick \/ UNCHANGED clock
  BY DEF Next, StatusRequest, Open, Hold, Resume, Resolve, Close, Reopen, Transition, vars
<1>. QED
  BY <1>2, <1>3, <1>4

\* The clock never runs backwards.
LEMMA ElapsedNeverFalls ==
    ASSUME IInv, NeverNegative, IInv', NeverNegative', [Next]_vars
    PROVE  /\ ElapsedAt(clock) \in Nat /\ ElapsedAt(clock)' \in Nat
           /\ ElapsedAt(clock) <= ElapsedAt(clock)'
<1>1. ElapsedAt(clock) = Raw(clock) /\ Raw(clock) \in Nat
  BY RawIsElapsed
<1>2. (IInv /\ NeverNegative => ElapsedAt(clock) = Raw(clock) /\ Raw(clock) \in Nat)'
  BY RawIsElapsed, PTL
<1>3. ElapsedAt(clock)' = Raw(clock)' /\ Raw(clock)' \in Nat
  BY <1>2
<1>4. CASE Tick
  <2>1. clock \in Nat /\ clock' \in Nat /\ clock < clock'
    BY <1>4, LifecycleAssumption DEF Tick, IInv, TypeOK, Instant
  <2>. QED
    BY <1>1, <1>3, <1>4, <2>1, RawTick
<1>5. CASE UNCHANGED clock
  BY <1>1, <1>3, <1>5, RawMove
<1>6. Tick \/ UNCHANGED clock
  BY DEF Next, StatusRequest, Open, Hold, Resume, Resolve, Close, Reopen, Transition, vars
<1>. QED
  BY <1>4, <1>5, <1>6

\* The sums start at nothing.
LEMMA NothingExcludedAtFirst == Excluded(<<>>, CreatedAt) = 0
<1>1. <<>> \in Seq(Period) /\ CreatedAt \in Instant /\ Len(<<>>) = 0
  BY DEF CreatedAt, Instant
<1>2. PICK total : PartialSums(total, 0, <<>>, CreatedAt) /\ Excluded(<<>>, CreatedAt) = total[0]
  BY <1>1, ExcludedIsTheSum
<1>. QED
  BY <1>2 DEF PartialSums

\* The total is never rounded up.
LEMMA TotalNeverNegative == Spec => []NeverNegative
<1>1. Init => NeverNegative
  <2>. SUFFICES ASSUME Init PROVE NeverNegative
    OBVIOUS
  <2>1. /\ clock = 0
        /\ Excluded(pending_periods, clock) = 0
        /\ Excluded(closed_periods, clock) = 0
        /\ Excluded(resolved_periods, clock) = 0
    BY NothingExcludedAtFirst DEF Init, CreatedAt
  <2>. QED
    BY <2>1 DEF NeverNegative, Raw, CreatedAt
<1>. QED
  BY <1>1, NeverNegativeStep, InductiveInvariant, PTL DEF Spec

\* The response clock is the stopwatch of ResponseClock: every step of the ticket is a
\* step of it or leaves it alone.
THEOREM ClockIsAStopwatch == Spec => ImplementsStopwatch
<1>1. Init => Stopwatch!Init
  <2>. SUFFICES ASSUME Init PROVE Stopwatch!Init
    OBVIOUS
  <2>1. /\ clock = 0 /\ ClockRuns(status) = TRUE
        /\ Excluded(pending_periods, clock) = 0
        /\ Excluded(closed_periods, clock) = 0
        /\ Excluded(resolved_periods, clock) = 0
    BY NothingExcludedAtFirst DEF Init, ClockRuns, CreatedAt
  <2>2. ElapsedAt(clock) = 0
    BY <2>1 DEF ElapsedAt, ElapsedResponseTime, CreatedAt
  <2>. QED
    BY <2>1, <2>2 DEF Stopwatch!Init
<1>2. IInv /\ NeverNegative /\ NeverNegative' /\ IInv' /\ [Next]_vars
        => [Stopwatch!Next]_<<clock, ElapsedAt(clock), ClockRuns(status)>>
  <2>. SUFFICES ASSUME IInv, NeverNegative, NeverNegative', IInv', [Next]_vars
                PROVE  [Stopwatch!Next]_<<clock, ElapsedAt(clock), ClockRuns(status)>>
    OBVIOUS
  <2>1. /\ ElapsedAt(clock) = Raw(clock) /\ Raw(clock) \in Nat
        /\ ElapsedAt(clock)' = Raw(clock)'
    <3>1. ElapsedAt(clock) = Raw(clock) /\ Raw(clock) \in Nat
      BY RawIsElapsed
    <3>2. (IInv /\ NeverNegative => ElapsedAt(clock) = Raw(clock))'
      BY RawIsElapsed, PTL
    <3>. QED
      BY <3>1, <3>2
  <2>2. CASE Tick
    <3>1. clock' \in Nat /\ clock' > clock
      BY <2>2, LifecycleAssumption DEF Tick, IInv, TypeOK, Instant
    <3>2. ElapsedAt(clock)' = IF ClockRuns(status) THEN ElapsedAt(clock) + (clock' - clock)
                              ELSE ElapsedAt(clock)
      BY <2>1, <2>2, RawTick
    <3>3. ClockRuns(status)' = ClockRuns(status)
      BY <2>2 DEF Tick, ClockRuns
    <3>4. Stopwatch!Pass
      BY <3>1, <3>2, <3>3 DEF Stopwatch!Pass
    <3>. QED
      BY <3>4 DEF Stopwatch!Next
  <2>3. CASE UNCHANGED clock
    <3>1. ElapsedAt(clock)' = ElapsedAt(clock)
      BY <2>1, <2>3, RawMove
    <3>2. ClockRuns(status) \in BOOLEAN /\ ClockRuns(status)' \in BOOLEAN
      BY DEF ClockRuns
    <3>3. ClockRuns(status)' = ClockRuns(status) \/ ClockRuns(status)' = ~ ClockRuns(status)
      BY <3>2
    <3>. QED
      BY <2>3, <3>1, <3>3 DEF Stopwatch!Next, Stopwatch!StartOrStop
  <2>. QED
    BY <2>2, <2>3 DEF Next, StatusRequest, Open, Hold, Resume, Resolve, Close, Reopen,
                      Transition, vars
<1>. QED
  BY <1>1, <1>2, TotalNeverNegative, InductiveInvariant, PTL
     DEF Spec, ImplementsStopwatch, Stopwatch!Spec
=============================================================================
