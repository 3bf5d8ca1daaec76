---------------------- MODULE LifecycleRequests_proofs ----------------------
(***************************************************************************)
(* Proofs about the status requests of a ticket, for any number of workers *)
(* and any interleaving of their statements: what no race can break, and   *)
(* what holds until two requests have overlapped.                          *)
(***************************************************************************)
EXTENDS LifecycleRequests, FiniteSetTheorems, TLAPS

(***************************************************************************)
(* What a commit does to one period log, whatever the request had read.    *)
(***************************************************************************)
\* An open row that is inserted comes after the others and leaves them alone.
LEMMA StartPeriodFacts ==
    ASSUME NEW log \in Seq(Period), NEW now \in Instant
    PROVE  /\ StartPeriod(log, now) \in Seq(Period)
           /\ Len(StartPeriod(log, now)) = Len(log) + 1
           /\ DOMAIN StartPeriod(log, now) = DOMAIN log \cup {Len(log) + 1}
           /\ \A i \in DOMAIN log : StartPeriod(log, now)[i] = log[i]
           /\ StartPeriod(log, now)[Len(log) + 1] = [start |-> now, end |-> NULL]
<1>1. [start |-> now, end |-> NULL] \in Period
  BY DEF Period
<1>. QED
  BY <1>1 DEF StartPeriod

\* A row that is dated keeps its start; the others are left alone.
LEMMA EndPeriodFacts ==
    ASSUME NEW log \in Seq(Period), NEW row \in DOMAIN log, NEW now \in Instant
    PROVE  /\ EndPeriod(log, row, now) \in Seq(Period)
           /\ Len(EndPeriod(log, row, now)) = Len(log)
           /\ DOMAIN EndPeriod(log, row, now) = DOMAIN log
           /\ \A i \in DOMAIN log \ {row} : EndPeriod(log, row, now)[i] = log[i]
           /\ EndPeriod(log, row, now)[row] = [start |-> log[row].start, end |-> now]
<1>1. log[row] \in Period
  OBVIOUS
<1>2. [log[row] EXCEPT !.end = now] = [start |-> log[row].start, end |-> now]
  BY <1>1 DEF Period
<1>3. [start |-> log[row].start, end |-> now] \in Period
  BY <1>1 DEF Period
<1>. QED
  BY <1>1, <1>2, <1>3 DEF EndPeriod

\* The row a commit of request r writes into the log of status s, if it writes one.
Fits(s, log, r) ==
    /\ r.now \in Instant
    /\ r.new_status # r.current
    /\ r.current = s => r.row \in DOMAIN log

LEMMA LogAfterCases ==
    ASSUME NEW s, NEW log, NEW r, Fits(s, log, r)
    PROVE  /\ r.new_status = s => LogAfter(s, log, r) = StartPeriod(log, r.now)
           /\ r.current = s => LogAfter(s, log, r) = EndPeriod(log, r.row, r.now)
           /\ r.new_status # s /\ r.current # s => LogAfter(s, log, r) = log
BY DEF Fits, LogAfter

\* Whatever the request had read, its commit never loses a row, never moves the start
\* of one and never opens an ended one again.
LEMMA LogAfterFacts ==
    ASSUME NEW s, NEW log \in Seq(Period), NEW r, Fits(s, log, r)
    PROVE  /\ LogAfter(s, log, r) \in Seq(Period)
           /\ r.new_status = s => Len(LogAfter(s, log, r)) = Len(log) + 1
           /\ r.new_status # s => Len(LogAfter(s, log, r)) = Len(log)
           /\ DOMAIN log \subseteq DOMAIN LogAfter(s, log, r)
           /\ \A i \in DOMAIN log :
                /\ LogAfter(s, log, r)[i].start = log[i].start
                /\ log[i].end # NULL => LogAfter(s, log, r)[i].end # NULL
<1>. DEFINE new == LogAfter(s, log, r)
<1>0. r.now \in Instant /\ r.now # NULL
  BY NullAssumption DEF Fits, Instant
<1>1. CASE r.new_status = s
  <2>0. new = StartPeriod(log, r.now)
    BY <1>1, LogAfterCases
  <2>. HIDE DEF new
  <2>1. /\ new \in Seq(Period)
        /\ Len(new) = Len(log) + 1
        /\ DOMAIN new = DOMAIN log \cup {Len(log) + 1}
        /\ \A i \in DOMAIN log : new[i] = log[i]
    BY <1>0, <2>0, StartPeriodFacts
  <2>. QED
    BY <1>1, <2>1 DEF new
<1>2. CASE r.current = s
  <2>0. r.row \in DOMAIN log /\ r.new_status # s
    BY <1>2 DEF Fits
  <2>a. new = EndPeriod(log, r.row, r.now)
    BY <1>2, LogAfterCases
  <2>. HIDE DEF new
  <2>1. /\ new \in Seq(Period)
        /\ Len(new) = Len(log)
        /\ DOMAIN new = DOMAIN log
        /\ \A i \in DOMAIN log \ {r.row} : new[i] = log[i]
        /\ new[r.row] = [start |-> log[r.row].start, end |-> r.now]
    BY <1>0, <2>0, <2>a, EndPeriodFacts
  <2>3. \A i \in DOMAIN log : new[i].start = log[i].start /\ (log[i].end # NULL => new[i].end # NULL)
    BY <1>0, <2>1
  <2>. QED
    BY <2>0, <2>1, <2>3 DEF new
<1>3. CASE r.new_status # s /\ r.current # s
  <2>1. new = log
    BY <1>3 DEF LogAfter
  <2>. HIDE DEF new
  <2>2. /\ new \in Seq(Period) /\ Len(new) = Len(log) /\ DOMAIN log \subseteq DOMAIN new
        /\ \A i \in DOMAIN log :
             new[i].start = log[i].start /\ (log[i].end # NULL => new[i].end # NULL)
    BY <2>1
  <2>. QED
    BY <1>3, <2>2 DEF new
<1>. QED
  BY <1>1, <1>2, <1>3
-----------------------------------------------------------------------------
(***************************************************************************)
(* Type correctness, and what a request has to show for itself at each of  *)
(* its statements.                                                         *)
(***************************************************************************)
\* The fields that are filled in at each statement, and what was checked about them.
Ready(r) ==
    /\ r.pc \in {"load", "authorize", "select", "commit"} =>
         r.new_status \in TicketStatus /\ r.began \in Instant
    /\ r.pc \in {"authorize", "select", "commit"} => r.current \in TicketStatus
    /\ r.pc \in {"select", "commit"} =>
         r.now \in Instant /\ r.new_status \in AllowedTransitions[r.current]
    /\ r.pc = "select" => r.current \in Logged

\* A request about to commit holds a row of the log its move leaves; for a reopen, one
\* within the window.
HoldsRow(r) ==
    r.pc = "commit" /\ r.current \in Logged =>
        /\ r.row \in DOMAIN PeriodsOf(r.current)
        /\ r.current = "closed" => WithinWindow(closed_periods[r.row].start, r.now)

IInv == TypeOK /\ \A w \in Workers : Ready(req[w]) /\ HoldsRow(req[w])

LEMMA PeriodsOfType ==
    ASSUME TypeOK, NEW s \in Logged
    PROVE  PeriodsOf(s) \in Seq(Period)
BY DEF TypeOK, Logged, PeriodsOf

LEMMA PeriodsOfIs ==
    /\ PeriodsOf("pending") = pending_periods
    /\ PeriodsOf("closed") = closed_periods
    /\ PeriodsOf("resolved") = resolved_periods
BY DEF PeriodsOf

\* No move of the table leads from a status to itself.
LEMMA NoSelfMove ==
    ASSUME NEW s \in TicketStatus
    PROVE  s \notin AllowedTransitions[s] /\ AllowedTransitions[s] \subseteq TicketStatus
BY DEF TicketStatus, AllowedTransitions

\* What a commit finds in its request and does to each of the three logs.
LEMMA CommitFacts ==
    ASSUME IInv, NEW w \in Workers, Commit(w)
    PROVE  /\ req[w] \in Request /\ req[w].pc = "commit"
           /\ req[w].now \in Instant /\ req[w].began \in Instant
           /\ req[w].current \in TicketStatus /\ req[w].new_status \in TicketStatus
           /\ req[w].new_status # req[w].current
           /\ \A s \in Logged :
                /\ Fits(s, PeriodsOf(s), req[w])
                /\ PeriodsOf(s)' = LogAfter(s, PeriodsOf(s), req[w])
<1>1. /\ req[w] \in Request /\ req[w].pc = "commit"
      /\ Ready(req[w]) /\ HoldsRow(req[w])
  BY DEF IInv, TypeOK, Commit
<1>2. /\ req[w].now \in Instant /\ req[w].began \in Instant
      /\ req[w].current \in TicketStatus /\ req[w].new_status \in TicketStatus
      /\ req[w].new_status \in AllowedTransitions[req[w].current]
  BY <1>1 DEF Ready
<1>3. req[w].new_status # req[w].current
  BY <1>2, NoSelfMove
<1>4. ASSUME NEW s \in Logged PROVE Fits(s, PeriodsOf(s), req[w])
  BY <1>1, <1>2, <1>3 DEF Fits, HoldsRow
<1>5. ASSUME NEW s \in Logged PROVE PeriodsOf(s)' = LogAfter(s, PeriodsOf(s), req[w])
  BY DEF Commit, PeriodsOf, Logged
<1>. QED
  BY <1>1, <1>2, <1>3, <1>4, <1>5

\* A step other than a commit writes no table.
LEMMA OnlyCommitWrites ==
    ASSUME [Next]_vars
    PROVE  \/ UNCHANGED tables
           \/ \E w \in Workers : Commit(w)
BY Zenon DEF Next, Serve, Tick, Begin, Load, Authorize, Select, Respond, vars, tables, periods
-----------------------------------------------------------------------------
\* What a statement that writes no table leaves in its request is as it should be.
LEMMA RequestStep ==
    ASSUME IInv, NEW w \in Workers,
           \/ \E actor \in Users, new_status \in TicketStatus : Begin(w, actor, new_status)
           \/ Load(w) \/ Authorize(w) \/ Select(w) \/ Respond(w)
    PROVE  /\ clock' = clock
           /\ \E v \in Request : Ready(v) /\ HoldsRow(v) /\ req' = [req EXCEPT ![w] = v]
<1>. DEFINE r == req[w]
<1>0. /\ req \in [Workers -> Request] /\ r \in Request
      /\ Ready(r) /\ HoldsRow(r) /\ clock \in Instant /\ status \in TicketStatus
  BY DEF IInv, TypeOK
<1>1. NoRequest \in Request /\ Ready(NoRequest) /\ HoldsRow(NoRequest)
  BY DEF NoRequest, Request, Steps, Answers, Ready, HoldsRow
<1>2. ASSUME NEW v \in Request, NEW answer \in Answers
      PROVE  /\ Answered(v, answer) \in Request
             /\ Ready(Answered(v, answer)) /\ HoldsRow(Answered(v, answer))
  <2>1. Answered(v, answer) \in Request /\ Answered(v, answer).pc = "respond"
    BY DEF Answered, Request, Steps
  <2>. QED
    BY <2>1 DEF Ready, HoldsRow
<1>3. ASSUME NEW actor \in Users, NEW new_status \in TicketStatus, Begin(w, actor, new_status)
      PROVE  /\ clock' = clock
             /\ \E v \in Request : Ready(v) /\ HoldsRow(v) /\ req' = [req EXCEPT ![w] = v]
  <2>. DEFINE v == [NoRequest EXCEPT !.pc = "load", !.actor = actor,
                                     !.new_status = new_status, !.began = clock]
  <2>1. v \in Request
    BY <1>0, <1>1 DEF Request, Steps
  <2>2. v.pc = "load" /\ v.new_status = new_status /\ v.began = clock
    BY DEF NoRequest
  <2>3. req' = [req EXCEPT ![w] = v] /\ clock' = clock
    BY <1>3 DEF Begin
  <2>. HIDE DEF v
  <2>4. Ready(v) /\ HoldsRow(v)
    BY <1>0, <2>2 DEF Ready, HoldsRow
  <2>. QED
    BY <2>1, <2>3, <2>4
<1>4. CASE Load(w)
  <2>. DEFINE v == [r EXCEPT !.pc = "authorize", !.current = status]
  <2>1. v \in Request
    BY <1>0 DEF Request, Steps
  <2>2. /\ v.pc = "authorize" /\ v.current = status
        /\ v.new_status = r.new_status /\ v.began = r.began
    BY <1>0 DEF Request
  <2>3. req' = [req EXCEPT ![w] = v] /\ clock' = clock /\ r.pc = "load"
    BY <1>0, <1>4 DEF Load
  <2>. HIDE DEF v
  <2>4. Ready(v) /\ HoldsRow(v)
    BY <1>0, <2>2, <2>3 DEF Ready, HoldsRow
  <2>. QED
    BY <2>1, <2>3, <2>4
<1>5. CASE Authorize(w)
  <2>. DEFINE u == [r EXCEPT !.now = clock]
              v == [u EXCEPT !.pc = IF u.current \in Logged THEN "select" ELSE "commit"]
  <2>1. u \in Request /\ v \in Request
    BY <1>0 DEF Request, Steps
  <2>2. /\ u.current = r.current /\ u.new_status = r.new_status /\ u.began = r.began
        /\ u.now = clock /\ u.pc = r.pc
        /\ v.current = r.current /\ v.new_status = r.new_status /\ v.began = r.began
        /\ v.now = clock /\ v.pc = IF r.current \in Logged THEN "select" ELSE "commit"
    BY <1>0 DEF Request
  <2>3. /\ req' = [req EXCEPT ![w] = IF Refusal(u) # "none" THEN Answered(u, Refusal(u)) ELSE v]
        /\ clock' = clock /\ r.pc = "authorize"
    BY <1>0, <1>5 DEF Authorize, Request
  <2>. HIDE DEF u, v
  <2>4. Refusal(u) \in Answers
    BY DEF Refusal, Answers
  <2>5. CASE Refusal(u) # "none"
    BY <1>2, <2>1, <2>3, <2>4, <2>5
  <2>6. CASE Refusal(u) = "none"
    <3>1. u.new_status \in AllowedTransitions[u.current]
      BY <2>6 DEF Refusal
    <3>2. Ready(v) /\ HoldsRow(v)
      BY <1>0, <2>2, <2>3, <3>1, SMTT(20) DEF Ready, HoldsRow
    <3>. QED
      BY <2>1, <2>3, <2>6, <3>2
  <2>. QED
    BY <2>5, <2>6
<1>6. CASE Select(w)
  <2>. DEFINE log == PeriodsOf(r.current)
  <2>0. clock' = clock /\ r.pc = "select" /\ "500" \in Answers /\ "409" \in Answers
    BY <1>6 DEF Select, Answers
  <2>1. CASE req' = [req EXCEPT ![w] = Answered(r, "500")]
    BY <1>0, <1>2, <2>0, <2>1
  <2>2. CASE \E row \in DOMAIN log :
               req' = [req EXCEPT ![w] =
                 IF r.current = "closed" /\ ~ WithinWindow(log[row].start, r.now)
                 THEN Answered(r, "409")
                 ELSE [r EXCEPT !.pc = "commit", !.row = row]]
    <3>1. PICK row \in DOMAIN log :
               req' = [req EXCEPT ![w] =
                 IF r.current = "closed" /\ ~ WithinWindow(log[row].start, r.now)
                 THEN Answered(r, "409")
                 ELSE [r EXCEPT !.pc = "commit", !.row = row]]
      BY <2>2
    <3>2. CASE r.current = "closed" /\ ~ WithinWindow(log[row].start, r.now)
      BY <1>0, <1>2, <2>0, <3>1, <3>2
    <3>3. CASE ~ (r.current = "closed" /\ ~ WithinWindow(log[row].start, r.now))
      <4>. DEFINE v == [r EXCEPT !.pc = "commit", !.row = row]
      <4>1. row \in Nat
        <5>1. r.current \in Logged
          BY <1>0, <2>0 DEF Ready
        <5>2. log \in Seq(Period)
          BY <5>1, PeriodsOfType DEF IInv
        <5>. QED
          BY <5>2
      <4>2. v \in Request
        BY <1>0, <4>1 DEF Request, Steps
      <4>3. /\ v.pc = "commit" /\ v.current = r.current /\ v.now = r.now /\ v.began = r.began
            /\ v.new_status = r.new_status /\ v.row = row
        BY <1>0 DEF Request
      <4>4. req' = [req EXCEPT ![w] = v]
        BY <3>1, <3>3
      <4>. HIDE DEF v
      <4>5. Ready(v)
        BY <1>0, <2>0, <4>3 DEF Ready
      <4>6. HoldsRow(v)
        BY <3>3, <4>3, PeriodsOfIs DEF HoldsRow
      <4>. QED
        BY <2>0, <4>2, <4>4, <4>5, <4>6
    <3>. QED
      BY <3>2, <3>3
  <2>. QED
    BY <1>6, <2>1, <2>2 DEF Select
<1>7. CASE Respond(w)
  BY <1>1, <1>7 DEF Respond
<1>. QED
  BY <1>3, <1>4, <1>5, <1>6, <1>7

\* Every step is the clock's, a commit, a stutter or one of those statements.
LEMMA StepKinds ==
    ASSUME IInv, [Next]_vars
    PROVE  \/ UNCHANGED <<tables, req>> /\ (clock' = clock \/ clock' = clock + 1)
           \/ /\ UNCHANGED <<clock, tables>>
              /\ \E w \in Workers, v \in Request :
                   Ready(v) /\ HoldsRow(v) /\ req' = [req EXCEPT ![w] = v]
           \/ \E w \in Workers : Commit(w)
<1>1. CASE Tick \/ UNCHANGED vars
  BY <1>1 DEF Tick, vars
<1>2. ASSUME NEW w \in Workers,
             \/ \E actor \in Users, new_status \in TicketStatus : Begin(w, actor, new_status)
             \/ Load(w) \/ Authorize(w) \/ Select(w) \/ Respond(w)
      PROVE  /\ UNCHANGED <<clock, tables>>
             /\ \E v \in Request : Ready(v) /\ HoldsRow(v) /\ req' = [req EXCEPT ![w] = v]
  <2>1. UNCHANGED tables
    BY <1>2 DEF Begin, Load, Authorize, Select, Respond
  <2>. QED
    BY <1>2, <2>1, RequestStep
<1>. QED
  BY <1>1, <1>2 DEF Next, Serve

LEMMA TypeStep == IInv /\ [Next]_vars => TypeOK'
<1>. SUFFICES ASSUME IInv, [Next]_vars PROVE TypeOK'
  OBVIOUS
<1>0. overlapped' \in BOOLEAN
  BY DEF IInv, TypeOK, Next, Serve, Tick, Begin, Load, Authorize, Select, Commit, Respond, vars
<1>1. CASE UNCHANGED <<tables, req>> /\ (clock' = clock \/ clock' = clock + 1)
  BY <1>0, <1>1 DEF IInv, TypeOK, tables, periods, Instant
<1>2. CASE /\ UNCHANGED <<clock, tables>>
           /\ \E w \in Workers, v \in Request : req' = [req EXCEPT ![w] = v]
  BY <1>0, <1>2 DEF IInv, TypeOK, tables, periods
<1>3. ASSUME NEW w \in Workers, Commit(w) PROVE TypeOK'
  <2>. DEFINE r == req[w]
              event == [old_status |-> r.current, new_status |-> r.new_status,
                        created_at |-> r.began]
  <2>1. /\ r \in Request
        /\ r.now \in Instant /\ r.began \in Instant
        /\ r.current \in TicketStatus /\ r.new_status \in TicketStatus
        /\ \A s \in Logged : /\ Fits(s, PeriodsOf(s), r)
                             /\ PeriodsOf(s)' = LogAfter(s, PeriodsOf(s), r)
    BY <1>3, CommitFacts
  <2>2. ASSUME NEW s \in Logged PROVE PeriodsOf(s)' \in Seq(Period)
    <3>1. PeriodsOf(s) \in Seq(Period)
      BY PeriodsOfType DEF IInv
    <3>2. LogAfter(s, PeriodsOf(s), r) \in Seq(Period)
      BY <2>1, <3>1, LogAfterFacts, Zenon
    <3>. QED
      BY <2>1, <3>2
  <2>3. pending_periods' \in Seq(Period) /\ closed_periods' \in Seq(Period) /\ resolved_periods' \in Seq(Period)
    BY <2>2 DEF PeriodsOf, Logged
  <2>4. event \in StatusChange
    BY <2>1 DEF StatusChange
  <2>5. Answered(r, "ok") \in Request
    BY <2>1 DEF Answered, Request, Steps, Answers
  <2>6. /\ clock \in Instant /\ team \in [primary_assignee_id : Agents, collaborator_ids : SUBSET Agents]
        /\ resolved_at \in Instant \cup {NULL} /\ history \in Seq(StatusChange)
        /\ req \in [Workers -> Request]
    BY DEF IInv, TypeOK
  <2>7. /\ history' = Append(history, event) /\ status' = r.new_status
        /\ resolved_at' = IF r.new_status = "resolved" THEN r.now ELSE resolved_at
        /\ req' = [req EXCEPT ![w] = Answered(r, "ok")]
        /\ clock' = clock /\ team' = team
    BY <1>3 DEF Commit
  <2>. HIDE DEF r, event
  <2>. QED
    BY <1>0, <2>1, <2>3, <2>4, <2>5, <2>6, <2>7 DEF TypeOK
<1>. QED
  BY <1>1, <1>2, <1>3, StepKinds

LEMMA InvStep == IInv /\ [Next]_vars => IInv'
<1>. SUFFICES ASSUME IInv, [Next]_vars PROVE \A u \in Workers : Ready(req'[u]) /\ HoldsRow(req[u])'
  BY TypeStep DEF IInv, Ready
<1>0. req \in [Workers -> Request] /\ \A u \in Workers : Ready(req[u]) /\ HoldsRow(req[u])
  BY DEF IInv, TypeOK
<1>1. ASSUME UNCHANGED tables, NEW v PROVE HoldsRow(v) => HoldsRow(v)'
  BY <1>1 DEF HoldsRow, PeriodsOf, tables, periods
<1>2. CASE UNCHANGED <<tables, req>>
  BY <1>0, <1>1, <1>2
<1>3. ASSUME UNCHANGED tables, NEW w \in Workers, NEW v \in Request, Ready(v), HoldsRow(v),
             req' = [req EXCEPT ![w] = v], NEW u \in Workers
      PROVE  Ready(req'[u]) /\ HoldsRow(req[u])'
  <2>1. req'[u] = IF u = w THEN v ELSE req[u]
    BY <1>0, <1>3
  <2>2. Ready(req'[u]) /\ HoldsRow(req'[u])
    BY <1>0, <1>3, <2>1
  <2>. QED
    BY <1>3, <2>2 DEF HoldsRow, PeriodsOf, tables, periods
<1>4. ASSUME NEW w \in Workers, Commit(w), NEW u \in Workers
      PROVE  Ready(req'[u]) /\ HoldsRow(req[u])'
  <2>. DEFINE r == req[w]
  <2>1. req'[u] = IF u = w THEN Answered(r, "ok") ELSE req[u]
    BY <1>0, <1>4 DEF Commit
  <2>2. Answered(r, "ok").pc = "respond"
    BY <1>4, CommitFacts DEF Answered, Request
  <2>3. CASE u = w
    BY <2>1, <2>2, <2>3 DEF Ready, HoldsRow
  <2>4. CASE u # w
    <3>1. req'[u] = req[u] /\ Ready(req[u]) /\ HoldsRow(req[u])
      BY <1>0, <2>1, <2>4
    <3>2. ASSUME NEW s \in Logged
          PROVE  /\ DOMAIN PeriodsOf(s) \subseteq DOMAIN PeriodsOf(s)'
                 /\ \A i \in DOMAIN PeriodsOf(s) : PeriodsOf(s)'[i].start = PeriodsOf(s)[i].start
      <4>1. Fits(s, PeriodsOf(s), req[w])
        BY <1>4, CommitFacts
      <4>2. PeriodsOf(s) \in Seq(Period)
        BY PeriodsOfType DEF IInv
      <4>. DEFINE after == LogAfter(s, PeriodsOf(s), req[w])
      <4>3. /\ DOMAIN PeriodsOf(s) \subseteq DOMAIN after
            /\ \A i \in DOMAIN PeriodsOf(s) :
                 /\ after[i].start = PeriodsOf(s)[i].start
                 /\ PeriodsOf(s)[i].end # NULL => after[i].end # NULL
        <5>1. DOMAIN PeriodsOf(s) \subseteq DOMAIN after
          BY <4>1, <4>2, LogAfterFacts
        <5>2. ASSUME NEW i \in DOMAIN PeriodsOf(s)
              PROVE  /\ after[i].start = PeriodsOf(s)[i].start
                     /\ PeriodsOf(s)[i].end # NULL => after[i].end # NULL
          BY <4>1, <4>2, LogAfterFacts
        <5>. QED
          BY <5>1, <5>2
      <4>4. PeriodsOf(s)' = after
        BY <1>4, CommitFacts
      <4>. HIDE DEF after
      <4>. QED
        BY <4>3, <4>4
    <3>3. /\ DOMAIN closed_periods \subseteq DOMAIN closed_periods'
          /\ \A i \in DOMAIN closed_periods : closed_periods'[i].start = closed_periods[i].start
      BY <3>2 DEF PeriodsOf, Logged
    <3>4. HoldsRow(req[u])'
      <4>. SUFFICES ASSUME req[u].pc = "commit", req[u].current \in Logged
                    PROVE  /\ req[u].row \in DOMAIN PeriodsOf(req[u].current)'
                           /\ req[u].current = "closed" =>
                                WithinWindow(closed_periods'[req[u].row].start, req[u].now)
        BY <3>1 DEF HoldsRow
      <4>1. /\ req[u].row \in DOMAIN PeriodsOf(req[u].current)
            /\ req[u].current = "closed" =>
                 WithinWindow(closed_periods[req[u].row].start, req[u].now)
        BY <3>1 DEF HoldsRow
      <4>2. req[u].row \in DOMAIN PeriodsOf(req[u].current)'
        <5>1. /\ DOMAIN pending_periods \subseteq DOMAIN pending_periods'
              /\ DOMAIN resolved_periods \subseteq DOMAIN resolved_periods'
          BY <3>2 DEF PeriodsOf, Logged
        <5>. QED
          BY <3>1, <3>3, <4>1, <5>1 DEF PeriodsOf, Logged
      <4>3. ASSUME req[u].current = "closed"
            PROVE  WithinWindow(closed_periods'[req[u].row].start, req[u].now)
        <5>1. /\ req[u].row \in DOMAIN closed_periods
              /\ WithinWindow(closed_periods[req[u].row].start, req[u].now)
          BY <4>1, <4>3, PeriodsOfIs
        <5>. QED
          BY <3>3, <5>1
      <4>. QED
        BY <4>2, <4>3
    <3>. QED
      BY <3>1, <3>4
  <2>. QED
    BY <2>3, <2>4
<1>. QED
  BY <1>2, <1>3, <1>4, StepKinds

LEMMA InitInv == Init => IInv
<1>. SUFFICES ASSUME Init PROVE IInv
  OBVIOUS
<1>1. NoRequest \in Request /\ Ready(NoRequest) /\ HoldsRow(NoRequest)
  BY DEF NoRequest, Request, Steps, Answers, Ready, HoldsRow
<1>2. \A w \in Workers : req[w] = NoRequest
  BY DEF Init
<1>3. TypeOK
  <2>1. req \in [Workers -> Request]
    BY <1>1 DEF Init
  <2>2. clock \in Instant /\ status \in TicketStatus /\ resolved_at \in Instant \cup {NULL}
    BY DEF Init, CreatedAt, Instant, TicketStatus
  <2>3. /\ pending_periods \in Seq(Period) /\ closed_periods \in Seq(Period)
        /\ resolved_periods \in Seq(Period) /\ history \in Seq(StatusChange)
    BY DEF Init
  <2>. QED
    BY <2>1, <2>2, <2>3 DEF Init, TypeOK
<1>. QED
  BY <1>1, <1>2, <1>3 DEF IInv

LEMMA InductiveInvariant == Spec => []IInv
BY InitInv, InvStep, PTL DEF Spec

\* Whatever the workers interleave, the ticket, its logs, its timeline and the requests
\* in flight keep their types.
THEOREM TypeCorrect == Spec => []TypeOK
<1>1. IInv => TypeOK
  BY DEF IInv
<1>. QED
  BY <1>1, InductiveInvariant, PTL
-----------------------------------------------------------------------------
(***************************************************************************)
(* What no race can break.                                                 *)
(***************************************************************************)
\* The response clock never runs while the ticket is Pending, Resolved or Closed.
THEOREM ClockStops == Spec => []ClockStopsWhileWaiting
<1>1. Init => ClockStopsWhileWaiting
  BY DEF Init, ClockStopsWhileWaiting, Logged
<1>2. IInv /\ ClockStopsWhileWaiting /\ [Next]_vars => ClockStopsWhileWaiting'
  <2>. SUFFICES ASSUME IInv, ClockStopsWhileWaiting, [Next]_vars PROVE ClockStopsWhileWaiting'
    OBVIOUS
  <2>1. CASE UNCHANGED tables
    BY <2>1 DEF ClockStopsWhileWaiting, PeriodsOf, tables, periods
  <2>2. ASSUME NEW w \in Workers, Commit(w), NEW s \in Logged, status' = s
        PROVE  OpenRows(PeriodsOf(s)') # {}
    <3>. DEFINE r == req[w]
                log == PeriodsOf(s)
                new == PeriodsOf(s)'
    <3>1. /\ r.new_status = s /\ r.now \in Instant
          /\ Fits(s, log, r) /\ new = LogAfter(s, log, r)
      BY <2>2, CommitFacts DEF Commit
    <3>2. log \in Seq(Period)
      BY PeriodsOfType DEF IInv
    <3>. HIDE DEF log, new, r
    <3>3. new = StartPeriod(log, r.now)
      BY <3>1 DEF LogAfter, Fits
    <3>4. /\ Len(log) + 1 \in DOMAIN new
          /\ new[Len(log) + 1] = [start |-> r.now, end |-> NULL]
      <4>1. /\ DOMAIN StartPeriod(log, r.now) = DOMAIN log \cup {Len(log) + 1}
            /\ StartPeriod(log, r.now)[Len(log) + 1] = [start |-> r.now, end |-> NULL]
        <5>1. r.now \in Instant
          BY <3>1
        <5>. QED
          BY <3>2, <5>1, StartPeriodFacts, Zenon
      <4>. QED
        BY <3>3, <4>1, Zenon
    <3>5. new[Len(log) + 1].end = NULL
      BY <3>4
    <3>6. Len(log) + 1 \in OpenRows(new)
      BY <3>4, <3>5, Zenon DEF OpenRows
    <3>. QED
      BY <3>6 DEF new
  <2>3. ASSUME NEW w \in Workers, Commit(w) PROVE ClockStopsWhileWaiting'
    BY <2>2, <2>3 DEF ClockStopsWhileWaiting, PeriodsOf, Logged
  <2>. QED
    BY <2>1, <2>3, OnlyCommitWrites
<1>. QED
  BY <1>1, <1>2, InductiveInvariant, PTL DEF Spec

\* A period ended by a reopen was not longer than the window, whoever else was
\* reopening the ticket: no commit moves the start of a row.
THEOREM ReopensAreTimely == Spec => []ReopenedWithinWindow
<1>1. Init => ReopenedWithinWindow
  BY DEF Init, ReopenedWithinWindow
<1>2. IInv /\ ReopenedWithinWindow /\ [Next]_vars => ReopenedWithinWindow'
  <2>. SUFFICES ASSUME IInv, ReopenedWithinWindow, [Next]_vars PROVE ReopenedWithinWindow'
    OBVIOUS
  <2>1. CASE UNCHANGED tables
    BY <2>1 DEF ReopenedWithinWindow, tables, periods
  <2>2. ASSUME NEW w \in Workers, Commit(w) PROVE ReopenedWithinWindow'
    <3>. DEFINE r == req[w]
                log == closed_periods
                new == closed_periods'
    <3>1. /\ r.now \in Instant /\ log \in Seq(Period)
          /\ Fits("closed", log, r) /\ new = LogAfter("closed", log, r)
          /\ HoldsRow(r) /\ r.pc = "commit"
      <4>1. /\ Fits("closed", PeriodsOf("closed"), r) /\ r.now \in Instant
            /\ r.pc = "commit"
        BY <2>2, CommitFacts DEF Logged
      <4>. QED
        BY <2>2, <4>1, PeriodsOfIs DEF Commit, IInv, TypeOK
    <3>2. \A i \in DOMAIN log : log[i].end # NULL => log[i].end <= log[i].start + ReopenWindow
      BY DEF ReopenedWithinWindow
    <3>. SUFFICES ASSUME NEW i \in DOMAIN new, new[i].end # NULL
                  PROVE  new[i].end <= new[i].start + ReopenWindow
      BY DEF ReopenedWithinWindow
    <3>3. CASE r.new_status = "closed"
      <4>1. new = StartPeriod(log, r.now)
        BY <3>1, <3>3, LogAfterCases
      <4>2. r.now \in Instant /\ log \in Seq(Period)
        BY <3>1
      <4>. HIDE DEF new, log, r
      <4>3. /\ DOMAIN new = DOMAIN log \cup {Len(log) + 1}
            /\ \A j \in DOMAIN log : new[j] = log[j]
            /\ new[Len(log) + 1] = [start |-> r.now, end |-> NULL]
        BY <4>1, <4>2, StartPeriodFacts
      <4>4. i \in DOMAIN log /\ new[i] = log[i]
        BY <4>3
      <4>. QED
        BY <3>2, <4>4
    <3>4. CASE r.current = "closed"
      <4>0. new = EndPeriod(log, r.row, r.now) /\ r.row \in DOMAIN log
        BY <3>1, <3>4, LogAfterCases DEF Fits
      <4>1. WithinWindow(log[r.row].start, r.now)
        BY <3>1, <3>4 DEF HoldsRow, Logged
      <4>. HIDE DEF new, log, r
      <4>2. /\ DOMAIN new = DOMAIN log
            /\ \A j \in DOMAIN log \ {r.row} : new[j] = log[j]
            /\ new[r.row] = [start |-> log[r.row].start, end |-> r.now]
        BY <3>1, <4>0, EndPeriodFacts
      <4>3. log[r.row].start \in Nat /\ r.now \in Nat /\ ReopenWindow \in Nat
        <5>1. log[r.row] \in Period
          BY <3>1, <4>0
        <5>. QED
          BY <3>1, <5>1, WindowAssumption DEF Period, Instant
      <4>4. r.now <= log[r.row].start + ReopenWindow
        BY <4>1, <4>3 DEF WithinWindow
      <4>. QED
        BY <3>2, <4>2, <4>4
    <3>5. CASE r.new_status # "closed" /\ r.current # "closed"
      <4>1. new = log
        BY <3>1, <3>5, LogAfterCases
      <4>. QED
        BY <3>2, <4>1
    <3>. QED
      BY <3>3, <3>4, <3>5
  <2>. QED
    BY <2>1, <2>2, OnlyCommitWrites
<1>. QED
  BY <1>1, <1>2, InductiveInvariant, PTL DEF Spec

\* No step makes the breach epoch fall: an acknowledgement of an old epoch can never
\* hide a later breach.
THEOREM EpochRises == Spec => EpochNeverFalls
<1>1. IInv /\ [Next]_vars => [CurrentBreachEpoch' >= CurrentBreachEpoch]_vars
  <2>. SUFFICES ASSUME IInv, [Next]_vars PROVE CurrentBreachEpoch' >= CurrentBreachEpoch
    OBVIOUS
  <2>. DEFINE ended == DOMAIN closed_periods \ OpenRows(closed_periods)
              n == Len(closed_periods)
  <2>0. closed_periods \in Seq(Period) /\ closed_periods' \in Seq(Period)
    BY TypeStep DEF IInv, TypeOK
  <2>1. IsFiniteSet(ended) /\ IsFiniteSet(ended')
    <3>1. ASSUME NEW log \in Seq(Period) PROVE IsFiniteSet(DOMAIN log \ OpenRows(log))
      <4>1. Len(log) \in Nat /\ DOMAIN log = 1..Len(log)
        OBVIOUS
      <4>2. IsFiniteSet(DOMAIN log)
        BY <4>1, FS_Interval
      <4>. QED
        BY <4>2, FS_Subset
    <3>. QED
      BY <2>0, <3>1
  <2>2. ended \subseteq ended'
    <3>1. CASE UNCHANGED tables
      BY <3>1 DEF tables, periods
    <3>2. ASSUME NEW w \in Workers, Commit(w) PROVE ended \subseteq ended'
      <4>1. /\ Fits("closed", closed_periods, req[w])
            /\ closed_periods' = LogAfter("closed", closed_periods, req[w])
        <5>1. Fits("closed", PeriodsOf("closed"), req[w])
          BY <3>2, CommitFacts DEF Logged
        <5>. QED
          BY <3>2, <5>1, PeriodsOfIs DEF Commit
      <4>2. /\ DOMAIN closed_periods \subseteq DOMAIN closed_periods'
            /\ \A i \in DOMAIN closed_periods :
                 closed_periods[i].end # NULL => closed_periods'[i].end # NULL
        BY <2>0, <4>1, LogAfterFacts
      <4>. QED
        BY <4>2 DEF OpenRows
    <3>. QED
      BY <3>1, <3>2, OnlyCommitWrites
  <2>3. Cardinality(ended) <= Cardinality(ended')
    BY <2>1, <2>2, FS_Subset
  <2>4. Cardinality(ended) \in Nat /\ Cardinality(ended') \in Nat
    BY <2>1, FS_CardinalityType
  <2>5. CurrentBreachEpoch = Cardinality(ended) /\ CurrentBreachEpoch' = Cardinality(ended')
    BY DEF CurrentBreachEpoch
  <2>. HIDE DEF ended
  <2>. QED
    BY <2>3, <2>4, <2>5
<1>. QED
  BY <1>1, InductiveInvariant, PTL DEF Spec, EpochNeverFalls
-----------------------------------------------------------------------------
(***************************************************************************)
(* Timeline, ticket and logs.                                              *)
(***************************************************************************)
\* Every event on the timeline has a date.
LEMMA EventsDated ==
    ASSUME IInv, NEW i \in DOMAIN history
    PROVE  history[i].created_at \in Instant
<1>1. history \in Seq(StatusChange)
  BY DEF IInv, TypeOK
<1>2. history[i] \in StatusChange
  BY <1>1
<1>. QED
  BY <1>2 DEF StatusChange

\* What a commit appends to the timeline.
LEMMA CommitRecords ==
    ASSUME IInv, NEW w \in Workers, Commit(w)
    PROVE  /\ Len(history) \in Nat
           /\ DOMAIN history = 1..Len(history)
           /\ Len(history') = Len(history) + 1
           /\ DOMAIN history' = DOMAIN history \cup {Len(history) + 1}
           /\ \A i \in DOMAIN history : history'[i] = history[i]
           /\ history'[Len(history) + 1].new_status = req[w].new_status
           /\ history'[Len(history) + 1].created_at = req[w].began
           /\ history' # <<>>
           /\ status' = req[w].new_status
<1>. DEFINE event == [old_status |-> req[w].current, new_status |-> req[w].new_status,
                      created_at |-> req[w].began]
<1>1. history \in Seq(StatusChange) /\ history' = Append(history, event) /\ status' = req[w].new_status
  BY DEF IInv, TypeOK, Commit
<1>2. event.new_status = req[w].new_status /\ event.created_at = req[w].began
  OBVIOUS
<1>3. event \in StatusChange
  BY CommitFacts DEF StatusChange
<1>. HIDE DEF event
<1>. QED
  BY <1>1, <1>2, <1>3

\* The events that enter one more status are counted by one more row.
LEMMA IntoStep ==
    ASSUME IInv, NEW w \in Workers, Commit(w), NEW s
    PROVE  /\ Cardinality(Into(s)) \in Nat
           /\ Cardinality(Into(s))' = Cardinality(Into(s)) + (IF req[w].new_status = s THEN 1 ELSE 0)
<1>. DEFINE n == Len(history)
            before == Into(s)
            after == {i \in DOMAIN history' : history'[i].new_status = s}
<1>0. /\ n \in Nat /\ DOMAIN history = 1..n
      /\ DOMAIN history' = DOMAIN history \cup {n + 1}
      /\ \A i \in DOMAIN history : history'[i] = history[i]
      /\ history'[n + 1].new_status = req[w].new_status
  BY CommitRecords
<1>. HIDE DEF n
<1>1. IsFiniteSet(before) /\ Cardinality(before) \in Nat /\ n + 1 \notin before
  <2>1. IsFiniteSet(DOMAIN history)
    BY <1>0, FS_Interval
  <2>2. before \subseteq DOMAIN history /\ n + 1 \notin DOMAIN history
    BY <1>0 DEF Into
  <2>. QED
    BY <2>1, <2>2, FS_Subset, FS_CardinalityType
<1>2. after = IF req[w].new_status = s THEN before \cup {n + 1} ELSE before
  BY <1>0 DEF Into
<1>3. Cardinality(after) = Cardinality(before) + (IF req[w].new_status = s THEN 1 ELSE 0)
  <2>1. CASE req[w].new_status = s
    BY <1>1, <1>2, <2>1, FS_AddElement
  <2>2. CASE req[w].new_status # s
    <3>1. Cardinality(after) = Cardinality(before)
      BY <1>2, <2>2
    <3>. HIDE DEF after, before
    <3>. QED
      BY <1>1, <2>2, <3>1
  <2>. QED
    BY <2>1, <2>2
<1>4. Cardinality(Into(s))' = Cardinality(after)
  BY DEF Into
<1>. HIDE DEF after
<1>. QED
  BY <1>1, <1>3, <1>4

\* The last event recorded set the status, and each log has one row per event that
\* entered its status, however the requests interleave.
THEOREM TimelineAccounts == Spec => []TimelineAccountsForTicket
<1>1. Init => TimelineAccountsForTicket
  <2>. SUFFICES ASSUME Init, NEW s \in Logged PROVE Len(PeriodsOf(s)) = Cardinality(Into(s))
    BY DEF Init, TimelineAccountsForTicket
  <2>1. Into(s) = {} /\ PeriodsOf(s) = <<>>
    BY DEF Init, Into, PeriodsOf, Logged
  <2>. QED
    BY <2>1, FS_EmptySet
<1>2. IInv /\ TimelineAccountsForTicket /\ [Next]_vars => TimelineAccountsForTicket'
  <2>. SUFFICES ASSUME IInv, TimelineAccountsForTicket, [Next]_vars
                PROVE  TimelineAccountsForTicket'
    OBVIOUS
  <2>1. CASE UNCHANGED tables
    BY <2>1 DEF TimelineAccountsForTicket, Into, PeriodsOf, tables, periods
  <2>2. ASSUME NEW w \in Workers, Commit(w) PROVE TimelineAccountsForTicket'
    <3>1. status' = IF history' = <<>> THEN "new" ELSE history'[Len(history')].new_status
      BY <2>2, CommitRecords
    <3>2. ASSUME NEW s \in Logged PROVE Len(PeriodsOf(s)') = Cardinality(Into(s)')
      <4>1. /\ PeriodsOf(s) \in Seq(Period)
            /\ Fits(s, PeriodsOf(s), req[w])
            /\ PeriodsOf(s)' = LogAfter(s, PeriodsOf(s), req[w])
        BY <2>2, PeriodsOfType, CommitFacts DEF IInv
      <4>2. /\ req[w].new_status = s => Len(PeriodsOf(s)') = Len(PeriodsOf(s)) + 1
            /\ req[w].new_status # s => Len(PeriodsOf(s)') = Len(PeriodsOf(s))
        <5>. DEFINE after == LogAfter(s, PeriodsOf(s), req[w])
        <5>1. /\ req[w].new_status = s => Len(after) = Len(PeriodsOf(s)) + 1
              /\ req[w].new_status # s => Len(after) = Len(PeriodsOf(s))
          BY <4>1, LogAfterFacts, Zenon
        <5>. QED
          BY <4>1, <5>1
      <4>3. Cardinality(Into(s))' = Cardinality(Into(s)) + (IF req[w].new_status = s THEN 1 ELSE 0)
        BY <2>2, IntoStep
      <4>4. Len(PeriodsOf(s)) = Cardinality(Into(s)) /\ Cardinality(Into(s)) \in Nat
        BY <2>2, IntoStep DEF TimelineAccountsForTicket
      <4>. QED
        BY <4>2, <4>3, <4>4
    <3>. QED
      BY <3>1, <3>2 DEF TimelineAccountsForTicket, PeriodsOf, Logged
  <2>. QED
    BY <2>1, <2>2, OnlyCommitWrites
<1>. QED
  BY <1>1, <1>2, InductiveInvariant, PTL DEF Spec
-----------------------------------------------------------------------------
(***************************************************************************)
(* What holds until two requests have overlapped.                          *)
(***************************************************************************)
\* A request that has the service to itself: what it read is still so when it acts on
\* it, and every event on the timeline was dated before it began.
InStep(v) ==
    /\ v.pc \in {"authorize", "select", "commit"} => v.current = status
    /\ v.pc = "commit" /\ v.current \in Logged => v.row = Len(PeriodsOf(v.current))
    /\ v.answer # "500"
    /\ v.pc \in {"load", "authorize", "select", "commit"} =>
         /\ v.began <= clock
         /\ \A i \in DOMAIN history : history[i].created_at <= v.began

Alone == \A v, w \in InFlight : v = w

LogsMatchStatus ==
    \A s \in Logged : OpenRows(PeriodsOf(s)) = IF status = s THEN {Len(PeriodsOf(s))} ELSE {}

DatesAscend ==
    /\ \A i \in DOMAIN history : history[i].created_at <= clock
    /\ \A i, j \in DOMAIN history : i < j => history[i].created_at <= history[j].created_at

OneAtATime ==
    /\ Alone
    /\ LogsMatchStatus
    /\ DatesAscend
    /\ \A w \in Workers : InStep(req[w])

SerialInv == ~ overlapped => OneAtATime

\* A move made from what is still the status leaves each log with the open row that the
\* new status calls for.
LEMMA LogMatches ==
    ASSUME NEW s, NEW log \in Seq(Period), NEW r, Fits(s, log, r),
           OpenRows(log) = IF r.current = s THEN {Len(log)} ELSE {},
           r.current = s => r.row = Len(log)
    PROVE  OpenRows(LogAfter(s, log, r)) =
             IF r.new_status = s THEN {Len(LogAfter(s, log, r))} ELSE {}
<1>. DEFINE new == LogAfter(s, log, r)
<1>0. r.now \in Instant /\ r.now # NULL /\ r.new_status # r.current
  BY NullAssumption DEF Fits, Instant
<1>1. CASE r.new_status = s
  <2>1. new = StartPeriod(log, r.now) /\ OpenRows(log) = {}
    BY <1>0, <1>1, LogAfterCases
  <2>. HIDE DEF new
  <2>2. /\ Len(new) = Len(log) + 1
        /\ DOMAIN new = DOMAIN log \cup {Len(log) + 1}
        /\ \A i \in DOMAIN log : new[i] = log[i]
        /\ new[Len(log) + 1] = [start |-> r.now, end |-> NULL]
    BY <1>0, <2>1, StartPeriodFacts
  <2>3. OpenRows(new) = {Len(new)}
    BY <2>1, <2>2 DEF OpenRows
  <2>. QED
    BY <1>1, <2>3 DEF new
<1>2. CASE r.current = s
  <2>1. new = EndPeriod(log, r.row, r.now) /\ OpenRows(log) = {r.row} /\ r.row \in DOMAIN log
    BY <1>2, LogAfterCases DEF Fits
  <2>. HIDE DEF new
  <2>2. /\ DOMAIN new = DOMAIN log
        /\ \A i \in DOMAIN log \ {r.row} : new[i] = log[i]
        /\ new[r.row] = [start |-> log[r.row].start, end |-> r.now]
    BY <1>0, <2>1, EndPeriodFacts
  <2>3. OpenRows(new) = {}
    BY <1>0, <2>1, <2>2 DEF OpenRows
  <2>. QED
    BY <1>0, <1>2, <2>3 DEF new
<1>3. CASE r.new_status # s /\ r.current # s
  <2>1. new = log
    BY <1>3, LogAfterCases
  <2>. QED
    BY <1>3, <2>1
<1>. QED
  BY <1>1, <1>2, <1>3

\* What each statement of a lone request leaves in it.
LEMMA LoneRequestStep ==
    ASSUME IInv, OneAtATime, ~ overlapped', NEW w \in Workers,
           \/ \E actor \in Users, new_status \in TicketStatus : Begin(w, actor, new_status)
           \/ Load(w) \/ Authorize(w) \/ Select(w) \/ Respond(w)
    PROVE  /\ UNCHANGED <<clock, tables>>
           /\ w \in InFlight \/ InFlight = {}
           /\ InStep(req'[w]) /\ \A u \in Workers \ {w} : req'[u] = req[u]
<1>. DEFINE r == req[w]
<1>0. /\ req \in [Workers -> Request] /\ r \in Request /\ Ready(r) /\ InStep(r) /\ clock \in Instant
      /\ LogsMatchStatus /\ DatesAscend
  BY DEF IInv, TypeOK, OneAtATime
<1>1. UNCHANGED <<clock, tables>>
  BY DEF Begin, Load, Authorize, Select, Respond
<1>2. ASSUME NEW v \in Request, NEW answer \in Answers \ {"500"} PROVE InStep(Answered(v, answer))
  <2>1. Answered(v, answer).pc = "respond" /\ Answered(v, answer).answer = answer
    BY DEF Answered, Request
  <2>. QED
    BY <2>1 DEF InStep
<1>8. \A u \in Workers \ {w} : req'[u] = req[u]
  BY <1>0 DEF Begin, Load, Authorize, Select, Respond
<1>3. ASSUME NEW actor \in Users, NEW new_status \in TicketStatus, Begin(w, actor, new_status)
      PROVE  InFlight = {} /\ InStep(req'[w])
  <2>. DEFINE v == [NoRequest EXCEPT !.pc = "load", !.actor = actor,
                                     !.new_status = new_status, !.began = clock]
  <2>1. v.pc = "load" /\ v.began = clock /\ v.answer = "none"
    BY DEF NoRequest
  <2>2. req'[w] = v /\ InFlight = {}
    BY <1>0, <1>3 DEF Begin
  <2>. HIDE DEF v
  <2>3. InStep(v)
    BY <1>0, <2>1 DEF InStep, DatesAscend, Instant
  <2>. QED
    BY <2>2, <2>3
<1>4. CASE Load(w)
  <2>. DEFINE v == [r EXCEPT !.pc = "authorize", !.current = status]
  <2>1. v.pc = "authorize" /\ v.current = status /\ v.began = r.began /\ v.answer = r.answer
    BY <1>0 DEF Request
  <2>2. req'[w] = v /\ r.pc = "load"
    BY <1>0, <1>4 DEF Load
  <2>. HIDE DEF v
  <2>3. InStep(v)
    BY <1>0, <2>1, <2>2 DEF InStep
  <2>4. w \in InFlight
    BY <2>2 DEF InFlight
  <2>. QED
    BY <1>1, <1>8, <2>2, <2>3, <2>4
<1>5. CASE Authorize(w)
  <2>. DEFINE u == [r EXCEPT !.now = clock]
              v == [u EXCEPT !.pc = IF u.current \in Logged THEN "select" ELSE "commit"]
  <2>1. u \in Request
    BY <1>0 DEF Request, Steps
  <2>2. /\ u.current = r.current /\ u.pc = r.pc
        /\ v.current = r.current /\ v.began = r.began /\ v.answer = r.answer
        /\ v.pc = IF r.current \in Logged THEN "select" ELSE "commit"
    BY <1>0 DEF Request
  <2>3. /\ req'[w] = IF Refusal(u) # "none" THEN Answered(u, Refusal(u)) ELSE v
        /\ r.pc = "authorize"
    BY <1>0, <1>5 DEF Authorize, Request
  <2>. HIDE DEF u, v
  <2>9. w \in InFlight
    BY <2>3 DEF InFlight
  <2>4. Refusal(u) \in Answers \ {"500"}
    BY DEF Refusal, Answers
  <2>5. CASE Refusal(u) # "none"
    <3>1. InStep(Answered(u, Refusal(u))) /\ req'[w] = Answered(u, Refusal(u))
      BY <1>2, <2>1, <2>3, <2>4, <2>5
    <3>. QED
      BY <1>1, <1>8, <2>9, <3>1
  <2>6. CASE Refusal(u) = "none"
    <3>1. InStep(v)
      BY <1>0, <2>2, <2>3 DEF InStep
    <3>2. req'[w] = v
      BY <2>3, <2>6
    <3>. QED
      BY <1>1, <1>8, <2>9, <3>1, <3>2
  <2>. QED
    BY <2>5, <2>6
<1>6. CASE Select(w)
  <2>. DEFINE log == PeriodsOf(r.current)
  <2>0. r.pc = "select" /\ "409" \in Answers \ {"500"} /\ r.current \in Logged /\ r.current = status
    BY <1>0, <1>6 DEF Select, Answers, Ready, InStep
  <2>9. w \in InFlight
    BY <2>0 DEF InFlight
  <2>1. OpenRows(log) = {Len(log)}
    BY <1>0, <2>0 DEF LogsMatchStatus
  <2>2. Len(log) \in DOMAIN log /\ OnlyOpenRow(log, Len(log))
    BY <2>1 DEF OpenRows, OnlyOpenRow
  <2>3. PICK row \in DOMAIN log :
           /\ OnlyOpenRow(log, row)
           /\ req'[w] =
                IF r.current = "closed" /\ ~ WithinWindow(log[row].start, r.now)
                THEN Answered(r, "409")
                ELSE [r EXCEPT !.pc = "commit", !.row = row]
    BY <1>0, <1>6, <2>2 DEF Select
  <2>4. row = Len(log)
    BY <2>1, <2>3 DEF OnlyOpenRow
  <2>5. CASE r.current = "closed" /\ ~ WithinWindow(log[row].start, r.now)
    <3>1. InStep(Answered(r, "409")) /\ req'[w] = Answered(r, "409")
      BY <1>0, <1>2, <2>0, <2>3, <2>5
    <3>. QED
      BY <1>1, <1>8, <2>9, <3>1
  <2>6. CASE ~ (r.current = "closed" /\ ~ WithinWindow(log[row].start, r.now))
    <3>. DEFINE v == [r EXCEPT !.pc = "commit", !.row = row]
    <3>1. /\ v.pc = "commit" /\ v.current = r.current /\ v.began = r.began
          /\ v.answer = r.answer /\ v.row = row
      BY <1>0 DEF Request
    <3>2. req'[w] = v
      BY <2>3, <2>6
    <3>. HIDE DEF v
    <3>3. InStep(v)
      BY <1>0, <2>0, <2>4, <3>1 DEF InStep
    <3>. QED
      BY <1>1, <1>8, <2>9, <3>2, <3>3
  <2>. QED
    BY <2>5, <2>6
<1>7. CASE Respond(w)
  <2>1. InStep(NoRequest)
    BY DEF InStep, NoRequest
  <2>. QED
    BY <1>1, <1>8, <1>0, <1>7, <2>1 DEF Respond, InFlight
<1>. QED
  BY <1>1, <1>3, <1>4, <1>5, <1>6, <1>7, <1>8

\* The commit of a lone request.
LEMMA LoneCommitStep ==
    ASSUME IInv, OneAtATime, NEW w \in Workers, Commit(w)
    PROVE  OneAtATime'
<1>. DEFINE r == req[w]
            n == Len(history)
<1>0. /\ req \in [Workers -> Request] /\ r \in Request /\ r.pc = "commit" /\ InStep(r)
      /\ Alone /\ LogsMatchStatus /\ DatesAscend
      /\ clock \in Instant /\ r.began \in Instant
      /\ \A i \in DOMAIN history : history[i].created_at \in Instant
  BY CommitFacts, EventsDated DEF IInv, TypeOK, OneAtATime
<1>1. /\ req' = [req EXCEPT ![w] = Answered(r, "ok")] /\ clock' = clock
      /\ Answered(r, "ok").pc = "respond" /\ Answered(r, "ok").answer = "ok"
  BY <1>0 DEF Commit, Answered, Request
<1>2. \A u \in Workers \ {w} : req[u].pc = "idle" /\ req'[u] = req[u]
  BY <1>0, <1>1 DEF Alone, InFlight
<1>3. Alone'
  BY <1>0, <1>1, <1>2 DEF Alone, InFlight
<1>4. LogsMatchStatus'
  <2>1. ASSUME NEW s \in Logged
        PROVE  OpenRows(PeriodsOf(s)') = IF r.new_status = s THEN {Len(PeriodsOf(s)')} ELSE {}
    <3>1. /\ Fits(s, PeriodsOf(s), req[w])
          /\ PeriodsOf(s)' = LogAfter(s, PeriodsOf(s), req[w])
      BY CommitFacts
    <3>2. PeriodsOf(s) \in Seq(Period)
      BY PeriodsOfType DEF IInv
    <3>3. r.current = status
      BY <1>0 DEF InStep
    <3>4. OpenRows(PeriodsOf(s)) = IF req[w].current = s THEN {Len(PeriodsOf(s))} ELSE {}
      BY <1>0, <3>3 DEF LogsMatchStatus
    <3>5. req[w].current = s => req[w].row = Len(PeriodsOf(s))
      BY <1>0 DEF InStep
    <3>. QED
      BY <3>1, <3>2, <3>4, <3>5, LogMatches
  <2>2. status' = r.new_status
    BY DEF Commit
  <2>. QED
    BY <2>1, <2>2 DEF LogsMatchStatus, PeriodsOf, Logged
<1>5. DatesAscend'
  <2>1. /\ n \in Nat /\ DOMAIN history = 1..n
        /\ DOMAIN history' = DOMAIN history \cup {n + 1}
        /\ \A i \in DOMAIN history : history'[i] = history[i]
        /\ history'[n + 1].created_at = r.began
    BY CommitRecords
  <2>2. /\ r.began <= clock /\ \A i \in DOMAIN history : history[i].created_at <= r.began
        /\ \A i \in DOMAIN history : history[i].created_at <= clock
        /\ \A i, j \in DOMAIN history : i < j => history[i].created_at <= history[j].created_at
    BY <1>0 DEF InStep, DatesAscend
  <2>. HIDE DEF n, r
  <2>3. \A i \in DOMAIN history' : history'[i].created_at <= clock
    BY <2>1, <2>2
  <2>4. ASSUME NEW i \in DOMAIN history', NEW j \in DOMAIN history', i < j
        PROVE  history'[i].created_at <= history'[j].created_at
    <3>1. i \in DOMAIN history /\ history'[i] = history[i]
      BY <2>1, <2>4
    <3>2. CASE j = n + 1
      BY <2>1, <2>2, <3>1, <3>2
    <3>3. CASE j \in DOMAIN history
      BY <2>1, <2>2, <2>4, <3>1, <3>3
    <3>. QED
      BY <2>1, <3>2, <3>3
  <2>. QED
    BY <1>1, <2>3, <2>4 DEF DatesAscend
<1>6. \A u \in Workers : InStep(req[u])'
  <2>1. InStep(req[w])'
    BY <1>0, <1>1 DEF InStep
  <2>2. ASSUME NEW u \in Workers \ {w} PROVE InStep(req[u])'
    BY <1>0, <1>2, <2>2 DEF InStep, OneAtATime
  <2>. QED
    BY <2>1, <2>2
<1>. QED
  BY <1>3, <1>4, <1>5, <1>6 DEF OneAtATime

LEMMA SerialStep == IInv /\ SerialInv /\ [Next]_vars => SerialInv'
<1>. SUFFICES ASSUME IInv, SerialInv, [Next]_vars, ~ overlapped' PROVE OneAtATime'
  BY DEF SerialInv
<1>0. OneAtATime
  <2>1. ~ overlapped
    BY DEF Next, Serve, Tick, Begin, Load, Authorize, Select, Commit, Respond, vars
  <2>. QED
    BY <2>1 DEF SerialInv
<1>1. CASE Tick \/ UNCHANGED vars
  <2>1. UNCHANGED <<tables, req>> /\ clock \in Nat /\ clock' \in Nat /\ clock' >= clock
    BY <1>1 DEF Tick, vars, IInv, TypeOK, Instant
  <2>2. Alone' /\ LogsMatchStatus'
    BY <1>0, <2>1 DEF OneAtATime, Alone, InFlight, LogsMatchStatus, PeriodsOf, tables, periods
  <2>3. \A i \in DOMAIN history : history[i].created_at \in Nat
    BY EventsDated DEF Instant
  <2>4. DatesAscend'
    BY <1>0, <2>1, <2>3 DEF OneAtATime, DatesAscend, tables
  <2>5. ASSUME NEW w \in Workers PROVE InStep(req[w])'
    <3>1. InStep(req[w]) /\ Ready(req[w])
      BY <1>0 DEF OneAtATime, IInv
    <3>2. \A d \in Nat : d <= clock => d <= clock'
      BY <2>1
    <3>. QED
      BY <2>1, <3>1, <3>2 DEF InStep, Ready, Instant, PeriodsOf, tables, periods
  <2>. QED
    BY <2>2, <2>4, <2>5 DEF OneAtATime
<1>2. ASSUME NEW w \in Workers,
             \/ \E actor \in Users, new_status \in TicketStatus : Begin(w, actor, new_status)
             \/ Load(w) \/ Authorize(w) \/ Select(w) \/ Respond(w)
      PROVE  OneAtATime'
  <2>1. /\ UNCHANGED <<clock, tables>>
        /\ w \in InFlight \/ InFlight = {}
        /\ InStep(req'[w]) /\ \A u \in Workers \ {w} : req'[u] = req[u]
    BY <1>0, <1>2, LoneRequestStep
  <2>2. \A u \in Workers \ {w} : req[u].pc = "idle"
    BY <1>0, <2>1 DEF OneAtATime, Alone, InFlight
  <2>3. Alone'
    BY <2>1, <2>2 DEF Alone, InFlight
  <2>4. LogsMatchStatus' /\ DatesAscend'
    BY <1>0, <2>1 DEF OneAtATime, LogsMatchStatus, DatesAscend, PeriodsOf, tables, periods
  <2>5. ASSUME NEW u \in Workers PROVE InStep(req[u])'
    <3>1. InStep(req'[u])
      BY <1>0, <2>1 DEF OneAtATime
    <3>. QED
      BY <2>1, <3>1 DEF InStep, PeriodsOf, tables, periods
  <2>. QED
    BY <2>3, <2>4, <2>5 DEF OneAtATime
<1>3. ASSUME NEW w \in Workers, Commit(w) PROVE OneAtATime'
  BY <1>0, <1>3, LoneCommitStep
<1>. QED
  BY <1>1, <1>2, <1>3 DEF Next, Serve

LEMMA SerialInvariant == Spec => []SerialInv
<1>1. Init => SerialInv
  <2>. SUFFICES ASSUME Init PROVE OneAtATime
    BY DEF SerialInv
  <2>1. \A w \in Workers : req[w] = NoRequest
    BY DEF Init
  <2>2. Alone
    BY <2>1 DEF Alone, InFlight, NoRequest
  <2>3. LogsMatchStatus
    BY DEF Init, LogsMatchStatus, PeriodsOf, Logged, OpenRows
  <2>4. DatesAscend
    BY DEF Init, DatesAscend
  <2>5. InStep(NoRequest)
    BY DEF InStep, NoRequest
  <2>. QED
    BY <2>1, <2>2, <2>3, <2>4, <2>5 DEF OneAtATime
<1>. QED
  BY <1>1, SerialStep, InductiveInvariant, PTL DEF Spec

\* The one() of a move finds its row: no status request answers 500 unless requests have
\* overlapped.
THEOREM ServerErrorsNeedOverlap == Spec => []ErrorsNeedOverlap
<1>1. SerialInv => ErrorsNeedOverlap
  BY DEF SerialInv, OneAtATime, InStep, ErrorsNeedOverlap
<1>. QED
  BY <1>1, SerialInvariant, PTL

\* Unless requests have overlapped, the status change the timeline shows last is the one
\* that gave the ticket its status.
THEOREM TimelineEnds == Spec => []TimelineEndsAtStatus
<1>1. IInv /\ SerialInv /\ TimelineAccountsForTicket => TimelineEndsAtStatus
  <2>. SUFFICES ASSUME IInv, SerialInv, TimelineAccountsForTicket, ~ overlapped,
                       NEW i \in DOMAIN history,
                       \A j \in DOMAIN history \ {i} : ShownAfter(i, j)
                PROVE  history[i].new_status = status
    BY DEF TimelineEndsAtStatus
  <2>. DEFINE n == Len(history)
  <2>1. history \in Seq(StatusChange)
    BY DEF IInv, TypeOK
  <2>2. n \in Nat /\ DOMAIN history = 1..n /\ i \in 1..n /\ n \in DOMAIN history /\ history # <<>>
    BY <2>1
  <2>3. \A j \in DOMAIN history : history[j].created_at \in Nat
    BY EventsDated DEF Instant
  <2>4. i < n => history[i].created_at <= history[n].created_at
    BY <2>2 DEF SerialInv, OneAtATime, DatesAscend
  <2>5. i = n
    <3>. SUFFICES ASSUME i # n PROVE FALSE
      OBVIOUS
    <3>1. ShownAfter(i, n) /\ i < n
      BY <2>2
    <3>. QED
      BY <2>2, <2>3, <2>4, <3>1 DEF ShownAfter
  <2>. QED
    BY <2>2, <2>5 DEF TimelineAccountsForTicket
<1>. QED
  BY <1>1, InductiveInvariant, SerialInvariant, TimelineAccounts, PTL
-----------------------------------------------------------------------------
(***************************************************************************)
(* The refinement of Lifecycle.                                            *)
(***************************************************************************)
\* What a request carries to its commit for the serial move it stands for: a stamp that
\* is not in the future, and an actor who may make the move.
Stamped(r) ==
    /\ r.pc \in {"idle", "load", "authorize"} => r.now = NULL
    /\ r.pc \in {"select", "commit", "respond"} => r.now \in Instant /\ r.now <= clock
    /\ r.pc # "idle" => r.actor \in Users
    /\ r.pc \in {"select", "commit"} =>
         /\ CanActOnTicket(r.actor, team)
         /\ Moves(r, "resolved", "closed") => CanCloseTicket(r.actor, team)
    /\ r.pc \in {"load", "authorize", "select", "commit"} =>
         Len(history) < MaxEvents

Stamps == clock <= MaxTime /\ \A w \in Workers : Stamped(req[w])

StampInv == ~ overlapped => Stamps

\* What each statement leaves in its request.
LEMMA StampedRequestStep ==
    ASSUME IInv, Stamps, ~ overlapped', NEW w \in Workers,
           \/ \E actor \in Users, new_status \in TicketStatus : Begin(w, actor, new_status)
           \/ Load(w) \/ Authorize(w) \/ Select(w) \/ Respond(w)
    PROVE  /\ UNCHANGED <<clock, tables>>
           /\ Stamped(req'[w]) /\ \A u \in Workers \ {w} : req'[u] = req[u]
<1>. DEFINE r == req[w]
<1>0. /\ req \in [Workers -> Request] /\ r \in Request /\ Stamped(r) /\ clock \in Instant
      /\ Len(history) \in Nat
  BY DEF IInv, TypeOK, Stamps
<1>1. UNCHANGED <<clock, tables>>
  BY DEF Begin, Load, Authorize, Select, Respond
<1>2. \A u \in Workers \ {w} : req'[u] = req[u]
  BY <1>0 DEF Begin, Load, Authorize, Select, Respond
<1>3. ASSUME NEW v \in Request, NEW answer, v.now \in Instant, v.now <= clock, v.actor \in Users
      PROVE  Stamped(Answered(v, answer))
  <2>1. /\ Answered(v, answer).pc = "respond" /\ Answered(v, answer).now = v.now
        /\ Answered(v, answer).actor = v.actor
    BY DEF Answered, Request
  <2>. QED
    BY <1>3, <2>1 DEF Stamped
<1>4. ASSUME NEW actor \in Users, NEW new_status \in TicketStatus, Begin(w, actor, new_status)
      PROVE  Stamped(req'[w])
  <2>. DEFINE v == [NoRequest EXCEPT !.pc = "load", !.actor = actor,
                                     !.new_status = new_status, !.began = clock]
  <2>1. v.pc = "load" /\ v.now = NULL /\ v.actor = actor
    BY DEF NoRequest
  <2>2. req'[w] = v /\ InFlight = {} /\ Len(history) + Cardinality(InFlight) < MaxEvents
    BY <1>0, <1>4 DEF Begin
  <2>3. Len(history) < MaxEvents
    BY <1>0, <2>2, FS_EmptySet
  <2>. HIDE DEF v
  <2>. QED
    BY <2>1, <2>2, <2>3 DEF Stamped
<1>5. CASE Load(w)
  <2>. DEFINE v == [r EXCEPT !.pc = "authorize", !.current = status]
  <2>1. v.pc = "authorize" /\ v.now = r.now /\ v.actor = r.actor
    BY <1>0 DEF Request
  <2>2. req'[w] = v /\ r.pc = "load"
    BY <1>0, <1>5 DEF Load
  <2>. HIDE DEF v
  <2>3. Stamped(v)
    BY <1>0, <2>1, <2>2 DEF Stamped
  <2>. QED
    BY <1>1, <1>2, <2>2, <2>3
<1>6. CASE Authorize(w)
  <2>. DEFINE u == [r EXCEPT !.now = clock]
              v == [u EXCEPT !.pc = IF u.current \in Logged THEN "select" ELSE "commit"]
  <2>1. u \in Request
    BY <1>0 DEF Request, Steps
  <2>2. /\ u.actor = r.actor /\ u.now = clock /\ u.pc = r.pc
        /\ v.current = u.current /\ v.new_status = u.new_status
        /\ v.now = clock /\ v.actor = r.actor
        /\ v.pc = IF r.current \in Logged THEN "select" ELSE "commit"
    BY <1>0 DEF Request
  <2>3. /\ req'[w] = IF Refusal(u) # "none" THEN Answered(u, Refusal(u)) ELSE v
        /\ r.pc = "authorize"
    BY <1>0, <1>6 DEF Authorize, Request
  <2>. HIDE DEF u, v
  <2>4. r.actor \in Users /\ clock <= clock
    BY <1>0, <2>3 DEF Stamped, Instant
  <2>5. Stamped(Answered(u, Refusal(u)))
    BY <1>0, <1>3, <2>1, <2>2, <2>4
  <2>6. ASSUME Refusal(u) = "none" PROVE Stamped(v)
    <3>1. /\ CanActOnTicket(u.actor, team)
          /\ Moves(u, "resolved", "closed") => CanCloseTicket(u.actor, team)
      BY <2>6 DEF Refusal
    <3>. QED
      BY <1>0, <2>2, <2>3, <2>4, <3>1 DEF Stamped, Moves
  <2>. QED
    BY <1>1, <1>2, <2>3, <2>5, <2>6
<1>7. CASE Select(w)
  <2>0. r.pc = "select" /\ r.now \in Instant /\ r.now <= clock /\ r.actor \in Users
    BY <1>0, <1>7 DEF Select, Stamped
  <2>1. ASSUME NEW row PROVE Stamped([r EXCEPT !.pc = "commit", !.row = row])
    <3>. DEFINE v == [r EXCEPT !.pc = "commit", !.row = row]
    <3>1. /\ v.pc = "commit" /\ v.current = r.current /\ v.now = r.now
          /\ v.actor = r.actor /\ v.new_status = r.new_status
      BY <1>0 DEF Request
    <3>. HIDE DEF v
    <3>2. Stamped(v)
      BY <1>0, <2>0, <3>1 DEF Stamped, Moves
    <3>. QED
      BY <3>2 DEF v
  <2>2. Stamped(Answered(r, "409")) /\ Stamped(Answered(r, "500"))
    BY <1>0, <1>3, <2>0
  <2>3. \/ req'[w] \in {Answered(r, "409"), Answered(r, "500")}
        \/ \E row : req'[w] = [r EXCEPT !.pc = "commit", !.row = row]
    BY <1>0, <1>7 DEF Select
  <2>. QED
    BY <1>1, <1>2, <2>1, <2>2, <2>3
<1>8. CASE Respond(w)
  <2>1. Stamped(NoRequest)
    BY DEF Stamped, NoRequest
  <2>. QED
    BY <1>0, <1>1, <1>2, <1>8, <2>1 DEF Respond
<1>. QED
  BY <1>1, <1>2, <1>4, <1>5, <1>6, <1>7, <1>8

\* Until requests overlap, each carries its stamp and its permission.
LEMMA StampStep == IInv /\ SerialInv /\ StampInv /\ [Next]_vars => StampInv'
<1>. SUFFICES ASSUME IInv, SerialInv, StampInv, [Next]_vars, ~ overlapped' PROVE Stamps'
  BY DEF StampInv
<1>0. /\ OneAtATime /\ Stamps
      /\ req \in [Workers -> Request] /\ clock \in Nat /\ MaxTime \in Nat
  <2>1. ~ overlapped
    BY DEF Next, Serve, Tick, Begin, Load, Authorize, Select, Commit, Respond, vars
  <2>. QED
    BY <2>1, RequestsAssumption DEF SerialInv, StampInv, IInv, TypeOK, Instant
<1>1. CASE Tick \/ UNCHANGED vars
  <2>1. UNCHANGED <<tables, req>> /\ clock' \in Nat /\ clock' >= clock /\ clock' <= MaxTime
    BY <1>0, <1>1 DEF Tick, vars, Stamps
  <2>2. ASSUME NEW w \in Workers PROVE Stamped(req[w])'
    <3>1. Stamped(req[w])
      BY <1>0 DEF Stamps
    <3>2. \A d \in Instant : d <= clock => d <= clock'
      BY <1>0, <2>1 DEF Instant
    <3>. QED
      BY <2>1, <3>1, <3>2 DEF Stamped, Moves, CanActOnTicket, CanCloseTicket, IsAssignedTo, tables
  <2>. QED
    BY <2>1, <2>2 DEF Stamps
<1>2. ASSUME NEW w \in Workers,
             \/ \E actor \in Users, new_status \in TicketStatus : Begin(w, actor, new_status)
             \/ Load(w) \/ Authorize(w) \/ Select(w) \/ Respond(w)
      PROVE  Stamps'
  <2>1. /\ UNCHANGED <<clock, tables>>
        /\ Stamped(req'[w]) /\ \A u \in Workers \ {w} : req'[u] = req[u]
    BY <1>0, <1>2, StampedRequestStep
  <2>2. ASSUME NEW u \in Workers PROVE Stamped(req[u])'
    <3>1. Stamped(req'[u])
      BY <1>0, <2>1 DEF Stamps
    <3>. QED
      BY <2>1, <3>1 DEF Stamped, Moves, CanActOnTicket, CanCloseTicket, IsAssignedTo, tables
  <2>. QED
    BY <1>0, <2>1, <2>2 DEF Stamps
<1>3. ASSUME NEW w \in Workers, Commit(w) PROVE Stamps'
  <2>. DEFINE r == req[w]
  <2>1. r \in Request /\ r.pc = "commit" /\ Stamped(r)
    BY <1>0, <1>3, CommitFacts DEF Stamps
  <2>2. req' = [req EXCEPT ![w] = Answered(r, "ok")] /\ clock' = clock
    BY <1>3 DEF Commit
  <2>3. /\ Answered(r, "ok").pc = "respond" /\ Answered(r, "ok").now = r.now
        /\ Answered(r, "ok").actor = r.actor
    BY <2>1 DEF Answered, Request
  <2>4. ASSUME NEW u \in Workers \ {w} PROVE req'[u] = req[u] /\ req[u].pc = "idle"
    BY <1>0, <2>1, <2>2 DEF OneAtATime, Alone, InFlight
  <2>5. ASSUME NEW u \in Workers \ {w} PROVE Stamped(req[u])'
    BY <1>0, <2>4, <2>5 DEF Stamped, Stamps
  <2>6. Stamped(req[w])'
    BY <1>0, <2>1, <2>2, <2>3 DEF Stamped
  <2>. QED
    BY <1>0, <2>2, <2>5, <2>6 DEF Stamps
<1>. QED
  BY <1>1, <1>2, <1>3 DEF Next, Serve

LEMMA StampInvariant == Spec => []StampInv
<1>1. Init => StampInv
  <2>. SUFFICES ASSUME Init PROVE Stamps
    BY DEF StampInv
  <2>1. \A w \in Workers : req[w] = NoRequest
    BY DEF Init
  <2>2. Stamped(NoRequest)
    BY DEF Stamped, NoRequest
  <2>3. clock <= MaxTime
    BY RequestsAssumption DEF Init, CreatedAt
  <2>. QED
    BY <2>1, <2>2, <2>3 DEF Stamps
<1>. QED
  BY <1>1, StampStep, SerialInvariant, InductiveInvariant, PTL DEF Spec

\* The serial clock, when at most one request has a stamp.
LEMMA OneStamp ==
    ASSUME NEW q, NEW c, NEW w \in Workers, \A u \in Workers \ {w} : q[u].now = NULL
    PROVE  (IF \E v \in Workers : q[v].now # NULL
            THEN q[CHOOSE v \in Workers : q[v].now # NULL].now
            ELSE c) = IF q[w].now # NULL THEN q[w].now ELSE c
<1>1. CASE q[w].now # NULL
  <2>1. (CHOOSE v \in Workers : q[v].now # NULL) = w
    BY <1>1
  <2>. QED
    BY <1>1, <2>1
<1>2. CASE q[w].now = NULL
  BY <1>2
<1>. QED
  BY <1>1, <1>2

\* Lifecycle and the requests share their vocabulary.
LEMMA SameWords ==
    /\ Serial!AllowedTransitions = AllowedTransitions
    /\ \A actor, ticket : /\ Serial!CanActOnTicket(actor, ticket) = CanActOnTicket(actor, ticket)
                         /\ Serial!CanCloseTicket(actor, ticket) = CanCloseTicket(actor, ticket)
    /\ \A log, now : Serial!StartPeriod(log, now) = StartPeriod(log, now)
    /\ \A log, row, now : Serial!EndPeriod(log, row, now) = EndPeriod(log, row, now)
    /\ \A log, row : Serial!OnlyOpenRow(log, row) = OnlyOpenRow(log, row)
    /\ \A start, now : Serial!WithinWindow(start, now) = WithinWindow(start, now)
BY Zenon DEF Serial!AllowedTransitions, AllowedTransitions,
       Serial!CanActOnTicket, CanActOnTicket, Serial!CanCloseTicket, CanCloseTicket,
       Serial!IsSupervisor, IsSupervisor, Serial!IsAssignedTo, IsAssignedTo,
       Serial!StartPeriod, StartPeriod, Serial!EndPeriod, EndPeriod,
       Serial!OnlyOpenRow, OnlyOpenRow, Serial!OpenRows, OpenRows,
       Serial!WithinWindow, WithinWindow

\* The serial timeline: the events without their dates.
Undated(h) == [i \in DOMAIN h |-> [old_status |-> h[i].old_status, new_status |-> h[i].new_status]]

LEMMA UndatedAppend ==
    ASSUME NEW h \in Seq(StatusChange), NEW e \in StatusChange
    PROVE  /\ Len(Undated(h)) = Len(h)
           /\ Undated(Append(h, e)) =
                Append(Undated(h), [old_status |-> e.old_status, new_status |-> e.new_status])
<1>. DEFINE n == Len(h)
            Short == [old_status : TicketStatus, new_status : TicketStatus]
            d == [old_status |-> e.old_status, new_status |-> e.new_status]
            u == Undated(h)
            h2 == Append(h, e)
            u2 == Undated(h2)
            v == Append(u, d)
<1>1. n \in Nat /\ DOMAIN h = 1..n /\ \A i \in 1..n : h[i] \in StatusChange
  OBVIOUS
<1>2. h2 \in Seq(StatusChange) /\ DOMAIN h2 = 1..(n + 1) /\ h2[n + 1] = e /\ \A i \in 1..n : h2[i] = h[i]
  BY <1>1
<1>3. d \in Short
  BY DEF StatusChange
<1>4. u \in [1..n -> Short]
  BY <1>1 DEF Undated, StatusChange
<1>5. u \in Seq(Short) /\ Len(u) = n
  <2>. HIDE DEF u, n, Short
  <2>. QED
    BY <1>1, <1>4
<1>6. v \in Seq(Short) /\ DOMAIN v = 1..(n + 1) /\ v[n + 1] = d /\ \A i \in 1..n : v[i] = u[i]
  BY <1>1, <1>3, <1>5
<1>7. v = [i \in 1..(n + 1) |-> v[i]]
  BY <1>6
<1>8. ASSUME NEW i \in 1..(n + 1)
      PROVE  v[i] = [old_status |-> h2[i].old_status, new_status |-> h2[i].new_status]
  <2>1. CASE i = n + 1
    BY <1>2, <1>6, <2>1
  <2>2. CASE i \in 1..n
    BY <1>1, <1>2, <1>6, <2>2 DEF Undated
  <2>3. i = n + 1 \/ i \in 1..n
    <3>. HIDE DEF n
    <3>. QED
      BY <1>1
  <2>. QED
    BY <2>1, <2>2, <2>3
<1>9. u2 = [i \in 1..(n + 1) |-> [old_status |-> h2[i].old_status, new_status |-> h2[i].new_status]]
  BY <1>2 DEF Undated
<1>. HIDE DEF v, u2, h2, d
<1>10. u2 = v
  BY <1>7, <1>8, <1>9
<1>. QED
  BY <1>5, <1>10 DEF u2, v, h2, d

\* Beside a lone request no other has a stamp.
LEMMA OthersBlank ==
    ASSUME OneAtATime, Stamps, NEW w \in Workers, w \in InFlight \/ InFlight = {}
    PROVE  \A u \in Workers \ {w} : req[u].now = NULL
BY DEF OneAtATime, Alone, InFlight, Stamps, Stamped

\* The serial clock through a step that is not a commit: it stands, or ticks.
LEMMA QuietStep ==
    ASSUME IInv, OneAtATime, Stamps, ~ overlapped', [Next]_vars, UNCHANGED tables
    PROVE  ServiceClock' = ServiceClock \/ ServiceClock' \in (ServiceClock + 1)..MaxTime
<1>0. /\ req \in [Workers -> Request] /\ clock \in Nat /\ clock # NULL /\ clock <= MaxTime
      /\ MaxTime \in Nat
  BY NullAssumption, RequestsAssumption DEF IInv, TypeOK, Instant, Stamps
<1>1. CASE UNCHANGED vars
  BY <1>1 DEF vars, ServiceClock
<1>2. CASE Tick
  <2>1. req' = req /\ clock' = clock + 1 /\ clock' <= MaxTime
    BY <1>0, <1>2 DEF Tick
  <2>2. CASE \A w \in Workers : req[w].now = NULL
    <3>1. ServiceClock = clock /\ ServiceClock' = clock'
      BY <2>1, <2>2 DEF ServiceClock
    <3>. QED
      BY <1>0, <2>1, <3>1
  <2>3. CASE ~ \A w \in Workers : req[w].now = NULL
    BY <2>1, <2>3 DEF ServiceClock
  <2>. QED
    BY <2>2, <2>3
<1>3. ASSUME NEW w \in Workers,
             \/ \E actor \in Users, new_status \in TicketStatus : Begin(w, actor, new_status)
             \/ Load(w) \/ Authorize(w) \/ Select(w) \/ Respond(w)
      PROVE  ServiceClock' = ServiceClock \/ ServiceClock' \in (ServiceClock + 1)..MaxTime
  <2>. DEFINE r == req[w]
              r2 == req'[w]
  <2>1. /\ clock' = clock
        /\ w \in InFlight \/ InFlight = {}
        /\ \A u \in Workers \ {w} : req'[u] = req[u]
    BY <1>3, LoneRequestStep
  <2>2. \A u \in Workers \ {w} : req[u].now = NULL /\ req'[u].now = NULL
    BY <2>1, OthersBlank
  <2>3. /\ ServiceClock = IF r.now # NULL THEN r.now ELSE clock
        /\ ServiceClock' = IF r2.now # NULL THEN r2.now ELSE clock
    <3>1. ServiceClock = IF r.now # NULL THEN r.now ELSE clock
      BY <2>2, OneStamp, Zenon DEF ServiceClock
    <3>2. ServiceClock' = IF r2.now # NULL THEN r2.now ELSE clock'
      BY <2>2, OneStamp, Zenon DEF ServiceClock
    <3>. QED
      BY <2>1, <3>1, <3>2
  <2>4. r \in Request /\ Stamped(r)
    BY <1>0 DEF Stamps
  <2>5. CASE Respond(w)
    <3>1. r.pc = "respond" /\ r2.now = NULL
      BY <1>0, <2>5 DEF Respond, NoRequest
    <3>2. r.now \in Nat /\ r.now # NULL /\ r.now <= clock
      BY <2>4, <3>1, NullAssumption DEF Stamped, Instant
    <3>3. ServiceClock = r.now /\ ServiceClock' = clock
      BY <2>3, <3>1, <3>2
    <3>. QED
      BY <1>0, <3>2, <3>3
  <2>6. CASE ~ Respond(w)
    <3>1. r2.now = r.now \/ (r.now = NULL /\ r2.now = clock)
      <4>1. ASSUME NEW actor \in Users, NEW new_status \in TicketStatus, Begin(w, actor, new_status)
            PROVE  r2.now = NULL /\ r.now = NULL
        BY <1>0, <2>4, <4>1 DEF Begin, NoRequest, Stamped
      <4>2. CASE Load(w)
        <5>1. r2 = [r EXCEPT !.pc = "authorize", !.current = status]
          BY <1>0, <4>2 DEF Load
        <5>. QED
          BY <2>4, <5>1 DEF Request
      <4>3. CASE Authorize(w)
        <5>. DEFINE u == [r EXCEPT !.now = clock]
        <5>1. u.now = clock /\ u \in Request /\ r.now = NULL
          BY <1>0, <2>4, <4>3 DEF Request, Steps, Authorize, Stamped, Instant
        <5>2. \/ r2 = Answered(u, Refusal(u))
              \/ r2 = [u EXCEPT !.pc = IF u.current \in Logged THEN "select" ELSE "commit"]
          BY <1>0, <4>3 DEF Authorize
        <5>. HIDE DEF u, r2, r
        <5>. QED
          BY <5>1, <5>2 DEF Answered, Request
      <4>4. CASE Select(w)
        <5>1. \/ r2 \in {Answered(r, "409"), Answered(r, "500")}
              \/ \E row : r2 = [r EXCEPT !.pc = "commit", !.row = row]
          BY <1>0, <4>4 DEF Select
        <5>2. ASSUME NEW answer PROVE Answered(r, answer).now = r.now
          BY <2>4 DEF Answered, Request
        <5>3. ASSUME NEW row PROVE [r EXCEPT !.pc = "commit", !.row = row].now = r.now
          BY <2>4 DEF Request
        <5>. QED
          BY <5>1, <5>2, <5>3
      <4>5. CASE \E actor \in Users, new_status \in TicketStatus : Begin(w, actor, new_status)
        BY <4>1, <4>5
      <4>. QED
        BY <1>3, <2>6, <4>2, <4>3, <4>4, <4>5
    <3>. QED
      BY <1>0, <2>3, <3>1
  <2>. QED
    BY <2>5, <2>6
<1>4. ASSUME NEW w \in Workers, Commit(w) PROVE FALSE
  <2>1. history' = history
    BY DEF tables
  <2>. QED
    BY <1>4, <2>1, CommitRecords
<1>. QED
  BY <1>1, <1>2, <1>3, <1>4 DEF Next, Serve

\* The table, move by move.
LEMMA LegalMoves ==
    ASSUME NEW old \in TicketStatus, NEW new \in AllowedTransitions[old]
    PROVE  \/ old = "new" /\ new = "open"
           \/ old = "open" /\ new = "pending"
           \/ old = "open" /\ new = "resolved"
           \/ old = "pending" /\ new = "open"
           \/ old = "resolved" /\ new = "closed"
           \/ old = "closed" /\ new = "open"
BY DEF TicketStatus, AllowedTransitions

\* The commit of a lone request is the serial move, at the time it stamped.
LEMMA CommitIsMove ==
    ASSUME IInv, OneAtATime, Stamps, NEW w \in Workers, Commit(w)
    PROVE  Serial!Next
<1>. DEFINE r == req[w]
            row == r.row
<1>0. /\ req \in [Workers -> Request] /\ r \in Request /\ r.pc = "commit"
      /\ Ready(r) /\ HoldsRow(r) /\ InStep(r) /\ Stamped(r)
      /\ r.now \in Instant /\ r.now # NULL
      /\ status \in TicketStatus /\ r.current = status
      /\ r.new_status \in AllowedTransitions[status]
      /\ r.actor \in Users
  <2>1. r \in Request /\ r.pc = "commit" /\ r.now \in Instant
    BY CommitFacts
  <2>2. Ready(r) /\ HoldsRow(r) /\ InStep(r) /\ Stamped(r) /\ status \in TicketStatus
    BY DEF IInv, TypeOK, OneAtATime, Stamps
  <2>. QED
    BY <2>1, <2>2, NullAssumption DEF IInv, TypeOK, Ready, InStep, Stamped, Instant
<1>1. ServiceClock = r.now /\ ServiceClock' = r.now
  <2>1. w \in InFlight
    BY <1>0 DEF InFlight
  <2>2. \A u \in Workers \ {w} : req[u].now = NULL
    BY <2>1, OthersBlank
  <2>3. req' = [req EXCEPT ![w] = Answered(r, "ok")]
    BY DEF Commit
  <2>4. req'[w].now = r.now /\ \A u \in Workers \ {w} : req'[u].now = NULL
    BY <1>0, <2>2, <2>3 DEF Answered, Request
  <2>5. ServiceClock = IF r.now # NULL THEN r.now ELSE clock
    BY <2>2, OneStamp, Zenon DEF ServiceClock
  <2>6. ServiceClock' = IF req'[w].now # NULL THEN req'[w].now ELSE clock'
    BY <2>4, OneStamp, Zenon DEF ServiceClock
  <2>. QED
    BY <1>0, <2>4, <2>5, <2>6
<1>11. PICK actor \in Users : actor = r.actor
  BY <1>0
<1>2. ASSUME NEW new, new = r.new_status PROVE Serial!Transition(actor, new)
  <2>. DEFINE event == [old_status |-> r.current, new_status |-> r.new_status,
                        created_at |-> r.began]
  <2>1. history \in Seq(StatusChange) /\ event \in StatusChange
    BY CommitFacts DEF StatusChange, IInv, TypeOK
  <2>2. history' = Append(history, event) /\ status' = r.new_status /\ UNCHANGED team
    BY DEF Commit
  <2>3. /\ Len(Undated(history)) = Len(history)
        /\ Undated(history') =
             Append(Undated(history), [old_status |-> r.current, new_status |-> r.new_status])
    BY <2>1, <2>2, UndatedAppend
  <2>4. Len(history) < MaxEvents
    BY <1>0 DEF Stamped
  <2>5. CanActOnTicket(r.actor, team)
    BY <1>0 DEF Stamped
  <2>. HIDE DEF r, event
  <2>. QED
    BY <1>0, <1>1, <1>2, <1>11, <2>2, <2>3, <2>4, <2>5, SameWords DEF Serial!Transition, Undated
<1>3. /\ pending_periods' = LogAfter("pending", pending_periods, r)
      /\ closed_periods' = LogAfter("closed", closed_periods, r)
      /\ resolved_periods' = LogAfter("resolved", resolved_periods, r)
      /\ resolved_at' = IF r.new_status = "resolved" THEN r.now ELSE resolved_at
  BY DEF Commit
<1>4. ASSUME status \in Logged
      PROVE  row \in DOMAIN PeriodsOf(status) /\ OnlyOpenRow(PeriodsOf(status), row)
  <2>1. row \in DOMAIN PeriodsOf(status)
    BY <1>0, <1>4 DEF HoldsRow
  <2>2. OpenRows(PeriodsOf(status)) = {Len(PeriodsOf(status))}
    BY <1>4 DEF OneAtATime, LogsMatchStatus
  <2>3. row = Len(PeriodsOf(status))
    BY <1>0, <1>4 DEF InStep
  <2>. QED
    BY <2>1, <2>2, <2>3 DEF OnlyOpenRow
<1>. SUFFICES Serial!StatusRequest(actor)
  BY DEF Serial!Next
<1>. HIDE DEF r, row
<1>5. CASE status = "new" /\ r.new_status = "open"
  <2>1. UNCHANGED <<resolved_at, pending_periods, closed_periods, resolved_periods>>
    BY <1>0, <1>3, <1>5 DEF LogAfter
  <2>. QED
    BY <1>2, <1>5, <2>1 DEF Serial!StatusRequest, Serial!Open, Serial!periods
<1>6. CASE status = "open" /\ r.new_status = "pending"
  <2>1. /\ UNCHANGED <<resolved_at, closed_periods, resolved_periods>>
        /\ pending_periods' = StartPeriod(pending_periods, r.now)
    BY <1>0, <1>3, <1>6 DEF LogAfter
  <2>. QED
    BY <1>1, <1>2, <1>6, <2>1, SameWords DEF Serial!StatusRequest, Serial!Hold
<1>7. CASE status = "open" /\ r.new_status = "resolved"
  <2>1. /\ UNCHANGED <<pending_periods, closed_periods>>
        /\ resolved_periods' = StartPeriod(resolved_periods, r.now)
        /\ resolved_at' = r.now
    BY <1>0, <1>3, <1>7 DEF LogAfter
  <2>. QED
    BY <1>1, <1>2, <1>7, <2>1, SameWords DEF Serial!StatusRequest, Serial!Resolve
<1>8. CASE status = "pending" /\ r.new_status = "open"
  <2>1. /\ UNCHANGED <<resolved_at, closed_periods, resolved_periods>>
        /\ pending_periods' = EndPeriod(pending_periods, row, r.now)
    BY <1>0, <1>3, <1>8 DEF LogAfter, row
  <2>2. row \in DOMAIN pending_periods /\ OnlyOpenRow(pending_periods, row)
    BY <1>4, <1>8, PeriodsOfIs DEF Logged
  <2>. QED
    BY <1>1, <1>2, <1>8, <2>1, <2>2, SameWords DEF Serial!StatusRequest, Serial!Resume
<1>9. CASE status = "resolved" /\ r.new_status = "closed"
  <2>1. /\ UNCHANGED <<resolved_at, pending_periods>>
        /\ closed_periods' = StartPeriod(closed_periods, r.now)
        /\ resolved_periods' = EndPeriod(resolved_periods, row, r.now)
    BY <1>0, <1>3, <1>9 DEF LogAfter, row
  <2>2. row \in DOMAIN resolved_periods /\ OnlyOpenRow(resolved_periods, row)
    BY <1>4, <1>9, PeriodsOfIs DEF Logged
  <2>3. CanCloseTicket(actor, team)
    BY <1>0, <1>9, <1>11 DEF Stamped, Moves
  <2>. QED
    BY <1>1, <1>2, <1>9, <2>1, <2>2, <2>3, SameWords DEF Serial!StatusRequest, Serial!Close
<1>10. CASE status = "closed" /\ r.new_status = "open"
  <2>1. /\ UNCHANGED <<resolved_at, pending_periods, resolved_periods>>
        /\ closed_periods' = EndPeriod(closed_periods, row, r.now)
    BY <1>0, <1>3, <1>10 DEF LogAfter, row
  <2>2. row \in DOMAIN closed_periods /\ OnlyOpenRow(closed_periods, row)
    BY <1>4, <1>10, PeriodsOfIs DEF Logged
  <2>3. WithinWindow(closed_periods[row].start, r.now)
    BY <1>0, <1>10 DEF HoldsRow, Logged, row
  <2>. QED
    BY <1>1, <1>2, <1>10, <2>1, <2>2, <2>3, SameWords DEF Serial!StatusRequest, Serial!Reopen
<1>. QED
  BY <1>0, <1>5, <1>6, <1>7, <1>8, <1>9, <1>10, LegalMoves

\* Until requests overlap, the statements of transition() are together the atomic move
\* of Lifecycle or nothing, for any number of workers.
THEOREM RequestsImplementLifecycle == Spec => ImplementsLifecycle
<1>1. Init => Serial!Init
  <2>. SUFFICES ASSUME Init PROVE Serial!Init
    OBVIOUS
  <2>1. \A w \in Workers : req[w].now = NULL
    BY DEF Init, NoRequest
  <2>2. ServiceClock = clock
    BY <2>1 DEF ServiceClock
  <2>3. [i \in DOMAIN history |-> [old_status |-> history[i].old_status,
                                  new_status |-> history[i].new_status]] = <<>>
    BY DEF Init
  <2>. QED
    BY <2>2, <2>3 DEF Init, Serial!Init, CreatedAt, Serial!CreatedAt, Agents, Serial!Agents
<1>2. ASSUME IInv, SerialInv, StampInv, [Next]_vars, ~ overlapped'
      PROVE  [Serial!Next]_Serial!vars
  <2>1. OneAtATime /\ Stamps
    <3>1. ~ overlapped
      BY <1>2 DEF Next, Serve, Tick, Begin, Load, Authorize, Select, Commit, Respond, vars
    <3>. QED
      BY <1>2, <3>1 DEF SerialInv, StampInv
  <2>2. CASE UNCHANGED tables
    <3>1. ServiceClock' = ServiceClock \/ ServiceClock' \in (ServiceClock + 1)..MaxTime
      BY <1>2, <2>1, <2>2, QuietStep
    <3>2. UNCHANGED <<team, status, resolved_at, pending_periods, closed_periods,
                      resolved_periods, history>>
      BY <2>2 DEF tables, periods
    <3>3. ServiceClock' = ServiceClock => UNCHANGED Serial!vars
      BY <3>2 DEF Serial!vars, Serial!periods
    <3>4. ServiceClock' \in (ServiceClock + 1)..MaxTime => Serial!Tick
      BY <3>2 DEF Serial!Tick, Serial!periods
    <3>. QED
      BY <3>1, <3>3, <3>4 DEF Serial!Next
  <2>3. ASSUME NEW w \in Workers, Commit(w) PROVE Serial!Next
    BY <1>2, <2>1, <2>3, CommitIsMove
  <2>. QED
    BY <1>2, <2>2, <2>3, OnlyCommitWrites
<1>. QED
  BY <1>1, <1>2, InductiveInvariant, SerialInvariant, StampInvariant, PTL DEF Spec, ImplementsLifecycle
=============================================================================
