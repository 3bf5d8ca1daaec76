-------------------------- MODULE SlaAlerts_proofs --------------------------
(***************************************************************************)
(* Proofs about the alerts of a ticket, for any users, targets, workers    *)
(* and bounds: an acknowledgement is of one breach, and stays so.  They    *)
(* rest on the invariant of the ticket's serial life.                      *)
(***************************************************************************)
EXTENDS SlaAlerts, Lifecycle_proofs, FiniteSetTheorems, TLAPS

\* The alerts area only watches the ticket: its steps are the ticket's, or none.
LEMMA AlertsKeepLifecycle == AlertsSpec => Spec
<1>1. AlertsInit => Init
  BY DEF AlertsInit
<1>2. [AlertsNext]_allVars => [Next]_vars
  BY DEF AlertsNext, LifecycleStep, allVars, ListAlerts, Acknowledge, InsertAck,
         SetPriority, Archive, Restore
<1>. QED
  BY <1>1, <1>2, PTL DEF AlertsSpec, Spec

LEMMA TicketInvariant == AlertsSpec => []IInv
BY AlertsKeepLifecycle, InductiveInvariant, PTL
-----------------------------------------------------------------------------
(***************************************************************************)
(* The breach epoch.                                                       *)
(***************************************************************************)
EndedRows(log) == DOMAIN log \ OpenRows(log)

LEMMA EndedRowsFinite ==
    ASSUME NEW log \in Seq(Period)
    PROVE  IsFiniteSet(EndedRows(log)) /\ Cardinality(EndedRows(log)) \in Nat
<1>1. Len(log) \in Nat /\ DOMAIN log = 1..Len(log)
  OBVIOUS
<1>2. IsFiniteSet(DOMAIN log)
  BY <1>1, FS_Interval
<1>. QED
  BY <1>2, FS_Subset, FS_CardinalityType DEF EndedRows

\* A new row is open: it is no reopen.
LEMMA StartEndsNothing ==
    ASSUME NEW log \in Seq(Period), NEW now \in Instant
    PROVE  EndedRows(StartPeriod(log, now)) = EndedRows(log)
<1>1. /\ DOMAIN StartPeriod(log, now) = DOMAIN log \cup {Len(log) + 1}
      /\ OpenRows(StartPeriod(log, now)) = OpenRows(log) \cup {Len(log) + 1}
  BY StartPeriodFacts, StartPeriodOpens
<1>2. Len(log) + 1 \notin DOMAIN log
  OBVIOUS
<1>. QED
  BY <1>1, <1>2 DEF EndedRows

LEMMA EndEndsOne ==
    ASSUME NEW log \in Seq(Period), NEW row \in DOMAIN log, NEW now \in Instant,
           OnlyOpenRow(log, row)
    PROVE  Cardinality(EndedRows(EndPeriod(log, row, now))) = Cardinality(EndedRows(log)) + 1
<1>1. /\ DOMAIN EndPeriod(log, row, now) = DOMAIN log
      /\ OpenRows(EndPeriod(log, row, now)) = OpenRows(log) \ {row}
  BY EndPeriodFacts, EndPeriodShuts
<1>2. EndedRows(EndPeriod(log, row, now)) = EndedRows(log) \cup {row} /\ row \notin EndedRows(log)
  BY <1>1 DEF EndedRows, OnlyOpenRow
<1>. QED
  BY <1>2, EndedRowsFinite, FS_AddElement

LEMMA EpochType == ASSUME IInv PROVE CurrentBreachEpoch \in Nat
BY EndedRowsFinite DEF CurrentBreachEpoch, EndedRows, IInv, TypeOK

\* The epoch rises by one when the ticket is reopened, and stands still otherwise.
LEMMA EpochStep ==
    ASSUME IInv, [Next]_vars
    PROVE  CurrentBreachEpoch' = IF Reopened THEN CurrentBreachEpoch + 1 ELSE CurrentBreachEpoch
<1>0. TypeOK /\ clock \in Instant /\ closed_periods \in Seq(Period)
  BY DEF IInv, TypeOK
<1>1. CurrentBreachEpoch = Cardinality(EndedRows(closed_periods))
      /\ CurrentBreachEpoch' = Cardinality(EndedRows(closed_periods'))
  BY DEF CurrentBreachEpoch, EndedRows, OpenRows
<1>2. ASSUME NEW actor \in Users, Reopen(actor)
      PROVE  Reopened /\ CurrentBreachEpoch' = CurrentBreachEpoch + 1
  <2>1. Reopened
    BY <1>2 DEF Reopen, Transition, Reopened
  <2>2. PICK row \in DOMAIN closed_periods :
          OnlyOpenRow(closed_periods, row) /\ closed_periods' = EndPeriod(closed_periods, row, clock)
    BY <1>2 DEF Reopen
  <2>3. Cardinality(EndedRows(EndPeriod(closed_periods, row, clock))) = Cardinality(EndedRows(closed_periods)) + 1
    BY <1>0, <2>2, EndEndsOne
  <2>. QED
    BY <1>1, <2>1, <2>2, <2>3
<1>3. ASSUME NEW actor \in Users, Close(actor)
      PROVE  ~ Reopened /\ CurrentBreachEpoch' = CurrentBreachEpoch
  <2>1. closed_periods' = StartPeriod(closed_periods, clock)
    BY <1>3 DEF Close
  <2>2. EndedRows(StartPeriod(closed_periods, clock)) = EndedRows(closed_periods)
    BY <1>0, StartEndsNothing
  <2>3. ~ Reopened
    BY <1>3 DEF Close, Transition, Reopened
  <2>. QED
    BY <1>1, <2>1, <2>2, <2>3
<1>4. ASSUME NEW actor \in Users, Open(actor) \/ Hold(actor) \/ Resume(actor) \/ Resolve(actor)
      PROVE  ~ Reopened /\ CurrentBreachEpoch' = CurrentBreachEpoch
  <2>1. closed_periods' = closed_periods
    BY <1>4 DEF Open, Hold, Resume, Resolve, periods
  <2>2. ~ Reopened
    BY <1>4 DEF Open, Hold, Resume, Resolve, Transition, Reopened
  <2>. QED
    BY <1>1, <2>1, <2>2
<1>5. CASE Tick \/ UNCHANGED vars
  <2>1. closed_periods' = closed_periods /\ status' = status
    BY <1>5 DEF Tick, vars, periods
  <2>2. ~ Reopened
    BY <2>1 DEF Reopened
  <2>. QED
    BY <1>1, <2>1, <2>2
<1>. QED
  BY <1>2, <1>3, <1>4, <1>5 DEF Next, StatusRequest
-----------------------------------------------------------------------------
(***************************************************************************)
(* Acknowledgements, committed and in flight.                              *)
(***************************************************************************)
LEMMA AlertsTypeStep ==
    IInv /\ AlertsTypeOK /\ [AlertsNext]_allVars => AlertsTypeOK'
<1>. SUFFICES ASSUME IInv, AlertsTypeOK, [AlertsNext]_allVars PROVE AlertsTypeOK'
  OBVIOUS
<1>0. CurrentBreachEpoch \in Nat
  BY EpochType
<1>. USE DEF AlertsTypeOK
<1>1. CASE UNCHANGED alertVars
  BY <1>1 DEF alertVars
<1>2. ASSUME NEW w \in Workers, InsertAck(w) PROVE AlertsTypeOK'
  BY <1>2 DEF InsertAck
<1>3. ASSUME NEW w \in Workers, NEW user \in Users, Acknowledge(w, user) PROVE AlertsTypeOK'
  BY <1>0, <1>3 DEF Acknowledge
<1>4. ASSUME NEW user \in Users, ListAlerts(user) PROVE AlertsTypeOK'
  BY <1>0, <1>4 DEF ListAlerts
<1>5. ASSUME NEW user \in Users,
             Archive(user) \/ Restore(user) \/ \E p \in Priorities : SetPriority(user, p)
      PROVE  AlertsTypeOK'
  BY <1>5 DEF Archive, Restore, SetPriority
<1>. QED
  BY <1>1, <1>2, <1>3, <1>4, <1>5 DEF AlertsNext, LifecycleStep, allVars

\* Every acknowledgement, committed or in flight, is of a user and an epoch.
THEOREM AlertsTypeCorrect == AlertsSpec => []AlertsTypeOK
<1>1. AlertsInit => AlertsTypeOK
  BY DEF AlertsInit, AlertsTypeOK
<1>. QED
  BY <1>1, AlertsTypeStep, TicketInvariant, PTL DEF AlertsSpec

\* No acknowledgement, committed or in flight, is of a breach that is still to come.
NoAckAhead ==
    /\ \A ack \in acks : ack[2] <= CurrentBreachEpoch
    /\ \A w \in Workers : ack_req[w] # NULL => ack_req[w][2] <= CurrentBreachEpoch

\* What a step does to the epoch, whichever component takes it.
LEMMA AlertsEpochStep ==
    ASSUME IInv, [AlertsNext]_allVars
    PROVE  /\ CurrentBreachEpoch \in Nat
           /\ CurrentBreachEpoch' = IF Reopened THEN CurrentBreachEpoch + 1 ELSE CurrentBreachEpoch
           /\ Reopened => UNCHANGED alertVars
<1>1. [Next]_vars
  BY DEF AlertsNext, LifecycleStep, allVars, ListAlerts, Acknowledge, InsertAck,
         SetPriority, Archive, Restore
<1>2. Reopened => UNCHANGED alertVars
  <2>1. UNCHANGED vars => ~ Reopened
    BY DEF vars, Reopened
  <2>. QED
    BY <2>1 DEF AlertsNext, LifecycleStep, allVars, ListAlerts, Acknowledge, InsertAck,
                SetPriority, Archive, Restore
<1>. QED
  BY <1>1, <1>2, EpochType, EpochStep

LEMMA NoAckAheadStep ==
    IInv /\ AlertsTypeOK /\ NoAckAhead /\ [AlertsNext]_allVars => NoAckAhead'
<1>. SUFFICES ASSUME IInv, AlertsTypeOK, NoAckAhead, [AlertsNext]_allVars PROVE NoAckAhead'
  OBVIOUS
<1>. DEFINE epoch == CurrentBreachEpoch
            epoch2 == CurrentBreachEpoch'
<1>0. /\ epoch \in Nat /\ epoch2 \in Nat /\ epoch <= epoch2
      /\ acks \subseteq Users \X Nat
      /\ ack_req \in [Workers -> (Users \X Nat) \cup {NULL}]
  BY AlertsEpochStep DEF AlertsTypeOK
<1>1. /\ \A ack \in acks : ack[2] \in Nat /\ ack[2] <= epoch
      /\ \A w \in Workers : ack_req[w] # NULL => ack_req[w][2] \in Nat /\ ack_req[w][2] <= epoch
  BY <1>0 DEF NoAckAhead
<1>2. \A n \in Nat : n <= epoch => n <= epoch2
  BY <1>0
<1>. HIDE DEF epoch, epoch2
<1>3. \A ack \in acks' : ack[2] <= epoch2
  <2>1. CASE acks' = acks
    BY <1>1, <1>2, <2>1
  <2>2. ASSUME NEW w \in Workers, InsertAck(w) PROVE \A ack \in acks' : ack[2] <= epoch2
    BY <1>1, <1>2, <2>2 DEF InsertAck
  <2>. QED
    BY <2>1, <2>2 DEF AlertsNext, LifecycleStep, allVars, alertVars, ListAlerts, Acknowledge,
                      SetPriority, Archive, Restore
<1>4. \A w \in Workers : ack_req'[w] # NULL => ack_req'[w][2] <= epoch2
  <2>1. CASE ack_req' = ack_req
    BY <1>1, <1>2, <2>1
  <2>2. ASSUME NEW w \in Workers, InsertAck(w)
        PROVE  \A v \in Workers : ack_req'[v] # NULL => ack_req'[v][2] <= epoch2
    BY <1>0, <1>1, <1>2, <2>2 DEF InsertAck
  <2>3. ASSUME NEW w \in Workers, NEW user \in Users, Acknowledge(w, user)
        PROVE  \A v \in Workers : ack_req'[v] # NULL => ack_req'[v][2] <= epoch2
    <3>1. ack_req' = [ack_req EXCEPT ![w] = <<user, epoch>>]
      BY <2>3 DEF Acknowledge, epoch
    <3>. QED
      BY <1>0, <1>1, <1>2, <3>1
  <2>. QED
    BY <2>1, <2>2, <2>3 DEF AlertsNext, LifecycleStep, allVars, alertVars, ListAlerts,
                            SetPriority, Archive, Restore
<1>. QED
  BY <1>3, <1>4 DEF NoAckAhead, epoch2

LEMMA NeverAhead == AlertsSpec => []NoAckAhead
<1>1. AlertsInit => NoAckAhead
  BY DEF AlertsInit, NoAckAhead
<1>. QED
  BY <1>1, NoAckAheadStep, TicketInvariant, AlertsTypeCorrect, PTL DEF AlertsSpec

\* A reopen brings the alert back to every user it concerns, whatever they had
\* acknowledged and whatever acknowledgements were in flight.
THEOREM AlertReturns == AlertsSpec => AlertReturnsAfterReopen
<1>1. IInv /\ AlertsTypeOK /\ NoAckAhead /\ [AlertsNext]_allVars
        => [Reopened => \A u \in Users : Alerting(u)' => Listed(u)']_allVars
  <2>. SUFFICES ASSUME IInv, AlertsTypeOK, NoAckAhead, [AlertsNext]_allVars, Reopened,
                       NEW u \in Users, Alerting(u)'
                PROVE  Listed(u)'
    OBVIOUS
  <2>1. /\ CurrentBreachEpoch \in Nat /\ CurrentBreachEpoch' = CurrentBreachEpoch + 1
        /\ acks' = acks
    BY AlertsEpochStep DEF alertVars
  <2>2. <<u, CurrentBreachEpoch'>> \notin acks
    BY <2>1 DEF NoAckAhead
  <2>3. ~ Acknowledged(u)'
    BY <2>1, <2>2 DEF Acknowledged
  <2>. QED
    BY <2>3 DEF Listed
<1>. QED
  BY <1>1, TicketInvariant, AlertsTypeCorrect, NeverAhead, PTL
     DEF AlertsSpec, AlertReturnsAfterReopen

\* An acknowledgement holds through everything but a reopen.
THEOREM AcksHold == AlertsSpec => AckHoldsUntilReopen
<1>1. IInv /\ [AlertsNext]_allVars
        => [\A u \in Users : Acknowledged(u) /\ ~ Acknowledged(u)' => Reopened]_allVars
  <2>. SUFFICES ASSUME IInv, [AlertsNext]_allVars, ~ Reopened,
                       NEW u \in Users, Acknowledged(u)
                PROVE  Acknowledged(u)'
    OBVIOUS
  <2>1. CurrentBreachEpoch' = CurrentBreachEpoch
    BY AlertsEpochStep
  <2>2. acks \subseteq acks'
    BY DEF AlertsNext, LifecycleStep, allVars, alertVars, ListAlerts, Acknowledge, InsertAck,
           SetPriority, Archive, Restore
  <2>. QED
    BY <2>1, <2>2 DEF Acknowledged
<1>. QED
  BY <1>1, TicketInvariant, PTL DEF AlertsSpec, AckHoldsUntilReopen
-----------------------------------------------------------------------------
(***************************************************************************)
(* What clears an alert.                                                   *)
(***************************************************************************)
LEMMA AlertingMeans ==
    ASSUME NEW elapsed \in Nat, priority \in Priorities
    PROVE  AlertStatus(elapsed) # "none" <=> elapsed >= AtRiskFrom[priority]
<1>1. /\ Target[priority] \in Nat /\ AtRiskFrom[priority] \in Nat
      /\ AtRiskFrom[priority] <= Target[priority]
  BY AlertsAssumption
<1>. QED
  BY <1>1 DEF AlertStatus

\* While a ticket is active its clock, which never runs backwards, keeps it past the
\* threshold of an unchanged priority.
LEMMA StillAlerting ==
    ASSUME IInv, IInv', NeverNegative, NeverNegative', AlertsTypeOK, [Next]_vars,
           AlertStatus(ElapsedAt(clock)) # "none", priority' = priority
    PROVE  AlertStatus(ElapsedAt(clock))' # "none"
<1>. DEFINE before == ElapsedAt(clock)
            after == ElapsedAt(clock)'
<1>1. before \in Nat /\ after \in Nat /\ before <= after
  BY ElapsedNeverFalls
<1>2. priority \in Priorities /\ AtRiskFrom[priority] \in Nat
  BY AlertsAssumption DEF AlertsTypeOK
<1>3. AlertStatus(before) # "none"
  OBVIOUS
<1>4. AlertStatus(ElapsedAt(clock))' = AlertStatus(after)
  BY DEF AlertStatus
<1>. HIDE DEF before, after
<1>5. AlertStatus(after) # "none"
  BY <1>1, <1>2, <1>3, AlertingMeans
<1>. QED
  BY <1>4, <1>5

\* A user who has not acknowledged the breach is taken to have only by an insert of
\* theirs.
LEMMA OnlyOwnInsertAcknowledges ==
    ASSUME IInv, AlertsTypeOK, NoAckAhead, [AlertsNext]_allVars, NEW u \in Users,
           ~ Acknowledged(u), Acknowledged(u)'
    PROVE  \E w \in Workers : ack_req[w] # NULL /\ ack_req[w][1] = u /\ ack_req'[w] = NULL
<1>1. /\ CurrentBreachEpoch \in Nat
      /\ CurrentBreachEpoch' = IF Reopened THEN CurrentBreachEpoch + 1 ELSE CurrentBreachEpoch
      /\ Reopened => acks' = acks
  BY AlertsEpochStep DEF alertVars
<1>2. ~ Reopened
  <2>. SUFFICES ASSUME Reopened PROVE FALSE
    OBVIOUS
  <2>1. <<u, CurrentBreachEpoch + 1>> \in acks
    BY <1>1 DEF Acknowledged
  <2>. QED
    BY <1>1, <2>1 DEF NoAckAhead
<1>3. <<u, CurrentBreachEpoch>> \in acks' \ acks
  BY <1>1, <1>2 DEF Acknowledged
<1>4. PICK w \in Workers : InsertAck(w)
  BY <1>3 DEF AlertsNext, LifecycleStep, allVars, alertVars, ListAlerts, Acknowledge,
              SetPriority, Archive, Restore
<1>5. ack_req[w] # NULL /\ ack_req[w] = <<u, CurrentBreachEpoch>> /\ ack_req'[w] = NULL
  BY <1>3, <1>4 DEF InsertAck, AlertsTypeOK
<1>. QED
  BY <1>5

\* What may clear a user's alert.
MayClear(u) ==
    \/ \E w \in Workers : ack_req[w] # NULL /\ ack_req[w][1] = u /\ ack_req'[w] = NULL
    \/ status' \notin ActiveStatuses
    \/ is_archived'
    \/ priority' # priority

\* A user's alert goes only when its user acknowledges it, when the ticket stops being
\* active or is archived, or by a new priority; never by what another user does to it
\* in the alerts area.
THEOREM OnlyOwnAckClears == AlertsSpec => OnlyOwnAckClearsAlert
<1>1. IInv /\ IInv' /\ NeverNegative /\ NeverNegative' /\ AlertsTypeOK /\ NoAckAhead
      /\ [AlertsNext]_allVars
        => [\A u \in Users : Listed(u) /\ ~ Listed(u)' => MayClear(u)]_allVars
  <2>. SUFFICES ASSUME IInv, IInv', NeverNegative, NeverNegative', AlertsTypeOK, NoAckAhead,
                       [AlertsNext]_allVars
                PROVE  \A u \in Users : Listed(u) /\ ~ Listed(u)' => MayClear(u)
    OBVIOUS
  <2>. SUFFICES ASSUME NEW u \in Users, Listed(u), ~ MayClear(u) PROVE Listed(u)'
    OBVIOUS
  <2>1. [Next]_vars
    BY DEF AlertsNext, LifecycleStep, allVars, ListAlerts, Acknowledge, InsertAck,
           SetPriority, Archive, Restore
  <2>2. team' = team
    BY <2>1 DEF Next, Tick, StatusRequest, Open, Hold, Resume, Resolve, Close, Reopen,
                Transition, vars
  <2>3. InScope(u)'
    BY <2>2 DEF Listed, Alerting, InScope, IsAssignedTo, MayClear
  <2>4. AlertStatus(ElapsedAt(clock))' # "none"
    BY <2>1, StillAlerting DEF Listed, Alerting, MayClear
  <2>5. ~ Acknowledged(u)'
    BY OnlyOwnInsertAcknowledges DEF Listed, MayClear
  <2>. QED
    BY <2>3, <2>4, <2>5 DEF Listed, Alerting, MayClear
<1>2. AlertsSpec => []NeverNegative
  BY AlertsKeepLifecycle, TotalNeverNegative, PTL
<1>. QED
  BY <1>1, <1>2, TicketInvariant, AlertsTypeCorrect, NeverAhead, PTL
     DEF AlertsSpec, OnlyOwnAckClearsAlert, MayClear
=============================================================================
