----------------------------- MODULE SlaAlerts -----------------------------
(***************************************************************************)
(* The alerts area (app/services/alerts_service.py) over the life of one   *)
(* ticket: the list of alerts each user is shown, and the acknowledgements *)
(* that clear them.  A status change is one step, as in Lifecycle; an      *)
(* acknowledgement reads the breach epoch in one step and inserts its row  *)
(* in another.                                                             *)
(***************************************************************************)
EXTENDS FiniteSets, Lifecycle

CONSTANTS
    Workers,        \* threads that can have an acknowledgement in flight
    Priorities,
    Target,         \* TARGET_RESPONSE_TIME of each priority
    AtRiskFrom      \* the least reading that is AT_RISK_THRESHOLD of the target

ASSUME AlertsAssumption ==
    /\ Target \in [Priorities -> Nat]
    /\ AtRiskFrom \in [Priorities -> Nat]
    /\ \A p \in Priorities : AtRiskFrom[p] <= Target[p]
    /\ NULL \notin Users \X Nat

VARIABLES
    priority, is_archived,  \* two more columns of the ticket
    acks,                   \* sla_acknowledgements: <<user_id, breach_epoch>>
    ack_req,                \* the row each worker is about to insert, or NULL
    seen                    \* alerts that list_alerts has shown: <<user, epoch>>

alertVars == <<priority, is_archived, acks, ack_req, seen>>
allVars == <<vars, alertVars>>

AlertsInit ==
    /\ Init
    /\ priority \in Priorities
    /\ is_archived = FALSE
    /\ acks = {}
    /\ ack_req = [w \in Workers |-> NULL]
    /\ seen = {}
-----------------------------------------------------------------------------
AlertStatus(elapsed) ==
    CASE elapsed >= Target[priority]     -> "breaching"
      [] elapsed < AtRiskFrom[priority]  -> "none"
      [] OTHER                           -> "at_risk"

CurrentBreachEpoch_CountsCloses == Len(closed_periods)
CurrentBreachEpoch_CountsHolds ==
    Cardinality(DOMAIN closed_periods \ OpenRows(closed_periods))
      + Cardinality(DOMAIN pending_periods \ OpenRows(pending_periods))

\* How many times the ticket has been reopened: its Closed periods that have ended.
CurrentBreachEpoch == Cardinality(DOMAIN closed_periods \ OpenRows(closed_periods))

Acknowledged_ByAnyone(user) == \E u \in Users : <<u, CurrentBreachEpoch>> \in acks
Acknowledged(user) == <<user, CurrentBreachEpoch>> \in acks

\* matching_ticket_ids: the tickets a viewer's lists are drawn from.
InScope(user) == ~ is_archived /\ (CanViewFullQueue(user) \/ IsAssignedTo(user, team))

\* What the alerts area is about, acknowledged or not.
Alerting(user) ==
    /\ InScope(user)
    /\ status \in ActiveStatuses
    /\ AlertStatus(ElapsedAt(clock)) # "none"

Listed(user) == Alerting(user) /\ ~ Acknowledged(user)

\* GET /alerts shows the alert, with a form that posts the ticket id and nothing else.
ListAlerts(user) ==
    /\ Listed(user)
    /\ seen' = seen \cup {<<user, CurrentBreachEpoch>>}
    /\ UNCHANGED <<vars, priority, is_archived, acks, ack_req>>

\* POST /alerts/{id}/acknowledge, from a page shown at any time before: the permission,
\* the epoch, and whether there is such a row.
Acknowledge(w, user) ==
    /\ ack_req[w] = NULL
    /\ \E page \in seen : page[1] = user
    /\ CanActOnTicket(user, team)
    /\ ~ Acknowledged(user)
    /\ ack_req' = [ack_req EXCEPT ![w] = <<user, CurrentBreachEpoch>>]
    /\ UNCHANGED <<vars, priority, is_archived, acks, seen>>

\* The insert commits; if the row is there by now the unique constraint makes it fail.
InsertAck(w) ==
    /\ ack_req[w] # NULL
    /\ acks' = acks \cup {ack_req[w]}
    /\ ack_req' = [ack_req EXCEPT ![w] = NULL]
    /\ UNCHANGED <<vars, priority, is_archived, seen>>

\* The part of the edit form that alerts depend on.
SetPriority(actor, p) ==
    /\ CanActOnTicket(actor, team)
    /\ priority' = p
    /\ UNCHANGED <<vars, is_archived, acks, ack_req, seen>>

Archive(actor) ==
    /\ CanActOnTicket(actor, team)
    /\ is_archived' = TRUE
    /\ UNCHANGED <<vars, priority, acks, ack_req, seen>>

Restore(actor) ==
    /\ CanActOnTicket(actor, team)
    /\ is_archived' = FALSE
    /\ UNCHANGED <<vars, priority, acks, ack_req, seen>>

LifecycleStep == Next /\ UNCHANGED alertVars

AlertsNext ==
    \/ LifecycleStep
    \/ \E w \in Workers : InsertAck(w) \/ \E user \in Users : Acknowledge(w, user)
    \/ \E user \in Users :
         \/ ListAlerts(user) \/ Archive(user) \/ Restore(user)
         \/ \E p \in Priorities : SetPriority(user, p)

AlertsSpec == AlertsInit /\ [][AlertsNext]_allVars
-----------------------------------------------------------------------------
AlertsTypeOK ==
    /\ priority \in Priorities
    /\ is_archived \in BOOLEAN
    /\ acks \in SUBSET (Users \X Nat)
    /\ ack_req \in [Workers -> (Users \X Nat) \cup {NULL}]
    /\ seen \in SUBSET (Users \X Nat)

Reopened == status = "closed" /\ status' = "open"

\* README requirement 10: if the ticket is reopened with its target passed, the alert
\* returns, to every user it concerns, whatever they had acknowledged and
\* whatever acknowledgements were in flight.
AlertReturnsAfterReopen ==
    [][ Reopened => \A u \in Users : Alerting(u)' => Listed(u)' ]_allVars

\* A user's alert is never cleared by what another user acknowledges: it goes when its
\* user acknowledges it, when the ticket is resolved or archived, or by a new target.
OnlyOwnAckClearsAlert ==
    [][ \A u \in Users : Listed(u) /\ ~ Listed(u)' =>
          \/ \E w \in Workers : ack_req[w] # NULL /\ ack_req[w][1] = u /\ ack_req'[w] = NULL
          \/ status' \notin ActiveStatuses
          \/ is_archived'
          \/ priority' # priority ]_allVars

\* An acknowledgement outlives Pending, archiving, edits and the passing of time: only a
\* reopen makes the alert due again (tests/test_alerts.py, the epoch does not count
\* Pending cycles).
AckHoldsUntilReopen ==
    [][ \A u \in Users : Acknowledged(u) /\ ~ Acknowledged(u)' => Reopened ]_allVars

\* An acknowledgement dismisses one alert, for one breach instance: one its user was
\* shown.  A page kept open over a close and reopen acknowledges the new breach unseen.
AcksAnswerAlertsShown == acks \subseteq seen
=============================================================================
