----------------------------- MODULE SlaService -----------------------------
(***************************************************************************)
(* The response clock of app/services/sla_service.py.                      *)
(***************************************************************************)
EXTENDS Integers, TicketPeriods

ActiveStatuses == {"new", "open", "pending"}

ExcludedDuration_EndedInFull(period, as_of) ==
    LET end == IF period.end # NULL THEN period.end ELSE as_of
    IN  IF end <= period.start THEN 0 ELSE end - period.start

\* Length of a period, clipped to as_of if it is open or as_of falls inside it.
ExcludedDuration(period, as_of) ==
    LET end == IF period.end # NULL /\ period.end < as_of THEN period.end ELSE as_of
    IN  IF end <= period.start THEN 0 ELSE end - period.start

\* The sum of a log's rows; total[n] is the sum of the first n.
Excluded(log, as_of) ==
    LET total[n \in 0..Len(log)] ==
          IF n = 0 THEN 0 ELSE total[n - 1] + ExcludedDuration(log[n], as_of)
    IN  total[Len(log)]

ElapsedResponseTime_CountsResolved(created_at, pending, closed, resolved, as_of) ==
    LET total == (as_of - created_at) - Excluded(pending, as_of) - Excluded(closed, as_of)
    IN  IF total < 0 THEN 0 ELSE total

\* Wall-clock time since creation minus every stretch Pending, Closed or Resolved.
ElapsedResponseTime(created_at, pending, closed, resolved, as_of) ==
    LET total == (as_of - created_at) - Excluded(pending, as_of)
                   - Excluded(closed, as_of) - Excluded(resolved, as_of)
    IN  IF total < 0 THEN 0 ELSE total
-----------------------------------------------------------------------------
(***************************************************************************)
(* Whether a period was in progress at an instant.                         *)
(***************************************************************************)
Covers(period, t) == period.start <= t /\ (period.end = NULL \/ t < period.end)

CoveredBy(log, t) == \E row \in DOMAIN log : Covers(log[row], t)
=============================================================================
