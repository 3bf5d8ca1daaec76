----------------------------- MODULE Dashboard -----------------------------
(***************************************************************************)
(* The figures of the dashboard (dashboard_service) and the breach column  *)
(* of the CSV export (export_service), over the tickets of QueueSearch.    *)
(* Each figure is a query of its own; here they are all taken of one       *)
(* table, which is what a dashboard shows that nobody writes during.       *)
(***************************************************************************)
EXTENDS QueueSearch, SlaService, Folds

CONSTANTS
    WeekLength,     \* a week, in units of the clock; instant 0 is a Monday 00:00 UTC
    Weeks           \* weeks on the chart

ASSUME DashboardAssumption ==
    /\ WeekLength \in Nat \ {0} /\ Weeks \in Nat \ {0}
    /\ IsFiniteSet(Users)
    /\ NULL \notin TicketStatus

Scope(viewer) == Matching(tickets, Unfiltered(viewer), FALSE)

InScope(viewer, P(_)) == Cardinality({t \in Scope(viewer) : P(tickets[t])})

\* A week is the last seven days instead of a calendar week.
WeekStart_Rolling(moment) == moment - WeekLength

WeekStart(moment) == moment - (moment % WeekLength)

HeadlineCounts(viewer, now) ==
    [open    |-> InScope(viewer, LAMBDA ticket : ticket.status = "open"),
     pending |-> InScope(viewer, LAMBDA ticket : ticket.status = "pending"),
     resolved_this_week |-> InScope(viewer, LAMBDA ticket :
        ticket.resolved_at # NULL /\ ticket.resolved_at >= WeekStart(now)),
     breaching |-> InScope(viewer, LAMBDA ticket :
        ticket.status \in ActiveStatuses /\ ticket.overdue)]

\* GROUP BY has no group for a status that no ticket has.
BreakdownByStatus(viewer) ==
    [s \in {tickets[t].status : t \in Scope(viewer)} |->
        InScope(viewer, LAMBDA ticket : ticket.status = s)]

BreakdownByAgent_ArchivedToo ==
    [a \in Agents |-> Cardinality({t \in DOMAIN tickets : tickets[t].primary_assignee_id = a})]

\* The outer join gives a row to an agent without tickets.  Not scoped to the viewer.
BreakdownByAgent ==
    [a \in Agents |-> Cardinality({t \in DOMAIN tickets :
        tickets[t].primary_assignee_id = a /\ ~ tickets[t].is_archived})]

ResolvedPerWeek(viewer, now) ==
    [i \in 1..Weeks |->
        LET start == WeekStart(now) - (Weeks - i) * WeekLength
        IN  InScope(viewer, LAMBDA ticket :
                /\ ticket.resolved_at # NULL
                /\ start <= ticket.resolved_at /\ ticket.resolved_at < start + WeekLength)]

BreachStatus(ticket) == IF ticket.overdue THEN "breaching" ELSE "on_track"
-----------------------------------------------------------------------------
\* The sum of f over its domain.
Sum(f) ==
    MapThenFoldSet(LAMBDA m, n : m + n, 0, LAMBDA x : f[x],
                   LAMBDA S : CHOOSE x \in S : TRUE, DOMAIN f)

\* The dashboard, the queue and the export count the same tickets: the headline figures
\* are the totals of the filtered queue, each breakdown adds up to the whole queue, and
\* the breaching ones are the active rows of the CSV that say so.
FiguresAgree ==
    \A viewer \in Users :
        LET headline == HeadlineCounts(viewer, 0)
            queue == Unfiltered(viewer)
            csv == AllMatching(tickets, queue)
        IN  /\ headline.open = Total(tickets, [queue EXCEPT !.status = "open"])
            /\ headline.pending = Total(tickets, [queue EXCEPT !.status = "pending"])
            /\ Sum(BreakdownByStatus(viewer)) = Total(tickets, queue)
            /\ CanViewFullQueue(viewer) => Sum(BreakdownByAgent) = Total(tickets, queue)
            /\ headline.breaching = Cardinality({i \in DOMAIN csv :
                   /\ BreachStatus(tickets[csv[i]]) = "breaching"
                   /\ tickets[csv[i]].status \in ActiveStatuses})

\* "Resolved this week" is the last bar of the chart, and the bars together are the
\* tickets whose resolution falls in one of the last Weeks calendar weeks: each in one
\* bar, none lost on a Monday.  A dashboard that took its time before a resolution it
\* counts is another matter: the headline has no upper bound, the bar does.
WeeksAgree ==
    \A viewer \in Users, now \in Instants :
        LET resolved == {t \in Scope(viewer) : tickets[t].resolved_at # NULL}
            bars == ResolvedPerWeek(viewer, now)
        IN  (\A t \in resolved : tickets[t].resolved_at <= now) =>
                /\ HeadlineCounts(viewer, now).resolved_this_week = bars[Weeks]
                /\ Sum(bars) = Cardinality({t \in resolved :
                       (now \div WeekLength) - (tickets[t].resolved_at \div WeekLength) < Weeks})
=============================================================================
