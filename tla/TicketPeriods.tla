--------------------------- MODULE TicketPeriods ---------------------------
(***************************************************************************)
(* The vocabulary the ticket modules share: the statuses, the table of     *)
(* legal moves, and the three period logs (models/ticket_period.py), each  *)
(* a sequence of rows in the order of their ids.  A row that is still open *)
(* has NULL in its second column (ended_at, or reopened_at for a Closed    *)
(* period).                                                                *)
(***************************************************************************)
EXTENDS Integers, Sequences

CONSTANTS
    NULL,           \* the SQL null
    ReopenWindow    \* REOPEN_WINDOW, in units of the clock

ASSUME NullAssumption == NULL \notin Nat
ASSUME WindowAssumption == ReopenWindow \in Nat

TicketStatus == {"new", "open", "pending", "resolved", "closed"}

AllowedTransitions_Shortcut == [
    new      |-> {"open"},
    open     |-> {"pending", "resolved"},
    pending  |-> {"open"},
    resolved |-> {"closed"},
    closed   |-> {"open", "resolved"}]

AllowedTransitions == [
    new      |-> {"open"},
    open     |-> {"pending", "resolved"},
    pending  |-> {"open"},
    resolved |-> {"closed"},
    closed   |-> {"open"}]

\* The statuses in which the response clock is running: no period log covers them.
ClockRuns(s) == s \in {"new", "open"}

Instant == Nat
Period == [start : Instant, end : Instant \cup {NULL}]

\* Mistakes in the writes below, for mutation.
StartPeriod_NoTime(log, now) == Append(log, [start |-> NULL, end |-> NULL])
EndPeriod_Nothing(log, row, now) == log
EndPeriod_Late(log, row, now) == [log EXCEPT ![row].end = now + 1]

\* A move writes the log by inserting an open row or by dating the open one.
StartPeriod(log, now) == Append(log, [start |-> now, end |-> NULL])

EndPeriod(log, row, now) == [log EXCEPT ![row].end = now]

\* The rows a "... IS NULL" query returns; the code takes one() of them.
OpenRows(log) == {row \in DOMAIN log : log[row].end = NULL}
OnlyOpenRow(log, row) == OpenRows(log) = {row}

WithinWindow_OffByOne(closed_at, now) == now - closed_at <= ReopenWindow + 1
WithinWindow(closed_at, now) == now - closed_at <= ReopenWindow
=============================================================================
