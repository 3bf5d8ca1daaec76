------------------------------ MODULE SeedData ------------------------------
(***************************************************************************)
(* The demo data of app/seed.py: its users and, for each of its tickets,   *)
(* what decides the calls that build it.  Times are in minutes.            *)
(***************************************************************************)
EXTENDS Integers

CONSTANT NULL

DEMO_USERS == <<"supervisor", "agent1", "agent2">>

Hours(n) == 60 * n
Days(n) == 1440 * n

\* A spec with the defaults that seed_tickets gives to the keys it lacks.
Entry(priority, assignee, status, age) ==
    [priority |-> priority, assignee |-> assignee, status |-> status, age |-> age,
     resolved_after |-> Hours(1), closed_after |-> Hours(1),
     archived |-> FALSE, collaborator |-> NULL, replies |-> <<>>]

ResolvedEntry(priority, assignee, age, resolved_after) ==
    [Entry(priority, assignee, "resolved", age) EXCEPT !.resolved_after = resolved_after]

ClosedEntry(priority, assignee, age, resolved_after, closed_after) ==
    [Entry(priority, assignee, "closed", age) EXCEPT
        !.resolved_after = resolved_after, !.closed_after = closed_after]

\* Every reply in the data is written by the assignee.
Answered(spec) == [spec EXCEPT !.replies = <<spec.assignee>>]

TICKETS == <<
    Entry("urgent", "agent1", "new", Hours(10)),
    Entry("low", "agent2", "new", Hours(2)),
    Entry("low", "agent1", "new", Hours(1)),
    Entry("normal", "agent2", "new", 30),
    Entry("normal", "agent1", "new", Hours(3)),

    Answered(Entry("high", "agent2", "open", Hours(9))),
    Answered(Entry("normal", "agent1", "open", Hours(22))),
    [Entry("high", "agent2", "open", Hours(1)) EXCEPT !.collaborator = "agent1"],
    Answered(Entry("urgent", "agent1", "open", Hours(1))),
    Entry("low", "agent2", "open", Hours(4)),

    Answered(Entry("normal", "agent1", "pending", Days(1))),
    [Entry("normal", "agent2", "pending", Hours(6)) EXCEPT !.collaborator = "agent1"],
    Entry("high", "agent1", "pending", Hours(12)),
    Answered(Entry("normal", "agent2", "pending", Days(2))),
    Entry("low", "agent1", "pending", Hours(8)),

    Answered(ResolvedEntry("low", "agent2", Hours(5), Hours(1))),
    Answered(ResolvedEntry("low", "agent1", Days(3), Hours(2))),
    Answered(ResolvedEntry("high", "agent2", Days(8), Hours(3))),
    ResolvedEntry("normal", "agent1", Days(10), Hours(4)),
    Answered(ResolvedEntry("low", "agent2", Days(15), Hours(1))),
    ResolvedEntry("normal", "agent1", Days(20), Hours(6)),
    ResolvedEntry("normal", "agent2", Days(4), Hours(2)),

    Answered([ClosedEntry("normal", "agent1", Days(12), Hours(3), Hours(1)) EXCEPT !.archived = TRUE]),
    ClosedEntry("low", "agent2", Days(25), Hours(5), Hours(2)),
    [ClosedEntry("low", "agent1", Days(18), Hours(2), Hours(1)) EXCEPT !.archived = TRUE],
    Answered([ClosedEntry("high", "agent2", Days(6), Hours(1), 30) EXCEPT !.collaborator = "agent1"]),
    ClosedEntry("normal", "agent1", Days(30), Hours(4), Hours(1)) >>

\* sla_service's targets, and the least reading that is AT_RISK_THRESHOLD of one.
TARGET_RESPONSE_TIME ==
    [urgent |-> Hours(4), high |-> Hours(8), normal |-> Hours(24), low |-> Hours(72)]

AtRiskReading(target) == (9 * target + 9) \div 10

\* The rows whose comments in TICKETS call them breaching, and at-risk.
MEANT_BREACHING == {1, 6}
MEANT_AT_RISK == {7}
=============================================================================
