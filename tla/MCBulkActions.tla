--------------------------- MODULE MCBulkActions ---------------------------
(* Two tickets, an id that does not exist, a supervisor and two agents. *)
EXTENDS BulkActions, TLC
CONSTANTS sam, ana, ben, t1, t2, gone

MCUsers == {sam, ana, ben}
MCSupervisors == {sam}
MCIds == {t1, t2, gone}
MCTickets == {t1, t2}
MCSelections == {<<t1, t2>>, <<t1, t1>>, <<t1, gone, t1>>}

\* The second ticket has no collaborators, no race has touched it, and it is one that can be
\* closed, one that cannot, or a stranded one.
MCInit ==
    /\ Init
    /\ tickets[t2].collaborator_ids = {}
    /\ tickets[t2].status \in {"open", "resolved"}
    /\ Len(resolved_periods[t2]) <= IF tickets[t2].status = "resolved" THEN 1 ELSE 0
\* Every ticket has the periods that its status calls for.
OrderlyInit ==
    /\ MCInit
    /\ \A t \in Tickets : Len(resolved_periods[t]) = IF tickets[t].status = "resolved" THEN 1 ELSE 0

MCSpec == MCInit /\ [][Next]_vars
OrderlySpec == OrderlyInit /\ [][Next]_vars

Symmetry == Permutations({ana, ben})
=============================================================================
