--------------------------- MODULE MCTeamRequests ---------------------------
(* One ticket, a supervisor and two agents, and the workers a cfg gives. *)
EXTENDS TeamRequests, TLC
CONSTANTS sam, ana, ben, w1, w2, d1, d2

MCUsers == {sam, ana, ben}
MCSupervisors == {sam}
MCDetails == {d1, d2}
OneDetail == {d1}
OneWorker == {w1}
TwoWorkers == {w1, w2}
TeamSymmetry == Permutations(TwoWorkers) \cup Permutations({ana, ben}) \cup Permutations(MCDetails)
=============================================================================
