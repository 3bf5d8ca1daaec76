------------------------ MODULE MCLifecycleRequests ------------------------
(* One ticket, a supervisor and an agent, and the workers a cfg gives. *)
EXTENDS LifecycleRequests, TLC
CONSTANTS sam, ana, w1, w2

MCUsers == {sam, ana}
MCSupervisors == {sam}
TwoWorkers == {w1, w2}
WorkerSymmetry == Permutations(TwoWorkers)
=============================================================================
