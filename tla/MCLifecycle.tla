---------------------------- MODULE MCLifecycle ----------------------------
(* One ticket, a supervisor and two agents, requests one at a time. *)
EXTENDS Lifecycle, TLC
CONSTANTS sam, ana, bob

MCUsers == {sam, ana, bob}
MCSupervisors == {sam}
AgentSymmetry == Permutations({ana, bob})
=============================================================================
