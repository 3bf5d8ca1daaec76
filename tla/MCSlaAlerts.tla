---------------------------- MODULE MCSlaAlerts ----------------------------
(* One ticket, a supervisor and an agent, and a target for each of two priorities. *)
EXTENDS SlaAlerts
CONSTANTS sam, ana, w1

MCUsers == {sam, ana}
MCSupervisors == {sam}
OneWorker == {w1}
MCPriorities == {"urgent", "low"}
MCTarget == [urgent |-> 2, low |-> 3]
MCAtRiskFrom == [urgent |-> 1, low |-> 2]
=============================================================================
