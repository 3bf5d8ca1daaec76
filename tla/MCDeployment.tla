---------------------------- MODULE MCDeployment ----------------------------
(***************************************************************************)
(* A deployment with the data of app/seed.py itself.                       *)
(***************************************************************************)
EXTENDS Deployment

Data == INSTANCE SeedData

MCUsers == {"supervisor", "agent1", "agent2"}
MCSupervisors == {"supervisor"}
MCDemoUsers == Data!DEMO_USERS
MCTickets == Data!TICKETS
MCPriorities == DOMAIN Data!TARGET_RESPONSE_TIME
MCTarget == Data!TARGET_RESPONSE_TIME
MCAtRiskFrom == [p \in MCPriorities |-> Data!AtRiskReading(Data!TARGET_RESPONSE_TIME[p])]
MCMeantBreaching == Data!MEANT_BREACHING
MCMeantAtRisk == Data!MEANT_AT_RISK
=============================================================================
