--------------------------- MODULE MCOrchestrator ---------------------------
(* Values for the orchestrator: at most one profile that can be raced and   *)
(* one that cannot, at most two endpoints, one reading of the machine.      *)
EXTENDS Orchestrator

CONSTANTS p1, p3, e1, e2

MCTier == [p \in Profiles |-> 1]
MCProfileOrder == [p \in Profiles |-> IF p = p1 THEN 1 ELSE 2]
MCEndpointOrder == [e \in Endpoints |-> IF e = e1 THEN 1 ELSE 2]
MCEnvironments == {DefaultEnvironment}
MCReaches == {NoReach, [e \in Endpoints |-> "unreachable"]}
=============================================================================
