------------------------------ MODULE MCService ------------------------------
(* One profile, which cannot be raced, and one endpoint.                    *)
EXTENDS Service

CONSTANTS p1, e1

MCTier == [p \in Profiles |-> 1]
MCProfileOrder == [p \in Profiles |-> 1]
MCEndpointOrder == [e \in Endpoints |-> 1]
MCEnvironments == {DefaultEnvironment}
MCReaches == {NoReach}
=============================================================================
