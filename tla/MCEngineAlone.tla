---------------------------- MODULE MCEngineAlone ----------------------------
(* Two profiles that can be raced, one that cannot; two endpoints.          *)
EXTENDS EngineAlone

CONSTANTS p1, p2, p3, stranger, e1, e2

MCProfiles == {p1, p2, p3}
MCProbeable == {p1, p2}
MCNames == MCProfiles \cup {stranger}
MCTier == [p \in MCProfiles |-> IF p = p2 THEN 2 ELSE 1]
MCProfileOrder == [p \in MCProfiles |-> CASE p = p1 -> 1 [] p = p2 -> 2 [] OTHER -> 3]
MCEndpoints == {e1, e2}
MCEndpointOrder == [e \in MCEndpoints |-> IF e = e1 THEN 1 ELSE 2]
MCEnvironments ==
    {[DefaultEnvironment EXCEPT !.portal = TRUE]}
MCReaches == {[e \in Endpoints |-> "unreachable"]}
=============================================================================
