---------------------------- MODULE MCPathBudget ----------------------------
(***************************************************************************)
(* Model checking of PathBudget: two networks, one of them preferred.      *)
(***************************************************************************)
EXTENDS PathBudget

MCPaths == {"wifi", "cell"}
MCGatewaysOf == [p \in MCPaths |-> {p}]
MCPreference == [p \in MCPaths |-> IF p = "wifi" THEN 1 ELSE 0]
=============================================================================
