---------------------------- MODULE MCMachineLife ----------------------------
(***************************************************************************)
(* Model values for MachineLife.                                           *)
(***************************************************************************)
EXTENDS MachineLife

CONSTANTS a1, g1, g2

MCAddresses == {a1}
MCGateways == {g1, g2}
MCRoutes == {<<a, g>> : a \in MCAddresses, g \in MCGateways}

\* The gateways are interchangeable, and every property is one of safety.
MCSymmetry == Permutations(MCGateways)
=============================================================================
