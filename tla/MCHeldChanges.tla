--------------------------- MODULE MCHeldChanges ---------------------------
(***************************************************************************)
(* Model values for HeldChanges: two clients, both elevated, two changes.  *)
(***************************************************************************)
EXTENDS HeldChanges

CONSTANTS c1, c2, x1, x2

MCClients == {c1, c2}
MCElevated == {c1, c2}
MCChanges == {x1, x2}
=============================================================================
