----------------------------- MODULE MCUnitPool -----------------------------
(* The unit array for TLC: two players, two slots each, a handful of IDs.  *)
EXTENDS UnitPool, TLC

Symmetry == Permutations(Players)
=============================================================================
