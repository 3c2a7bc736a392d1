---------------------------- MODULE MCPathfinder ----------------------------
(* The path finder for TLC: one or two slots that are used again.           *)
EXTENDS Pathfinder
=============================================================================
