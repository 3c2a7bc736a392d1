---------------------------- MODULE MCCobThreads ----------------------------
(* The script threads of a unit for TLC.                                   *)
EXTENDS CobThreads
=============================================================================
