---------------------------- MODULE MCKillSweep ----------------------------
(* TLC instance of KillSweep. *)
EXTENDS KillSweep
=============================================================================
