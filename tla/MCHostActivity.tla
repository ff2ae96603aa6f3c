--------------------------- MODULE MCHostActivity ---------------------------
(* TLC instance of HostActivity. *)
EXTENDS HostActivity
=============================================================================
