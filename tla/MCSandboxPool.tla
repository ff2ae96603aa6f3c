--------------------------- MODULE MCSandboxPool ---------------------------
(* TLC instance of SandboxPool. *)
EXTENDS SandboxPool
=============================================================================
