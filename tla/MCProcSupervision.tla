------------------------- MODULE MCProcSupervision -------------------------
(* TLC instances of ProcSupervision.  No symmetry: the run checks liveness. *)
EXTENDS ProcSupervision, TLC
=============================================================================
