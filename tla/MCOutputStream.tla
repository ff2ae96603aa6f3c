--------------------------- MODULE MCOutputStream ---------------------------
(* TLC instances of OutputStream. *)
EXTENDS OutputStream, TLC
=============================================================================
