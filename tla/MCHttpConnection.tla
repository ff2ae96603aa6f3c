-------------------------- MODULE MCHttpConnection --------------------------
(* TLC instances of HttpConnection. *)
EXTENDS HttpConnection, TLC
=============================================================================
