---------------------------- MODULE MCProxySplice ----------------------------
(* TLC instances of ProxySplice. *)
EXTENDS ProxySplice, TLC
=============================================================================
