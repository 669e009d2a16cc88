-------------------------- MODULE MCLinkServerOrder --------------------------
(* A small instance of LinkServerOrder. *)
EXTENDS LinkServerOrder

=============================================================================
