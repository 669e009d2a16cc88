------------------------- MODULE MCLinkServerHistory -------------------------
(* Small instances of LinkServerHistory. *)
EXTENDS LinkServerHistory

=============================================================================
