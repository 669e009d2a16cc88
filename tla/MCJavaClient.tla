---------------------------- MODULE MCJavaClient ----------------------------
(* Small instances of JavaClient. *)
EXTENDS JavaClient

=============================================================================
