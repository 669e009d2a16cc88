---------------------------- MODULE MCLinuxClient ----------------------------
(* Small instances of LinuxClient. *)
EXTENDS LinuxClient

=============================================================================
