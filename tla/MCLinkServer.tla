---------------------------- MODULE MCLinkServer ----------------------------
(* Small instances of LinkServer. *)
EXTENDS LinkServer, TLC

\* Clients, and links, are interchangeable in the safety runs.
Symmetry == Permutations(Clients) \cup Permutations(Devices)

=============================================================================
