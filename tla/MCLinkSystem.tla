---------------------------- MODULE MCLinkSystem ----------------------------
(* Small instances of LinkSystem. *)
EXTENDS LinkSystem, TLC

\* Clients are interchangeable.
Symmetry == Permutations(Clients)

=============================================================================
