----------------------------- MODULE MCLibrary -----------------------------
(* Library on a small instance; channels and servers are interchangeable. *)
EXTENDS Library, TLC

Symmetry == Permutations(Channels) \cup Permutations(Servers)

=============================================================================
