---------------------------- MODULE MCMediaFeed ----------------------------
(* MediaFeed on a small instance; viewers are interchangeable. *)
EXTENDS MediaFeed, TLC

Symmetry == Permutations(Viewers)

=============================================================================
