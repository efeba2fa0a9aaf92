--------------------------- MODULE MCRelayLayout ---------------------------
(***************************************************************************)
(* TLC instances of RelayLayout.                                           *)
(***************************************************************************)
EXTENDS RelayLayout, TLC

\* Channels and threads are interchangeable.
MCSymmetry == Permutations(Channels) \cup Permutations(Threads)

=============================================================================
