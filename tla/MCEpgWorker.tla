---------------------------- MODULE MCEpgWorker ----------------------------
(***************************************************************************)
(* TLC instances of EpgWorker.                                             *)
(***************************************************************************)
EXTENDS EpgWorker, TLC

\* URLs, relays, slugs and requests are interchangeable.
MCSymmetry ==
  Permutations(URLs) \cup Permutations(Relays) \cup Permutations(Slugs) \cup Permutations(Handlers)

=============================================================================
