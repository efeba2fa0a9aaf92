-------------------------- MODULE MCStreamManager --------------------------
(***************************************************************************)
(* TLC instances of StreamManager.                                         *)
(***************************************************************************)
EXTENDS StreamManager, TLC

\* A pass-through source with one URL, and a transcoded one with two candidates.
MCKinds == {[transcode |-> FALSE, walk |-> FALSE, budget |-> 1],
            [transcode |-> TRUE, walk |-> TRUE, budget |-> 2]}

\* Clients, sessions and profiles are interchangeable.
MCSymmetry == Permutations(Clients) \cup Permutations(Sessions) \cup Permutations(Profiles)

=============================================================================
