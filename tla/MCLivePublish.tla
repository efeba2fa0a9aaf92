--------------------------- MODULE MCLivePublish ---------------------------
(* LivePublish on a small instance: its ids are interchangeable.        *)
EXTENDS LivePublish, TLC

Symmetry ==
  UNION {Permutations(S) : S \in {Channels, Upstreams, Handlers, Viewers}}

=============================================================================
