--------------------------- MODULE MCSessionPump ---------------------------
(***************************************************************************)
(* TLC instances of SessionPump.                                           *)
(***************************************************************************)
EXTENDS SessionPump

\* Every policy, with upstreams of one and of several candidates in either order.
MCSources ==
  [policy : {"fixed", "random", "failover"}, fixed : {1}, cands : {<<1>>, <<3>>}] \cup
  [policy : {"fixed", "random", "failover"}, fixed : {1, 2}, cands : {<<1, 2>>, <<2, 1>>, <<2, 2>>}]

=============================================================================
