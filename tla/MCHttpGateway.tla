---------------------------- MODULE MCHttpGateway ----------------------------
(***************************************************************************)
(* HttpGateway for TLC.  The symmetry is for the runs without liveness.    *)
(***************************************************************************)
EXTENDS HttpGateway, TLC

Symmetry == Permutations(Node) \cup Permutations(Client)
==============================================================================
