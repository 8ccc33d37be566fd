--------------------------- MODULE MCClientGateway ---------------------------
(***************************************************************************)
(* ClientGateway for TLC.  Nodes and clients are interchangeable.          *)
(***************************************************************************)
EXTENDS ClientGateway, TLC

Symmetry == Permutations(Node) \cup Permutations(Client)
==============================================================================
