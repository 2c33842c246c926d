--------------------------- MODULE MCTunnelServer ---------------------------
(* TunnelServer for TLC: sessions and connections are interchangeable.      *)
EXTENDS TunnelServer, TLC

Symmetry == Permutations(Sessions) \union Permutations(Conns)
=============================================================================
