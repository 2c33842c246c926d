--------------------------- MODULE MCTunnelRelay ----------------------------
(* TunnelRelay for TLC: the streams of a session are interchangeable.       *)
EXTENDS TunnelRelay, TLC

BothWrite2 == [x \in Sides |-> 2]
BothWrite1 == [x \in Sides |-> 1]
ServerWrites1 == [x \in Sides |-> IF x = "srv" THEN 1 ELSE 0]

StreamSymmetry == Permutations(Streams)
=============================================================================
