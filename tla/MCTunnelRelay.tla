--------------------------- MODULE MCTunnelRelay ---------------------------
(* Instances of TunnelRelay for TLC. *)
EXTENDS TunnelRelay, TLC

CONSTANTS n1, c1, c2

OneNode == [k \in Conns |-> n1]

Calm == [x \in FaultKinds |-> 0]
OneBreak == [Calm EXCEPT !["break"] = 1]
OneLapse == [Calm EXCEPT !["lapse"] = 1]
OneOfEach == [x \in FaultKinds |-> 1]

ClientSymmetry == Permutations(Cids)
=============================================================================
