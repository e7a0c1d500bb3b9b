---------------------------- MODULE MCPeerLanes ----------------------------
(* PeerLanes for TLC: nodes may be exchanged for each other.               *)
EXTENDS PeerLanes, TLC

CONSTANTS a1, a2, a3

OneAddr == {a1}
ThreeAddrs == {a1, a2, a3}
AddrSymmetry == Permutations(Addrs)
=============================================================================
