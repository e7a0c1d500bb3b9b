---------------------------- MODULE MCDownlink ----------------------------
(* Downlink for TLC: nodes may be exchanged for each other.                *)
EXTENDS Downlink, TLC

CONSTANTS n1, n2

OneNode == {n1}
TwoNodes == {n1, n2}
NodeSymmetry == Permutations(Nodes)
=============================================================================
