------------------------------- MODULE MCSync -------------------------------
(* Sync for TLC: three channels, the rendezvous channel in the middle of   *)
(* the cycle.                                                              *)
EXTENDS Sync

ThreeChannels == [i \in 0..2 |-> CASE i = 0 -> 2 [] i = 1 -> 0 [] i = 2 -> 1]
=============================================================================
