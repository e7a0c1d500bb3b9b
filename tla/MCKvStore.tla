----------------------------- MODULE MCKvStore -----------------------------
(***************************************************************************)
(* KvStore for TLC.  Keys may be exchanged for each other; values may not, *)
(* where their lengths differ.                                             *)
(***************************************************************************)
EXTENDS KvStore

CONSTANTS k1, k2, short, long

MCKeys == {k1, k2}
KeySymmetry == Permutations(MCKeys)

OneValue == {short}
OneLength == (short :> 1)

TwoValues == {short, long}
TwoLengths == (short :> 1) @@ (long :> 2)
=============================================================================
