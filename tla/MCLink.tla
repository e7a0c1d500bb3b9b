------------------------------- MODULE MCLink -------------------------------
(* Link for TLC: a band with a duty limit, and one without.                *)
EXTENDS Link

TwoBands == {"eu868", "us915"}
Permils == [b \in TwoBands |-> IF b = "eu868" THEN 400 ELSE 1000]
=============================================================================
