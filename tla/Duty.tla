-------------------------------- MODULE Duty --------------------------------
(***************************************************************************)
(* The duty governor (radio/duty.rs over tower-radio-core): a bucket of    *)
(* airtime that refills with the time that passes.  Refills happen only    *)
(* when a transmission is tried, in whole units; what is left over is      *)
(* carried in thousandths of a unit.                                       *)
(***************************************************************************)
EXTENDS Naturals

CONSTANTS
  Bands,   (* the duty policies of set_band                               *)
  Permil,  (* the refill of each, in thousandths of the time that passes  *)
  Cap,     (* cap_ms: the bucket                                          *)
  Limit    (* one past the largest u32: times are cut off, sums saturate  *)

ASSUME DutyConstants ==
  /\ Permil \in [Bands -> Nat] /\ Cap \in Nat /\ Limit \in Nat
  /\ Limit > 1000 * Cap

VARIABLES
  band,     (* the policy in force                                        *)
  budget,   (* budget_ms                                                  *)
  residue,  (* the carry                                                  *)
  idle      (* the time since `last`                                      *)

governor == <<band, budget, residue, idle>>

Lesser(a, b) == IF a < b THEN a ELSE b

(* try_tx cuts the time that passed to 32 bits. *)
Elapsed == idle % Limit

Saturated(n) == Lesser(n, Limit - 1)

(* The total of refill_ms, in thousandths. *)
Earned == Saturated(Saturated(Elapsed * Permil[band]) + residue)

(* A bucket without a cap. *)
RefilledUncapped == budget + Earned \div 1000

Refilled == Lesser(budget + Earned \div 1000, Cap)

(* A refill that forgets what is left over. *)
NoCarry == 0

Carry == Earned % 1000

Grants(toa) == Refilled >= toa

(* try_tx: refill, then take the airtime if it is there. *)
TryTx(toa) ==
  /\ budget' = Refilled - (IF Grants(toa) THEN toa ELSE 0)
  /\ residue' = Carry
  /\ idle' = 0
  /\ UNCHANGED band

(* A new governor: the bucket is full. *)
NewGovernor == budget' = Cap /\ residue' = 0 /\ idle' = 0

DutyInit == band \in Bands /\ budget = Cap /\ residue = 0 /\ idle = 0
=============================================================================
