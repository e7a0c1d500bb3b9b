----------------------------- MODULE TxCounter -----------------------------
(***************************************************************************)
(* The TX-counter kernel of crates/tower-net-core/src/txctr.rs: the live   *)
(* counter, the reserved limit and the fail-closed lock.  The kernel is    *)
(* pure; `persist` is the watermark its caller must now write to EEPROM,   *)
(* 0 when there is none (no watermark is ever 0: 0 means "never sent").    *)
(***************************************************************************)
EXTENDS Integers

CONSTANTS
  MaxCtr,   (* u32::MAX, the ceiling of the counter                       *)
  Reserve   (* RESERVE, the block reserved by one persisted watermark     *)

ASSUME TxConstants == MaxCtr \in Nat /\ MaxCtr > 1 /\ Reserve \in Nat \ {0}

Counter == 1..MaxCtr

TxCounterState == [counter : 0..MaxCtr, limit : 0..MaxCtr, locked : BOOLEAN]

(* saturating_add. *)
SatAdd(a, b) == IF a + b <= MaxCtr THEN a + b ELSE MaxCtr

(* Resuming at 1 however the watermark came to be missing. *)
ResumeTrusting(stored, priorUse) ==
  LET resume == IF stored = 0 THEN 1 ELSE stored
      limit  == SatAdd(resume, Reserve)
  IN  [txc |-> [counter |-> resume, limit |-> limit, locked |-> FALSE], persist |-> limit]

(* The state a boot resumes in, given the stored watermark (0: none is     *)
(* readable) and whether the store shows prior use.                        *)
Resume(stored, priorUse) ==
  LET lost   == stored = 0 /\ priorUse
      resume == IF stored = 0 THEN 1 ELSE stored
      limit  == SatAdd(resume, Reserve)
  IN  [txc |-> [counter |-> resume, limit |-> limit, locked |-> lost],
       persist |-> IF lost THEN 0 ELSE limit]

(* One transfer is done with its counter: lock at the ceiling, ask for the *)
(* next block at the limit.                                                *)
Advance(t) ==
  LET c == SatAdd(t.counter, 1)
  IN  [txc |-> [counter |-> c, limit |-> t.limit, locked |-> t.locked \/ c = MaxCtr],
       persist |-> IF c # MaxCtr /\ c >= t.limit THEN SatAdd(t.limit, Reserve) ELSE 0]

ReservePersisted(t, watermark) == [t EXCEPT !.limit = watermark]

Lock(t) == [t EXCEPT !.locked = TRUE]
=============================================================================
