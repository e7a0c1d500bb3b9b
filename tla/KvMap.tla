------------------------------- MODULE KvMap -------------------------------
(***************************************************************************)
(* What the EEPROM key-value store promises its callers: a map from keys   *)
(* to values.  A call that returns Ok has taken effect, one that returns   *)
(* an error has not, one cut short by a power loss has done one or the     *)
(* other, and nothing else the store does in the background (compaction,   *)
(* maintenance, a reboot) changes what any key reads.                      *)
(***************************************************************************)
CONSTANTS
  Keys,    (* the 16-bit record tags in use                               *)
  Values,  (* the values a caller stores                                  *)
  Absent   (* what a key that was never set, or was deleted, reads as     *)

VARIABLES
  map,     (* what each key reads                                         *)
  last     (* the last call and its outcome                               *)

Idle == [key |-> Absent, val |-> Absent, out |-> "idle"]

Erased == [k \in Keys |-> Absent]

TypeOK ==
  /\ map \in [Keys -> Values \cup {Absent}]
  /\ last \in [key : Keys \cup {Absent}, val : Values \cup {Absent},
               out : {"idle", "ok", "full", "torn", "wiped"}]

Init == map = Erased /\ last = Idle

(* set_bytes and delete (a delete stores Absent) return Ok. *)
Put(k, v) ==
  /\ last' = [key |-> k, val |-> v, out |-> "ok"]
  /\ map' = [map EXCEPT ![k] = v]

(* They return Full. *)
Reject(k, v) ==
  /\ last' = [key |-> k, val |-> v, out |-> "full"]
  /\ UNCHANGED map

(* The power fails inside them. *)
Tear(k, v) ==
  /\ last' = [key |-> k, val |-> v, out |-> "torn"]
  /\ map' \in {map, [map EXCEPT ![k] = v]}

(* Compaction, a maintenance slice, opening the store, a reboot. *)
Internal == last' = Idle /\ UNCHANGED map

(* The factory reset; torn, it has erased everything or nothing. *)
Wipe ==
  /\ last' = [Idle EXCEPT !.out = "wiped"]
  /\ map' \in {map, Erased}

Next ==
  \/ \E k \in Keys, v \in Values \cup {Absent} : Put(k, v) \/ Reject(k, v) \/ Tear(k, v)
  \/ Internal
  \/ Wipe

Spec == Init /\ [][Next]_<<map, last>>
=============================================================================
