------------------------------- MODULE NetTx -------------------------------
(***************************************************************************)
(* How src/radio/net allocates TX counters: every operation that sends,    *)
(* against a store that keeps the watermark, across persist failures,      *)
(* dropped futures, power losses and a lost watermark record.              *)
(*                                                                         *)
(* The counter is the nonce of AES-CCM: two different frames aired under   *)
(* one nonce break it.  A retransmission is the identical frame and does   *)
(* not count.  Net is owned by one task, so one operation runs at a time;  *)
(* what interleaves with it is the loss of power and the outcome of each   *)
(* watermark write.                                                        *)
(*                                                                         *)
(* Operations differ in when they spend their counter:                     *)
(*   send    send, send_ack, fhss_tx_beacon: sealed, spent, then aired     *)
(*   fhss    fhss_send: aired, then spent                                  *)
(*   pair    open_pairing, join: aired, spent, and round again             *)
(*   fetch   bulk_fetch_into: the same, a request per chunk                *)
(*   serve   bulk_serve_from: the announcement as send, then all chunks    *)
(*           under one session counter, spent at the end                   *)
(* Each checks the lock once, when it starts.                              *)
(***************************************************************************)
EXTENDS TxCounter

CONSTANTS
  Ops,        (* the operations in use                                    *)
  FailsIn,    (* those in which a watermark write may fail; and "boot"    *)
  DroppedIn,  (* those whose future may be dropped, or that may give up,  *)
              (* after airing and before spending                         *)
  Chunks      (* model bound: the highest bulk index                      *)

AllOps == {"send", "fhss", "pair", "fetch", "serve"}

ASSUME NetTxConstants ==
  /\ Ops \subseteq AllOps
  /\ FailsIn \subseteq AllOps \cup {"boot"}
  /\ DroppedIn \subseteq AllOps
  /\ Chunks \in Nat

VARIABLES
  wm,      (* EEPROM: the watermark record, 0 if there is none            *)
  seen,    (* EEPROM: whether a last-seen record exists                   *)
  on,      (* whether the device runs                                     *)
  txc,     (* RAM: the TxCounter                                          *)
  job,     (* RAM: the operation in progress                              *)
  frames   (* history: how many frames aired under each nonce, up to 2    *)

vars == <<wm, seen, on, txc, job, frames>>

(* nonce_for: the key's frames are told apart by counter and bulk index,   *)
(* src being the same for all.  Peers' keys count as the network key, the  *)
(* worst case.                                                             *)
Nonces == [key : {"net", "pairing"}, ctr : 0..MaxCtr, idx : 0..Chunks]
Nonce(key, ctr, idx) == [key |-> key, ctr |-> ctr, idx |-> idx]

(* The nonces an operation rides, those it has aired a frame under, and    *)
(* whether its counter is still to be spent.                               *)
Jobs == [op : AllOps, hold : BOOLEAN, nonces : SUBSET Nonces, sent : SUBSET Nonces]
NoJob == [op |-> "none", hold |-> FALSE, nonces |-> {}, sent |-> {}]
Job(op, hold, nonces) == [op |-> op, hold |-> hold, nonces |-> nonces, sent |-> {}]

Off == [counter |-> 0, limit |-> 0, locked |-> FALSE]

-----------------------------------------------------------------------------

(* A watermark write that fails may have reached the EEPROM all the same.  *)
AdvanceTxCounter(op) ==
  LET a == Advance(txc)
  IN  \/ a.persist = 0 /\ txc' = a.txc /\ wm' = wm
      \/ a.persist # 0 /\ txc' = ReservePersisted(a.txc, a.persist) /\ wm' = a.persist
      \/ /\ a.persist # 0 /\ op \in FailsIn
         /\ txc' = Lock(a.txc) /\ wm' \in {wm, a.persist}

(* Net::new. *)
Boot ==
  /\ ~on /\ on' = TRUE
  /\ LET r == Resume(wm, seen)
     IN  \/ r.persist = 0 /\ txc' = r.txc /\ wm' = wm
         \/ r.persist # 0 /\ txc' = r.txc /\ wm' = r.persist
         \/ /\ r.persist # 0 /\ "boot" \in FailsIn
            /\ txc' = Lock(r.txc) /\ wm' \in {wm, r.persist}
  /\ UNCHANGED <<seen, job, frames>>

MayStart(op) == on /\ job = NoJob /\ op \in Ops /\ ~txc.locked

Send ==
  /\ MayStart("send")
  /\ AdvanceTxCounter("send")
  /\ job' = Job("send", FALSE, {Nonce("net", txc.counter, 0)})
  /\ UNCHANGED <<seen, on, frames>>

(* fhss_send, open_pairing, join and bulk_fetch_into start with a frame    *)
(* whose counter they spend later.                                         *)
StartHolding(op, key) ==
  /\ MayStart(op)
  /\ job' = Job(op, TRUE, {Nonce(key, txc.counter, 0)})
  /\ UNCHANGED <<wm, seen, on, txc, frames>>

(* bulk_serve_from refuses at the ceiling, where the session would share   *)
(* the announcement's counter.                                             *)
Serve ==
  /\ MayStart("serve")
  /\ AdvanceTxCounter("serve")
  /\ job' = IF txc'.counter = txc.counter THEN NoJob
            ELSE Job("serve", TRUE, {Nonce("net", txc.counter, 0)}
                                      \cup {Nonce("net", txc'.counter, k) : k \in 0..Chunks})
  /\ UNCHANGED <<seen, on, frames>>

(* The frame goes on air, for the first time or again.                     *)
Air(n) ==
  /\ n \in job.nonces
  /\ job' = [job EXCEPT !.sent = @ \cup {n}]
  /\ frames' = IF n \in job.sent THEN frames
               ELSE [frames EXCEPT ![n] = IF @ = 0 THEN 1 ELSE 2]
  /\ UNCHANGED <<wm, seen, on, txc>>

(* The operation spends its counter and returns. *)
Spend ==
  /\ job.hold
  /\ AdvanceTxCounter(job.op)
  /\ job' = NoJob
  /\ UNCHANGED <<seen, on, frames>>

(* It spends its counter and takes the next one for the next round. *)
SpendAndGoOn(op, key, idx) ==
  /\ job.hold /\ job.op = op
  /\ AdvanceTxCounter(op)
  /\ job' = Job(op, TRUE, {Nonce(key, txc'.counter, idx)})
  /\ UNCHANGED <<seen, on, frames>>

NextChunk(k) == (\E n \in job.nonces : k = n.idx + 1) /\ SpendAndGoOn("fetch", "net", k)

(* The operation ends without spending: its counter is spent already, or   *)
(* nothing was aired (no room left in the FHSS slot), or it is one of      *)
(* DroppedIn.                                                              *)
Return ==
  /\ job # NoJob
  /\ \/ ~job.hold
     \/ job.sent = {} /\ job.op = "fhss"
     \/ job.op \in DroppedIn
  /\ job' = NoJob
  /\ UNCHANGED <<wm, seen, on, txc, frames>>

(* A received frame's last-seen counter is persisted. *)
Receive ==
  /\ on /\ job = NoJob
  /\ seen' = TRUE
  /\ UNCHANGED <<wm, on, txc, job, frames>>

PowerLoss ==
  /\ on /\ on' = FALSE
  /\ txc' = Off /\ job' = NoJob
  /\ UNCHANGED <<wm, seen, frames>>

(* EEPROM corruption orphans the watermark record of a store that shows    *)
(* prior use.                                                              *)
LoseWatermark ==
  /\ ~on /\ seen
  /\ wm' = 0
  /\ UNCHANGED <<seen, on, txc, job, frames>>

-----------------------------------------------------------------------------

Init ==
  /\ wm = 0 /\ seen = FALSE /\ on = FALSE
  /\ txc = Off /\ job = NoJob
  /\ frames = [n \in Nonces |-> 0]

Next ==
  \/ Boot
  \/ Send
  \/ StartHolding("fhss", "net")
  \/ StartHolding("pair", "pairing")
  \/ StartHolding("fetch", "net")
  \/ Serve
  \/ \E n \in Nonces : Air(n)
  \/ Spend
  \/ SpendAndGoOn("pair", "pairing", 0)
  \/ \E k \in 0..Chunks : NextChunk(k)
  \/ Return
  \/ Receive
  \/ PowerLoss
  \/ LoseWatermark

Spec == Init /\ [][Next]_vars

-----------------------------------------------------------------------------
(* Properties. *)

(* The type invariant. *)
TypeOK ==
  /\ wm \in 0..MaxCtr
  /\ seen \in BOOLEAN
  /\ on \in BOOLEAN
  /\ txc \in TxCounterState
  /\ on => txc.counter \in Counter /\ txc.limit \in Counter
  /\ job \in Jobs \cup {NoJob}
  /\ frames \in [Nonces -> 0..2]

(* No two frames below the ceiling ride one nonce, across any number of    *)
(* reboots (txctr.rs: "a counter value is never used twice under one key").*)
NonceUnique == \A n \in Nonces : n.ctr < MaxCtr => frames[n] <= 1

(* What has been aired lies below the durable watermark, so that a reboot  *)
(* at any time resumes above it; unless the record itself was lost, and    *)
(* then the store shows prior use.                                         *)
AiredBelowWatermark ==
  \A n \in Nonces :
    n.ctr < MaxCtr /\ frames[n] > 0 => n.ctr < wm \/ (wm = 0 /\ seen)

(* The watermark on EEPROM never goes back, short of being lost.           *)
WatermarkMonotone == [][wm' >= wm \/ (wm' = 0 /\ ~on)]_wm
=============================================================================
