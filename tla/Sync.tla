-------------------------------- MODULE Sync --------------------------------
(***************************************************************************)
(* Frequency hopping: how a node finds and keeps the hop clock of its      *)
(* gateway (radio/net/fhss.rs, tower-net-core epoch.rs).                   *)
(*                                                                         *)
(* Time is counted in slots.  The master beacons its epoch and slot at     *)
(* every boundary, on the channel of that slot; a node that tracks listens *)
(* on the channel it predicts, a node that scans on the rendezvous         *)
(* channel.  A beacon may be lost, and one sent earlier may be heard again *)
(* later: it is genuine, and late.  A clock is the slot minus the time,    *)
(* which does not change while it is right.                                *)
(***************************************************************************)
EXTENDS Integers, FiniteSets

CONSTANTS
  N,            (* FHSS_N                                                 *)
  Hop,          (* the permutation behind hop_channel                     *)
  Rendezvous,   (* FHSS_RENDEZVOUS_CH                                     *)
  AcquireSlack, (* ACQUIRE_SLOT_SLACK                                     *)
  ResyncSlack,  (* FHSS_RESYNC_SLACK                                      *)
  Limit,        (* REACQUIRE_LIMIT                                        *)
  WritesFail,   (* whether the write of the epoch may fail                *)
  MaxTime,      (* model bound: slots                                     *)
  MaxRestarts,  (* model bound: restarts of the master                    *)
  MaxCopies,    (* model bound: late beacons heard                        *)
  None

ASSUME SyncConstants ==
  /\ N \in Nat \ {0} /\ Hop \in [0..N-1 -> 0..N-1] /\ Rendezvous \in 0..N-1
  /\ \A i, j \in 0..N-1 : Hop[i] = Hop[j] => i = j
  /\ {AcquireSlack, ResyncSlack} \subseteq Nat /\ Limit \in Nat \ {0}
  /\ WritesFail \in BOOLEAN /\ {MaxTime, MaxRestarts, MaxCopies} \subseteq Nat

VARIABLES
  now,
  stored,    (* EEPROM of the master: KEY_FHSS_EPOCH                      *)
  epoch,     (* RAM of the master: the epoch of its session               *)
  start,     (* the slot in which its session began                       *)
  sent,      (* the beacons sent, as [epoch, slot]                        *)
  gate,      (* the node's epoch and misses                               *)
  candidate, (* the node's first beacon of an acquisition, and when it    *)
             (* was heard                                                 *)
  clock,     (* the node's clock, or None while it scans                  *)
  heard,     (* history: beacons of the running session, on time, heard   *)
             (* by a node that scans                                      *)
  late,      (* history: the late beacons it heard meanwhile              *)
  restarts, copies

master == <<stored, epoch, start>>
node == <<gate, candidate, clock>>
hearing == <<heard, late>>
bounds == <<restarts, copies>>
syncVars == <<now, master, sent, node, hearing, bounds>>

Abs(x) == IF x < 0 THEN -x ELSE x

(* The same channel at the same place of every cycle. *)
Channel(slot) == Hop[slot % N]

-----------------------------------------------------------------------------
(* The master. *)

NextMasterEpoch == stored + 1

MasterClock == -start

(* enable_fhss: the next epoch is stored, but a write that fails is        *)
(* ignored; slots count from 0 again.                                      *)
MasterStarts ==
  /\ restarts < MaxRestarts /\ restarts' = restarts + 1
  /\ epoch' = NextMasterEpoch
  /\ stored' = epoch' \/ (WritesFail /\ stored' = stored)
  /\ start' = now
  /\ heard' = 0 /\ late' = {}
  /\ UNCHANGED <<now, sent, node, copies>>

-----------------------------------------------------------------------------
(* The gate of the node. *)

Scanning == clock = None

Lock(b, time) == clock' = b.slot - time

(* Tracking without a look at the slot. *)
TracksAnySlot(b, predicted) == b.epoch >= gate.epoch

(* offer_tracked: not an older session, and where the node expects it.     *)
Tracks(b, predicted) == b.epoch >= gate.epoch /\ Abs(b.slot - predicted) <= ResyncSlack

(* beacon_missed: after the last miss the clock is given up.               *)
Missed ==
  /\ gate' = [gate EXCEPT !.miss = @ + 1]
  /\ clock' = IF gate.miss + 1 >= Limit THEN None ELSE clock
  /\ UNCHANGED candidate

OfferTracked(b, predicted) ==
  IF Tracks(b, predicted)
  THEN gate' = [epoch |-> b.epoch, miss |-> 0] /\ Lock(b, now + 1) /\ UNCHANGED candidate
  ELSE Missed

(* Slots and time between the candidate and this beacon agree.             *)
Consistent(b, time) ==
  /\ candidate # None
  /\ candidate.epoch = b.epoch /\ b.slot > candidate.slot
  /\ Abs((b.slot - candidate.slot) - (time - candidate.time)) <= AcquireSlack

(* Any beacon takes the candidate's place. *)
AnyReplaces(b) == TRUE

(* Only a later beacon does. *)
Replaces(b) ==
  \/ candidate = None
  \/ b.epoch > candidate.epoch
  \/ b.epoch = candidate.epoch /\ b.slot > candidate.slot

(* offer_scanning: reject, lock, or hold. *)
OfferScanning(b, time) ==
  IF b.epoch < gate.epoch THEN UNCHANGED node
  ELSE IF Consistent(b, time)
  THEN /\ gate' = [epoch |-> b.epoch, miss |-> 0]
       /\ candidate' = None
       /\ Lock(b, time)
  ELSE /\ candidate' = IF Replaces(b) THEN [epoch |-> b.epoch, slot |-> b.slot, time |-> time]
                       ELSE candidate
       /\ UNCHANGED <<gate, clock>>

-----------------------------------------------------------------------------
(* The node, slot by slot. *)

(* fhss_node_tick for one beacon of the slot that begins at `time`.        *)
Offer(b, time) == IF Scanning THEN OfferScanning(b, time) ELSE OfferTracked(b, clock + time)

Hears(slot, time) ==
  IF Scanning THEN Channel(slot) = Rendezvous ELSE Channel(slot) = Channel(clock + time)

(* The history of an acquisition, for the beacons just heard. *)
Note(genuine, copy) ==
  IF clock = None /\ clock' = None
  THEN heard' = heard + genuine /\ late' = late \cup copy
  ELSE heard' = 0 /\ late' = {}

(* One slot: the master beacons; the node hears this beacon if it listens  *)
(* on its channel, or an earlier one instead, or nothing.                  *)
Slot ==
  /\ now < MaxTime /\ now' = now + 1
  /\ LET b == [epoch |-> epoch, slot |-> now + 1 - start]
     IN  /\ sent' = sent \cup {b}
         /\ \/ Hears(b.slot, now + 1) /\ Offer(b, now + 1) /\ Note(1, {}) /\ UNCHANGED copies
            \/ \E c \in sent :
                 /\ copies < MaxCopies /\ copies' = copies + 1
                 /\ Offer(c, now + 1) /\ Note(0, {c})
            \/ /\ IF Scanning THEN UNCHANGED node ELSE Missed
               /\ Note(0, {}) /\ UNCHANGED copies
  /\ UNCHANGED <<master, restarts>>

(* enable_fhss on the node: nothing is known of any session.               *)
NodeStarts ==
  /\ gate.epoch > 0 \/ candidate # None
  /\ gate' = [epoch |-> 0, miss |-> 0] /\ candidate' = None /\ clock' = None
  /\ heard' = 0 /\ late' = {}
  /\ UNCHANGED <<now, master, sent, bounds>>

SyncInit ==
  /\ now = 0 /\ stored = 1 /\ epoch = 1 /\ start = 0 /\ sent = {}
  /\ gate = [epoch |-> 0, miss |-> 0] /\ candidate = None /\ clock = None
  /\ heard = 0 /\ late = {} /\ restarts = 0 /\ copies = 0

SyncNext == MasterStarts \/ Slot \/ NodeStarts

SyncSpec == SyncInit /\ [][SyncNext]_syncVars

(* A node that scans locks with the second beacon of a session it hears on *)
(* time, whatever it held before; a late beacon heard meanwhile costs it   *)
(* one more, however often it is repeated (offer_scanning,                 *)
(* fhss_node_tick).                                                        *)
SecondBeaconLocks == Scanning => heard <= 1 + Cardinality(late)

(* If at most one late beacon is heard, the clock of a node is that of its *)
(* master's session, up to the slack of one decision (offer_tracked,       *)
(* offer_scanning, fhss_lock).                                             *)
ClockTrue ==
  ~Scanning /\ gate.epoch = epoch /\ copies <= 1 =>
    Abs(clock - MasterClock) <= IF AcquireSlack > ResyncSlack THEN AcquireSlack ELSE ResyncSlack

=============================================================================
