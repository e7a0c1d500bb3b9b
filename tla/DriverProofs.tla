---------------------------- MODULE DriverProofs ----------------------------
(***************************************************************************)
(* The radio driver (Spec), the hopping that tunes it (SyncSpec), and the  *)
(* console with the maintenance task that gives way to it                  *)
(* (MaintenanceSpec), for every deadline, cycle, permutation, slack, queue *)
(* and number of operations.  Three components that share no state, each   *)
(* with its own specification.                                             *)
(*                                                                         *)
(* The radio: an operation starts the chip with a clear status and an empty*)
(* FIFO, and the chip does one thing before it is READY again.  So whatever*)
(* event the driver finds is the event of its own operation, and what an   *)
(* operation before it left behind is gone.                                *)
(*                                                                         *)
(* Hopping: while the candidate is a beacon of the running session heard   *)
(* on time, the node heard one such beacon more than late ones, else no    *)
(* more than late ones; a late beacon heard before never takes the         *)
(* candidate's place again, since the candidate is the latest heard so far.*)
(* And the clock: before any late beacon it is exactly the master's, or    *)
(* that of a session before it; one late beacon moves it only within the   *)
(* slack of the decision that takes it.                                    *)
(*                                                                         *)
(* The console: what a step makes of messages goes where they are counted. *)
(***************************************************************************)
EXTENDS Spirit1, Sync, Maintenance, FiniteSetTheorems, TLAPS

-----------------------------------------------------------------------------
(* The radio. *)

(* No frame bears the number of a call to come. *)
Numbered ==
  /\ call \in Nat /\ loaded \in Nat /\ loaded <= call
  /\ \A f \in aired : f \in Nat /\ f <= call
  /\ pc # "idle" => call > 0

(* While the driver waits for a transmission, the status tells what became *)
(* of the frame of this call.                                              *)
Transmitting ==
  pc = "tx_wait" =>
    /\ chip # "RX"
    /\ chip = "TX" => irq = {} /\ loaded = call /\ call \notin aired
    /\ "TX_DATA_SENT" \in irq => call \in aired
    /\ irq \cap {"MAX_BO_CCA_REACH", "TX_FIFO_ERROR"} # {} => call \notin aired

(* While it waits for a frame, the status and the FIFO are of this call.   *)
Listening ==
  /\ pc = "rx_wait" =>
       /\ chip # "TX"
       /\ chip = "RX" => irq = {} /\ fifo = Empty
       /\ "RX_DATA_READY" \in irq => fifo = call
  /\ pc \in {"rx_read", "rx_error", "rx_again"} => chip \notin {"TX", "RX"} /\ irq = {}
  /\ pc = "rx_read" => fifo = call

Sleeping == pc = "sleep" => mask = {}

(* A result still tells the truth when the chip has gone on. *)
Told ==
  /\ RxFresh
  /\ TxTruth
  /\ pc = "idle" /\ result.op = "tx" => chip \notin {"TX", "RX"}
  /\ pc = "idle" /\ result.op = "sleep" => chip = "SLEEP" /\ mask = {}

IInv == Numbered /\ Transmitting /\ Listening /\ Sleeping /\ Told

-----------------------------------------------------------------------------

LEMMA InitEstablishes == Init => IInv
  BY Spirit1Constants DEF Init, IInv, Numbered, Transmitting, Listening, Sleeping, Told,
     RxFresh, TxTruth, NoResult, Empty

LEMMA StutterKeeps == IInv /\ UNCHANGED vars => IInv'
<1> SUFFICES ASSUME IInv, UNCHANGED vars PROVE IInv' OBVIOUS
<1> USE DEF vars, spirit, regs, driver, IInv
<1>1. Numbered' BY DEF Numbered
<1>2. Transmitting' /\ Listening' /\ Sleeping' BY DEF Transmitting, Listening, Sleeping
<1>3. Told' BY DEF Told, RxFresh, TxTruth
<1> QED BY <1>1, <1>2, <1>3

(* The chip. *)
LEMMA ChipKeeps == IInv /\ Chip => IInv'
<1> SUFFICES ASSUME IInv, Chip PROVE IInv' OBVIOUS
<1> USE DEF IInv, Ends, regs, driver
<1>1. CASE Transmits
  <2>1. Numbered' /\ Sleeping' BY <1>1 DEF Transmits, Numbered, Sleeping
  <2>2. Transmitting' /\ Listening' BY <1>1 DEF Transmits, Numbered, Transmitting, Listening
  <2>3. Told' BY <1>1 DEF Transmits, Told, RxFresh, TxTruth
  <2> QED BY <2>1, <2>2, <2>3
<1>2. CASE Receives
  <2> USE DEF Receives, Fill
  <2>1. Numbered' /\ Sleeping' BY <1>2 DEF Numbered, Sleeping
  <2>2. Transmitting' /\ Listening' BY <1>2 DEF Transmitting, Listening, RxEvents
  <2>3. Told' BY <1>2 DEF Told, RxFresh, TxTruth
  <2> QED BY <2>1, <2>2, <2>3
<1> QED BY <1>1, <1>2 DEF Chip

(* The operations, each from the idle driver. *)
LEMMA CallsKeep == IInv /\ (Tx \/ Rx \/ Sample \/ Sleep) => IInv'
<1> SUFFICES ASSUME IInv, Tx \/ Rx \/ Sample \/ Sleep PROVE IInv' OBVIOUS
<1> USE DEF IInv, Call, Cleared, Flushed, Empty
<1>1. CASE Tx
  BY <1>1 DEF Tx, Numbered, Transmitting, Listening, Sleeping, Told, RxFresh, TxTruth
<1>2. CASE Rx
  BY <1>2 DEF Rx, Numbered, Transmitting, Listening, Sleeping, Told, RxFresh, TxTruth
<1>3. CASE Sample
  BY <1>3 DEF Sample, Numbered, Transmitting, Listening, Sleeping, Told, RxFresh, TxTruth
<1>4. CASE Sleep
  BY <1>4 DEF Sleep, MaskNone, Numbered, Transmitting, Listening, Sleeping, Told, RxFresh, TxTruth
<1> QED BY <1>1, <1>2, <1>3, <1>4

(* The steps of an operation, and a caller that drops it. *)
LEMMA StepsKeep == IInv /\ (Driver \/ Dropped) => IInv'
<1> SUFFICES ASSUME IInv, Driver \/ Dropped PROVE IInv' OBVIOUS
<1> USE DEF IInv, Return, Flushed, Empty, spirit, regs
<1>1. CASE TxWakes
  BY <1>1 DEF TxWakes, TxOutcome, Asserted, Cleared, Numbered, Transmitting, Listening, Sleeping, Told, RxFresh, TxTruth
<1>2. CASE RxWakes
  BY <1>2 DEF RxWakes, Asserted, Cleared, Numbered, Transmitting, Listening, Sleeping, Told, RxFresh, TxTruth
<1>3. CASE RxReads
  BY <1>3 DEF RxReads, Numbered, Transmitting, Listening, Sleeping, Told, RxFresh, TxTruth
<1>4. CASE RxFails
  BY <1>4 DEF RxFails, Numbered, Transmitting, Listening, Sleeping, Told, RxFresh, TxTruth
<1>5. CASE RxAgain
  BY <1>5 DEF RxAgain, LeftThen, Numbered, Transmitting, Listening, Sleeping, Told, RxFresh, TxTruth
<1>6. CASE Sampled
  BY <1>6 DEF Sampled, Numbered, Transmitting, Listening, Sleeping, Told, RxFresh, TxTruth
<1>7. CASE Slept
  BY <1>7 DEF Slept, Numbered, Transmitting, Listening, Sleeping, Told, RxFresh, TxTruth
<1>8. CASE Tick
  BY <1>8 DEF Tick, Numbered, Transmitting, Listening, Sleeping, Told, RxFresh, TxTruth
<1>9. CASE Expires
  BY <1>9 DEF Expires, Numbered, Transmitting, Listening, Sleeping, Told, RxFresh, TxTruth
<1>10. CASE Aborts
  BY <1>10 DEF Aborts, Numbered, Transmitting, Listening, Sleeping, Told, RxFresh, TxTruth
<1>11. CASE Dropped
  BY <1>11 DEF Dropped, Numbered, Transmitting, Listening, Sleeping, Told, RxFresh, TxTruth
<1> QED BY <1>1, <1>2, <1>3, <1>4, <1>5, <1>6, <1>7, <1>8, <1>9, <1>10, <1>11 DEF Driver

(* The inductive invariant holds in every reachable state. *)
LEMMA Invariance == Spec => []IInv
<1>1. IInv /\ [Next]_vars => IInv'
  BY StutterKeeps, ChipKeeps, CallsKeep, StepsKeep DEF Next
<1> QED BY InitEstablishes, <1>1, PTL DEF Spec

-----------------------------------------------------------------------------

(* rx returns the frame that arrived while this call listened, never one   *)
(* an earlier call, a dropped one included, left in the FIFO; tx reports   *)
(* as sent only what went out, and as refused only what did not.           *)
THEOREM ResultsAreTrue == Spec => []ResultsTrue
<1>1. IInv => ResultsTrue BY DEF IInv, Told, ResultsTrue
<1> QED BY Invariance, <1>1, PTL

(* A radio put to sleep sleeps and never holds nIRQ low. *)
THEOREM SleepIsQuiet == Spec => []NoVeto
<1>1. IInv => NoVeto BY DEF IInv, Told, NoVeto, Asserted
<1> QED BY Invariance, <1>1, PTL

-----------------------------------------------------------------------------
(* Hopping. *)

Beacon == [epoch : Nat, slot : Nat]
Candidate == [epoch : Nat, slot : Nat, time : Nat]

(* None is the name of no beacon and no clock. *)
Sane == None \notin Candidate \cup Int

Types ==
  /\ now \in Nat /\ stored \in Nat /\ epoch \in Nat /\ start \in 0..now
  /\ sent \subseteq Beacon
  /\ gate \in [epoch : Nat, miss : Nat]
  /\ candidate \in Candidate \cup {None}
  /\ clock \in Int \cup {None}
  /\ heard \in Nat /\ late \subseteq Beacon /\ IsFiniteSet(late)

(* The master's epoch is the one stored, and nothing heard is ahead of it. *)
Within(b, e, elapsed) == b.epoch < e \/ (b.epoch = e /\ b.slot <= elapsed)

Past ==
  /\ stored = epoch /\ gate.epoch <= epoch
  /\ \A b \in sent : Within(b, epoch, now - start)
  /\ candidate # None => Within(candidate, epoch, now - start)

(* The candidate is a beacon of the running session, heard on time.        *)
Genuine ==
  candidate # None /\ candidate.epoch = epoch /\ candidate.slot = candidate.time - start

(* No late beacon heard so far would take the candidate's place.           *)
Settled ==
  \A b \in late : b.epoch >= gate.epoch => candidate # None /\ ~Replaces(b)

Counted ==
  /\ clock # None => heard = 0 /\ late = {}
  /\ heard <= Cardinality(late) + (IF Genuine THEN 1 ELSE 0)

SyncInv == Types /\ Past /\ Settled /\ Counted

(* The constants as arithmetic needs them. *)
LEMMA Constants == AcquireSlack \in Nat /\ ResyncSlack \in Nat /\ Limit \in Nat /\ Limit >= 1
BY SyncConstants DEF SyncConstants

(* The beacon of the slot that begins. *)
Fresh == [epoch |-> epoch, slot |-> now + 1 - start]

(* A beacon offered to a node that tracks: it goes on or scans, with       *)
(* nothing heard (offer_tracked, beacon_missed).                           *)
LEMMA Tracked ==
  ASSUME Types, Past, Sane, NEW b \in Beacon, clock # None,
         OfferTracked(b, clock + (now + 1)), b.epoch <= epoch
  PROVE  /\ gate' \in [epoch : Nat, miss : Nat] /\ gate'.epoch <= epoch
         /\ gate'.epoch >= gate.epoch
         /\ candidate' = candidate /\ clock' \in Int \cup {None}
<1> USE Constants DEF Types, Past, Beacon
<1>1. CASE Tracks(b, clock + (now + 1))
  <2>1. gate' = [epoch |-> b.epoch, miss |-> 0] /\ clock' = b.slot - (now + 1)
        /\ candidate' = candidate
    BY <1>1 DEF OfferTracked, Lock
  <2>2. QED
    BY <1>1, <2>1, SMT DEF Tracks
<1>2. CASE ~Tracks(b, clock + (now + 1))
  BY <1>2, SMT DEF OfferTracked, Missed
<1>3. QED
  BY <1>1, <1>2

(* A miss leaves the candidate alone and may end the tracking. *)
LEMMA AfterMiss ==
  ASSUME Types, Past, Missed, clock # None
  PROVE  /\ gate' \in [epoch : Nat, miss : Nat] /\ gate'.epoch = gate.epoch
         /\ candidate' = candidate /\ clock' \in Int \cup {None}
BY Constants, SMT DEF Types, Past, Missed

(* A beacon offered to a node that scans: rejected, locked to, held in the *)
(* candidate's place, or not (offer_scanning).                             *)
LEMMA Scanned ==
  ASSUME Types, Past, Sane, NEW b \in Beacon, clock = None,
         OfferScanning(b, now + 1), b.epoch <= epoch
  PROVE  /\ gate' \in [epoch : Nat, miss : Nat] /\ gate'.epoch <= epoch
         /\ gate'.epoch >= gate.epoch
         /\ clock' \in Int \cup {None}
         /\ \/ clock' # None /\ candidate' = None
            \/ /\ clock' = None /\ gate' = gate
               /\ \/ b.epoch < gate.epoch /\ candidate' = candidate
                  \/ b.epoch >= gate.epoch /\ ~Consistent(b, now + 1) /\ Replaces(b)
                       /\ candidate' = [epoch |-> b.epoch, slot |-> b.slot, time |-> now + 1]
                  \/ b.epoch >= gate.epoch /\ candidate # None /\ ~Replaces(b)
                       /\ candidate' = candidate
<1> USE DEF Types, Past, Beacon
<1>1. CASE b.epoch < gate.epoch
  BY <1>1, SMT DEF OfferScanning, node
<1>2. CASE b.epoch >= gate.epoch /\ Consistent(b, now + 1)
  <2>1. gate' = [epoch |-> b.epoch, miss |-> 0] /\ clock' = b.slot - (now + 1)
        /\ candidate' = None
    BY <1>2, SMT DEF OfferScanning, Lock
  <2>2. clock' \in Int
    BY <2>1, SMT
  <2>3. QED
    BY <1>2, <2>1, <2>2, SMT DEF Sane
<1>3. CASE b.epoch >= gate.epoch /\ ~Consistent(b, now + 1)
  <2>1. gate' = gate /\ clock' = clock
        /\ candidate' = IF Replaces(b) THEN [epoch |-> b.epoch, slot |-> b.slot, time |-> now + 1]
                        ELSE candidate
    BY <1>3, SMT DEF OfferScanning
  <2>2. ~Replaces(b) => candidate # None
    BY DEF Replaces
  <2>3. QED
    BY <1>3, <2>1, <2>2, SMT
<1>4. QED
  BY <1>1, <1>2, <1>3, SMT

(* Everything of a slot but what the node heard: time goes on, the beacon  *)
(* is sent, and nothing heard so far gets ahead of the master.             *)
LEMMA SlotPast ==
  ASSUME Types, Past, Slot
  PROVE  /\ now' = now + 1 /\ UNCHANGED master
         /\ Fresh \in Beacon /\ sent' = sent \cup {Fresh}
         /\ \A b \in sent : Within(b, epoch', now' - start') /\ (b.epoch = epoch => b.slot < Fresh.slot)
         /\ Within(Fresh, epoch', now' - start')
<1>1. now' = now + 1 /\ UNCHANGED master /\ sent' = sent \cup {Fresh}
  BY DEF Slot, Fresh
<1>2. stored' = stored /\ epoch' = epoch /\ start' = start
  BY <1>1 DEF master
<1>3. Fresh \in Beacon
  BY SMT DEF Types, Fresh, Beacon
<1>4. ASSUME NEW b \in sent
      PROVE  Within(b, epoch', now' - start') /\ (b.epoch = epoch => b.slot < Fresh.slot)
  BY <1>1, <1>2, SMT DEF Types, Past, Within, Fresh, Beacon
<1>5. Within(Fresh, epoch', now' - start')
  BY <1>1, <1>2, SMT DEF Types, Within, Fresh
<1>6. QED
  BY <1>1, <1>3, <1>4, <1>5

(* A slot after which the node tracks: nothing is counted.                 *)
LEMMA SlotTracking ==
  ASSUME SyncInv, Sane, Slot, clock' # None \/ clock # None, heard' = 0, late' = {},
         gate' \in [epoch : Nat, miss : Nat], gate'.epoch <= epoch,
         clock' \in Int \cup {None}, candidate' = candidate \/ candidate' = None
  PROVE  SyncInv'
<1>1. now' = now + 1 /\ stored' = stored /\ epoch' = epoch /\ start' = start
      /\ sent' = sent \cup {Fresh} /\ Fresh \in Beacon
  BY SlotPast DEF SyncInv, master
<1>2. Types'
  BY <1>1, FS_EmptySet, SMT DEF SyncInv, Types
<1>3. \A b \in sent' : Within(b, epoch', now' - start')
  BY <1>1, SlotPast DEF SyncInv
<1>4. candidate' # None => Within(candidate', epoch', now' - start')
  <2> SUFFICES ASSUME candidate' # None PROVE Within(candidate', epoch', now' - start') /\ candidate' = candidate
    OBVIOUS
  <2>1. candidate' = candidate /\ candidate # None
    OBVIOUS
  <2>2. Within(candidate, epoch, now - start) /\ candidate \in Candidate
    BY <2>1 DEF SyncInv, Past, Types
  <2>3. QED
    BY <1>1, <2>1, <2>2, SMT DEF Within, SyncInv, Types, Candidate
<1>5. Past'
  BY <1>1, <1>3, <1>4, SMT DEF SyncInv, Past
<1>6. Settled' /\ Counted'
  BY FS_EmptySet, SMT DEF Settled, Counted
<1>7. QED
  BY <1>2, <1>5, <1>6 DEF SyncInv

(* A slot through which the node scans: what it hears on time it holds, or *)
(* locks to; what it hears late and holds it had not heard before.         *)
LEMMA SlotScanning ==
  ASSUME SyncInv, Sane, Slot, clock = None, clock' = None, gate' = gate,
         NEW b \in Beacon, NEW g \in {0, 1}, NEW copy \in SUBSET sent,
         heard' = heard + g, late' = late \cup copy,
         \/ g = 1 /\ copy = {} /\ b = Fresh
         \/ g = 0 /\ copy = {b}
         \/ g = 0 /\ copy = {} /\ candidate' = candidate,
         b.epoch <= epoch,
         \/ g = 0 /\ copy = {} /\ candidate' = candidate
         \/ b.epoch < gate.epoch /\ candidate' = candidate
         \/ b.epoch >= gate.epoch /\ ~Consistent(b, now + 1) /\ Replaces(b)
              /\ candidate' = [epoch |-> b.epoch, slot |-> b.slot, time |-> now + 1]
         \/ b.epoch >= gate.epoch /\ candidate # None /\ ~Replaces(b) /\ candidate' = candidate
  PROVE  SyncInv'
<1> USE Constants DEF SyncInv
<1>1. now' = now + 1 /\ stored' = stored /\ epoch' = epoch /\ start' = start
      /\ sent' = sent \cup {Fresh} /\ Fresh \in Beacon
  BY SlotPast DEF master
<1>2. \A x \in sent : x \in Beacon /\ Within(x, epoch, now - start) /\ Within(x, epoch', now' - start')
                        /\ (x.epoch = epoch => x.slot < Fresh.slot)
  BY SlotPast DEF Types, Past
<1>3. IsFiniteSet(late')
  <2>1. IsFiniteSet(late) /\ IsFiniteSet(late \cup {b})
    BY FS_AddElement DEF Types
  <2>2. late' = late \/ late' = late \cup {b}
    OBVIOUS
  <2>3. QED
    BY <2>1, <2>2
<1>4. candidate' = candidate \/ candidate' = [epoch |-> b.epoch, slot |-> b.slot, time |-> now + 1]
  OBVIOUS
<1>5. candidate' \in Candidate \cup {None}
  BY <1>4, SMT DEF Types, Candidate, Beacon
<1>6. Types'
  <2>1. late' \subseteq Beacon
    BY DEF Types
  <2>2. heard' \in Nat
    BY SMT DEF Types
  <2>3. QED
    BY <1>1, <1>3, <1>5, <2>1, <2>2, SMT DEF Types
<1>7. Within(b, epoch', now' - start') \/ (g = 0 /\ copy = {})
  BY <1>2, SlotPast
<1>8. candidate' # None => Within(candidate', epoch', now' - start')
  <2>1. CASE candidate' = candidate
    BY <1>1, <2>1, SMT DEF Types, Past, Within, Candidate
  <2>2. CASE candidate' # candidate
    <3>1. candidate' = [epoch |-> b.epoch, slot |-> b.slot, time |-> now + 1] /\ Within(b, epoch', now' - start')
      BY <1>4, <1>7, <2>2
    <3>2. QED
      BY <1>1, <3>1, SMT DEF Within, Types, Beacon
  <2>3. QED
    BY <2>1, <2>2
<1>9. Past'
  <2>1. \A x \in sent' : Within(x, epoch', now' - start')
    BY <1>1, <1>2, SlotPast
  <2>2. QED
    BY <1>1, <1>8, <2>1, SMT DEF Past
<1>10. Settled'
  <2> SUFFICES ASSUME NEW x \in late', x.epoch >= gate'.epoch
               PROVE  candidate' # None /\ ~Replaces(x)'
    BY DEF Settled
  <2>1. x \in Beacon /\ (x \in late \/ (x = b /\ copy = {b}))
    BY DEF Types
  <2>2. CASE candidate' = [epoch |-> b.epoch, slot |-> b.slot, time |-> now + 1] /\ Replaces(b)
    <3>1. candidate' # None
      BY <2>2, <1>1, SMT DEF Sane, Candidate, Beacon, Types
    <3>2. CASE x = b
      BY <2>2, <3>1, <3>2, SMT DEF Replaces, Beacon
    <3>3. CASE x \in late
      <4>1. candidate # None /\ ~Replaces(x) /\ candidate \in Candidate
        BY <3>3, SMT DEF Settled, Types
      <4>2. QED
        BY <2>1, <2>2, <3>1, <4>1, SMT DEF Replaces, Beacon, Candidate
    <3>4. QED
      BY <2>1, <3>2, <3>3
  <2>3. CASE candidate' = candidate
    <3>1. CASE x \in late
      <4>1. candidate # None /\ ~Replaces(x)
        BY <3>1 DEF Settled
      <4>2. QED
        BY <2>3, <4>1 DEF Replaces
    <3>2. CASE x = b /\ copy = {b}
      <4>1. candidate # None /\ ~Replaces(b)
        <5>1. ~(b.epoch < gate.epoch)
          BY <3>2, SMT DEF Types, Beacon
        <5>2. CASE Replaces(b) /\ candidate' = [epoch |-> b.epoch, slot |-> b.slot, time |-> now + 1]
          <6>1. candidate # None
            BY <2>3, <5>2, <1>1, SMT DEF Sane, Candidate, Beacon, Types
          <6>2. candidate.epoch = b.epoch /\ candidate.slot = b.slot
            BY <2>3, <5>2, SMT
          <6>3. FALSE
            BY <5>2, <6>1, <6>2, SMT DEF Replaces, Beacon
          <6>4. QED
            BY <6>3
        <5>3. QED
          BY <3>2, <5>1, <5>2
      <4>2. QED
        BY <2>3, <3>2, <4>1 DEF Replaces
    <3>3. QED
      BY <2>1, <3>1, <3>2
  <2>4. QED
    BY <1>4, <2>2, <2>3
<1>11. Counted'
  <2>1. Cardinality(late) \in Nat /\ Cardinality(late') \in Nat /\ Cardinality(late') >= Cardinality(late)
    BY <1>3, FS_CardinalityType, FS_Subset, SMT DEF Types
  <2>2. CASE g = 0 /\ copy = {} /\ candidate' = candidate
    <3>1. Genuine' = Genuine /\ late' = late /\ heard' = heard
      BY <1>1, <2>2, SMT DEF Genuine, Types
    <3>2. QED
      BY <3>1 DEF Counted
  <2>3. CASE g = 0 /\ copy = {b} /\ candidate' = candidate
    <3>1. Genuine' = Genuine /\ heard' = heard
      BY <1>1, <2>3, SMT DEF Genuine, Types
    <3>2. QED
      BY <2>1, <3>1, SMT DEF Counted, Types
  <2>4. CASE g = 0 /\ copy = {b} /\ candidate' # candidate
    <3>1. Replaces(b) /\ b.epoch >= gate.epoch
      BY <2>4
    <3>2. b \notin late
      BY <3>1 DEF Settled
    <3>3. Cardinality(late') = Cardinality(late) + 1
      BY <2>4, <3>2, FS_AddElement DEF Types
    <3>4. heard <= Cardinality(late) + 1
      BY <2>1, SMT DEF Counted, Types
    <3>5. QED
      BY <2>1, <2>4, <3>3, <3>4, SMT DEF Counted, Types
  <2>5. CASE g = 1 /\ copy = {} /\ b = Fresh
    <3>1. b.epoch = epoch /\ b.slot = now + 1 - start /\ late' = late /\ heard' = heard + 1
      BY <2>5 DEF Fresh
    <3>2. ~(b.epoch < gate.epoch)
      BY <3>1, SMT DEF Past, Types
    <3>3. ~Genuine
      <4> SUFFICES ASSUME Genuine PROVE FALSE
        OBVIOUS
      <4>1. candidate \in Candidate /\ candidate.epoch = b.epoch
            /\ candidate.slot = candidate.time - start /\ candidate.slot <= now - start
        BY <3>1, SMT DEF Genuine, Types, Past, Within
      <4>2. b.slot > candidate.slot /\ b.slot - candidate.slot = now + 1 - candidate.time
        BY <3>1, <4>1, SMT DEF Candidate, Types
      <4>3. Consistent(b, now + 1)
        <5>1. (b.slot - candidate.slot) - ((now + 1) - candidate.time) = 0
          BY <3>1, <4>1, <4>2, SMT DEF Candidate, Types
        <5>2. QED
          BY <4>1, <4>2, <5>1, SMT DEF Consistent, Genuine, Abs
      <4>4. Replaces(b)
        BY <4>1, <4>2, SMT DEF Replaces, Genuine
      <4>5. QED
        BY <2>5, <3>2, <4>3, <4>4
    <3>4. Replaces(b)
      <4>1. candidate # None /\ candidate.epoch = b.epoch => b.slot > candidate.slot
        BY <3>1, SMT DEF Past, Within, Types, Candidate
      <4>2. candidate # None => b.epoch >= candidate.epoch
        BY <3>1, SMT DEF Past, Within, Types, Candidate
      <4>3. QED
        BY <3>1, <4>1, <4>2, SMT DEF Replaces, Types, Candidate
    <3>5. candidate' = [epoch |-> b.epoch, slot |-> b.slot, time |-> now + 1]
      BY <2>5, <3>2, <3>4
    <3>6. candidate' # None
      BY <3>5, <1>1, SMT DEF Sane, Candidate, Beacon, Types
    <3>7. Genuine'
      <4>1. candidate'.epoch = epoch' /\ candidate'.slot = now + 1 - start
            /\ candidate'.time = now + 1
        BY <1>1, <3>1, <3>5, SMT
      <4>2. now + 1 - start = candidate'.time - start'
        BY <1>1, <4>1, SMT DEF Types
      <4>3. QED
        BY <3>6, <4>1, <4>2, SMT DEF Genuine
    <3>8. heard <= Cardinality(late)
      <4>1. heard <= Cardinality(late) + 0
        BY <3>3 DEF Counted
      <4>2. QED
        BY <2>1, <4>1, SMT DEF Types
    <3>9. QED
      BY <2>1, <3>1, <3>7, <3>8, SMT DEF Counted, Types
  <2>6. QED
    BY <2>2, <2>3, <2>4, <2>5
<1>12. QED
  BY <1>6, <1>9, <1>10, <1>11

(* A slot keeps the invariant, whatever the node hears in it.              *)
LEMMA SlotKept == SyncInv /\ Sane /\ Slot => SyncInv'
<1> SUFFICES ASSUME SyncInv, Sane, Slot PROVE SyncInv'
  OBVIOUS
<1>0. Types /\ Past
  BY DEF SyncInv
<1>1. ASSUME NEW b \in Beacon, b.epoch <= epoch, Offer(b, now + 1), NEW g \in {0, 1},
             NEW copy \in SUBSET sent, Note(g, copy),
             (g = 1 /\ copy = {} /\ b = Fresh) \/ (g = 0 /\ copy = {b})
      PROVE  SyncInv'
  <2>1. CASE clock # None
    <3>1. OfferTracked(b, clock + (now + 1)) /\ heard' = 0 /\ late' = {}
      BY <1>1, <2>1 DEF Offer, Scanning, Note
    <3>2. QED
      BY <1>0, <1>1, <2>1, <3>1, Tracked, SlotTracking
  <2>2. CASE clock = None
    <3>1. OfferScanning(b, now + 1)
      BY <1>1, <2>2 DEF Offer, Scanning
    <3>2. CASE clock' # None
      BY <1>0, <1>1, <2>2, <3>1, <3>2, Scanned, SlotTracking DEF Note
    <3>3. CASE clock' = None
      <4>1. heard' = heard + g /\ late' = late \cup copy
        BY <1>1, <2>2, <3>3 DEF Note
      <4>2. QED
        BY <1>0, <1>1, <2>2, <3>1, <3>3, <4>1, Scanned, SlotScanning
    <3>4. QED
      BY <3>2, <3>3
  <2>3. QED
    BY <2>1, <2>2
<1>2. CASE Offer(Fresh, now + 1) /\ Note(1, {})
  <2>1. Fresh \in Beacon /\ Fresh.epoch <= epoch
    BY <1>0, SlotPast, SMT DEF Fresh, Types
  <2>2. QED
    BY <1>1, <1>2, <2>1
<1>3. ASSUME NEW c \in sent, Offer(c, now + 1), Note(0, {c})
      PROVE  SyncInv'
  <2>1. c \in Beacon /\ c.epoch <= epoch
    BY <1>0, SMT DEF Types, Past, Within, Beacon
  <2>2. QED
    BY <1>1, <1>3, <2>1
<1>4. CASE (IF Scanning THEN UNCHANGED node ELSE Missed) /\ Note(0, {})
  <2>1. CASE clock # None
    <3>1. Missed /\ heard' = 0 /\ late' = {}
      BY <1>4, <2>1 DEF Scanning, Note
    <3>2. gate'.epoch <= epoch
      BY <1>0, <2>1, <3>1, AfterMiss DEF Past
    <3>3. QED
      BY <1>0, <2>1, <3>1, <3>2, AfterMiss, SlotTracking
  <2>2. CASE clock = None
    <3>1. gate' = gate /\ candidate' = candidate /\ clock' = None
      BY <1>4, <2>2 DEF Scanning, node
    <3>2. heard' = heard + 0 /\ late' = late \cup {}
      BY <2>2, <1>4, <3>1 DEF Note
    <3>3. Fresh \in Beacon /\ Fresh.epoch <= epoch
      BY <1>0, SlotPast, SMT DEF Fresh, Types
    <3>4. PICK g \in {0, 1} : g = 0
      OBVIOUS
    <3>5. PICK copy \in SUBSET sent : copy = {}
      OBVIOUS
    <3>6. heard' = heard + g /\ late' = late \cup copy
      BY <3>2, <3>4, <3>5
    <3>7. PICK b \in Beacon : b.epoch <= epoch
      BY <3>3
    <3>8. QED
      BY <2>2, <3>1, <3>4, <3>5, <3>6, <3>7, SlotScanning
  <2>3. QED
    BY <2>1, <2>2
<1>5. QED
  BY <1>2, <1>3, <1>4 DEF Slot, Fresh

(* A restart of the master moves the epoch past everything heard.          *)
LEMMA RestartKept == SyncInv /\ ~WritesFail /\ MasterStarts => SyncInv'
<1> SUFFICES ASSUME SyncInv, ~WritesFail, MasterStarts PROVE SyncInv'
  OBVIOUS
<1>1. /\ epoch' = epoch + 1 /\ stored' = epoch' /\ start' = now /\ heard' = 0 /\ late' = {}
      /\ now' = now /\ sent' = sent /\ gate' = gate /\ candidate' = candidate /\ clock' = clock
  BY DEF MasterStarts, NextMasterEpoch, SyncInv, Past, node
<1>2. Types'
  BY <1>1, FS_EmptySet, SMT DEF SyncInv, Types
<1>3. Past'
  <2>1. \A b \in sent : Within(b, epoch', now' - start')
    BY <1>1, SMT DEF SyncInv, Types, Past, Within, Beacon
  <2>2. candidate # None => Within(candidate', epoch', now' - start')
    BY <1>1, SMT DEF SyncInv, Types, Past, Within, Candidate
  <2>3. QED
    BY <1>1, <2>1, <2>2, SMT DEF SyncInv, Types, Past
<1>4. Settled' /\ Counted'
  BY <1>1, FS_EmptySet, SMT DEF Settled, Counted
<1>5. QED
  BY <1>2, <1>3, <1>4 DEF SyncInv

(* A node that starts anew has heard nothing. *)
LEMMA NodeKept == SyncInv /\ NodeStarts => SyncInv'
<1> SUFFICES ASSUME SyncInv, NodeStarts PROVE SyncInv'
  OBVIOUS
<1>1. /\ epoch' = epoch /\ stored' = stored /\ start' = start /\ now' = now /\ sent' = sent
      /\ gate' = [epoch |-> 0, miss |-> 0] /\ candidate' = None /\ clock' = None
      /\ heard' = 0 /\ late' = {}
  BY DEF NodeStarts, master
<1>2. Types' /\ Settled' /\ Counted'
  BY <1>1, FS_EmptySet, SMT DEF SyncInv, Types, Settled, Counted
<1>3. Past'
  BY <1>1, SMT DEF SyncInv, Types, Past, Within
<1>4. QED
  BY <1>2, <1>3 DEF SyncInv

(* Every step keeps the invariant. *)
LEMMA SyncKept == ASSUME ~WritesFail, Sane, SyncInv, [SyncNext]_syncVars PROVE SyncInv'
<1>1. CASE UNCHANGED syncVars
  BY <1>1, SMT DEF syncVars, master, node, hearing, bounds, SyncInv, Types, Past, Within, Settled,
     Replaces, Counted, Genuine
<1>2. QED
  BY <1>1, SlotKept, RestartKept, NodeKept DEF SyncNext

(* A node that scans locks with the second beacon it hears on time, if the *)
(* writes of the epoch succeed, for every cycle and slack, and any number  *)
(* of restarts and late beacons (EpochGate, fhss_node_tick).               *)
THEOREM AcquisitionIsShort ==
  ASSUME ~WritesFail, Sane PROVE SyncSpec => []SecondBeaconLocks
<1>1. SyncInit => SyncInv
  BY FS_EmptySet, SMT DEF SyncInit, SyncInv, Types, Past, Settled, Counted
<1>2. SyncInv /\ [SyncNext]_syncVars => SyncInv'
  BY SyncKept
<1>3. SyncInv => SecondBeaconLocks
  <2> SUFFICES ASSUME SyncInv PROVE heard <= 1 + Cardinality(late)
    BY DEF SecondBeaconLocks
  <2>1. Cardinality(late) \in Nat
    BY FS_CardinalityType DEF SyncInv, Types
  <2>2. QED
    BY <2>1, SMT DEF SyncInv, Counted, Types
<1>4. QED
  BY <1>1, <1>2, <1>3, PTL DEF SyncSpec
-----------------------------------------------------------------------------
(* The clock.  While no late beacon was heard, the node's clock is that of *)
(* a session which began no later than the running one, and so is its      *)
(* candidate; one late beacon can then pass for one on time only within    *)
(* the slack, and what is heard after it is on time.                       *)

Larger == IF AcquireSlack > ResyncSlack THEN AcquireSlack ELSE ResyncSlack

Exact ==
  /\ clock # None => clock >= MasterClock /\ (gate.epoch = epoch => clock = MasterClock)
  /\ candidate # None /\ candidate.epoch = epoch => candidate.slot - candidate.time = MasterClock

Near == clock # None /\ gate.epoch = epoch => Abs(clock - MasterClock) <= Larger

ClockInv ==
  /\ copies \in Nat
  /\ copies = 0 => Exact
  /\ copies <= 1 => Near

(* What becomes of the clock when a beacon is offered: it is given up, or  *)
(* it is set by the beacon, which the node expected there if it tracked    *)
(* and which fits its candidate if it scanned, or it goes on as it was.    *)
LEMMA Clocked ==
  ASSUME Types, Past, Sane, NEW b \in Beacon, Offer(b, now + 1)
  PROVE  /\ \/ clock' = None
            \/ clock # None /\ clock' = clock /\ gate'.epoch = gate.epoch
            \/ /\ clock' = b.slot - (now + 1) /\ gate'.epoch = b.epoch
               /\ \/ clock # None /\ Tracks(b, clock + (now + 1))
                  \/ clock = None /\ Consistent(b, now + 1)
         /\ \/ candidate' = candidate \/ candidate' = None
            \/ candidate' = [epoch |-> b.epoch, slot |-> b.slot, time |-> now + 1]
<1>1. CASE clock # None /\ Tracks(b, clock + (now + 1))
  <2>1. gate' = [epoch |-> b.epoch, miss |-> 0] /\ clock' = b.slot - (now + 1)
        /\ candidate' = candidate
    BY <1>1 DEF Offer, Scanning, OfferTracked, Lock
  <2>2. QED
    BY <1>1, <2>1, SMT
<1>2. CASE clock # None /\ ~Tracks(b, clock + (now + 1))
  <2>1. Missed
    BY <1>2 DEF Offer, Scanning, OfferTracked
  <2>2. QED
    BY <1>2, <2>1, SMT DEF Missed, Types
<1>3. CASE clock = None
  <2>1. OfferScanning(b, now + 1)
    BY <1>3 DEF Offer, Scanning
  <2>2. CASE b.epoch < gate.epoch
    BY <1>3, <2>1, <2>2 DEF OfferScanning, node
  <2>3. CASE ~(b.epoch < gate.epoch) /\ Consistent(b, now + 1)
    <3>1. gate' = [epoch |-> b.epoch, miss |-> 0] /\ clock' = b.slot - (now + 1)
          /\ candidate' = None
      BY <2>1, <2>3 DEF OfferScanning, Lock
    <3>2. QED
      BY <1>3, <2>3, <3>1, SMT
  <2>4. CASE ~(b.epoch < gate.epoch) /\ ~Consistent(b, now + 1)
    BY <1>3, <2>1, <2>4 DEF OfferScanning
  <2>5. QED
    BY <2>2, <2>3, <2>4
<1>4. QED
  BY <1>1, <1>2, <1>3

(* The beacon of this slot sets the clock right, and is held right.        *)
LEMMA OnTime ==
  ASSUME SyncInv, SyncInv', Sane, ClockInv, Slot, Offer(Fresh, now + 1), copies' = copies
  PROVE  ClockInv'
<1>1. now' = now + 1 /\ epoch' = epoch /\ start' = start /\ Fresh \in Beacon
  BY SlotPast DEF SyncInv, master
<1>2. Types /\ Past /\ Types' /\ Fresh.epoch = epoch /\ Fresh.slot - (now + 1) = -start
  BY SMT DEF SyncInv, Fresh, Types
<1>3. \/ clock' = None
      \/ clock # None /\ clock' = clock /\ gate'.epoch = gate.epoch
      \/ clock' = -start
  BY <1>1, <1>2, Clocked
<1>4. candidate' = candidate \/ candidate' = None
      \/ candidate' = [epoch |-> epoch, slot |-> Fresh.slot, time |-> now + 1]
  BY <1>1, <1>2, Clocked
<1>5. copies = 0 => Exact'
  <2> SUFFICES ASSUME Exact PROVE Exact'
    BY DEF ClockInv
  <2>1. clock' # None => clock' >= -start /\ (gate'.epoch = epoch => clock' = -start)
    BY <1>2, <1>3, SMT DEF Exact, MasterClock, Types
  <2>2. candidate' # None /\ candidate'.epoch = epoch => candidate'.slot - candidate'.time = -start
    BY <1>2, <1>4, SMT DEF Exact, MasterClock
  <2>3. QED
    BY <1>1, <2>1, <2>2 DEF Exact, MasterClock
<1>6. copies <= 1 => Near'
  <2>1. CASE clock' = -start
    BY <1>1, <1>2, <2>1, Constants, SMT DEF Near, MasterClock, Abs, Larger, Types
  <2>2. CASE clock # None /\ clock' = clock /\ gate'.epoch = gate.epoch
    BY <1>1, <2>2 DEF ClockInv, Near, MasterClock
  <2>3. QED
    BY <1>3, <2>1, <2>2 DEF Near
<1>7. QED
  BY <1>5, <1>6 DEF ClockInv

(* The first late beacon moves the clock by no more than the slack.        *)
LEMMA Late ==
  ASSUME SyncInv, SyncInv', Sane, ClockInv, Slot, NEW c \in sent, Offer(c, now + 1),
         copies' = copies + 1
  PROVE  ClockInv'
<1>1. epoch' = epoch /\ start' = start /\ Types /\ Past /\ Types'
  BY SlotPast DEF SyncInv, master
<1>2. c \in Beacon /\ Within(c, epoch, now - start)
  BY <1>1 DEF Types, Past
<1>3. copies' \in Nat /\ copies' # 0 /\ (copies' <= 1 => copies = 0)
  BY SMT DEF ClockInv
<1>4. ASSUME copies = 0, clock' # None, gate'.epoch = epoch
      PROVE  Abs(clock' + start) <= Larger
  <2>1. Exact
    BY <1>4 DEF ClockInv
  <2>2. CASE clock # None /\ clock' = clock /\ gate'.epoch = gate.epoch
    BY <1>1, <1>4, <2>1, <2>2, Constants, SMT DEF Exact, MasterClock, Abs, Larger, Types
  <2>3. CASE clock' = c.slot - (now + 1) /\ gate'.epoch = c.epoch /\ clock # None
             /\ Tracks(c, clock + (now + 1))
    <3>1. clock \in Int /\ clock >= -start /\ c.slot <= now - start
      BY <1>1, <1>2, <1>4, <2>1, <2>3, SMT DEF Exact, MasterClock, Types, Within, Beacon
    <3>2. Abs(c.slot - (clock + (now + 1))) <= ResyncSlack
      BY <2>3 DEF Tracks
    <3>3. QED
      BY <1>1, <1>2, <2>3, <3>1, <3>2, Constants, SMT DEF Abs, Larger, Types, Beacon
  <2>4. CASE clock' = c.slot - (now + 1) /\ gate'.epoch = c.epoch /\ clock = None
             /\ Consistent(c, now + 1)
    <3>1. candidate \in Candidate /\ candidate.epoch = epoch
          /\ candidate.slot - candidate.time = -start
      BY <1>1, <1>4, <2>1, <2>4, SMT DEF Exact, MasterClock, Consistent, Types
    <3>2. Abs((c.slot - candidate.slot) - ((now + 1) - candidate.time)) <= AcquireSlack
      BY <2>4 DEF Consistent
    <3>3. (c.slot - candidate.slot) - ((now + 1) - candidate.time) = clock' + start
      <4>1. /\ c.slot \in Int /\ candidate.slot \in Int /\ candidate.time \in Int
            /\ now \in Int /\ start \in Int
        BY <1>1, <1>2, <3>1, SMT DEF Types, Beacon, Candidate
      <4>2. QED
        BY <2>4, <3>1, <4>1, SMT
    <3>4. clock' + start \in Int
      BY <1>1, <1>2, <2>4, SMT DEF Types, Beacon
    <3>5. QED
      BY <3>2, <3>3, <3>4, Constants, SMT DEF Abs, Larger
  <2>5. QED
    BY <1>1, <1>2, <1>4, <2>2, <2>3, <2>4, Clocked
<1>5. copies = 0 => Near'
  <2> SUFFICES ASSUME copies = 0, clock' # None, gate'.epoch = epoch
               PROVE  Abs(clock' - MasterClock') <= Larger
    BY <1>1 DEF Near
  <2>1. Abs(clock' + start) <= Larger
    BY <1>4
  <2>2. clock' - MasterClock' = clock' + start
    BY <1>1, SMT DEF MasterClock, Types
  <2>3. QED
    BY <2>1, <2>2
<1>6. QED
  BY <1>3, <1>5 DEF ClockInv

(* Every step keeps the clock near. *)
LEMMA ClockKept ==
  ASSUME SyncInv, SyncInv', Sane, ~WritesFail, ClockInv, [SyncNext]_syncVars PROVE ClockInv'
<1>0. Types /\ Past /\ Types'
  BY DEF SyncInv
<1>1. CASE MasterStarts
  <2>1. /\ epoch' = epoch + 1 /\ start' = now /\ gate' = gate /\ clock' = clock
        /\ candidate' = candidate /\ copies' = copies
    BY <1>0, <1>1 DEF MasterStarts, NextMasterEpoch, Past, node
  <2>2. gate.epoch # epoch' /\ (candidate # None => candidate.epoch # epoch')
    <3>1. gate.epoch # epoch'
      BY <1>0, <2>1, SMT DEF Types, Past
    <3>2. candidate # None => candidate.epoch # epoch'
      BY <1>0, <2>1, SMT DEF Types, Past, Within, Candidate
    <3>3. QED
      BY <3>1, <3>2
  <2>3. clock # None /\ clock >= -start => clock >= -start'
    BY <1>0, <2>1, SMT DEF Types
  <2>4. QED
    BY <2>1, <2>2, <2>3 DEF ClockInv, Exact, Near, MasterClock
<1>2. CASE NodeStarts
  <2>1. clock' = None /\ candidate' = None /\ copies' = copies
    BY <1>2 DEF NodeStarts, bounds
  <2>2. QED
    BY <2>1 DEF ClockInv, Exact, Near
<1>3. CASE Slot
  <2>1. epoch' = epoch /\ start' = start
    BY <1>0, <1>3, SlotPast DEF master
  <2>2. CASE Offer(Fresh, now + 1) /\ UNCHANGED copies
    BY <1>3, <2>2, OnTime
  <2>3. ASSUME NEW c \in sent, Offer(c, now + 1), copies' = copies + 1 PROVE ClockInv'
    BY <1>3, <2>3, Late
  <2>4. CASE (IF Scanning THEN UNCHANGED node ELSE Missed) /\ UNCHANGED copies
    <3>1. candidate' = candidate
          /\ (clock' = None \/ (clock' = clock /\ gate'.epoch = gate.epoch))
      BY <1>0, <2>4, AfterMiss, SMT DEF Scanning, node, Missed
    <3>2. QED
      BY <2>1, <2>4, <3>1 DEF ClockInv, Exact, Near, MasterClock
  <2>5. QED
    BY <1>3, <2>2, <2>3, <2>4 DEF Slot, Fresh
<1>4. CASE UNCHANGED syncVars
  BY <1>4 DEF syncVars, master, node, hearing, bounds, ClockInv, Exact, Near, MasterClock
<1>5. QED
  BY <1>1, <1>2, <1>3, <1>4 DEF SyncNext

(* With at most one late beacon the clock of a node is its master's, up to *)
(* the slack of one decision, for every cycle, permutation and slack, and  *)
(* any number of restarts (offer_tracked, offer_scanning, fhss_lock).      *)
THEOREM ClockIsTrue ==
  ASSUME ~WritesFail, Sane PROVE SyncSpec => []ClockTrue
<1>1. SyncInit => SyncInv /\ ClockInv
  BY FS_EmptySet, SMT DEF SyncInit, SyncInv, Types, Past, Settled, Counted, ClockInv, Exact, Near
<1>2. SyncInv /\ ClockInv /\ [SyncNext]_syncVars => SyncInv' /\ ClockInv'
  BY SyncKept, ClockKept
<1>3. ClockInv => ClockTrue
  BY DEF ClockInv, Near, ClockTrue, Scanning, Larger
<1>4. QED
  BY <1>1, <1>2, <1>3, PTL DEF SyncSpec

-----------------------------------------------------------------------------
(* The console. *)

Places == {"none", "hello", "idle", "marker", "item", "flush"}

(* The writer: nothing while there is no UART, and a count in its hands    *)
(* only before the marker that carries it.                                 *)
WriterTyped ==
  /\ wr.pc \in Places /\ wr.marker \in Nat /\ wr.left \in Nat
  /\ wr.marker > 0 => wr.pc = "marker"
  /\ ~Built => wr.pc = "none"

Counts == made \in Nat /\ told \in Nat /\ leaked \in Nat /\ dropped \in Nat

ConsoleInv ==
  /\ WriterTyped /\ Counts
  /\ txq \in Seq(Nat) /\ parked \in [Producers -> Nat] /\ rx \in [Services -> Nat]
  /\ DropsAccounted

(* The producers are few, so those that wait can be counted. *)
LEMMA ProducersCounted ==
  \A some \in SUBSET Producers : IsFiniteSet(some) /\ Cardinality(some) \in Nat
<1>1. IsFiniteSet({}) BY FS_EmptySet
<1>2. IsFiniteSet({} \cup {"shell"}) BY <1>1, FS_AddElement
<1>3. IsFiniteSet(({} \cup {"shell"}) \cup {"mgmt"}) BY <1>2, FS_AddElement
<1>4. IsFiniteSet((({} \cup {"shell"}) \cup {"mgmt"}) \cup {"task"}) BY <1>3, FS_AddElement
<1>5. Producers = (({} \cup {"shell"}) \cup {"mgmt"}) \cup {"task"}
  BY DEF Producers, Services
<1>6. IsFiniteSet(Producers) BY <1>4, <1>5
<1>7. QED
  BY <1>6, FS_Subset, FS_CardinalityType

(* A producer that parks is one more that waits. *)
LEMMA Parks ==
  ASSUME parked \in [Producers -> Nat], NEW p \in Producers, NEW m \in Nat, m > 0,
         parked[p] = 0, parked' = [parked EXCEPT ![p] = m]
  PROVE  Cardinality(Waiting') = Cardinality(Waiting) + 1
<1>1. Waiting' = Waiting \cup {p} /\ p \notin Waiting
  BY SMT DEF Waiting
<1>2. QED
  BY <1>1, ProducersCounted, FS_AddElement DEF Waiting

(* One that finds room is one less. *)
LEMMA Unparks ==
  ASSUME parked \in [Producers -> Nat], NEW p \in Producers,
         parked[p] > 0, parked' = [parked EXCEPT ![p] = 0]
  PROVE  Cardinality(Waiting') = Cardinality(Waiting) - 1
<1>1. Waiting' = Waiting \ {p} /\ p \in Waiting
  BY SMT DEF Waiting
<1>2. QED
  BY <1>1, ProducersCounted, FS_RemoveElement DEF Waiting

(* The law of conservation: what a step makes goes where it is counted.    *)
InHand == IF Armed THEN 1 ELSE 0

LEMMA Conserved ==
  ASSUME ConsoleInv, Counts',
         parked' \in [Producers -> Nat], txq' \in Seq(Nat), wr'.marker \in Nat, wr.marker \in Nat,
         made' - made = (told' - told) + (Len(txq') - Len(txq))
                        + (Cardinality(Waiting') - Cardinality(Waiting)) + (InHand' - InHand)
                        + (dropped' - dropped) + (wr'.marker - wr.marker) + (leaked' - leaked)
  PROVE  DropsAccounted'
<1>1. Cardinality(Waiting) \in Nat /\ Cardinality(Waiting') \in Nat
  BY ProducersCounted DEF Waiting
<1>2. Len(txq) \in Nat /\ Len(txq') \in Nat
  BY DEF ConsoleInv
<1>3. InHand \in {0, 1} /\ InHand' \in {0, 1}
  BY DEF InHand
<1>4. made = told + Len(txq) + Cardinality(Waiting) + InHand + dropped + wr.marker + leaked
  BY DEF ConsoleInv, DropsAccounted, InHand
<1>0. /\ made \in Int /\ told \in Int /\ dropped \in Int /\ leaked \in Int
      /\ made' \in Int /\ told' \in Int /\ dropped' \in Int /\ leaked' \in Int
      /\ InHand \in Int /\ InHand' \in Int
  BY <1>3, SMT DEF ConsoleInv, Counts
<1> DEFINE q == Len(txq)   q1 == Len(txq')
           n == Cardinality(Waiting)   n1 == Cardinality(Waiting')
           k == wr.marker   k1 == wr'.marker
           i == InHand   i1 == InHand'
           m == made   m1 == made'  t == told   t1 == told'  d == dropped   d1 == dropped'
           l == leaked  l1 == leaked'
<1>5. m1 - m = (t1 - t) + (q1 - q) + (n1 - n) + (i1 - i) + (d1 - d) + (k1 - k) + (l1 - l)
  OBVIOUS
<1>6. /\ q \in Int /\ q1 \in Int /\ n \in Int /\ n1 \in Int /\ k \in Int /\ k1 \in Int
      /\ i \in Int /\ i1 \in Int /\ m \in Int /\ m1 \in Int /\ t \in Int /\ t1 \in Int
      /\ d \in Int /\ d1 \in Int /\ l \in Int /\ l1 \in Int
  <2>1. q \in Int /\ q1 \in Int
    BY <1>2, SMT
  <2>2. n \in Int /\ n1 \in Int
    BY <1>1, SMT
  <2>3. k \in Int /\ k1 \in Int
    BY SMT
  <2>4. QED
    BY <1>0, <2>1, <2>2, <2>3
<1>7. m = t + q + n + i + d + k + l
  BY <1>4
<1> HIDE DEF i, i1, q, q1, n, n1, k, k1, m, m1, t, t1, d, d1, l, l1
<1>8. m1 = t1 + q1 + n1 + i1 + d1 + k1 + l1
  BY <1>5, <1>6, <1>7, SMT
<1>9. QED
  BY <1>8 DEF DropsAccounted, InHand, q1, n1, i1, k1, m1, t1, d1, l1

(* What a step that leaves the writer alone owes. *)
LEMMA WriterAside ==
  ASSUME ConsoleInv, wr' = wr, Built' = Built
  PROVE  WriterTyped' /\ InHand' = InHand /\ wr'.marker = wr.marker /\ wr.marker \in Nat
BY DEF ConsoleInv, WriterTyped, InHand, Armed

(* A message is put into the queue, or dropped. *)
LEMMA Tried ==
  ASSUME ConsoleInv, NEW m \in Nat, TryEnqueue(m), made' = made + 1, rx' \in [Services -> Nat],
         UNCHANGED <<mgr, parked, wr, told, leaked>>
  PROVE  ConsoleInv'
<1>1. Waiting' = Waiting /\ parked' = parked /\ told' = told /\ leaked' = leaked /\ Built' = Built
      /\ wr' = wr
  BY DEF Waiting, Built
<1>2. WriterTyped' /\ InHand' = InHand /\ wr'.marker = wr.marker /\ wr.marker \in Nat
  BY <1>1, WriterAside
<1>3. txq \in Seq(Nat) /\ parked \in [Producers -> Nat] /\ Counts
  BY DEF ConsoleInv
<1>4. txq' \in Seq(Nat) /\ Counts'
      /\ (Len(txq') - Len(txq)) + (dropped' - dropped) = 1
  <2>1. CASE txq' = Append(txq, m) /\ dropped' = dropped
    BY <1>1, <1>3, <2>1, SMT DEF Counts
  <2>2. CASE txq' = txq /\ dropped' = dropped + 1
    BY <1>1, <1>3, <2>2, SMT DEF Counts
  <2>3. QED
    BY <2>1, <2>2 DEF TryEnqueue
<1>5. made' - made = 1 /\ told' - told = 0 /\ leaked' - leaked = 0
      /\ InHand' - InHand = 0 /\ wr'.marker - wr.marker = 0
      /\ Cardinality(Waiting') - Cardinality(Waiting) = 0
  <2>1. Cardinality(Waiting) \in Nat /\ InHand \in Nat
    BY ProducersCounted DEF Waiting, InHand
  <2>2. QED
    BY <1>1, <1>2, <1>3, <2>1, SMT DEF Counts
<1>6. DropsAccounted'
  BY <1>1, <1>2, <1>3, <1>4, <1>5, Conserved, SMT
<1>7. QED
  BY <1>1, <1>2, <1>3, <1>4, <1>6 DEF ConsoleInv

(* A producer enqueues: it waits, or tries. *)
LEMMA Enqueued ==
  ASSUME ConsoleInv, NEW p \in Producers, NEW m \in Nat, m > 0, Enqueue(p, m),
         rx' \in [Services -> Nat], UNCHANGED <<mgr, wr, told, leaked>>
  PROVE  ConsoleInv'
<1>1. CASE TryEnqueue(m) /\ UNCHANGED parked
  BY <1>1, Tried DEF Enqueue
<1>2. CASE parked' = [parked EXCEPT ![p] = m] /\ UNCHANGED <<txq, dropped>>
  <2>1. parked[p] = 0 /\ made' = made + 1 /\ Counts' /\ Built' = Built /\ parked' \in [Producers -> Nat]
    BY <1>2, SMT DEF Enqueue, ConsoleInv, Counts, Built
  <2>2. WriterTyped' /\ InHand' = InHand /\ wr'.marker = wr.marker /\ wr.marker \in Nat
    BY <2>1, WriterAside
  <2>3. txq \in Seq(Nat) /\ txq' = txq
    BY <1>2 DEF ConsoleInv
  <2>4. Cardinality(Waiting') = Cardinality(Waiting) + 1 /\ Cardinality(Waiting) \in Nat
    BY <1>2, <2>1, Parks, ProducersCounted DEF ConsoleInv, Waiting
  <2>5. made' - made = 1 /\ Cardinality(Waiting') - Cardinality(Waiting) = 1
        /\ told' - told = 0 /\ leaked' - leaked = 0 /\ dropped' - dropped = 0
        /\ InHand' - InHand = 0 /\ wr'.marker - wr.marker = 0 /\ Len(txq') - Len(txq) = 0
    <3>1. InHand \in Nat /\ Len(txq) \in Nat /\ Counts
      BY <2>3 DEF InHand, ConsoleInv
    <3>2. QED
      BY <1>2, <2>1, <2>2, <2>3, <2>4, <3>1, SMT DEF Counts
  <2>6. DropsAccounted'
    BY <2>1, <2>2, <2>3, <2>5, Conserved, SMT
  <2>7. QED
    BY <2>1, <2>2, <2>3, <2>6 DEF ConsoleInv
<1>3. QED
  BY <1>1, <1>2 DEF Enqueue

(* One that waited finds room. *)
LEMMA Unparked == ASSUME ConsoleInv, NEW p \in Producers, Unpark(p) PROVE ConsoleInv'
<1>1. /\ parked[p] > 0 /\ txq' = Append(txq, parked[p]) /\ parked' = [parked EXCEPT ![p] = 0]
      /\ mgr' = mgr /\ dropped' = dropped /\ wr' = wr /\ rx' = rx
      /\ made' = made /\ told' = told /\ leaked' = leaked
  BY DEF Unpark, input, history
<1>2. txq \in Seq(Nat) /\ parked \in [Producers -> Nat] /\ Counts /\ rx' \in [Services -> Nat]
  BY <1>1 DEF ConsoleInv
<1>3. Counts' /\ Built' = Built /\ parked' \in [Producers -> Nat] /\ parked[p] \in Nat
  BY <1>1, <1>2, SMT DEF Counts, Built
<1>4. WriterTyped' /\ InHand' = InHand /\ wr'.marker = wr.marker /\ wr.marker \in Nat
  BY <1>1, <1>3, WriterAside
<1>5. txq' \in Seq(Nat) /\ Len(txq') - Len(txq) = 1
  BY <1>1, <1>2, <1>3, SMT
<1>6. Cardinality(Waiting') - Cardinality(Waiting) = -1
  <2>1. Cardinality(Waiting') = Cardinality(Waiting) - 1
    BY <1>1, <1>2, Unparks
  <2>2. Cardinality(Waiting) \in Nat
    BY ProducersCounted DEF Waiting
  <2>3. QED
    BY <2>1, <2>2, SMT
<1>7. made' - made = 0 /\ told' - told = 0 /\ leaked' - leaked = 0 /\ dropped' - dropped = 0
      /\ InHand' - InHand = 0 /\ wr'.marker - wr.marker = 0
  <2>1. InHand \in Nat
    BY DEF InHand
  <2>2. QED
    BY <1>1, <1>2, <1>4, <2>1, SMT DEF Counts
<1>8. DropsAccounted'
  BY <1>2, <1>3, <1>4, <1>5, <1>6, <1>7, Conserved, SMT
<1>9. QED
  BY <1>2, <1>3, <1>4, <1>5, <1>8 DEF ConsoleInv

(* A step of the writer or of the manager: nothing is made, nobody parks.  *)
LEMMA Moved ==
  ASSUME ConsoleInv, UNCHANGED <<parked, made, rx>>, WriterTyped', txq' \in Seq(Nat),
         told' \in Nat, leaked' \in Nat, dropped' \in Nat,
         (told' - told) + (Len(txq') - Len(txq)) + (InHand' - InHand) + (dropped' - dropped)
           + (wr'.marker - wr.marker) + (leaked' - leaked) = 0
  PROVE  ConsoleInv'
<1>1. Counts' /\ parked' \in [Producers -> Nat] /\ rx' \in [Services -> Nat]
  BY DEF ConsoleInv, Counts
<1>2. Cardinality(Waiting') - Cardinality(Waiting) = 0 /\ made' - made = 0
  <2>1. Waiting' = Waiting /\ Cardinality(Waiting) \in Nat /\ made \in Nat
    BY ProducersCounted DEF Waiting, ConsoleInv, Counts
  <2>2. QED
    BY <2>1, SMT
<1>3. /\ told' - told \in Int /\ Len(txq') - Len(txq) \in Int /\ InHand' - InHand \in Int
      /\ dropped' - dropped \in Int /\ wr'.marker - wr.marker \in Int /\ leaked' - leaked \in Int
  <2>1. /\ told \in Int /\ dropped \in Int /\ leaked \in Int /\ Len(txq) \in Int
        /\ wr.marker \in Int
    BY SMT DEF ConsoleInv, Counts, WriterTyped
  <2>2. told' \in Int /\ dropped' \in Int /\ leaked' \in Int /\ Len(txq') \in Int
    BY SMT
  <2>3. wr'.marker \in Int
    BY SMT DEF WriterTyped
  <2>4. InHand \in Int /\ InHand' \in Int
    BY SMT DEF InHand
  <2>5. QED
    <3>1. \A a, b \in Int : a - b \in Int
      OBVIOUS
    <3>2. QED
      BY <2>1, <2>2, <2>3, <2>4, <3>1, Zenon
<1>4. wr.marker \in Nat /\ wr'.marker \in Nat
  BY DEF ConsoleInv, WriterTyped
<1>5. DropsAccounted'
  BY <1>1, <1>2, <1>3, <1>4, Conserved, SMT
<1>6. QED
  BY <1>1, <1>5 DEF ConsoleInv

LEMMA WriterMoves == ASSUME ConsoleInv, WriterStep PROVE ConsoleInv'
<1>0. /\ txq \in Seq(Nat) /\ WriterTyped /\ Counts /\ UNCHANGED <<parked, made, rx, leaked, mgr>>
      /\ leaked' - leaked = 0
  BY SMT DEF ConsoleInv, Counts, WriterStep, Hello, Take, SendMarker, SendFrame, Flush, history, input
<1>1. CASE Hello \/ Flush
  <2>1. wr.pc \in {"hello", "flush"} /\ wr' = WriterAt("idle", 0, 0) /\ UNCHANGED <<txq, dropped, told>>
    BY <1>1 DEF Hello, Flush, history
  <2>2. WriterTyped' /\ wr.marker = 0 /\ wr'.marker = 0 /\ InHand = 0 /\ InHand' = 0
    BY <1>0, <2>1, SMT DEF WriterTyped, WriterAt, InHand, Armed, Built, Places
  <2>3. QED
    BY <1>0, <2>1, <2>2, Moved, SMT DEF Counts
<1>2. CASE Take
  <2>1. /\ wr.pc = "idle" /\ txq # <<>> /\ txq' = Tail(txq) /\ dropped' = 0 /\ told' = told
        /\ wr' = WriterAt(IF dropped > 0 THEN "marker" ELSE "item", dropped, Head(txq))
    BY <1>2 DEF Take, history
  <2>2. txq' \in Seq(Nat) /\ Len(txq') = Len(txq) - 1 /\ Head(txq) \in Nat
    BY <1>0, <2>1, SMT
  <2>3. WriterTyped' /\ wr.marker = 0 /\ wr'.marker = dropped /\ InHand = 0 /\ InHand' = 1
    BY <1>0, <2>1, <2>2, SMT DEF WriterTyped, Counts, WriterAt, InHand, Armed, Built, Places
  <2>4. QED
    BY <1>0, <2>1, <2>2, <2>3, Moved, SMT DEF Counts
<1>3. CASE SendMarker
  <2>1. /\ wr.pc = "marker" /\ told' = told + wr.marker /\ wr' = WriterAt("item", 0, wr.left)
        /\ UNCHANGED <<txq, dropped>>
    BY <1>3 DEF SendMarker
  <2>2. WriterTyped' /\ wr'.marker = 0 /\ InHand = 1 /\ InHand' = 1
    BY <1>0, <2>1, SMT DEF WriterTyped, WriterAt, InHand, Armed, Built, Places
  <2>3. QED
    <3>1. wr.marker \in Nat /\ told' \in Nat /\ told' - told = wr.marker
      BY <1>0, <2>1, SMT DEF Counts, WriterTyped
    <3>2. wr'.marker - wr.marker = -wr.marker /\ InHand' - InHand = 0
      BY <2>2, <3>1, SMT
    <3>3. QED
      BY <1>0, <2>1, <2>2, <3>1, <3>2, Moved, SMT DEF Counts
<1>4. CASE SendFrame
  <2>1. wr.pc = "item" /\ UNCHANGED <<txq, dropped>> /\ wr.marker = 0
    BY <1>0, <1>4, SMT DEF SendFrame, WriterTyped
  <2>2. CASE wr.left > 1
    <3>1. wr' = [wr EXCEPT !.left = @ - 1] /\ told' = told
      BY <1>4, <2>2 DEF SendFrame
    <3>2. wr'.pc = wr.pc /\ wr'.marker = wr.marker /\ wr'.left \in Nat
      BY <1>0, <2>2, <3>1, SMT DEF WriterTyped
    <3>3. QED
      BY <1>0, <2>1, <3>1, <3>2, Moved, SMT DEF Counts, WriterTyped, InHand, Armed, Built
  <2>3. CASE ~(wr.left > 1)
    <3>1. PICK tc \in BOOLEAN : wr' = [WriterAt("flush", 0, 0) EXCEPT !.tc = tc] /\ told' = told + 1
      BY <1>4, <2>3 DEF SendFrame
    <3>2. WriterTyped' /\ wr'.marker = 0 /\ InHand = 1 /\ InHand' = 0
      BY <1>0, <2>1, <3>1, SMT DEF WriterTyped, WriterAt, InHand, Armed, Built, Places
    <3>3. QED
      BY <1>0, <2>1, <3>1, <3>2, Moved, SMT DEF Counts
  <2>4. QED
    BY <2>2, <2>3
<1>5. QED
  BY <1>1, <1>2, <1>3, <1>4 DEF WriterStep

LEMMA ManagerMoves == ASSUME ConsoleInv, ManagerStep PROVE ConsoleInv'
<1>0. /\ txq \in Seq(Nat) /\ WriterTyped /\ Counts /\ UNCHANGED <<parked, made, rx, told>>
      /\ told' - told = 0
  BY SMT DEF ConsoleInv, Counts, ManagerStep, WakeDown, Build, BuildFails, Again, SeeLow, Close,
         history, input
<1>1. CASE WakeDown
  <2>1. mgr = "down" /\ txq' = <<>> /\ dropped' = dropped + Len(txq) /\ mgr' \in {"debounce", "down"}
        /\ wr' = wr /\ leaked' = leaked
    BY <1>1 DEF WakeDown, Drain, Top, history
  <2>2. WriterTyped' /\ InHand' = InHand /\ InHand \in Nat /\ wr.marker \in Nat
    BY <1>0, <2>1, SMT DEF WriterTyped, InHand, Armed, Built
  <2>3. txq' \in Seq(Nat) /\ Len(txq') = 0 /\ Len(txq) \in Nat
    BY <1>0, <2>1
  <2>4. QED
    BY <1>0, <2>1, <2>2, <2>3, Moved, SMT DEF Counts
<1>2. CASE Build
  <2>1. mgr = "debounce" /\ mgr' = "up" /\ wr' = WriterAt("hello", 0, 0)
        /\ UNCHANGED <<txq, dropped, leaked>>
    BY <1>2 DEF Build, history
  <2>2. WriterTyped' /\ InHand' = 0 /\ InHand = 0 /\ wr.marker = 0 /\ wr'.marker = 0
    BY <1>0, <2>1, SMT DEF WriterTyped, WriterAt, InHand, Armed, Built, Places
  <2>3. QED
    BY <1>0, <2>1, <2>2, Moved, SMT DEF Counts
<1>3. CASE BuildFails \/ Again \/ SeeLow
  <2>1. UNCHANGED <<txq, dropped, leaked, wr>>
        /\ (mgr' \in {"up", "closing"} => mgr \in {"up", "closing"})
        /\ (mgr \in {"up", "closing"} => mgr' \in {"up", "closing"})
    BY <1>3 DEF BuildFails, Again, SeeLow, Top, history
  <2>2. WriterTyped' /\ InHand' = InHand /\ InHand \in Nat /\ wr.marker \in Nat
    BY <1>0, <2>1, SMT DEF WriterTyped, InHand, Armed, Built
  <2>3. QED
    BY <1>0, <2>1, <2>2, Moved, SMT DEF Counts
<1>4. CASE Close
  <2>1. /\ mgr' \in {"debounce", "down"} /\ wr' = NoWriter /\ txq' = txq
        /\ dropped' = dropped + InHand /\ leaked' = leaked + wr.marker
    BY <1>4 DEF Close, Cancelled, InHand, Top
  <2>2. WriterTyped' /\ InHand' = 0 /\ wr'.marker = 0
    BY <2>1, SMT DEF WriterTyped, NoWriter, WriterAt, InHand, Armed, Built, Places
  <2>3. wr.marker \in Nat /\ InHand \in Nat
    BY <1>0 DEF WriterTyped, InHand
  <2>4. QED
    BY <1>0, <2>1, <2>2, <2>3, Moved, SMT DEF Counts
<1>5. QED
  BY <1>1, <1>2, <1>3, <1>4 DEF ManagerStep

LEMMA ConsoleInvKept == ConsoleInv /\ [MaintenanceNext]_allVars => ConsoleInv'
<1> SUFFICES ASSUME ConsoleInv, [MaintenanceNext]_allVars PROVE ConsoleInv'
  OBVIOUS
<1>1. CASE Log
  BY <1>1, Tried, SMT DEF Log, input, ConsoleInv
<1>2. CASE Event
  <2>1. "task" \in Producers /\ 1 \in Nat /\ 1 > 0
    BY SMT DEF Producers
  <2>2. rx' \in [Services -> Nat] /\ UNCHANGED <<mgr, wr, told, leaked>> /\ Enqueue("task", 1)
    BY <1>2 DEF Event, input, ConsoleInv
  <2>3. QED
    BY <2>1, <2>2, Enqueued
<1>3. ASSUME NEW p \in Services, Respond(p) PROVE ConsoleInv'
  <2>1. PICK m \in 1..(IF p = "shell" THEN MaxFrames ELSE 1) : Enqueue(p, m)
    BY <1>3 DEF Respond
  <2>2. m \in Nat /\ m > 0
    BY ConsoleConstants, SMT DEF ConsoleConstants
  <2>3. rx' \in [Services -> Nat]
    BY <1>3, SMT DEF Respond, ConsoleInv
  <2>4. p \in Producers
    BY DEF Producers
  <2>5. QED
    BY <1>3, <2>1, <2>2, <2>3, <2>4, Enqueued DEF Respond
<1>4. ASSUME NEW p \in Producers, Unpark(p) PROVE ConsoleInv'
  BY <1>4, Unparked
<1>5. CASE UNCHANGED <<mgr, txq, parked, dropped, wr, made, told, leaked>> /\ rx' \in [Services -> Nat]
  BY <1>5 DEF ConsoleInv, WriterTyped, Counts, DropsAccounted, Built, Waiting, Armed
<1>6. ASSUME NEW p \in Services, RouteFrame(p) PROVE ConsoleInv'
  <2>1. rx' \in [Services -> Nat]
    BY <1>6, SMT DEF RouteFrame, ConsoleInv
  <2>2. QED
    BY <1>5, <1>6, <2>1 DEF RouteFrame, history
<1>7. CASE FallQuiet \/ Toggle \/ UNCHANGED consoleVars
  BY <1>5, <1>7 DEF FallQuiet, Toggle, consoleVars, line, input, history, ConsoleInv
<1>8. QED
  BY <1>1, <1>2, <1>3, <1>4, <1>6, <1>7, WriterMoves, ManagerMoves
  DEF MaintenanceNext, ConsoleNext, ProducerStep, KvWrite, MaintenanceStep, Maintain, Woken, allVars

(* No message is lost without being counted, for every depth of the queues *)
(* and any number of messages, unplugs and requests (writer_loop,          *)
(* OnCancelDrop, bump_dropped).                                            *)
THEOREM NothingUnaccounted == MaintenanceSpec => []DropsAccounted
<1>1. MaintenanceInit => ConsoleInv
  <2> SUFFICES ASSUME MaintenanceInit PROVE ConsoleInv
    OBVIOUS
  <2>1. ConsoleInit
    BY DEF MaintenanceInit
  <2>2. Waiting = {} /\ ~Armed /\ wr.marker = 0 /\ Cardinality(Waiting) = 0
    <3>1. wr = WriterAt("none", 0, 0) /\ \A p \in Producers : parked[p] = 0
      BY <2>1 DEF ConsoleInit, NoWriter
    <3>2. ~Armed /\ wr.marker = 0
      BY <3>1 DEF Armed, WriterAt
    <3>3. Waiting = {}
      BY <3>1, SMT DEF Waiting
    <3>4. QED
      BY <3>2, <3>3, FS_EmptySet
  <2>3. WriterTyped /\ Counts
    BY <2>1, SMT DEF ConsoleInit, WriterTyped, Counts, NoWriter, WriterAt, Places
  <2>4. /\ txq = <<>> /\ Len(txq) = 0 /\ txq \in Seq(Nat) /\ parked \in [Producers -> Nat]
        /\ rx \in [Services -> Nat]
    BY <2>1, SMT DEF ConsoleInit
  <2>5. DropsAccounted
    BY <2>1, <2>2, <2>4, SMT DEF DropsAccounted, ConsoleInit
  <2>6. QED
    BY <2>3, <2>4, <2>5 DEF ConsoleInv
<1>2. ConsoleInv => DropsAccounted
  BY DEF ConsoleInv
<1>3. QED
  BY <1>1, <1>2, ConsoleInvKept, PTL DEF MaintenanceSpec
=============================================================================
