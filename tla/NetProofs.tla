------------------------------ MODULE NetProofs ------------------------------
(***************************************************************************)
(* Proofs about the network layer of a node.                               *)
(*                                                                         *)
(* Link: the airtime of the duty governor is bounded, what it refuses was  *)
(* not earned yet, and a confirmed send is delivered only if its peer took *)
(* it; for every bucket, refill, number of tries and sends.                *)
(*                                                                         *)
(* Pairing, for every number of nodes, keys, requests, joins and slices: a *)
(* join that completes is never refused, every request is answered once,   *)
(* and both sides hold the same key.  The window is open and the registry  *)
(* has room while the gateway listens, since nothing but its own loop      *)
(* changes either; and a confirm of the exchange it waits in was sent by a *)
(* node that took the key of this window and has not asked again.          *)
(***************************************************************************)
EXTENDS Link, Pairing, Integers, TLAPS

-----------------------------------------------------------------------------
(* Arithmetic. *)

LEMMA Monotone == ASSUME NEW a \in Nat, NEW b \in Nat, NEW p \in Nat, a <= b
                  PROVE  a * p <= b * p
  BY SMT

LEMMA Distributes == ASSUME NEW a \in Nat, NEW b \in Nat, NEW p \in Nat, a <= b
                     PROVE  (b - a) * p + a * p = b * p
  BY SMT

Worth(a, b, r) == 1000 * a + 1000 * b + r

LEMMA WorthNat == \A a, b, r \in Nat : Worth(a, b, r) \in Nat
  BY SMT DEF Worth

LEMMA Through == ASSUME NEW a \in Nat, NEW b \in Nat, NEW c \in Nat, a <= b, b <= c PROVE a <= c
  BY SMT

LEMMA Nothing == ASSUME NEW p \in Nat PROVE (0 - 0) * p = 0
  BY SMT

LEMMA CutOff == ASSUME NEW a \in Nat, NEW m \in Nat, m > 0
                PROVE  a % m \in Nat /\ a % m <= a /\ (a < m => a % m = a)
  BY SMT

(* Thousandths make units and a rest. *)
LEMMA Thousandths == ASSUME NEW n \in Nat
                     PROVE  /\ n \div 1000 \in Nat /\ n % 1000 \in 0..999
                            /\ 1000 * (n \div 1000) + (n % 1000) = n
<1>1. n % 1000 \in 0..999
  BY SMT
<1>2. n \div 1000 \in Nat
  BY SMT
<1>3. 1000 * (n \div 1000) + (n % 1000) = n
  BY SMT
<1>. QED
  BY <1>1, <1>2, <1>3

-----------------------------------------------------------------------------
(* The governor. *)

P == Permil[band]

GovTypes ==
  /\ band \in Bands /\ budget \in 0..Cap /\ residue \in 0..999 /\ idle \in Nat
  /\ since \in Nat /\ air \in Nat /\ quiet \in Nat /\ refused \in Nat

LEMMA Sizes == Cap \in Nat /\ Limit \in Nat /\ Limit > 0 /\ Limit - 1 >= 1000 * Cap
  BY DutyConstants, SMT DEF DutyConstants

LEMMA Policy == GovTypes => P \in Nat
  BY DutyConstants DEF DutyConstants, GovTypes, P

(* What a refill gives: no more than the time that passed earns, and just  *)
(* that unless the bucket is full.                                         *)
LEMMA Refill ==
  ASSUME GovTypes
  PROVE  /\ Refilled \in 0..Cap /\ Carry \in 0..999
         /\ 1000 * Refilled + Carry <= 1000 * budget + residue + idle * P
         /\ idle < Limit => \/ Refilled = Cap
                            \/ 1000 * Refilled + Carry = 1000 * budget + residue + idle * P
         /\ budget = Cap => Refilled = Cap
<1>. DEFINE E == Elapsed * P
            S == Saturated(E)
<1>1. P \in Nat /\ idle \in Nat /\ budget \in 0..Cap /\ residue \in 0..999
  BY Policy DEF GovTypes
<1>2. Elapsed \in Nat /\ Elapsed <= idle /\ (idle < Limit => Elapsed = idle)
  BY <1>1, Sizes, CutOff DEF Elapsed
<1>3. E \in Nat /\ E <= idle * P /\ (idle < Limit => E = idle * P) /\ idle * P \in Nat
  <2>1. E <= idle * P
    BY <1>1, <1>2, Monotone
  <2>2. E \in Nat /\ idle * P \in Nat
    BY <1>1, <1>2, SMT
  <2>. QED
    BY <1>2, <2>1, <2>2
<1>. HIDE DEF E
<1>4. S \in Nat /\ S <= E /\ (S = E \/ S = Limit - 1)
  BY <1>3, Sizes, SMT DEF S, Saturated, Lesser
<1>5. Earned = Saturated(S + residue)
  BY DEF Earned, S, E, P
<1>. HIDE DEF S
<1>6. /\ Earned \in Nat /\ Earned <= E + residue
      /\ Earned = E + residue \/ Earned >= 1000 * Cap
  BY <1>1, <1>3, <1>4, <1>5, Sizes, SMT DEF Saturated, Lesser
<1>. DEFINE D == Earned \div 1000
<1>7. D \in Nat /\ Carry \in 0..999 /\ 1000 * D + Carry = Earned
  BY <1>6, Thousandths DEF Carry
<1>8. Refilled = IF budget + D < Cap THEN budget + D ELSE Cap
  BY DEF D, Refilled, Lesser
<1>. HIDE DEF D
<1>9. Refilled = IF budget + D <= Cap THEN budget + D ELSE Cap
  BY <1>1, <1>7, <1>8, Sizes, SMT
<1>10. Refilled \in 0..Cap /\ 1000 * Refilled + Carry <= 1000 * budget + residue + idle * P
  BY <1>1, <1>3, <1>6, <1>7, <1>9, Sizes, SMT
<1>11. budget = Cap => Refilled = Cap
  BY <1>1, <1>7, <1>9, Sizes, SMT
<1>12. ASSUME idle < Limit, Refilled # Cap
       PROVE  1000 * Refilled + Carry = 1000 * budget + residue + idle * P
  <2>1. Refilled = budget + D /\ D < Cap
    BY <1>1, <1>7, <1>9, <1>12, Sizes, SMT
  <2>2. Earned < 1000 * Cap
    BY <2>1, <1>7, Sizes, SMT
  <2>3. Earned = E + residue
    BY <2>2, <1>6, Sizes, SMT
  <2>. QED
    BY <2>1, <2>3, <1>1, <1>3, <1>7, <1>12, Sizes, SMT
<1>. QED
  BY <1>7, <1>10, <1>11, <1>12

-----------------------------------------------------------------------------
(* The ledger: what was spent and what is left was there or was earned; of *)
(* what was earned since the last grant nothing is lost.                   *)

Spending ==
  IF idle <= since
  THEN 1000 * air + 1000 * budget + residue <= 1000 * Cap + 999 + (since - idle) * P
  ELSE air = 0

Saving ==
  /\ idle <= quiet
  /\ quiet < Limit => budget = Cap \/ 1000 * budget + residue >= (quiet - idle) * P

Ledger == GovTypes /\ Spending /\ Saving /\ NotStarved

LEMMA LedgerInit == Init => Ledger
  BY DutyConstants, Sizes, SMT
  DEF DutyConstants, Init, DutyInit, Ledger, GovTypes, Spending, Saving, NotStarved, P

LEMMA MeteredKeeps ==
  ASSUME Ledger, NEW toa \in 1..Cap, NEW goes \in BOOLEAN, Metered(toa, goes)
  PROVE  Ledger'
<1>. DEFINE Out == 1000 * Refilled + Carry
            Was == 1000 * budget + residue
<1>1. GovTypes /\ P \in Nat /\ P' = P
  BY Policy DEF Ledger, Metered, TryTx, P
<1>2. /\ Refilled \in 0..Cap /\ Carry \in 0..999
      /\ Out <= Was + idle * P
      /\ idle < Limit => Refilled = Cap \/ Out = Was + idle * P
      /\ budget = Cap => Refilled = Cap
  BY <1>1, Refill
<1>3. /\ budget' = Refilled - (IF Refilled >= toa THEN toa ELSE 0)
      /\ residue' = Carry /\ idle' = 0 /\ band' = band /\ since' = since
      /\ quiet' = IF Refilled >= toa THEN 0 ELSE quiet
      /\ refused' = IF Refilled >= toa THEN refused ELSE toa
      /\ air' = air \/ (Refilled >= toa /\ air' = air + toa)
  BY DEF Metered, TryTx, Grants
<1>4. GovTypes'
  BY <1>1, <1>2, <1>3, Sizes, SMT DEF GovTypes
<1>5. 1000 * air' + 1000 * budget' + residue' <= 1000 * air + Out
  BY <1>1, <1>2, <1>3, Sizes, SMT DEF GovTypes
<1>6. Out \in Nat /\ air \in Nat
  BY <1>1, <1>2, Sizes, SMT DEF GovTypes
<1>. HIDE DEF Out
<1>7. Spending'
  <2>1. since * P \in Nat /\ (since' - idle') * P' = since * P
    <3>1. since * P \in Nat /\ (since - 0) * P = since * P
      BY <1>1, SMT DEF GovTypes
    <3>. QED
      BY <3>1, <1>1, <1>3
  <2>2. ASSUME NEW n \in Nat, 1000 * air + Out <= n
        PROVE  1000 * air' + 1000 * budget' + residue' <= n
    <3>1. 1000 * air' + 1000 * budget' + residue' \in Nat
      <4>1. air' \in Nat /\ budget' \in Nat /\ residue' \in Nat
        BY <1>4, Sizes, SMT DEF GovTypes
      <4>2. Worth(air', budget', residue') \in Nat
        BY <4>1, WorthNat
      <4>. QED
        BY <4>2 DEF Worth
    <3>2. 1000 * air + Out \in Nat
      BY <1>6, SMT
    <3>. QED
      BY <2>2, <3>1, <3>2, <1>5, Through
  <2>3. 1000 * Cap + 999 + since * P \in Nat
    BY <2>1, Sizes, SMT
  <2>4. CASE idle <= since
    <3>1. 1000 * air + Was <= 1000 * Cap + 999 + (since - idle) * P
      BY <2>4, <1>1, SMT DEF Ledger, Spending, GovTypes
    <3>2. (since - idle) * P + idle * P = since * P
      BY <2>4, <1>1, Distributes DEF GovTypes
    <3>3. (since - idle) * P \in Int /\ idle * P \in Int
      BY <1>1, SMT DEF GovTypes
    <3>4. 1000 * air + Out <= 1000 * Cap + 999 + since * P
      BY <3>1, <3>2, <3>3, <2>1, <1>1, <1>2, Sizes, SMT DEF GovTypes, Out
    <3>5. 1000 * air' + 1000 * budget' + residue' <= 1000 * Cap + 999 + (since' - idle') * P'
      BY <3>4, <2>1, <2>2, <2>3
    <3>. QED
      BY <3>5, <1>3, <1>4, SMT DEF Spending, GovTypes
  <2>5. CASE ~(idle <= since)
    <3>1. air = 0
      BY <2>5 DEF Ledger, Spending
    <3>2. 1000 * air + Out <= 1000 * Cap + 999 + since * P
      BY <3>1, <2>1, <1>2, Sizes, SMT DEF Out
    <3>3. 1000 * air' + 1000 * budget' + residue' <= 1000 * Cap + 999 + (since' - idle') * P'
      BY <3>2, <2>1, <2>2, <2>3
    <3>. QED
      BY <3>3, <1>3, <1>4, SMT DEF Spending, GovTypes
  <2>. QED
    BY <2>4, <2>5
<1>. USE DEF Out
<1>8. CASE Refilled >= toa
  <2>1. quiet' = 0 /\ refused' = refused /\ 0 * P' = 0
    BY <1>1, <1>3, <1>8, SMT
  <2>2. Saving' /\ NotStarved'
    BY <2>1, <1>1, <1>2, <1>3, <1>4, <1>8, Sizes, SMT DEF Saving, NotStarved, GovTypes, P
  <2>. QED
    BY <2>2, <1>4, <1>7 DEF Ledger
<1>9. CASE ~(Refilled >= toa)
  <2>1. Refilled # Cap /\ budget # Cap
    BY <1>2, <1>9, Sizes, SMT
  <2>2. ASSUME quiet < Limit PROVE Out >= quiet * P
    <3>1. idle < Limit /\ idle <= quiet
      BY <2>2, <1>1, Sizes, SMT DEF Ledger, Saving, GovTypes
    <3>2. Was >= (quiet - idle) * P
      BY <2>1, <2>2, SMTT(20) DEF Ledger, Saving
    <3>3. (quiet - idle) * P + idle * P = quiet * P
      BY <3>1, <1>1, Distributes DEF GovTypes
    <3>4. (quiet - idle) * P \in Int /\ idle * P \in Int /\ quiet * P \in Int
      BY <1>1, SMT DEF GovTypes
    <3>. QED
      BY <3>1, <3>2, <3>3, <3>4, <2>1, <1>1, <1>2, Sizes, SMT DEF GovTypes
  <2>3. Out < 1000 * toa
    BY <1>2, <1>9, Sizes, SMT
  <2>4. quiet' = quiet /\ refused' = toa /\ budget' = Refilled /\ residue' = Carry /\ idle' = 0
    BY <1>2, <1>3, <1>9, SMT
  <2>5. (quiet' - idle') * P' = quiet * P /\ quiet * P \in Int
    BY <2>4, <1>1, SMT DEF GovTypes
  <2>6. Saving'
    BY <2>2, <2>4, <2>5, <1>1, SMT DEF Saving, GovTypes
  <2>7. NotStarved'
    <3>1. ASSUME quiet < Limit PROVE quiet * P < 1000 * toa
      BY <3>1, <2>2, <2>3, <2>5, <1>2, Sizes, SMT
    <3>. QED
      BY <3>1, <2>4, <1>1 DEF NotStarved, P
  <2>. QED
    BY <2>6, <2>7, <1>4, <1>7 DEF Ledger
<1>. QED
  BY <1>8, <1>9

(* A stretch of time: what can be earned grows with it. *)
LEMMA TimeKeeps ==
  ASSUME Ledger, band' = band, budget' = budget, residue' = residue, air' = air,
         idle' = idle + 1, since' = since + 1, quiet' = quiet + 1, refused' = 0
  PROVE  Ledger'
<1>1. GovTypes /\ P' = P
  BY DEF Ledger, P
<1>2. GovTypes' /\ NotStarved' /\ since' - idle' = since - idle /\ quiet' - idle' = quiet - idle
  BY <1>1, SMT DEF GovTypes, NotStarved
<1>3. Spending'
  BY <1>1, <1>2, SMT DEF Ledger, Spending, GovTypes
<1>4. Saving'
  <2>1. (quiet' - idle') * P' = (quiet - idle) * P
    BY <1>1, <1>2
  <2>2. idle' <= quiet' /\ (quiet' < Limit => quiet < Limit)
    BY <1>1, Sizes, SMT DEF Ledger, Saving, GovTypes
  <2>. QED
    BY <2>1, <2>2 DEF Ledger, Saving
<1>. QED
  BY <1>2, <1>3, <1>4 DEF Ledger

(* A new moment to count from. *)
LEMMA MarkKeeps ==
  ASSUME Ledger, since' = 0, air' = 0, UNCHANGED <<governor, quiet, refused>>
  PROVE  Ledger'
<1>1. GovTypes /\ P' = P /\ P \in Nat
  BY Policy DEF Ledger, P, governor
<1>2. GovTypes' /\ Saving' /\ NotStarved'
  BY SMT DEF Ledger, GovTypes, Saving, NotStarved, P, governor
<1>3. Spending'
  <2>1. (0 - 0) * P' = 0
    BY <1>1, Nothing
  <2>2. CASE idle' = 0
    <3>1. (since' - idle') * P' = 0
      BY <2>1, <2>2
    <3>2. budget' \in 0..Cap /\ residue' \in 0..999 /\ Cap \in Nat
      BY <1>2, Sizes DEF GovTypes
    <3>3. 1000 * air' + 1000 * budget' + residue' <= 1000 * Cap + 999 + 0
      <4>1. PICK b \in 0..Cap, r \in 0..999 : b = budget' /\ r = residue'
        BY <3>2
      <4>2. 1000 * 0 + 1000 * b + r <= 1000 * Cap + 999 + 0
        BY <3>2, SMT
      <4>. QED
        BY <4>1, <4>2
    <3>4. 0 <= 0
      BY SMT
    <3>. QED
      BY <2>2, <3>1, <3>3, <3>4 DEF Spending
  <2>3. CASE idle' # 0
    <3>1. ~(idle' <= since')
      BY <2>3, <1>2, SMT DEF GovTypes
    <3>. QED
      BY <3>1 DEF Spending
  <2>. QED
    BY <2>2, <2>3
<1>. QED
  BY <1>2, <1>3 DEF Ledger

LEMMA BandKeeps == ASSUME Ledger, SetBand PROVE Ledger'
<1>1. /\ band' \in Bands /\ budget' = Cap /\ residue' = 0 /\ idle' = 0
      /\ since' = 0 /\ air' = 0 /\ refused' = 0 /\ quiet' = quiet
  BY DEF SetBand, NewGovernor
<1>2. GovTypes /\ GovTypes'
  BY <1>1, Sizes, SMT DEF Ledger, GovTypes
<1>3. P' \in Nat
  BY <1>1, DutyConstants DEF DutyConstants, P
<1>4. (since' - idle') * P' = 0
  <2>1. (0 - 0) * P' = 0
    BY <1>3, Nothing
  <2>. QED
    BY <2>1, <1>1
<1>5. Spending' /\ Saving' /\ NotStarved'
  BY <1>1, <1>2, <1>4, Sizes, SMT DEF Spending, Saving, NotStarved, GovTypes
<1>. QED
  BY <1>2, <1>5 DEF Ledger

LEMMA IdleKeeps ==
  ASSUME Ledger, UNCHANGED <<governor, history>>
  PROVE  Ledger'
BY DEF Ledger, GovTypes, Spending, Saving, NotStarved, P, governor, history

LEMMA LedgerStep == Ledger /\ [Next]_vars => Ledger'
<1>. SUFFICES ASSUME Ledger, [Next]_vars PROVE Ledger'
  OBVIOUS
<1>1. CASE Try
  BY <1>1, LinkConstants, MeteredKeeps DEF LinkConstants, Try
<1>2. CASE SendAck
  <2>1. PICK goes \in BOOLEAN : CountedAck(AckToa, goes)
    BY <1>2 DEF SendAck
  <2>2. CASE access = "duty"
    BY <2>1, <2>2, LinkConstants, MeteredKeeps DEF LinkConstants, CountedAck
  <2>3. CASE access # "duty"
    BY <2>1, <2>3, IdleKeeps DEF CountedAck, Uncounted, history
  <2>. QED
    BY <2>2, <2>3
<1>3. CASE SendFrame
  BY <1>3, LinkConstants, MeteredKeeps DEF LinkConstants, SendFrame
<1>4. CASE Tick
  BY <1>4, TimeKeeps DEF Tick
<1>5. CASE Mark
  BY <1>5, MarkKeeps DEF Mark
<1>6. CASE DisableAfa
  BY <1>6, MarkKeeps DEF DisableAfa
<1>7. CASE SetBand
  BY <1>7, BandKeeps
<1>8. CASE Send
  BY <1>8, IdleKeeps DEF Send, Start
<1>9. CASE AckArrives
  BY <1>9, IdleKeeps DEF AckArrives
<1>10. CASE WindowEnds
  BY <1>10, IdleKeeps DEF WindowEnds
<1>11. CASE Dropped
  BY <1>11, IdleKeeps DEF Dropped
<1>12. CASE AfaSend
  BY <1>12, IdleKeeps DEF AfaSend, Start
<1>13. CASE Scan
  BY <1>13, IdleKeeps DEF Scan
<1>14. CASE ScanFails
  BY <1>14, IdleKeeps DEF ScanFails
<1>15. CASE EnableAfa
  BY <1>15, IdleKeeps DEF EnableAfa
<1>16. CASE UNCHANGED vars
  BY <1>16, IdleKeeps DEF vars
<1>. QED
  BY <1>1, <1>2, <1>3, <1>4, <1>5, <1>6, <1>7, <1>8, <1>9, <1>10, <1>11, <1>12, <1>13,
     <1>14, <1>15, <1>16 DEF Next, Sends, Afa

LEMMA LedgerBounds == Ledger => AirtimeBounded
<1>. SUFFICES ASSUME Ledger PROVE AirtimeBounded
  OBVIOUS
<1>1. GovTypes /\ P \in Nat
  BY Policy DEF Ledger
<1>2. since * P \in Nat /\ idle * P \in Nat
  BY <1>1, SMT DEF GovTypes
<1>3. CASE idle <= since
  <2>1. (since - idle) * P + idle * P = since * P /\ (since - idle) * P \in Int
    BY <1>1, <1>3, Distributes, SMT DEF GovTypes
  <2>2. 1000 * air <= 1000 * Cap + 999 + (since - idle) * P
    BY <2>1, <1>1, <1>3, Sizes, SMT DEF Ledger, Spending, GovTypes
  <2>3. 1000 * air <= 1000 * Cap + 999 + since * P
    BY <2>1, <2>2, <1>1, <1>2, Sizes, SMT DEF GovTypes
  <2>. QED
    BY <2>3 DEF AirtimeBounded, P
<1>4. CASE ~(idle <= since)
  <2>1. 1000 * air <= 1000 * Cap + 999 + since * P
    BY <1>1, <1>2, <1>4, Sizes, SMT DEF Ledger, Spending, GovTypes
  <2>. QED
    BY <2>1 DEF AirtimeBounded, P
<1>. QED
  BY <1>3, <1>4

(* In whatever time a device puts no more airtime on air than its bucket   *)
(* holds and that time refills, whatever it sends (DutyGovernor, try_tx).  *)
THEOREM AirtimeIsBounded == Spec => []AirtimeBounded
<1>1. Init => Ledger
  BY LedgerInit
<1>2. Ledger /\ [Next]_vars => Ledger'
  BY LedgerStep
<1>3. Ledger => AirtimeBounded
  BY LedgerBounds
<1>. QED
  BY <1>1, <1>2, <1>3, PTL DEF Spec

(* Airtime is refused only as long as it is not earned, however often it   *)
(* is asked for (refill_ms and its residue).                               *)
THEOREM RefusalIsFair == Spec => []NotStarved
<1>1. Init => Ledger
  BY LedgerInit
<1>2. Ledger /\ [Next]_vars => Ledger'
  BY LedgerStep
<1>3. Ledger => NotStarved
  BY DEF Ledger
<1>. QED
  BY <1>1, <1>2, <1>3, PTL DEF Spec

-----------------------------------------------------------------------------
(* Confirmed delivery. *)

Job == [pc : {"idle", "try", "scan", "window"}, kind : {"try", "scan"}, confirmed : BOOLEAN,
        counter : Nat, reps : Nat, left : Nat, step : Nat]

SendTypes ==
  /\ job \in Job /\ counter \in Nat \ {0} /\ sends \in Nat
  /\ last \in Nat /\ acks \subseteq Nat

(* Whose counter the send in progress has: its own, or the last one spent. *)
Own == Busy => job.counter = IF job.kind = "scan" THEN counter ELSE counter - 1

(* What the peer has, and what is on its way, is of this send or older.    *)
Older(c) == IF Busy THEN c <= job.counter ELSE c < counter

(* What bears the counter of this send was said of this send. *)
Mine == Busy /\ (last = job.counter \/ job.counter \in acks) => sends \in taken

Honest ==
  /\ SendTypes /\ Own /\ Older(last) /\ (\A c \in acks : Older(c)) /\ Mine
  /\ Busy => result # "delivered"
  /\ DeliveredMeansTaken

TriesOnly == "scan" \notin Droppable

LEMMA HonestInit == Init => Honest
  BY SMT DEF Init, Honest, NoJob, Job, SendTypes, Own, Older, Mine, Busy, DeliveredMeansTaken

(* A frame at the peer: missed, or taken, and answered or not. *)
LEMMA HeardKeeps ==
  ASSUME Honest, Busy, Heard
  PROVE  /\ last' \in Nat /\ last' <= job.counter
         /\ acks' \subseteq Nat /\ \A c \in acks' : c <= job.counter
         /\ last' = job.counter \/ job.counter \in acks' => sends \in taken'
<1>1. /\ job.counter \in Nat /\ last \in Nat /\ acks \subseteq Nat
      /\ last <= job.counter /\ (\A c \in acks : c <= job.counter)
      /\ last = job.counter \/ job.counter \in acks => sends \in taken
  BY DEF Honest, SendTypes, Older, Mine, Job
<1>2. CASE UNCHANGED peer
  BY <1>1, <1>2 DEF peer
<1>3. CASE ~UNCHANGED peer
  <2>1. /\ last' = job.counter /\ job.counter >= last
        /\ taken' = IF job.counter > last THEN taken \cup {sends} ELSE taken
        /\ acks' = acks \/ acks' = acks \cup {job.counter}
    BY <1>3 DEF Heard
  <2>2. sends \in taken'
    BY <1>1, <2>1, SMT
  <2>3. job.counter <= job.counter
    BY <1>1, SMT
  <2>. QED
    BY <1>1, <2>1, <2>2, <2>3
<1>. QED
  BY <1>2, <1>3

(* A frame on air opens the window or, unconfirmed, ends the send. *)
LEMMA SentKeeps ==
  ASSUME Honest, Busy, Sent, Heard, sends' = sends
  PROVE  Honest'
<1>1. /\ job \in Job /\ counter \in Nat \ {0} /\ sends \in Nat /\ AckWindow \in Nat
      /\ job.counter = IF job.kind = "scan" THEN counter ELSE counter - 1
  BY LinkConstants DEF LinkConstants, Honest, SendTypes, Own
<1>2. /\ last' \in Nat /\ last' <= job.counter
      /\ acks' \subseteq Nat /\ \A c \in acks' : c <= job.counter
      /\ last' = job.counter \/ job.counter \in acks' => sends \in taken'
  BY HeardKeeps
<1>3. CASE job.confirmed
  <2>1. /\ job' = [job EXCEPT !.pc = "window", !.left = AckWindow]
        /\ UNCHANGED <<counter, result>> /\ result # "delivered"
    BY <1>3 DEF Sent, Honest
  <2>2. /\ job' \in Job /\ Busy' /\ job'.counter = job.counter /\ job'.kind = job.kind
    BY <1>1, <2>1 DEF Job, Busy
  <2>. QED
    BY <1>1, <1>2, <2>1, <2>2 DEF Honest, SendTypes, Own, Older, Mine, DeliveredMeansTaken
<1>4. CASE ~job.confirmed
  <2>1. /\ job' = [NoJob EXCEPT !.confirmed = job.confirmed]
        /\ counter' = IF job.kind = "scan" THEN counter + 1 ELSE counter
    BY <1>4 DEF Sent, End, Ended, Spent
  <2>2. job' \in Job /\ ~Busy' /\ ~job'.confirmed
    BY <1>1, <1>4, <2>1 DEF Job, Busy, NoJob
  <2>3. counter' \in Nat \ {0} /\ job.counter \in Nat /\ job.counter < counter'
    BY <1>1, <2>1, SMT DEF Job
  <2>4. last' < counter' /\ \A c \in acks' : c < counter'
    BY <1>2, <2>3, SMT
  <2>. QED
    BY <1>1, <1>2, <2>2, <2>3, <2>4
    DEF Honest, SendTypes, Own, Older, Mine, Busy, DeliveredMeansTaken
<1>. QED
  BY <1>3, <1>4

(* A send that ends without having been delivered. *)
LEMMA FailKeeps ==
  ASSUME Honest, Busy, Ended, result' # "delivered", UNCHANGED <<sends, peer>>
  PROVE  Honest'
<1>1. /\ job \in Job /\ counter \in Nat \ {0} /\ sends \in Nat
      /\ job.counter = IF job.kind = "scan" THEN counter ELSE counter - 1
      /\ last \in Nat /\ acks \subseteq Nat
      /\ last <= job.counter /\ \A c \in acks : c <= job.counter
  BY DEF Honest, SendTypes, Own, Older
<1>2. /\ job' = [NoJob EXCEPT !.confirmed = job.confirmed]
      /\ counter' = IF job.kind = "scan" THEN counter + 1 ELSE counter
      /\ last' = last /\ acks' = acks /\ taken' = taken /\ sends' = sends
  BY DEF Ended, Spent, peer
<1>3. job' \in Job /\ ~Busy'
  BY <1>1, <1>2 DEF Job, Busy, NoJob
<1>4. counter' \in Nat \ {0} /\ last < counter' /\ \A c \in acks : c < counter'
  BY <1>1, <1>2, SMT DEF Job
<1>. QED
  BY <1>1, <1>2, <1>3, <1>4 DEF Honest, SendTypes, Own, Older, Mine, DeliveredMeansTaken

(* A frame may have gone out although the radio reports an error. *)
LEMMA ErrorKeeps ==
  ASSUME Honest, Busy, End("error"), Heard, sends' = sends
  PROVE  Honest'
<1>1. /\ job \in Job /\ counter \in Nat \ {0} /\ sends \in Nat
      /\ job.counter = IF job.kind = "scan" THEN counter ELSE counter - 1
  BY DEF Honest, SendTypes, Own
<1>2. /\ last' \in Nat /\ last' <= job.counter
      /\ acks' \subseteq Nat /\ \A c \in acks' : c <= job.counter
  BY HeardKeeps
<1>3. /\ job' = [NoJob EXCEPT !.confirmed = job.confirmed] /\ result' = "error"
      /\ counter' = IF job.kind = "scan" THEN counter + 1 ELSE counter
  BY DEF End, Ended, Spent
<1>4. job' \in Job /\ ~Busy'
  BY <1>1, <1>3 DEF Job, Busy, NoJob
<1>5. counter' \in Nat \ {0} /\ last' < counter' /\ \A c \in acks' : c < counter'
  BY <1>1, <1>2, <1>3, SMT DEF Job
<1>. QED
  BY <1>1, <1>2, <1>3, <1>4, <1>5 DEF Honest, SendTypes, Own, Older, Mine, DeliveredMeansTaken

LEMMA StartKeeps ==
  ASSUME Honest, NEW kind \in {"try", "scan"}, Start(kind),
         counter' = IF kind = "try" THEN counter + 1 ELSE counter
  PROVE  Honest'
<1>1. ~Busy /\ SendTypes /\ last < counter /\ \A c \in acks : c < counter
  BY DEF Honest, Older, Start
<1>2. PICK reps \in 1..MaxReps, confirmed \in BOOLEAN :
        job' = [NoJob EXCEPT !.pc = kind, !.kind = kind, !.confirmed = confirmed,
                             !.counter = counter, !.reps = IF confirmed THEN reps ELSE 1]
  BY DEF Start
<1>3. sends' = sends + 1 /\ result' = "not delivered" /\ UNCHANGED <<last, taken, acks>>
  BY DEF Start, peer
<1>4. /\ job' \in Job /\ Busy' /\ job'.counter = counter /\ job'.kind = kind
  <2>1. job' = [pc |-> kind, kind |-> kind, confirmed |-> confirmed, counter |-> counter,
                reps |-> IF confirmed THEN reps ELSE 1, left |-> 0, step |-> 0]
    BY <1>2 DEF NoJob
  <2>2. counter \in Nat /\ 0 \in Nat /\ (IF confirmed THEN reps ELSE 1) \in Nat
    BY <1>1, <1>2, LinkConstants, SMT DEF LinkConstants, SendTypes
  <2>. QED
    BY <2>1, <2>2 DEF Job, Busy
<1>5. /\ counter \in Nat \ {0} /\ counter + 1 \in Nat \ {0} /\ (counter + 1) - 1 = counter
      /\ sends + 1 \in Nat
  BY <1>1, SMT DEF SendTypes
<1>6. SendTypes' /\ Own'
  <2>1. counter' \in Nat \ {0} /\ sends' \in Nat
    BY <1>3, <1>5
  <2>2. counter = IF kind = "scan" THEN counter' ELSE counter' - 1
    BY <1>5
  <2>. QED
    BY <1>1, <1>3, <1>4, <2>1, <2>2 DEF SendTypes, Own
<1>7. /\ last \in Nat /\ acks \subseteq Nat
      /\ last <= counter /\ last # counter
      /\ counter \notin acks /\ \A c \in acks : c <= counter
  BY <1>1, <1>5, SMT DEF SendTypes
<1>8. Older(last)' /\ (\A c \in acks : Older(c))' /\ Mine'
  BY <1>3, <1>4, <1>7 DEF Older, Mine
<1>. QED
  BY <1>3, <1>4, <1>6, <1>8 DEF Honest, DeliveredMeansTaken

(* The send goes on: nothing but its place, time and tries changes. *)
LEMMA GoesOn ==
  ASSUME Honest, job' \in Job, Busy' <=> Busy,
         job'.counter = job.counter, job'.kind = job.kind, job'.confirmed = job.confirmed,
         UNCHANGED <<counter, sends, last, taken>>, acks' \subseteq acks,
         result' = result \/ (Busy /\ result' # "delivered")
  PROVE  Honest'
BY SMT DEF Honest, SendTypes, Own, Older, Mine, DeliveredMeansTaken

LEMMA AgainKeeps ==
  ASSUME Honest, Busy, Again, UNCHANGED <<sends, peer>>, result' # "delivered"
  PROVE  Honest'
<1>1. CASE job.reps > 1
  <2>1. /\ job' = [job EXCEPT !.pc = job.kind, !.reps = @ - 1, !.step = 0, !.left = 0]
        /\ counter' = counter /\ job \in Job
    BY <1>1 DEF Again, Honest, SendTypes
  <2>2. /\ job' \in Job /\ Busy' /\ job'.counter = job.counter /\ job'.kind = job.kind
        /\ job'.confirmed = job.confirmed
    <3>1. job.reps - 1 \in Nat /\ 0 \in Nat
      BY <2>1, <1>1, SMT DEF Job
    <3>. QED
      BY <2>1, <3>1 DEF Job, Busy
  <2>. QED
    BY <2>1, <2>2, GoesOn DEF peer
<1>2. CASE ~(job.reps > 1)
  BY <1>2, FailKeeps DEF Again
<1>. QED
  BY <1>1, <1>2

LEMMA HonestStep == ASSUME TriesOnly PROVE Honest /\ [Next]_vars => Honest'
<1>. SUFFICES ASSUME Honest, [Next]_vars PROVE Honest'
  OBVIOUS
<1>. job \in Job /\ (Busy => result # "delivered")
  BY DEF Honest, SendTypes
<1>1. CASE Send
  BY <1>1, StartKeeps DEF Send
<1>2. CASE AfaSend
  BY <1>2, StartKeeps DEF AfaSend
<1>3. CASE Try
  <2>1. Busy /\ sends' = sends
    BY <1>3 DEF Try, Busy
  <2>2. CASE Sent /\ Heard
    BY <2>1, <2>2, SentKeeps
  <2>3. CASE (End("duty limited") \/ End("error")) /\ UNCHANGED peer
    BY <2>1, <2>3, FailKeeps DEF End
  <2>. QED
    BY <2>2, <2>3, <1>3 DEF Try
<1>4. CASE AckArrives
  <2>1. PICK c \in acks : /\ acks' = acks \ {c}
                         /\ IF Resolves(c) THEN End("delivered")
                                           ELSE UNCHANGED <<job, counter, result>>
    BY <1>4 DEF AckArrives
  <2>2. Busy /\ UNCHANGED <<sends, last, taken>>
    BY <1>4 DEF AckArrives, Busy
  <2>3. CASE c = job.counter
    <3>1. /\ job' = [NoJob EXCEPT !.confirmed = job.confirmed] /\ result' = "delivered"
          /\ counter' = IF job.kind = "scan" THEN counter + 1 ELSE counter
      BY <2>1, <2>3 DEF Resolves, End, Ended, Spent
    <3>2. sends \in taken
      BY <2>1, <2>2, <2>3 DEF Honest, Mine
    <3>3. /\ counter \in Nat \ {0} /\ sends \in Nat /\ last \in Nat /\ acks \subseteq Nat
          /\ job.counter = IF job.kind = "scan" THEN counter ELSE counter - 1
          /\ last <= job.counter /\ \A a \in acks : a <= job.counter
      BY <2>2 DEF Honest, SendTypes, Own, Older
    <3>4. job' \in Job /\ ~Busy'
      BY <2>2, <3>1 DEF Honest, SendTypes, Job, Busy, NoJob
    <3>5. counter' \in Nat \ {0} /\ last < counter' /\ \A a \in acks : a < counter'
      BY <3>1, <3>3, SMT DEF Job
    <3>. QED
      BY <2>1, <2>2, <3>2, <3>3, <3>4, <3>5
      DEF Honest, SendTypes, Own, Older, Mine, DeliveredMeansTaken
  <2>4. CASE c # job.counter
    BY <2>1, <2>2, <2>4, GoesOn DEF Resolves, Busy
  <2>. QED
    BY <2>3, <2>4
<1>5. CASE WindowEnds
  BY <1>5, AgainKeeps DEF WindowEnds, Busy
<1>6. CASE ScanFails
  BY <1>6, AgainKeeps DEF ScanFails, Busy
<1>7. CASE Dropped
  <2>1. /\ Busy /\ job.kind = "try" /\ result' = "none"
        /\ job' = [NoJob EXCEPT !.confirmed = job.confirmed]
    BY <1>7, TriesOnly, LinkConstants DEF LinkConstants, TriesOnly, Dropped, Job
  <2>2. UNCHANGED <<counter, sends, peer>>
    BY <1>7 DEF Dropped
  <2>. QED
    BY <2>1, <2>2, FailKeeps DEF Ended, Spent
<1>8. CASE Scan
  <2>1. Busy /\ sends' = sends /\ job.pc = "scan"
    BY <1>8 DEF Scan, Busy
  <2>2. CASE job' = [job EXCEPT !.step = @ + 1] /\ UNCHANGED <<counter, result, peer>>
    <3>1. /\ job' \in Job /\ Busy' /\ job'.counter = job.counter /\ job'.kind = job.kind
          /\ job'.confirmed = job.confirmed
      BY <2>1, <2>2, SMT DEF Job, Busy
    <3>. QED
      BY <2>1, <2>2, <3>1, GoesOn DEF peer
  <2>3. CASE Sent /\ Heard
    BY <2>1, <2>3, SentKeeps
  <2>4. CASE End("error") /\ Heard
    BY <2>1, <2>4, ErrorKeeps
  <2>. QED
    BY <2>2, <2>3, <2>4, <1>8 DEF Scan
<1>9. CASE Tick
  <2>1. /\ job' = IF job.pc = "window" THEN [job EXCEPT !.left = @ - 1] ELSE job
        /\ job.pc = "window" => job.left > 0
        /\ UNCHANGED <<counter, sends, result, peer>>
    BY <1>9 DEF Tick
  <2>2. /\ job' \in Job /\ job'.pc = job.pc /\ job'.counter = job.counter
        /\ job'.kind = job.kind /\ job'.confirmed = job.confirmed
    BY <2>1, SMT DEF Job
  <2>. QED
    BY <2>1, <2>2, GoesOn DEF Busy, peer
<1>10. CASE UNCHANGED <<ours, peer>>
  BY <1>10, GoesOn DEF ours, peer, Busy
<1>11. CASE EnableAfa \/ DisableAfa \/ SendAck \/ SendFrame \/ SetBand \/ Mark
  BY <1>10, <1>11 DEF EnableAfa, DisableAfa, SendAck, SendFrame, SetBand, Mark
<1>. QED
  BY <1>1, <1>2, <1>3, <1>4, <1>5, <1>6, <1>7, <1>8, <1>9, <1>10, <1>11
  DEF Next, Sends, Afa, vars

(* A confirmed send reported as delivered was taken by its peer, for every *)
(* number of tries and sends, ACKs late or lost, and sends dropped while   *)
(* they wait (send, afa_send, await_ack, AckWait); an afa_send is not      *)
(* dropped, since it spends its counter at its end.                        *)
THEOREM DeliveredWasTaken == ASSUME TriesOnly PROVE Spec => []DeliveredMeansTaken
<1>1. Init => Honest
  BY HonestInit
<1>2. Honest /\ [Next]_vars => Honest'
  BY HonestStep
<1>3. Honest => DeliveredMeansTaken
  BY DEF Honest
<1>. QED
  BY <1>1, <1>2, <1>3, PTL DEF Spec

-----------------------------------------------------------------------------
(* Pairing.                                                                *)

Frame == [type : {"req"}, node : Nodes]
         \cup [type : {"resp"}, node : Nodes, key : Keys, challenge : Nat]
         \cup [type : {"confirm"}, node : Nodes, challenge : Nat]

PairTypes ==
  /\ session \in [req : Requests, key : Keys, slices : Nat] \cup {None}
  /\ gateway \in [at : {"loop", "listen", "confirm"}, peer : Nodes \cup {None}, challenge : Nat]
  /\ inbox \in [req : Requests, op : HostOps, node : Nodes \cup {None}, key : Keys \cup {None}]
               \cup {None}
  /\ inbox # None /\ inbox.op \in {"add", "open"} => inbox.key # None
  /\ asked \in Nat /\ answers \in [Requests -> Nat]
  /\ frames \subseteq Frame /\ minted \in Nat
  /\ waiting \subseteq Nodes /\ held \in [Nodes -> Keys \cup {None}]

(* None is no record. *)
Sane ==
  /\ None \notin [req : Requests, key : Keys, slices : Nat]
  /\ None \notin [req : Requests, op : HostOps, node : Nodes \cup {None}, key : Keys \cup {None}]

(* While the gateway listens its window is open and there is room.         *)
Roomy == gateway.at # "loop" => session # None /\ ~Full

(* A request not answered is the latest or the one of the window.          *)
Owed ==
  /\ \A r \in Requests : answers[r] <= (IF r <= asked THEN 1 ELSE 0)
  /\ session # None => session.req <= asked /\ answers[session.req] = 0
  /\ inbox # None => inbox.req <= asked /\ answers[inbox.req] = 0
  /\ session # None /\ inbox # None => session.req # inbox.req

(* The challenge of the exchange is the newest, and went with this key to  *)
(* this node only; whoever confirmed it holds the key and waits no more.   *)
Fresh ==
  /\ \A f \in frames : f.type # "req" => f.challenge <= minted
  /\ gateway.at = "confirm" =>
       /\ gateway.challenge = minted
       /\ \A f \in frames :
            /\ f.type = "resp" /\ f.challenge = minted => f.key = session.key
            /\ f.type = "confirm" /\ f.challenge = minted /\ f.node = gateway.peer =>
                 held[f.node] = session.key /\ f.node \notin waiting

PairInv == PairTypes /\ ~turnedAway /\ Roomy /\ Owed /\ Fresh

LEMMA Bounds == MaxRequests \in Nat /\ WindowSlices \in Nat /\ None \notin Keys /\ None \notin Nodes
BY PairingConstants DEF PairingConstants

LEMMA Starts == PairingInit => PairInv
BY Bounds, SMT DEF PairingInit, PairInv, PairTypes, Roomy, Owed, Fresh, Idle

LEMMA AskKept == PairInv /\ HostAsks => PairInv'
<1> SUFFICES ASSUME PairInv, HostAsks PROVE PairInv'
  OBVIOUS
<1>1. PICK op \in HostOps, n \in Nodes \cup {None}, k \in Keys \cup {None} :
        /\ k # None <=> op \in {"add", "open"}
        /\ inbox' = [req |-> asked', op |-> op, node |-> n, key |-> k]
  BY DEF HostAsks
<1>2. /\ asked' = asked + 1 /\ asked' \in Requests /\ inbox = None
      /\ session' = session /\ gateway' = gateway /\ answers' = answers /\ turnedAway' = turnedAway
      /\ registry' = registry /\ frames' = frames /\ minted' = minted
      /\ waiting' = waiting /\ held' = held
  BY Bounds, SMT DEF HostAsks, PairInv, PairTypes, Requests, pair, node
<1>3. PairTypes'
  BY <1>1, <1>2, SMT DEF PairInv, PairTypes
<1>4. Owed'
  BY <1>1, <1>2, SMT DEF PairInv, PairTypes, Owed, Requests
<1>5. Roomy' /\ Fresh'
  BY <1>2 DEF PairInv, Roomy, Fresh, Full, Registered
<1>6. QED
  BY <1>2, <1>3, <1>4, <1>5 DEF PairInv

LEMMA ServeKept == PairInv /\ Serve => PairInv'
<1> SUFFICES ASSUME PairInv, Serve PROVE PairInv'
  OBVIOUS
<1>1. /\ gateway.at = "loop" /\ inbox # None /\ inbox' = None /\ gateway' = gateway
      /\ asked' = asked /\ frames' = frames /\ minted' = minted /\ waiting' = waiting /\ held' = held
  BY DEF Serve, node
<1>2. inbox.req \in Requests /\ answers[inbox.req] = 0 /\ inbox.req <= asked
  BY <1>1, SMT DEF PairInv, PairTypes, Owed
<1>3. /\ turnedAway' = turnedAway
      /\ session' \in [req : Requests, key : Keys, slices : Nat] \cup {None}
      /\ answers' \in [Requests -> Nat]
      /\ Owed'
  <2>1. CASE inbox.op = "open" /\ Open(inbox)
    <3>1. CASE session # None \/ Full
      BY <1>1, <1>2, <2>1, <3>1, SMT DEF Open, Answer, PairInv, PairTypes, Owed
    <3>2. CASE ~(session # None \/ Full)
      <4>1. /\ session' = [req |-> inbox.req, key |-> inbox.key, slices |-> WindowSlices]
            /\ answers' = answers /\ turnedAway' = turnedAway /\ inbox.key \in Keys
        BY <1>1, <2>1, <3>2, SMT DEF Open, PairInv, PairTypes
      <4>2. QED
        BY <1>1, <1>2, <4>1, Bounds, SMT DEF PairInv, PairTypes, Owed
    <3>3. QED
      BY <3>1, <3>2
  <2>2. CASE Cancel(inbox)
    BY <1>1, <1>2, <2>2, SMT DEF Cancel, PairInv, PairTypes, Owed
  <2>3. CASE NodeAdd(inbox) \/ NodeRemove(inbox)
    <3>1. turnedAway' = turnedAway /\ session' = session /\ Answer(inbox.req)
      BY <2>3 DEF NodeAdd, NodeRemove
    <3>2. QED
      BY <1>1, <1>2, <3>1, SMT DEF Answer, PairInv, PairTypes, Owed
  <2>4. QED
    BY <2>1, <2>2, <2>3 DEF Serve
<1>4. PairTypes'
  BY <1>1, <1>3 DEF PairInv, PairTypes
<1>5. Roomy' /\ Fresh'
  BY <1>1, SMT DEF PairInv, Roomy, Fresh
<1>6. QED
  BY <1>3, <1>4, <1>5 DEF PairInv

LEMMA TurnKept == PairInv /\ Sane /\ Turn => PairInv'
<1> SUFFICES ASSUME PairInv, Turn, Sane PROVE PairInv'
  OBVIOUS
<1>1. /\ gateway.at = "loop" /\ inbox' = inbox /\ asked' = asked /\ frames' = frames
      /\ minted' = minted /\ waiting' = waiting /\ held' = held
  BY DEF Turn, host, node
<1>2. CASE session = None
  <2>1. UNCHANGED pair /\ gateway' = gateway
    BY <1>2 DEF Turn
  <2>2. QED
    BY <1>1, <2>1, SMT DEF pair, PairInv, PairTypes, Roomy, Owed, Fresh, Full, Registered
<1>3. CASE session # None /\ Ends
  <2>1. Answer(session.req) /\ session' = None /\ turnedAway' = turnedAway /\ gateway' = gateway
    BY <1>3 DEF Turn
  <2>2. PairTypes' /\ Owed'
    BY <1>1, <1>3, <2>1, SMT DEF Answer, PairInv, PairTypes, Owed
  <2>3. Roomy' /\ Fresh'
    BY <1>1, <2>1, SMT DEF PairInv, Roomy, Fresh
  <2>4. QED
    BY <2>1, <2>2, <2>3 DEF PairInv
<1>4. CASE session # None /\ ~Ends
  <2>1. /\ session' = [session EXCEPT !.slices = @ - 1] /\ gateway' = Listening
        /\ registry' = registry /\ answers' = answers /\ turnedAway' = turnedAway
    BY <1>4 DEF Turn, AfterSlice
  <2>2. /\ session' \in [req : Requests, key : Keys, slices : Nat]
        /\ session'.req = session.req /\ session'.key = session.key
    BY <1>4, <2>1, SMT DEF Ends, PairInv, PairTypes
  <2>3. PairTypes'
    BY <1>1, <2>1, <2>2, SMT DEF PairInv, PairTypes, Listening
  <2>4. Owed'
    BY <1>1, <1>4, <2>1, <2>2, SMT DEF PairInv, Owed
  <2>5. Roomy' /\ Fresh'
    <3>1. session' # None
      BY <1>4, <2>1, <2>2, SMT DEF Sane
    <3>2. ~Full'
      BY <1>4, <2>1 DEF Ends, Full, Registered
    <3>3. QED
      BY <1>1, <2>1, <3>1, <3>2, SMT DEF PairInv, Roomy, Fresh, Listening
  <2>6. QED
    BY <2>1, <2>3, <2>4, <2>5 DEF PairInv
<1>5. QED
  BY <1>2, <1>3, <1>4

(* The gateway's own steps while it listens. *)
LEMMA ListenKept == PairInv /\ (SliceEnds \/ Restart) => PairInv'
BY SMT DEF PairInv, PairTypes, Roomy, Owed, Fresh, SliceEnds, Restart, Idle, pair, host, node,
   Full, Registered

LEMMA HearReqKept == PairInv /\ HearReq => PairInv'
<1> SUFFICES ASSUME PairInv, HearReq PROVE PairInv'
  OBVIOUS
<1>1. PICK f \in frames :
        /\ f.type = "req" /\ minted' = minted + 1
        /\ gateway' = [at |-> "confirm", peer |-> f.node, challenge |-> minted']
        /\ frames' = frames \cup {Resp(f.node, session.key, minted')} \/ frames' = frames
  BY DEF HearReq
<1>2. /\ gateway.at = "listen" /\ inbox' = inbox /\ asked' = asked
      /\ registry' = registry /\ session' = session /\ answers' = answers /\ turnedAway' = turnedAway
      /\ waiting' = waiting /\ held' = held
  BY DEF HearReq, pair, host, node
<1>3. f.node \in Nodes /\ session # None /\ session.key \in Keys /\ minted' \in Nat
  BY <1>1, <1>2, SMT DEF PairInv, PairTypes, Roomy, Frame
<1>4. Resp(f.node, session.key, minted') \in Frame
  BY <1>3, SMT DEF Resp, Frame
<1>5. PairTypes'
  BY <1>1, <1>2, <1>3, <1>4, SMT DEF PairInv, PairTypes
<1>6. Roomy' /\ Owed'
  BY <1>2 DEF PairInv, Roomy, Owed, Full, Registered
<1>7. \A g \in frames : g.type # "req" => g.challenge \in Nat /\ g.challenge <= minted
  BY SMT DEF PairInv, PairTypes, Fresh, Frame
<1>8. \A g \in frames' : g \in frames \/ (g.type = "resp" /\ g.challenge = minted' /\ g.key = session.key)
  BY <1>1 DEF Resp
<1>9. Fresh'
  BY <1>1, <1>2, <1>7, <1>8, SMT DEF Fresh, PairInv, PairTypes
<1>10. QED
  BY <1>2, <1>5, <1>6, <1>9 DEF PairInv

(* The confirm that ends a join is the peer's, and the registry has room.  *)
LEMMA HearConfirmKept ==
  PairInv /\ HearConfirm =>
    PairInv' /\ \A n \in Nodes : registry'[n] # registry[n] => held[n] = registry'[n]
<1> SUFFICES ASSUME PairInv, HearConfirm
             PROVE  PairInv' /\ \A n \in Nodes : registry'[n] # registry[n] => held[n] = registry'[n]
  OBVIOUS
<1>1. /\ gateway.at = "confirm" /\ inbox' = inbox /\ asked' = asked /\ frames' = frames
      /\ minted' = minted /\ waiting' = waiting /\ held' = held /\ session # None /\ ~Full
  BY DEF HearConfirm, host, node, PairInv, Roomy
<1>2. CASE gateway' = Listening /\ UNCHANGED pair
  BY <1>1, <1>2, SMT DEF pair, PairInv, PairTypes, Roomy, Owed, Fresh, Full, Registered, Listening
<1>3. ASSUME NEW f \in frames, f.type = "confirm", Matches(f), Commit(f.node), gateway' = Idle
      PROVE  PairInv' /\ \A n \in Nodes : registry'[n] # registry[n] => held[n] = registry'[n]
  <2>1. f.challenge = minted /\ f.node = gateway.peer
    BY <1>1, <1>3 DEF Matches, PairInv, Fresh
  <2>2. held[f.node] = session.key
    BY <1>1, <1>3, <2>1 DEF PairInv, Fresh
  <2>3. /\ session' = None /\ Answer(session.req) /\ turnedAway' = turnedAway
        /\ registry' = [registry EXCEPT ![f.node] = session.key] \/ registry' = registry
    BY <1>1, <1>3 DEF Commit
  <2>4. \A n \in Nodes : registry'[n] # registry[n] => n = f.node /\ registry'[n] = session.key
    <3>1. CASE registry' = registry
      BY <3>1
    <3>2. CASE registry' = [registry EXCEPT ![f.node] = session.key]
      BY <3>2, SMT
    <3>3. QED
      BY <2>3, <3>1, <3>2
  <2>5. PairTypes' /\ Owed'
    BY <1>1, <1>3, <2>3, SMT DEF PairInv, PairTypes, Owed, Answer, Idle
  <2>6. Roomy' /\ Fresh'
    BY <1>1, <1>3, SMT DEF PairInv, Roomy, Fresh, Idle
  <2>7. QED
    BY <2>2, <2>3, <2>4, <2>5, <2>6 DEF PairInv
<1>4. QED
  BY <1>2, <1>3 DEF HearConfirm

(* A node's steps: the gateway's books are left alone. *)
LEMMA NodeKept ==
  ASSUME PairInv, UNCHANGED <<pair, gateway, served, host, minted>>
  PROVE  Roomy' /\ Owed' /\ ~turnedAway'
BY DEF PairInv, Roomy, Owed, Full, Registered, pair, host

LEMMA AskJoinKept == ASSUME PairInv, NEW n \in Nodes, AskJoin(n) PROVE PairInv'
<1>1. /\ UNCHANGED <<pair, gateway, served, host, minted>> /\ held' = held
      /\ waiting' = waiting \cup {n}
      /\ n \in waiting \/ gateway.peer # n
      /\ frames' = frames \cup {Req(n)} \/ frames' = frames
  BY DEF AskJoin
<1>2. Req(n) \in Frame /\ Req(n).type = "req"
  BY SMT DEF Req, Frame
<1>3. PairTypes'
  BY <1>1, <1>2, SMT DEF PairInv, PairTypes, pair, host
<1>4. \A f \in frames' : f \in frames \/ f.type = "req"
  BY <1>1, <1>2
<1>5. Fresh'
  BY <1>1, <1>4, SMT DEF PairInv, Fresh, pair
<1>6. QED
  BY <1>1, <1>3, <1>5, NodeKept DEF PairInv

LEMMA HearRespKept == ASSUME PairInv, NEW n \in Nodes, HearResp(n) PROVE PairInv'
<1>1. PICK f \in frames :
        /\ f.type = "resp" /\ held' = [held EXCEPT ![n] = f.key]
        /\ frames' = frames \cup {Confirm(n, f.challenge)} \/ frames' = frames
  BY DEF HearResp
<1>2. /\ UNCHANGED <<pair, gateway, served, host, minted>>
      /\ n \in waiting /\ waiting' = waiting \ {n}
  BY DEF HearResp
<1>3. f.key \in Keys /\ f.challenge \in Nat /\ f.challenge <= minted
  BY <1>1, SMT DEF PairInv, PairTypes, Frame, Fresh
<1>4. Confirm(n, f.challenge) \in Frame
  BY <1>3, SMT DEF Confirm, Frame
<1>5. PairTypes'
  BY <1>1, <1>2, <1>3, <1>4, SMT DEF PairInv, PairTypes, pair, host
<1>6. held'[n] = f.key /\ \A m \in Nodes : m # n => held'[m] = held[m]
  BY <1>1, SMT DEF PairInv, PairTypes
<1>7. \A g \in frames' : g \in frames \/ (g.type = "confirm" /\ g.node = n /\ g.challenge = f.challenge)
  BY <1>1 DEF Confirm
<1>8. \A g \in frames : g.type = "confirm" => g.node \in Nodes
  BY SMT DEF PairInv, PairTypes, Frame
<1>9. \A g \in frames' : g.type # "req" => g.challenge <= minted
  BY <1>3, <1>7 DEF PairInv, Fresh
<1>10. ASSUME gateway.at = "confirm", NEW g \in frames', g.challenge = minted
       PROVE  /\ g.type = "resp" => g.key = session.key
              /\ g.type = "confirm" /\ g.node = gateway.peer =>
                   held'[g.node] = session.key /\ g.node \notin waiting'
  <2>1. CASE g \in frames
    <3>1. ASSUME g.type = "confirm", g.node = gateway.peer
          PROVE  held'[g.node] = session.key /\ g.node \notin waiting'
      <4>1. held[g.node] = session.key /\ g.node \notin waiting
        BY <1>10, <2>1, <3>1 DEF PairInv, Fresh
      <4>2. QED
        BY <1>2, <1>6, <1>8, <2>1, <3>1, <4>1
    <3>2. QED
      BY <1>10, <2>1, <3>1 DEF PairInv, Fresh
  <2>2. CASE g.type = "confirm" /\ g.node = n /\ g.challenge = f.challenge
    <3>1. f.key = session.key
      BY <1>1, <1>10, <2>2 DEF PairInv, Fresh
    <3>2. QED
      BY <1>2, <1>6, <2>2, <3>1
  <2>3. QED
    BY <1>7, <2>1, <2>2
<1>11. Fresh'
  BY <1>2, <1>9, <1>10 DEF PairInv, Fresh, pair
<1>12. QED
  BY <1>2, <1>5, <1>11, NodeKept DEF PairInv

LEMMA GiveUpKept == ASSUME PairInv, NEW n \in Nodes, GiveUp(n) PROVE PairInv'
<1>1. /\ UNCHANGED <<pair, gateway, served, host, minted>> /\ held' = held /\ frames' = frames
      /\ waiting' = waiting \ {n}
  BY DEF GiveUp
<1>2. PairTypes' /\ Fresh'
  BY <1>1, SMT DEF PairInv, PairTypes, Fresh, pair, host
<1>3. QED
  BY <1>1, <1>2, NodeKept DEF PairInv

LEMMA StepKept == PairInv /\ Sane /\ [PairingNext]_pairingVars => PairInv'
<1> SUFFICES ASSUME PairInv, Sane, [PairingNext]_pairingVars PROVE PairInv'
  OBVIOUS
<1>1. CASE UNCHANGED pairingVars
  BY <1>1 DEF pairingVars, pair, host, node, PairInv, PairTypes, Roomy, Owed, Fresh, Full, Registered
<1>2. CASE HostAsks \/ Restart
  BY <1>2, AskKept, ListenKept
<1>3. CASE Loop
  BY <1>3, ServeKept, TurnKept, ListenKept, HearReqKept, HearConfirmKept DEF Loop
<1>4. CASE Joiner
  BY <1>4, AskJoinKept, HearRespKept, GiveUpKept DEF Joiner
<1>5. QED
  BY <1>1, <1>2, <1>3, <1>4 DEF PairingNext

(* A join that completes is never refused for want of room, for every      *)
(* capacity and window (the early close of the gateway's loop).            *)
THEOREM JoinsAreAccepted == ASSUME Sane PROVE PairingSpec => []NeverRefused
<1>1. PairInv => NeverRefused
  BY DEF PairInv, NeverRefused
<1>2. QED
  BY <1>1, Starts, StepKept, PTL DEF PairingSpec

(* Every request gets at most one final response, for every number of      *)
(* requests (handle_mgmt, the ends of the window).                         *)
THEOREM OneAnswer == ASSUME Sane PROVE PairingSpec => []AnsweredOnce
<1>1. PairInv => AnsweredOnce
  BY DEF PairInv, Owed, AnsweredOnce
<1>2. QED
  BY <1>1, Starts, StepKept, PTL DEF PairingSpec

(* The gateway registers the key the node holds, for every number of       *)
(* nodes, keys and exchanges (confirm_matches).                            *)
THEOREM OneKey == ASSUME Sane PROVE PairingSpec => KeysAgree
<1>1. PairInv /\ [PairingNext]_pairingVars =>
        [gateway.at = "confirm" =>
           \A n \in Nodes : registry'[n] # registry[n] => held[n] = registry'[n]]_pairingVars
  <2> SUFFICES ASSUME PairInv, PairingNext, gateway.at = "confirm"
               PROVE  \A n \in Nodes : registry'[n] # registry[n] => held[n] = registry'[n]
    OBVIOUS
  <2>1. CASE HearConfirm
    BY <2>1, HearConfirmKept
  <2>2. CASE ~HearConfirm
    <3>1. registry' = registry
      BY <2>2 DEF PairingNext, Loop, Joiner, HostAsks, Serve, Turn, SliceEnds, HearReq, Restart, AskJoin,
         HearResp, GiveUp, pair
    <3>2. QED
      BY <3>1
  <2>3. QED
    BY <2>1, <2>2
<1>2. QED
  BY <1>1, Starts, StepKept, PTL DEF PairingSpec, KeysAgree
=============================================================================
