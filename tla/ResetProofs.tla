---------------------------- MODULE ResetProofs -----------------------------
(***************************************************************************)
(* What a reset may not break: the session ids, the crash record and the   *)
(* watchdog of a device (BootSpec), for every threshold, timeout and number*)
(* of boots; and the nonces of its transmitter (Spec), for every ceiling,  *)
(* reserve and number of chunks.                                           *)
(*                                                                         *)
(* The boot has an inductive invariant for each argument, over the types:  *)
(* the run of resets counted in .uninit is an upper bound of the writes; the*)
(* dog's ticks and the ticks since the last check-in add up to less than   *)
(* MaxAge and a timeout; and the id told by the boot before is the stored  *)
(* one, or one that only a boot in a loop tells.                           *)
(***************************************************************************)
EXTENDS Boot, NetTx, TLAPS

(* The types of the state, without the ghosts of the crash record.         *)
Types ==
  /\ guard \in Nat \cup {NoRecord} /\ resets \in Nat /\ stored \in Nat
  /\ pc \in {"start", "counted", "session", "run"}
  /\ session \in Nat /\ uptime \in Nat
  /\ dog \in Nat \cup {Unarmed} /\ feed \in Nat /\ age \in Nat
  /\ loop \in {"runs", "parked", "hung"}
  /\ silence \in Nat /\ wear \in Nat
  /\ told \in Nat \cup {NoSession} /\ previous \in Nat \cup {NoSession}

(* The timing constants are positive and the threshold is at least 2: an   *)
(* id of a loop would else be that of the boot after it.                   *)
LEMMA Constants ==
  /\ Threshold \in Nat /\ Threshold >= 2
  /\ Healthy \in Nat /\ Healthy >= 1 /\ Half \in Nat /\ Half >= 1
  /\ MaxAge \in Nat /\ MaxAge >= 1 /\ Timeout \in Nat /\ Timeout = Half + Half
BY BootConstants, SMT DEF BootConstants, Timeout

(* Every step keeps the types (all actions of Boot). *)
LEMMA TypesKept == Types /\ [BootNext]_bootVars => Types'
<1> SUFFICES ASSUME Types, [BootNext]_bootVars PROVE Types'
  OBVIOUS
<1> USE Constants DEF Types, NoRecord, Unarmed, NoSession
<1>1. CASE OnBoot
  BY <1>1, SMT DEF OnBoot, Count, history, bounds, watchdog
<1>2. CASE InitSession
  BY <1>2, SMT DEF InitSession, IsLooping, LoopingId, retained, bounds, watchdog
<1>3. CASE ReportCrash
  BY <1>3, SMT DEF ReportCrash, bounds, watchdog
<1>4. CASE Enable
  BY <1>4, SMT DEF Enable, retained, history, bounds
<1>5. CASE Feed
  BY <1>5, SMT DEF Feed, Live, retained, history, bounds
<1>6. CASE Checkin
  BY <1>6, SMT DEF Checkin, retained, history, bounds
<1>7. CASE Stop
  BY <1>7, SMT DEF Stop, retained, history, bounds, watchdog
<1>8. CASE Tick
  BY <1>8, SMT DEF Tick, Age, bounds, watchdog
<1>9. CASE Bite
  BY <1>9, SMT DEF Bite, Reset, retained
<1>10. CASE Crash
  BY <1>10, SMT DEF Crash, Reset
<1>11. CASE WarmReset
  BY <1>11, SMT DEF WarmReset, Reset, retained
<1>12. CASE ColdReset
  BY <1>12, SMT DEF ColdReset, Reset
<1>13. CASE UNCHANGED bootVars
  BY <1>13 DEF bootVars, retained, watchdog, history, bounds
<1>14. QED
  BY <1>1, <1>2, <1>3, <1>4, <1>5, <1>6, <1>7, <1>8, <1>9, <1>10, <1>11, <1>12, <1>13 DEF BootNext

(* The types hold in the initial state. *)
LEMMA TypesInit == BootInit => Types
BY SMT DEF BootInit, Types, NoRecord, Unarmed, NoSession

(***************************************************************************)
(* Wear.                                                                   *)
(***************************************************************************)

(* No more writes than resets counted, and this boot's own.                *)
WearInv ==
  /\ wear <= Threshold
  /\ guard = NoRecord => wear = 0 /\ pc = "start"
  /\ pc = "counted" => resets = guard /\ wear <= guard
  /\ pc # "counted" /\ guard # NoRecord => wear <= guard + 1

(* The count bounds the writes, whatever the order of writes and resets    *)
(* (on_boot, init_session, healthy_watch).                                 *)
LEMMA WearKept == Types /\ WearInv /\ [BootNext]_bootVars => WearInv'
<1> SUFFICES ASSUME Types, WearInv, [BootNext]_bootVars PROVE WearInv'
  OBVIOUS
<1> USE Constants DEF Types, WearInv, NoRecord, Unarmed, NoSession
<1>1. CASE OnBoot
  BY <1>1, SMT DEF OnBoot, Count, history, bounds, watchdog
<1>2. CASE InitSession
  BY <1>2, SMT DEF InitSession, IsLooping, LoopingId, retained, bounds, watchdog
<1>3. CASE ReportCrash
  BY <1>3, SMT DEF ReportCrash, bounds, watchdog
<1>4. CASE Enable \/ Feed \/ Checkin \/ Stop
  BY <1>4, SMT DEF Enable, Feed, Checkin, Stop, retained, history, bounds, watchdog
<1>5. CASE Tick
  BY <1>5, SMT DEF Tick, Age, bounds, watchdog
<1>6. CASE Bite
  BY <1>6, SMT DEF Bite, Reset, retained
<1>7. CASE Crash
  BY <1>7, SMT DEF Crash, Reset
<1>8. CASE WarmReset
  BY <1>8, SMT DEF WarmReset, Reset, retained
<1>9. CASE ColdReset
  BY <1>9, SMT DEF ColdReset, Reset
<1>10. CASE UNCHANGED bootVars
  BY <1>10 DEF bootVars, retained, watchdog, history, bounds
<1>11. QED
  BY <1>1, <1>2, <1>3, <1>4, <1>5, <1>6, <1>7, <1>8, <1>9, <1>10 DEF BootNext

(* The EEPROM writes of a unit in a reset loop are bounded by the          *)
(* threshold, for every threshold (bootguard, init_session).               *)
THEOREM WearIsBounded == BootSpec => []WearBounded
<1>1. BootInit => Types /\ WearInv
  BY TypesInit, Constants, SMT DEF BootInit, WearInv, NoRecord
<1>2. Types /\ WearInv /\ [BootNext]_bootVars => (Types /\ WearInv)'
  BY TypesKept, WearKept
<1>3. WearInv => WearBounded
  BY DEF WearInv, WearBounded
<1>4. QED
  BY <1>1, <1>2, <1>3, PTL DEF BootSpec

(***************************************************************************)
(* The watchdog.                                                           *)
(***************************************************************************)

(* While the loop runs, its last check-in is fresh at every turn of the    *)
(* feeder; after it stopped, the silence is as old as the last check-in    *)
(* at least, until that is stale.                                          *)
DogInv ==
  /\ dog # Unarmed => dog <= Timeout
  /\ loop = "runs" => silence = 0
  /\ loop = "runs" /\ dog # Unarmed => age <= MaxAge /\ dog = Half + feed
  /\ loop # "runs" => silence <= age \/ age > MaxAge
  /\ dog = Unarmed => silence = 0
  /\ dog # Unarmed => silence + dog <= MaxAge + Timeout

(* A turn of the feeder, a tick and a reset keep the sum (feeder, live).   *)
LEMMA DogKept == Types /\ DogInv /\ [BootNext]_bootVars => DogInv'
<1> SUFFICES ASSUME Types, DogInv, [BootNext]_bootVars PROVE DogInv'
  OBVIOUS
<1> USE Constants DEF Types, DogInv, NoRecord, Unarmed, NoSession
<1>1. CASE OnBoot \/ InitSession \/ ReportCrash
  BY <1>1, SMT DEF OnBoot, InitSession, ReportCrash, history, bounds, watchdog
<1>2. CASE Enable
  BY <1>2, SMT DEF Enable, retained, history, bounds
<1>3. CASE Feed
  BY <1>3, SMT DEF Feed, Live, retained, history, bounds
<1>4. CASE Checkin
  BY <1>4, SMT DEF Checkin, retained, history, bounds
<1>5. CASE Stop
  BY <1>5, SMT DEF Stop, retained, history, bounds, watchdog
<1>6. CASE Tick
  <2>1. CASE dog = Unarmed
    BY <1>6, <2>1, SMT DEF Tick, bounds, watchdog
  <2>2. CASE dog # Unarmed /\ loop = "runs"
    BY <1>6, <2>2, SMT DEF Tick, bounds, watchdog
  <2>3. CASE dog # Unarmed /\ loop # "runs"
    BY <1>6, <2>3, SMT DEF Tick, bounds, watchdog
  <2>4. QED
    BY <2>1, <2>2, <2>3
<1>7. CASE Bite \/ Crash \/ WarmReset \/ ColdReset
  BY <1>7, SMT DEF Bite, Crash, WarmReset, ColdReset, Reset
<1>8. CASE UNCHANGED bootVars
  BY <1>8 DEF bootVars, retained, watchdog, history, bounds
<1>9. QED
  BY <1>1, <1>2, <1>3, <1>4, <1>5, <1>6, <1>7, <1>8 DEF BootNext

(* The watchdog's invariant holds always. *)
LEMMA DogAlways == BootSpec => [](Types /\ DogInv)
<1>1. BootInit => Types /\ DogInv
  BY TypesInit, Constants, SMT DEF BootInit, DogInv, Unarmed
<1>2. Types /\ DogInv /\ [BootNext]_bootVars => (Types /\ DogInv)'
  BY TypesKept, DogKept
<1>3. QED
  BY <1>1, <1>2, PTL DEF BootSpec

(* A stopped loop is reset in time, for every timeout and every age        *)
(* (require_checkin, feeder).                                              *)
THEOREM HangIsBounded == BootSpec => []HangBounded
<1>1. Types /\ DogInv => HangBounded
  BY Constants, SMT DEF Types, DogInv, HangBounded, Unarmed
<1>2. QED
  BY <1>1, DogAlways, PTL

(* A loop that checks in is never reset (feeder, live). *)
THEOREM HealthyIsFed == BootSpec => []HealthyNotBitten
<1>1. Types /\ DogInv => HealthyNotBitten
  BY Constants, SMT DEF Types, DogInv, HealthyNotBitten, Unarmed
<1>2. QED
  BY <1>1, DogAlways, PTL

(***************************************************************************)
(* The session id.                                                         *)
(***************************************************************************)

(* An id told is the stored one, or one of a loop.  What the boot before   *)
(* told is compared once: this boot's count is one more than its own, or   *)
(* the count began anew.                                                   *)
SessionInv ==
  /\ guard = NoRecord => pc = "start"
  /\ pc = "counted" => resets = guard
  /\ pc \in {"start", "counted"} => told = NoSession
  /\ told # NoSession => told = stored \/ told >= stored + Threshold
  /\ told # NoSession => told = stored \/ told = stored + guard \/ guard = 0
  /\ pc = "start" /\ previous # NoSession =>
       \/ previous = stored
       \/ previous >= stored + Threshold
            /\ (guard = NoRecord \/ guard = 0 \/ previous = stored + guard)
  /\ pc = "counted" /\ previous # NoSession =>
       \/ previous = stored
       \/ previous >= stored + Threshold
            /\ (resets <= 1 \/ previous + 1 = stored + resets)
  /\ SessionMoves

(* Every step keeps it: a reset hands on what was told (on_boot,           *)
(* init_session, healthy_watch).                                           *)
LEMMA SessionKept == Types /\ SessionInv /\ [BootNext]_bootVars => SessionInv'
<1> SUFFICES ASSUME Types, SessionInv, [BootNext]_bootVars PROVE SessionInv'
  OBVIOUS
<1> USE Constants DEF Types, SessionInv, SessionMoves, NoRecord, Unarmed, NoSession
<1>1. CASE OnBoot
  BY <1>1, SMT DEF OnBoot, Count, history, bounds, watchdog
<1>2. CASE InitSession
  <2>1. CASE IsLooping
    BY <1>2, <2>1, SMT DEF InitSession, IsLooping, LoopingId, retained, bounds, watchdog
  <2>2. CASE ~IsLooping
    BY <1>2, <2>2, SMT DEF InitSession, IsLooping, LoopingId, retained, bounds, watchdog
  <2>3. QED
    BY <2>1, <2>2
<1>3. CASE ReportCrash
  BY <1>3, SMT DEF ReportCrash, bounds, watchdog
<1>4. CASE Enable \/ Feed \/ Checkin \/ Stop
  BY <1>4, SMT DEF Enable, Feed, Checkin, Stop, retained, history, bounds, watchdog
<1>5. CASE Tick
  BY <1>5, SMT DEF Tick, Age, bounds, watchdog
<1>6. CASE Bite
  BY <1>6, SMT DEF Bite, Reset, retained
<1>7. CASE Crash
  BY <1>7, SMT DEF Crash, Reset
<1>8. CASE WarmReset
  BY <1>8, SMT DEF WarmReset, Reset, retained
<1>9. CASE ColdReset
  BY <1>9, SMT DEF ColdReset, Reset
<1>10. CASE UNCHANGED bootVars
  BY <1>10 DEF bootVars, retained, watchdog, history, bounds
<1>11. QED
  BY <1>1, <1>2, <1>3, <1>4, <1>5, <1>6, <1>7, <1>8, <1>9, <1>10 DEF BootNext

(* Two boots in a row tell the host different ids, for every threshold of  *)
(* at least 2 (init_session, LoopingId).                                   *)
THEOREM SessionsMove == BootSpec => []SessionMoves
<1>1. BootInit => Types /\ SessionInv
  BY TypesInit, Constants, SMT DEF BootInit, SessionInv, SessionMoves, NoRecord, NoSession
<1>2. Types /\ SessionInv /\ [BootNext]_bootVars => (Types /\ SessionInv)'
  BY TypesKept, SessionKept
<1>3. SessionInv => SessionMoves
  BY DEF SessionInv
<1>4. QED
  BY <1>1, <1>2, <1>3, PTL DEF BootSpec

(***************************************************************************)
(* The crash record.                                                       *)
(***************************************************************************)

(* A crash not yet come has no report; the record is the latest one.       *)
CrashInv ==
  /\ reports \in [Crashes -> Nat] /\ record \in Nat /\ crashes \in 0..MaxCrashes
  /\ \A c \in Crashes : c > crashes => reports[c] = 0
  /\ CrashReportedOnce

(* Recording, taking and losing the record keep it (crashlog).             *)
LEMMA CrashKept == CrashInv /\ [BootNext]_bootVars => CrashInv'
<1> SUFFICES ASSUME CrashInv, [BootNext]_bootVars PROVE CrashInv'
  OBVIOUS
<1>0. MaxCrashes \in Nat
  BY BootConstants DEF BootConstants
<1> USE <1>0 DEF CrashInv, CrashReportedOnce, Crashes
<1>1. CASE ReportCrash
  <2>1. CASE record = 0
    BY <1>1, <2>1, SMT DEF ReportCrash, ClearedRecord, bounds, watchdog
  <2>2. CASE record # 0
    <3>1. /\ reports' = [c \in Crashes |-> IF c = record THEN reports[c] + 1 ELSE reports[c]]
          /\ record' = 0 /\ crashes' = crashes
      BY <1>1, SMT DEF ReportCrash, ClearedRecord, bounds, watchdog
    <3>2. record = crashes /\ record \in Crashes /\ reports[record] = 0
      BY <2>2, SMT
    <3>3. \A c \in Crashes : reports'[c] = IF c = record THEN 1 ELSE reports[c]
      BY <3>1, <3>2, SMT
    <3>4. reports' \in [Crashes -> Nat]
      BY <3>1, SMT
    <3>5. QED
      BY <3>1, <3>2, <3>3, <3>4, SMT
  <2>3. QED
    BY <2>1, <2>2
<1>2. CASE Crash
  BY <1>2, SMT DEF Crash, Reset
<1>3. CASE ColdReset
  BY <1>3, SMT DEF ColdReset, Reset
<1>4. CASE Bite \/ WarmReset
  BY <1>4, SMT DEF Bite, WarmReset, Reset, retained
<1>5. CASE OnBoot \/ InitSession \/ Tick
  BY <1>5, SMT DEF OnBoot, InitSession, Tick, retained, history, bounds
<1>6. CASE Enable \/ Feed \/ Checkin \/ Stop
  BY <1>6, SMT DEF Enable, Feed, Checkin, Stop, retained, history, bounds
<1>7. CASE UNCHANGED bootVars
  BY <1>7, SMT DEF bootVars, retained, history, bounds
<1>8. QED
  BY <1>1, <1>2, <1>3, <1>4, <1>5, <1>6, <1>7 DEF BootNext

(* No crash is reported by two boots (take), for any number of crashes and *)
(* resets.                                                                 *)
THEOREM CrashesReportedOnce == BootSpec => []CrashReportedOnce
<1>1. BootInit => CrashInv
  BY BootConstants, SMT DEF BootConstants, BootInit, CrashInv, CrashReportedOnce, Crashes
<1>2. CrashInv => CrashReportedOnce
  BY DEF CrashInv
<1>3. QED
  BY <1>1, <1>2, CrashKept, PTL DEF BootSpec

-----------------------------------------------------------------------------
(* The transmitter. *)

USE TxConstants, NetTxConstants

-----------------------------------------------------------------------------
(* The kernel. *)

(* saturating_add stays below the ceiling and never goes down. *)
LEMMA SatAddBounds ==
  ASSUME NEW a \in 0..MaxCtr, NEW b \in Nat
  PROVE  /\ SatAdd(a, b) \in 0..MaxCtr
         /\ SatAdd(a, b) >= a
         /\ b > 0 /\ a < MaxCtr => SatAdd(a, b) > a
         /\ a = MaxCtr => SatAdd(a, b) = MaxCtr
  BY DEF SatAdd

(* Reserving reaches above the counter, short of the ceiling.              *)
LEMMA ReserveAbove ==
  ASSUME NEW a \in 0..MaxCtr
  PROVE  /\ SatAdd(a, Reserve) \in 0..MaxCtr
         /\ SatAdd(a, Reserve) >= a
         /\ SatAdd(a, Reserve) > a \/ a = MaxCtr
  BY DEF SatAdd

(* What Resume returns. *)
LEMMA ResumeResult ==
  ASSUME NEW mark \in 0..MaxCtr, NEW prior \in BOOLEAN,
         NEW r, r = Resume(mark, prior)
  PROVE  /\ r.txc \in TxCounterState
         /\ r.txc.counter = (IF mark = 0 THEN 1 ELSE mark)
         /\ r.txc.counter \in Counter
         /\ r.txc.limit = SatAdd(r.txc.counter, Reserve)
         /\ r.txc.limit \in Counter
         /\ r.txc.locked = (mark = 0 /\ prior)
         /\ r.persist = (IF mark = 0 /\ prior THEN 0 ELSE r.txc.limit)
<1>1. (IF mark = 0 THEN 1 ELSE mark) \in 1..MaxCtr
  OBVIOUS
<1>2. SatAdd(IF mark = 0 THEN 1 ELSE mark, Reserve) \in 1..MaxCtr
  BY <1>1 DEF SatAdd
<1>3. r.txc.locked = (mark = 0 /\ prior)
  BY DEF Resume
<1>4. r.txc.counter = (IF mark = 0 THEN 1 ELSE mark)
  BY DEF Resume
<1>5. r.txc.limit = SatAdd(IF mark = 0 THEN 1 ELSE mark, Reserve)
  BY DEF Resume
<1>6. r.txc \in TxCounterState
  BY <1>1, <1>2 DEF Resume, TxCounterState
<1>7. r.persist = (IF mark = 0 /\ prior THEN 0 ELSE r.txc.limit)
  BY DEF Resume
<1> QED
  BY <1>1, <1>2, <1>3, <1>4, <1>5, <1>6, <1>7 DEF Counter

(* What Advance returns. *)
LEMMA AdvanceResult ==
  ASSUME NEW t \in TxCounterState, t.counter \in Counter, t.limit \in Counter,
         NEW a, a = Advance(t)
  PROVE  /\ a.txc \in TxCounterState
         /\ a.txc.counter = SatAdd(t.counter, 1)
         /\ a.txc.counter \in Counter
         /\ a.txc.limit = t.limit
         /\ a.txc.locked = (t.locked \/ a.txc.counter = MaxCtr)
         /\ a.persist = (IF a.txc.counter # MaxCtr /\ a.txc.counter >= t.limit
                           THEN SatAdd(t.limit, Reserve) ELSE 0)
         /\ SatAdd(t.limit, Reserve) \in Counter
<1>1. SatAdd(t.counter, 1) \in 1..MaxCtr
  BY DEF SatAdd, Counter
<1>2. SatAdd(t.limit, Reserve) \in 1..MaxCtr
  BY DEF SatAdd, Counter
<1>3. a.txc \in TxCounterState
  <2>1. a.txc = [counter |-> SatAdd(t.counter, 1), limit |-> t.limit,
                 locked |-> t.locked \/ SatAdd(t.counter, 1) = MaxCtr]
    BY DEF Advance
  <2> QED
    BY <1>1, <2>1 DEF TxCounterState
<1>4. a.txc.counter = SatAdd(t.counter, 1)
  BY DEF Advance, TxCounterState
<1>5. a.txc.limit = t.limit
  BY DEF Advance, TxCounterState
<1>6. a.txc.locked = (t.locked \/ a.txc.counter = MaxCtr)
  BY DEF Advance, TxCounterState
<1>7. a.persist = (IF a.txc.counter # MaxCtr /\ a.txc.counter >= t.limit
                     THEN SatAdd(t.limit, Reserve) ELSE 0)
  BY DEF Advance, TxCounterState
<1> QED
  BY <1>1, <1>2, <1>3, <1>4, <1>5, <1>6, <1>7 DEF Counter

(* What Lock and ReservePersisted return. *)
LEMMA LockResult ==
  ASSUME NEW t \in TxCounterState
  PROVE  /\ Lock(t) \in TxCounterState
         /\ Lock(t).counter = t.counter
         /\ Lock(t).limit = t.limit
         /\ Lock(t).locked
  BY DEF Lock, TxCounterState

LEMMA ReserveResult ==
  ASSUME NEW t \in TxCounterState, NEW w \in Counter
  PROVE  /\ ReservePersisted(t, w) \in TxCounterState
         /\ ReservePersisted(t, w).counter = t.counter
         /\ ReservePersisted(t, w).limit = w
         /\ ReservePersisted(t, w).locked = t.locked
  BY DEF ReservePersisted, TxCounterState, Counter

(* A device without power has a typed counter. *)
LEMMA OffTyped == Off \in TxCounterState
  BY DEF Off, TxCounterState

-----------------------------------------------------------------------------
(* Typing. *)

(* Only a running device has an operation in progress. *)
JobRuns == job # NoJob => on

(* advance_tx_counter keeps the counter typed, spends exactly one counter, *)
(* and never unlocks.                                                      *)
LEMMA AdvanceTyped ==
  ASSUME TypeOK, on, NEW op, AdvanceTxCounter(op)
  PROVE  /\ txc' \in TxCounterState
         /\ txc'.counter \in Counter
         /\ txc'.limit \in Counter
         /\ wm' \in 0..MaxCtr
         /\ txc'.counter = SatAdd(txc.counter, 1)
         /\ txc.locked => txc'.locked
<1> DEFINE a == Advance(txc)
<1> HIDE DEF a
<1>1. txc \in TxCounterState /\ txc.counter \in Counter /\ txc.limit \in Counter /\ wm \in 0..MaxCtr
  BY DEF TypeOK
<1>2. /\ a.txc \in TxCounterState
      /\ a.txc.counter = SatAdd(txc.counter, 1)
      /\ a.txc.counter \in Counter
      /\ a.txc.limit = txc.limit
      /\ a.txc.locked = (txc.locked \/ a.txc.counter = MaxCtr)
      /\ a.persist # 0 => a.persist \in Counter
  BY <1>1, AdvanceResult DEF a
<1>3. CASE a.persist = 0 /\ txc' = a.txc /\ wm' = wm
  BY <1>1, <1>2, <1>3
<1>4. CASE a.persist # 0 /\ txc' = ReservePersisted(a.txc, a.persist) /\ wm' = a.persist
  <2>1. a.persist \in Counter /\ a.txc \in TxCounterState
    BY <1>2, <1>4
  <2>2. /\ txc' \in TxCounterState /\ txc'.counter = a.txc.counter
        /\ txc'.limit = a.persist /\ txc'.locked = a.txc.locked
    BY <1>4, <2>1, ReserveResult
  <2>3. wm' \in 0..MaxCtr
    BY <1>4, <2>1 DEF Counter
  <2> QED
    BY <1>2, <2>1, <2>2, <2>3
<1>5. CASE a.persist # 0 /\ txc' = Lock(a.txc) /\ wm' \in {wm, a.persist}
  <2>1. wm' \in 0..MaxCtr
    BY <1>1, <1>2, <1>5 DEF Counter
  <2>2. txc' \in TxCounterState /\ txc'.counter = a.txc.counter /\ txc'.limit = a.txc.limit /\ txc'.locked
    BY <1>2, <1>5, LockResult
  <2> QED
    BY <1>1, <1>2, <2>1, <2>2
<1> QED
  BY <1>3, <1>4, <1>5 DEF AdvanceTxCounter, a

(* A nonce is typed as its parts are. *)
LEMMA NonceTyped ==
  ASSUME NEW key \in {"net", "pairing"}, NEW ctr \in Counter, NEW idx \in 0..Chunks
  PROVE  Nonce(key, ctr, idx) \in Nonces
BY DEF Nonce, Nonces, Counter

(* An operation in progress is typed as its parts are. *)
LEMMA JobTyped ==
  ASSUME NEW op \in AllOps, NEW hold \in BOOLEAN, NEW ns \in SUBSET Nonces
  PROVE  Job(op, hold, ns) \in Jobs
BY DEF Job, Jobs

(* The initial states are typed. *)
LEMMA TypeInit == Init => TypeOK /\ JobRuns
<1> SUFFICES ASSUME Init PROVE TypeOK /\ JobRuns
  OBVIOUS
<1>1. frames \in [Nonces -> 0..2]
  BY DEF Init
<1>2. wm \in 0..MaxCtr /\ txc \in TxCounterState
  BY OffTyped DEF Init
<1>3. seen = FALSE /\ on = FALSE /\ job = NoJob
  BY DEF Init
<1> QED
  BY <1>1, <1>2, <1>3 DEF TypeOK, JobRuns

(* Every step of the send path keeps the types, and an operation in        *)
(* progress only on a running device.                                      *)
LEMMA TypeStep == TypeOK /\ JobRuns /\ [Next]_vars => TypeOK' /\ JobRuns'
<1> SUFFICES ASSUME TypeOK, JobRuns, [Next]_vars
             PROVE  TypeOK' /\ JobRuns'
  OBVIOUS
<1>0. /\ wm \in 0..MaxCtr /\ seen \in BOOLEAN /\ on \in BOOLEAN
      /\ txc \in TxCounterState /\ job \in Jobs \cup {NoJob}
      /\ on => txc.counter \in Counter /\ txc.limit \in Counter
      /\ frames \in [Nonces -> 0..2]
  BY DEF TypeOK
<1>1. CASE Boot
  <2> DEFINE r == Resume(wm, seen)
  <2>1. /\ r.txc \in TxCounterState /\ r.txc.counter \in Counter /\ r.txc.limit \in Counter
        /\ r.persist \in 0..MaxCtr
    BY <1>0, ResumeResult DEF Counter
  <2> HIDE DEF r
  <2>2. \/ txc' = r.txc /\ wm' \in {wm, r.persist}
        \/ txc' = Lock(r.txc) /\ wm' \in {wm, r.persist}
    BY <1>1 DEF Boot, r
  <2>3. wm' \in 0..MaxCtr
    BY <1>0, <2>1, <2>2
  <2>4. txc' \in TxCounterState /\ txc'.counter \in Counter /\ txc'.limit \in Counter
    BY <2>1, <2>2 DEF Lock, TxCounterState
  <2> QED
    BY <1>0, <1>1, <2>3, <2>4 DEF Boot, TypeOK, JobRuns
<1>2. CASE Send
  <2>1. Nonce("net", txc.counter, 0) \in Nonces
    BY <1>0, <1>2, NonceTyped DEF Send, MayStart
  <2>2. job' \in Jobs
    BY <1>2, <2>1, JobTyped DEF Send, AllOps
  <2> QED
    BY <1>0, <1>2, <2>2, AdvanceTyped DEF Send, MayStart, TypeOK, JobRuns
<1>3. ASSUME NEW op \in AllOps, NEW key \in {"net", "pairing"}, StartHolding(op, key)
      PROVE  TypeOK' /\ JobRuns'
  <2>1. Nonce(key, txc.counter, 0) \in Nonces
    BY <1>0, <1>3, NonceTyped DEF StartHolding, MayStart
  <2>2. job' \in Jobs
    BY <1>3, <2>1, JobTyped DEF StartHolding
  <2> QED
    BY <1>0, <1>3, <2>2 DEF StartHolding, MayStart, TypeOK, JobRuns
<1>4. CASE Serve
  <2>1. txc' \in TxCounterState /\ txc'.counter \in Counter /\ txc'.limit \in Counter /\ wm' \in 0..MaxCtr
    BY <1>4, AdvanceTyped DEF Serve, MayStart
  <2>2. Nonce("net", txc.counter, 0) \in Nonces
    BY <1>0, <1>4, NonceTyped DEF Serve, MayStart
  <2>3. \A k \in 0..Chunks : Nonce("net", txc'.counter, k) \in Nonces
    BY <2>1, NonceTyped
  <2>4. job' \in Jobs \cup {NoJob}
    BY <1>4, <2>2, <2>3, JobTyped DEF Serve, AllOps
  <2> QED
    BY <1>0, <1>4, <2>1, <2>4 DEF Serve, MayStart, TypeOK, JobRuns
<1>5. ASSUME NEW n \in Nonces, Air(n)
      PROVE  TypeOK' /\ JobRuns'
  <2>1. job \in Jobs
    BY <1>0, <1>5 DEF Air, NoJob
  <2>2. job' \in Jobs
    BY <1>5, <2>1 DEF Air, Jobs
  <2>3. frames' \in [Nonces -> 0..2]
    BY <1>0, <1>5 DEF Air
  <2> QED
    BY <1>0, <1>5, <2>2, <2>3 DEF Air, NoJob, TypeOK, JobRuns
<1>6. CASE Spend
  <2>1. on /\ AdvanceTxCounter(job.op)
    BY <1>6 DEF Spend, NoJob, JobRuns
  <2> QED
    BY <1>0, <1>6, <2>1, AdvanceTyped DEF Spend, TypeOK, JobRuns
<1>7. ASSUME NEW op \in AllOps, NEW key \in {"net", "pairing"}, NEW k \in 0..Chunks,
             SpendAndGoOn(op, key, k)
      PROVE  TypeOK' /\ JobRuns'
  <2>1. on /\ AdvanceTxCounter(op)
    BY <1>7 DEF SpendAndGoOn, NoJob, JobRuns
  <2>2. Nonce(key, txc'.counter, k) \in Nonces
    BY <2>1, AdvanceTyped, NonceTyped
  <2>3. job' \in Jobs
    BY <1>7, <2>2, JobTyped DEF SpendAndGoOn
  <2> QED
    BY <1>0, <1>7, <2>1, <2>3, AdvanceTyped DEF SpendAndGoOn, TypeOK, JobRuns
<1>8. CASE Return
  BY <1>0, <1>8 DEF Return, TypeOK, JobRuns
<1>9. CASE Receive
  BY <1>0, <1>9 DEF Receive, TypeOK, JobRuns
<1>10. CASE PowerLoss
  BY <1>0, <1>10, OffTyped DEF PowerLoss, TypeOK, JobRuns
<1>11. CASE LoseWatermark
  BY <1>0, <1>11 DEF LoseWatermark, TypeOK, JobRuns
<1>12. CASE UNCHANGED vars
  BY <1>0, <1>12 DEF vars, TypeOK, JobRuns
<1> QED
  BY <1>1, <1>2, <1>3, <1>4, <1>5, <1>6, <1>7, <1>8, <1>9, <1>10, <1>11, <1>12
  DEF Next, NextChunk, AllOps

(* The types hold in every behaviour, whatever fails or is dropped: no     *)
(* counter leaves 1..MAX while the device runs (resume's floor, advance's  *)
(* saturation).                                                            *)
THEOREM TypeCorrect == Spec => []TypeOK
BY TypeInit, TypeStep, PTL DEF Spec

-----------------------------------------------------------------------------
(* The watermark. *)

(* The three ways advance_tx_counter ends: no reservation was due, the     *)
(* next block was reserved, or its write failed and the counter is locked. *)
LEMMA AdvanceCases ==
  ASSUME TypeOK, on, NEW op, AdvanceTxCounter(op)
  PROVE  \/ /\ wm' = wm /\ txc'.limit = txc.limit
            /\ txc'.counter = MaxCtr \/ txc'.counter < txc'.limit
            /\ txc'.locked => txc.locked \/ txc'.counter = MaxCtr
         \/ /\ wm' = SatAdd(txc.limit, Reserve) /\ txc'.limit = wm'
            /\ txc'.counter >= txc.limit /\ txc'.counter < MaxCtr
            /\ txc'.locked => txc.locked
         \/ /\ wm' \in {wm, SatAdd(txc.limit, Reserve)} /\ txc'.limit = txc.limit
            /\ op \in FailsIn /\ txc'.locked /\ txc'.counter < MaxCtr
<1> DEFINE a == Advance(txc)
<1> HIDE DEF a
<1>1. /\ a.txc \in TxCounterState
      /\ a.txc.counter \in Counter
      /\ a.txc.limit = txc.limit
      /\ a.txc.locked => txc.locked \/ a.txc.counter = MaxCtr
      /\ a.persist = (IF a.txc.counter # MaxCtr /\ a.txc.counter >= txc.limit
                        THEN SatAdd(txc.limit, Reserve) ELSE 0)
      /\ SatAdd(txc.limit, Reserve) \in Counter
      /\ txc.limit \in Counter
  BY AdvanceResult DEF a, TypeOK
<1>2. CASE a.persist = 0 /\ txc' = a.txc /\ wm' = wm
  <2>1. a.txc.counter = MaxCtr \/ a.txc.counter < txc.limit
    BY <1>1, <1>2 DEF Counter
  <2> QED
    BY <1>1, <1>2, <2>1
<1>3. a.persist # 0 => /\ a.persist = SatAdd(txc.limit, Reserve)
                       /\ a.persist \in Counter
                       /\ a.txc.counter >= txc.limit
                       /\ a.txc.counter < MaxCtr
  BY <1>1 DEF Counter
<1>4. CASE a.persist # 0 /\ txc' = ReservePersisted(a.txc, a.persist) /\ wm' = a.persist
  <2>1. /\ txc'.counter = a.txc.counter /\ txc'.limit = a.persist
        /\ txc'.locked = a.txc.locked
    BY <1>1, <1>3, <1>4, ReserveResult
  <2> QED
    BY <1>1, <1>3, <1>4, <2>1
<1>5. CASE a.persist # 0 /\ op \in FailsIn /\ txc' = Lock(a.txc) /\ wm' \in {wm, a.persist}
  <2>1. txc'.counter = a.txc.counter /\ txc'.limit = a.txc.limit /\ txc'.locked
    BY <1>1, <1>5, LockResult
  <2> QED
    BY <1>1, <1>3, <1>5, <2>1
<1> QED
  BY <1>2, <1>4, <1>5 DEF AdvanceTxCounter, a

(* The reservation that EEPROM holds is at most one block ahead of the one *)
(* RAM knows of: a failed write may have landed.                           *)
LimitLead == on => wm <= SatAdd(txc.limit, Reserve)

LEMMA AdvanceWatermark ==
  ASSUME TypeOK, on, LimitLead, NEW op, AdvanceTxCounter(op)
  PROVE  wm' >= wm /\ wm' <= SatAdd(txc'.limit, Reserve)
<1>1. /\ txc.limit \in 0..MaxCtr /\ txc'.limit \in 0..MaxCtr
      /\ wm \in 0..MaxCtr /\ wm <= SatAdd(txc.limit, Reserve)
      /\ SatAdd(txc.limit, Reserve) \in 0..MaxCtr
      /\ SatAdd(txc'.limit, Reserve) >= txc'.limit
  <2>1. txc.limit \in 0..MaxCtr /\ txc'.limit \in 0..MaxCtr
    BY AdvanceTyped DEF TypeOK, Counter
  <2> QED
    BY <2>1, ReserveAbove DEF TypeOK, LimitLead
<1> QED
  BY <1>1, AdvanceCases

(* A boot resumes at or above the stored watermark and reserves above it.  *)
LEMMA BootWatermark ==
  ASSUME TypeOK, Boot
  PROVE  wm' >= wm /\ wm' <= SatAdd(txc'.limit, Reserve)
<1> DEFINE r == Resume(wm, seen)
<1>1. /\ r.txc \in TxCounterState
      /\ r.txc.counter = (IF wm = 0 THEN 1 ELSE wm)
      /\ r.txc.counter \in Counter
      /\ r.txc.limit = SatAdd(r.txc.counter, Reserve)
      /\ r.txc.limit \in Counter
      /\ r.persist = (IF wm = 0 /\ seen THEN 0 ELSE r.txc.limit)
  BY ResumeResult DEF TypeOK
<1> HIDE DEF r
<1>2. wm' \in {wm, r.persist} /\ (r.persist = 0 => wm' = wm) /\ txc'.limit = r.txc.limit
  BY <1>1, LockResult DEF Boot, r
<1>3. wm \in 0..MaxCtr /\ wm <= r.txc.counter
  BY <1>1 DEF TypeOK, Counter
<1>4. /\ r.txc.limit >= r.txc.counter
      /\ SatAdd(r.txc.limit, Reserve) >= r.txc.limit
      /\ SatAdd(r.txc.limit, Reserve) \in 0..MaxCtr
  <2>1. r.txc.counter \in 0..MaxCtr /\ r.txc.limit \in 0..MaxCtr
    BY <1>1 DEF Counter
  <2> QED
    BY <1>1, <2>1, ReserveAbove
<1> QED
  BY <1>1, <1>2, <1>3, <1>4 DEF Counter

(* Only a corrupted store ever loses a reservation: whatever fails or is   *)
(* dropped, and however the device reboots, the EEPROM watermark does not  *)
(* go back (advance, Net::new).                                            *)
THEOREM WatermarkNeverBack == Spec => WatermarkMonotone
<1> DEFINE IInv == TypeOK /\ JobRuns /\ LimitLead
<1>1. Init => LimitLead
  BY DEF Init, LimitLead
<1>2. IInv /\ [Next]_vars => LimitLead' /\ [wm' >= wm \/ (wm' = 0 /\ ~on)]_wm
  <2> SUFFICES ASSUME IInv, [Next]_vars
               PROVE  LimitLead' /\ [wm' >= wm \/ (wm' = 0 /\ ~on)]_wm
    OBVIOUS
  <2>1. CASE Boot
    BY <2>1, BootWatermark DEF LimitLead
  <2>2. ASSUME on, NEW op, AdvanceTxCounter(op)
        PROVE  LimitLead' /\ [wm' >= wm \/ (wm' = 0 /\ ~on)]_wm
    BY <2>2, AdvanceWatermark DEF LimitLead
  <2>3. CASE Send \/ Serve
    BY <2>2, <2>3 DEF Send, Serve, MayStart
  <2>4. CASE Spend
    <3>1. on /\ AdvanceTxCounter(job.op)
      BY <2>4 DEF Spend, JobRuns, NoJob
    <3> QED
      BY <2>2, <3>1
  <2>4a. ASSUME NEW op, NEW key, NEW k, SpendAndGoOn(op, key, k)
        PROVE  LimitLead' /\ [wm' >= wm \/ (wm' = 0 /\ ~on)]_wm
    <3>1. on /\ AdvanceTxCounter(op)
      BY <2>4a DEF SpendAndGoOn, JobRuns, NoJob
    <3> QED
      BY <2>2, <3>1
  <2>5. CASE wm' = wm /\ (~on' \/ (on' = on /\ txc' = txc))
    BY <2>5 DEF LimitLead
  <2>6. CASE LoseWatermark
    BY <2>6 DEF LoseWatermark, LimitLead
  <2>7. ASSUME NEW op, NEW key, StartHolding(op, key)
        PROVE  wm' = wm /\ on' = on /\ txc' = txc
    BY <2>7 DEF StartHolding
  <2>8. ASSUME NEW n, Air(n)
        PROVE  wm' = wm /\ on' = on /\ txc' = txc
    BY <2>8 DEF Air
  <2>9. Return \/ Receive \/ UNCHANGED vars => wm' = wm /\ on' = on /\ txc' = txc
    BY DEF Return, Receive, vars
  <2>10. PowerLoss => wm' = wm /\ ~on'
    BY DEF PowerLoss
  <2> QED
    BY <2>1, <2>3, <2>4, <2>5, <2>6, <2>7, <2>8, <2>9, <2>10, <2>4a DEF Next, NextChunk
<1> QED
  <2>1. Init => TypeOK /\ JobRuns
    BY TypeInit
  <2> QED
    BY <1>1, <1>2, <2>1, TypeStep, PTL DEF Spec, WatermarkMonotone

-----------------------------------------------------------------------------
(* Nonces. *)

(* The faults under which nonces are unique.  Elsewhere a failed watermark *)
(* write does not stop the transfer in progress, or a return forgets to    *)
(* spend the counter: the runs NetTxLocked and NetTxAbort.                 *)
FaultsTolerated == FailsIn \subseteq {"boot", "send", "fhss"} /\ DroppedIn \subseteq {"send"}

(* While the lock is open the counter lies inside the durable reservation. *)
Covered ==
  on /\ ~txc.locked => wm = txc.limit /\ (txc.counter < txc.limit \/ txc.counter = MaxCtr)

(* What has been aired lies below the counter, or under the very nonce the *)
(* operation in progress holds.  A device that booted locked, its          *)
(* watermark lost, knows nothing of the kind, and airs nothing.            *)
Below ==
  on /\ ~(txc.locked /\ job = NoJob) =>
    \A n \in Nonces :
      n.ctr < MaxCtr /\ frames[n] > 0 => n.ctr < txc.counter \/ (job.hold /\ n \in job.sent)

(* The nonces of the operation in progress are reserved, not past the      *)
(* counter, and unaired but for its own frames.                            *)
JobReserved ==
  job # NoJob =>
    /\ job.sent \subseteq job.nonces
    /\ job.hold => job.op # "send" /\ (~txc.locked \/ txc.counter = MaxCtr)
    /\ \A n \in job.nonces :
         n.ctr < MaxCtr =>
           /\ n.ctr < wm
           /\ n.ctr < txc.counter \/ (job.hold /\ n.ctr = txc.counter)
           /\ n \notin job.sent => frames[n] = 0

NonceInv ==
  /\ TypeOK /\ JobRuns
  /\ Covered /\ Below /\ JobReserved
  /\ AiredBelowWatermark /\ NonceUnique

(* Spending a counter inside the reservation stays inside it, and leaves   *)
(* everything aired below both the counter and the watermark.              *)
LEMMA AdvanceNonces ==
  ASSUME NonceInv, on, NEW op, AdvanceTxCounter(op),
         job = NoJob => ~txc.locked, ~txc.locked \/ txc.counter = MaxCtr
  PROVE  /\ wm' >= wm
         /\ ~txc'.locked => wm' = txc'.limit /\ (txc'.counter < txc'.limit \/ txc'.counter = MaxCtr)
         /\ op \notin FailsIn => ~txc'.locked \/ txc'.counter = MaxCtr
         /\ \A n \in Nonces : n.ctr < MaxCtr /\ frames[n] > 0 =>
              n.ctr < txc'.counter /\ (n.ctr < wm' \/ (wm' = 0 /\ seen))
<1>1. /\ wm \in 0..MaxCtr /\ txc.counter \in Counter /\ txc.limit \in Counter
      /\ wm' \in 0..MaxCtr /\ txc'.counter \in Counter /\ txc'.limit \in Counter
      /\ txc'.counter = (IF txc.counter < MaxCtr THEN txc.counter + 1 ELSE MaxCtr)
      /\ txc.locked => txc'.locked
  BY AdvanceTyped DEF NonceInv, TypeOK, SatAdd, Counter
<1>2. ~txc.locked => wm = txc.limit /\ (txc.counter < txc.limit \/ txc.counter = MaxCtr)
  BY DEF NonceInv, Covered
<1>3. /\ SatAdd(txc.limit, Reserve) \in 0..MaxCtr
      /\ SatAdd(txc.limit, Reserve) >= txc.limit
      /\ SatAdd(txc.limit, Reserve) > txc.limit \/ txc.limit = MaxCtr
  BY <1>1, ReserveAbove DEF Counter
<1>4. /\ wm' = wm \/ (wm > 0 /\ wm' >= wm)
      /\ ~txc'.locked => wm' = txc'.limit /\ (txc'.counter < txc'.limit \/ txc'.counter = MaxCtr)
      /\ op \notin FailsIn => ~txc'.locked \/ txc'.counter = MaxCtr
  <2>1. CASE /\ wm' = wm /\ txc'.limit = txc.limit
             /\ txc'.counter = MaxCtr \/ txc'.counter < txc'.limit
             /\ txc'.locked => txc.locked \/ txc'.counter = MaxCtr
    BY <1>1, <1>2, <2>1
  <2>2. CASE /\ wm' = SatAdd(txc.limit, Reserve) /\ txc'.limit = wm'
             /\ txc'.counter >= txc.limit /\ txc'.counter < MaxCtr
             /\ txc'.locked => txc.locked
    BY <1>1, <1>2, <1>3, <2>2 DEF Counter
  <2>3. CASE /\ wm' \in {wm, SatAdd(txc.limit, Reserve)} /\ txc'.limit = txc.limit
             /\ op \in FailsIn /\ txc'.locked /\ txc'.counter < MaxCtr
    <3>1. ~txc.locked
      BY <1>1, <2>3 DEF Counter
    <3>2. wm = txc.limit /\ wm > 0
      BY <1>1, <1>2, <3>1 DEF Counter
    <3>3. wm' >= wm
      BY <1>1, <1>3, <2>3, <3>2
    <3> QED
      BY <2>3, <3>2, <3>3
  <2> QED
    BY <2>1, <2>2, <2>3, AdvanceCases DEF NonceInv
<1>5. ASSUME NEW n \in Nonces, n.ctr < MaxCtr, frames[n] > 0
      PROVE  n.ctr < txc'.counter /\ (n.ctr < wm' \/ (wm' = 0 /\ seen))
  <2>1. n.ctr \in 0..MaxCtr
    BY DEF Nonces
  <2>2. n.ctr < wm \/ (wm = 0 /\ seen)
    BY <1>5 DEF NonceInv, AiredBelowWatermark
  <2>3. n.ctr < txc.counter \/ (job.hold /\ n \in job.sent)
    BY <1>5 DEF NonceInv, Below
  <2>4. job.hold /\ n \in job.sent => n.ctr <= txc.counter
    <3> SUFFICES ASSUME job.hold, n \in job.sent
                 PROVE  n.ctr <= txc.counter
      OBVIOUS
    <3>1. job # NoJob
      BY DEF NoJob
    <3>2. n \in job.nonces
      BY <3>1 DEF NonceInv, JobReserved
    <3>3. n.ctr < txc.counter \/ n.ctr = txc.counter
      BY <1>5, <3>1, <3>2 DEF NonceInv, JobReserved
    <3> QED
      BY <1>1, <2>1, <3>3 DEF Counter
  <2> QED
    BY <1>1, <1>4, <1>5, <2>1, <2>2, <2>3, <2>4 DEF Counter
<1> QED
  BY <1>1, <1>4, <1>5

(* An operation that may start takes a counter nothing was aired under.    *)
LEMMA FreshCounter ==
  ASSUME NonceInv, on, job = NoJob, ~txc.locked, NEW n \in Nonces,
         n.ctr = txc.counter, n.ctr < MaxCtr
  PROVE  n.ctr < wm /\ frames[n] = 0
<1>1. txc.counter \in Counter /\ txc.limit \in Counter /\ frames[n] \in 0..2
  BY DEF NonceInv, TypeOK
<1>2. wm = txc.limit /\ txc.counter < txc.limit
  BY DEF NonceInv, Covered
<1>3. ~(frames[n] > 0)
  BY <1>1 DEF NonceInv, Below, NoJob, Counter
<1> QED
  BY <1>1, <1>2, <1>3

(* What an operation may hold once it has spent a counter: nonces at or    *)
(* below the new one, reserved and unaired.                                *)
LEMMA Reserved ==
  ASSUME NonceInv, on, NEW op, AdvanceTxCounter(op), UNCHANGED <<seen, on, frames>>,
         job = NoJob => ~txc.locked, ~txc.locked \/ txc.counter = MaxCtr,
         job' = NoJob \/
           /\ job'.sent = {}
           /\ job'.hold => job'.op # "send" /\ op \notin FailsIn
           /\ \A n \in job'.nonces :
                /\ n \in Nonces
                /\ \/ n.ctr = txc.counter /\ job = NoJob
                   \/ n.ctr = txc'.counter /\ job'.hold
  PROVE  Covered' /\ Below' /\ JobReserved' /\ AiredBelowWatermark' /\ NonceUnique'
<1>1. /\ wm' >= wm
      /\ ~txc'.locked => wm' = txc'.limit /\ (txc'.counter < txc'.limit \/ txc'.counter = MaxCtr)
      /\ op \notin FailsIn => ~txc'.locked \/ txc'.counter = MaxCtr
      /\ \A n \in Nonces : n.ctr < MaxCtr /\ frames[n] > 0 =>
           n.ctr < txc'.counter /\ (n.ctr < wm' \/ (wm' = 0 /\ seen))
  BY AdvanceNonces
<1>2. /\ wm \in 0..MaxCtr /\ txc.counter \in Counter
      /\ wm' \in 0..MaxCtr /\ txc'.counter \in Counter
      /\ txc'.counter = (IF txc.counter < MaxCtr THEN txc.counter + 1 ELSE MaxCtr)
  BY AdvanceTyped DEF NonceInv, TypeOK, SatAdd, Counter
<1>3. Covered'
  BY <1>1 DEF Covered
<1>4. Below'
  BY <1>1 DEF Below
<1>5. AiredBelowWatermark'
  BY <1>1 DEF AiredBelowWatermark
<1>6. NonceUnique'
  BY DEF NonceInv, NonceUnique
<1>7. JobReserved'
  <2> SUFFICES ASSUME job' # NoJob
               PROVE  /\ job'.sent \subseteq job'.nonces
                      /\ job'.hold => job'.op # "send" /\ (~txc'.locked \/ txc'.counter = MaxCtr)
                      /\ \A n \in job'.nonces :
                           n.ctr < MaxCtr =>
                             /\ n.ctr < wm'
                             /\ n.ctr < txc'.counter \/ (job'.hold /\ n.ctr = txc'.counter)
                             /\ n \notin job'.sent => frames'[n] = 0
    BY DEF JobReserved
  <2>1. job'.sent = {}
    OBVIOUS
  <2>2. job'.hold => job'.op # "send" /\ (~txc'.locked \/ txc'.counter = MaxCtr)
    BY <1>1
  <2>3. ASSUME NEW n \in job'.nonces, n.ctr < MaxCtr
        PROVE  /\ n.ctr < wm'
               /\ n.ctr < txc'.counter \/ (job'.hold /\ n.ctr = txc'.counter)
               /\ frames'[n] = 0
    <3>1. n \in Nonces /\ n.ctr \in 0..MaxCtr /\ frames[n] \in 0..2 /\ frames' = frames
      BY DEF Nonces, NonceInv, TypeOK
    <3>2. CASE n.ctr = txc.counter /\ job = NoJob
      <4>1. n.ctr < wm /\ frames[n] = 0
        BY <2>3, <3>1, <3>2, FreshCounter
      <4> QED
        BY <1>1, <1>2, <2>3, <3>1, <3>2, <4>1 DEF Counter
    <3>3. CASE n.ctr = txc'.counter /\ job'.hold
      <4>1. ~txc'.locked
        BY <1>1, <1>2, <2>3, <3>3 DEF Counter
      <4>2. n.ctr < wm'
        BY <1>1, <1>2, <2>3, <3>3, <4>1 DEF Counter
      <4>3. ~(frames[n] > 0)
        BY <1>1, <1>2, <2>3, <3>1, <3>3 DEF Counter
      <4> QED
        BY <3>1, <3>3, <4>2, <4>3
    <3> QED
      BY <3>2, <3>3
  <2> QED
    BY <2>1, <2>2, <2>3
<1> QED
  BY <1>3, <1>4, <1>5, <1>6, <1>7

(* The parts of NonceInv beyond the types. *)
NonceParts == Covered /\ Below /\ JobReserved /\ AiredBelowWatermark /\ NonceUnique

(* Boot: the counter resumes at the stored watermark, above everything     *)
(* aired; without one, a store that shows prior use comes up locked.       *)
LEMMA BootNonces ==
  ASSUME NonceInv, Boot
  PROVE  NonceParts'
<1> DEFINE r == Resume(wm, seen)
<1>1. /\ r.txc \in TxCounterState
      /\ r.txc.counter = (IF wm = 0 THEN 1 ELSE wm)
      /\ r.txc.counter \in Counter
      /\ r.txc.limit = SatAdd(r.txc.counter, Reserve)
      /\ r.txc.limit \in Counter
      /\ r.txc.locked = (wm = 0 /\ seen)
      /\ r.persist = (IF wm = 0 /\ seen THEN 0 ELSE r.txc.limit)
  BY ResumeResult DEF NonceInv, TypeOK
<1> HIDE DEF r
<1>2. \/ r.persist = 0 /\ txc' = r.txc
      \/ r.persist # 0 /\ txc' = r.txc /\ wm' = r.persist
      \/ txc' = Lock(r.txc)
  BY DEF Boot, r
<1>3. /\ ~on /\ on' = TRUE /\ job = NoJob /\ job' = NoJob /\ UNCHANGED <<seen, frames>>
      /\ wm \in 0..MaxCtr
  BY DEF Boot, NonceInv, JobRuns, TypeOK
<1>4. wm' >= wm
  BY BootWatermark DEF NonceInv
<1>5. wm = 0 /\ seen => wm' = wm
  BY <1>1 DEF Boot, r
<1>6. wm' \in 0..MaxCtr
  BY <1>1, <1>3 DEF Boot, Counter, r
<1>7. ~txc'.locked => ~(wm = 0 /\ seen) /\ txc' = r.txc /\ wm' = r.txc.limit
  <2> SUFFICES ASSUME ~txc'.locked
               PROVE  ~(wm = 0 /\ seen) /\ txc' = r.txc /\ wm' = r.txc.limit
    OBVIOUS
  <2>1. txc' = r.txc
    BY <1>1, <1>2, LockResult
  <2>2. ~(wm = 0 /\ seen)
    BY <1>1, <2>1
  <2>3. r.persist = r.txc.limit /\ r.persist # 0
    BY <1>1, <2>2 DEF Counter
  <2>4. txc' # Lock(r.txc)
    BY <1>1, LockResult
  <2> QED
    BY <1>2, <2>1, <2>2, <2>3, <2>4
<1>8. Covered'
  <2>1. r.txc.counter < r.txc.limit \/ r.txc.counter = MaxCtr
    BY <1>1, ReserveAbove DEF Counter
  <2> QED
    BY <1>7, <2>1 DEF Covered
<1>9. Below'
  <2> SUFFICES ASSUME ~txc'.locked, NEW n \in Nonces, n.ctr < MaxCtr, frames[n] > 0
               PROVE  n.ctr < txc'.counter
    BY <1>3 DEF Below
  <2>1. n.ctr < wm \/ (wm = 0 /\ seen)
    BY DEF NonceInv, AiredBelowWatermark
  <2>2. n.ctr \in 0..MaxCtr
    BY DEF Nonces
  <2> QED
    BY <1>1, <1>3, <1>7, <2>1, <2>2
<1>10. AiredBelowWatermark'
  <2> SUFFICES ASSUME NEW n \in Nonces, n.ctr < MaxCtr, frames[n] > 0
               PROVE  n.ctr < wm' \/ (wm' = 0 /\ seen)
    BY <1>3 DEF AiredBelowWatermark
  <2>1. n.ctr < wm \/ (wm = 0 /\ seen)
    BY DEF NonceInv, AiredBelowWatermark
  <2>2. n.ctr \in 0..MaxCtr
    BY DEF Nonces
  <2> QED
    BY <1>3, <1>4, <1>5, <1>6, <2>1, <2>2
<1>11. JobReserved' /\ NonceUnique'
  BY <1>3 DEF JobReserved, NonceInv, NonceUnique
<1> QED
  BY <1>8, <1>9, <1>10, <1>11 DEF NonceParts

(* Air: the frame's nonce is reserved, and unaired until its first         *)
(* transmission.                                                           *)
LEMMA AirNonces ==
  ASSUME NonceInv, NEW n \in Nonces, Air(n)
  PROVE  NonceParts'
<1>1. /\ n \in job.nonces /\ UNCHANGED <<wm, seen, on, txc>>
      /\ job' = [job EXCEPT !.sent = job.sent \cup {n}]
      /\ frames' = IF n \in job.sent THEN frames
                   ELSE [frames EXCEPT ![n] = IF frames[n] = 0 THEN 1 ELSE 2]
  BY DEF Air
<1>2. job \in Jobs /\ job # NoJob
  BY <1>1 DEF NonceInv, TypeOK, NoJob
<1>3. /\ job'.op = job.op /\ job'.hold = job.hold /\ job'.nonces = job.nonces
      /\ job'.sent = job.sent \cup {n}
  BY <1>1, <1>2 DEF Jobs
<1>4. n.ctr < MaxCtr => n.ctr < wm /\ (n.ctr < txc.counter \/ job.hold)
                          /\ (n \notin job.sent => frames[n] = 0)
  BY <1>1, <1>2 DEF NonceInv, JobReserved
<1>5. frames \in [Nonces -> 0..2]
  BY DEF NonceInv, TypeOK
<1>6. \A m \in Nonces : m # n => frames'[m] = frames[m]
  BY <1>1, <1>5
<1>7. n.ctr < MaxCtr => frames'[n] <= 1
  <2>1. n.ctr < MaxCtr => frames[n] <= 1
    BY DEF NonceInv, NonceUnique
  <2> QED
    BY <1>1, <1>4, <1>5, <2>1
<1>8. Covered'
  BY <1>1 DEF NonceInv, Covered
<1>9. Below'
  BY <1>1, <1>2, <1>3, <1>4, <1>6 DEF NonceInv, Below
<1>10. AiredBelowWatermark'
  BY <1>1, <1>4, <1>6 DEF NonceInv, AiredBelowWatermark
<1>11. NonceUnique'
  BY <1>6, <1>7 DEF NonceInv, NonceUnique
<1>12. JobReserved'
  <2>1. /\ job.sent \subseteq job.nonces
        /\ job.hold => job.op # "send" /\ (~txc.locked \/ txc.counter = MaxCtr)
    BY <1>2 DEF NonceInv, JobReserved
  <2>2. ASSUME NEW m \in job.nonces, m.ctr < MaxCtr
        PROVE  /\ m.ctr < wm
               /\ m.ctr < txc.counter \/ (job.hold /\ m.ctr = txc.counter)
               /\ m \notin job'.sent => frames'[m] = 0
    <3>1. m \in Nonces
      BY <1>2 DEF Jobs
    <3> QED
      BY <1>2, <1>3, <1>6, <2>2, <3>1 DEF NonceInv, JobReserved
  <2> QED
    BY <1>1, <1>3, <2>1, <2>2 DEF JobReserved
<1> QED
  BY <1>8, <1>9, <1>10, <1>11, <1>12 DEF NonceParts

(* Every other step.  Those that spend are cases of Reserved. *)
LEMMA NonceStep ==
  ASSUME FaultsTolerated
  PROVE  NonceInv /\ [Next]_vars => NonceInv'
<1> SUFFICES ASSUME NonceInv, [Next]_vars
             PROVE  NonceParts'
  BY TypeStep DEF NonceInv, NonceParts
<1>0. /\ job \in Jobs \cup {NoJob} /\ JobRuns
      /\ on => txc.counter \in Counter
  BY DEF NonceInv, TypeOK
<1>1. CASE Boot
  BY <1>1, BootNonces
<1>2. CASE Send
  <2>1. /\ on /\ job = NoJob /\ ~txc.locked /\ AdvanceTxCounter("send")
        /\ job' = Job("send", FALSE, {Nonce("net", txc.counter, 0)})
        /\ UNCHANGED <<seen, on, frames>>
    BY <1>2 DEF Send, MayStart
  <2>2. job'.sent = {} /\ ~job'.hold /\ job'.nonces = {Nonce("net", txc.counter, 0)}
    BY <2>1 DEF Job
  <2>3. Nonce("net", txc.counter, 0) \in Nonces /\ Nonce("net", txc.counter, 0).ctr = txc.counter
    BY <1>0, <2>1, NonceTyped DEF Nonce
  <2> QED
    BY <2>1, <2>2, <2>3, Reserved DEF NonceParts
<1>3. ASSUME NEW op \in AllOps \ {"send"}, NEW key \in {"net", "pairing"}, StartHolding(op, key)
      PROVE  NonceParts'
  <2>1. /\ on /\ job = NoJob /\ ~txc.locked
        /\ job' = Job(op, TRUE, {Nonce(key, txc.counter, 0)})
        /\ UNCHANGED <<wm, seen, on, txc, frames>>
    BY <1>3 DEF StartHolding, MayStart
  <2>2. /\ job'.sent = {} /\ job'.hold /\ job'.op # "send"
        /\ job'.nonces = {Nonce(key, txc.counter, 0)}
    BY <2>1 DEF Job
  <2>3. Nonce(key, txc.counter, 0) \in Nonces /\ Nonce(key, txc.counter, 0).ctr = txc.counter
    BY <1>0, <2>1, NonceTyped DEF Nonce
  <2>4. txc.counter < MaxCtr =>
          Nonce(key, txc.counter, 0).ctr < wm /\ frames[Nonce(key, txc.counter, 0)] = 0
    BY <2>1, <2>3, FreshCounter
  <2>5. JobReserved'
    BY <2>1, <2>2, <2>3, <2>4 DEF JobReserved
  <2>6. Covered' /\ AiredBelowWatermark' /\ NonceUnique'
    BY <2>1 DEF NonceInv, Covered, AiredBelowWatermark, NonceUnique
  <2>7. Below'
    BY <2>1 DEF NonceInv, Below, NoJob
  <2> QED
    BY <2>5, <2>6, <2>7 DEF NonceParts
<1>4. CASE Serve
  <2>1. /\ on /\ job = NoJob /\ ~txc.locked /\ AdvanceTxCounter("serve")
        /\ UNCHANGED <<seen, on, frames>>
    BY <1>4 DEF Serve, MayStart
  <2> DEFINE ns == {Nonce("net", txc.counter, 0)} \cup {Nonce("net", txc'.counter, k) : k \in 0..Chunks}
  <2>2. job' = NoJob \/ job' = Job("serve", TRUE, ns)
    BY <1>4 DEF Serve
  <2>3. txc'.counter \in Counter
    BY <2>1, AdvanceTyped DEF NonceInv
  <2>4. ASSUME NEW n \in ns
        PROVE  n \in Nonces /\ n.ctr \in {txc.counter, txc'.counter}
    BY <1>0, <2>1, <2>3, NonceTyped DEF Nonce
  <2>5. "serve" \notin FailsIn
    BY DEF FaultsTolerated
  <2>6. CASE job' = NoJob
    BY <2>1, <2>6, Reserved DEF NonceParts
  <2>7. CASE job' = Job("serve", TRUE, ns)
    <3>1. job'.sent = {} /\ job'.hold /\ job'.op = "serve" /\ job'.nonces = ns
      BY <2>7 DEF Job
    <3> HIDE DEF ns
    <3> QED
      BY <2>1, <2>4, <2>5, <3>1, Reserved DEF NonceParts
  <2> QED
    BY <2>2, <2>6, <2>7
<1>5. ASSUME NEW n \in Nonces, Air(n)
      PROVE  NonceParts'
  BY <1>5, AirNonces
<1>6. CASE Spend
  <2>1. /\ on /\ job # NoJob /\ job.hold /\ AdvanceTxCounter(job.op) /\ job' = NoJob
        /\ UNCHANGED <<seen, on, frames>>
    BY <1>0, <1>6 DEF Spend, NoJob, JobRuns
  <2>2. ~txc.locked \/ txc.counter = MaxCtr
    BY <2>1 DEF NonceInv, JobReserved
  <2> QED
    BY <2>1, <2>2, Reserved DEF NonceParts
<1>7. ASSUME NEW op \in {"pair", "fetch"}, NEW key \in {"net", "pairing"}, NEW k \in 0..Chunks,
             SpendAndGoOn(op, key, k)
      PROVE  NonceParts'
  <2>1. /\ on /\ job # NoJob /\ job.hold /\ AdvanceTxCounter(op)
        /\ job' = Job(op, TRUE, {Nonce(key, txc'.counter, k)})
        /\ UNCHANGED <<seen, on, frames>>
    BY <1>0, <1>7 DEF SpendAndGoOn, NoJob, JobRuns
  <2>2. ~txc.locked \/ txc.counter = MaxCtr
    BY <2>1 DEF NonceInv, JobReserved
  <2>3. /\ job'.sent = {} /\ job'.hold /\ job'.op = op
        /\ job'.nonces = {Nonce(key, txc'.counter, k)}
    BY <2>1 DEF Job
  <2>4. txc'.counter \in Counter
    BY <2>1, AdvanceTyped DEF NonceInv
  <2>5. Nonce(key, txc'.counter, k) \in Nonces /\ Nonce(key, txc'.counter, k).ctr = txc'.counter
    BY <2>4, NonceTyped DEF Nonce
  <2>6. op # "send" /\ op \notin FailsIn
    BY DEF FaultsTolerated
  <2> QED
    BY <2>1, <2>2, <2>3, <2>5, <2>6, Reserved DEF NonceParts
<1>8. CASE Return
  <2>1. job # NoJob /\ job' = NoJob /\ UNCHANGED <<wm, seen, on, txc, frames>>
    BY <1>8 DEF Return
  <2>2. job.hold => job.op # "send"
    BY <2>1 DEF NonceInv, JobReserved
  <2>3. job.hold => job.sent = {}
    BY <1>8, <2>2 DEF Return, FaultsTolerated
  <2>4. Below'
    BY <2>1, <2>3 DEF NonceInv, Below
  <2> QED
    BY <2>1, <2>4 DEF NonceInv, NonceParts, Covered, JobReserved, AiredBelowWatermark, NonceUnique
<1>9. CASE Receive
  BY <1>9 DEF Receive, NonceInv, NonceParts, Covered, Below, JobReserved, AiredBelowWatermark, NonceUnique
<1>10. CASE PowerLoss
  BY <1>10 DEF PowerLoss, NonceInv, NonceParts, Covered, Below, JobReserved, AiredBelowWatermark, NonceUnique
<1>11. CASE LoseWatermark
  <2>1. job = NoJob /\ ~on /\ seen /\ wm' = 0 /\ UNCHANGED <<seen, on, txc, job, frames>>
    BY <1>0, <1>11 DEF LoseWatermark, JobRuns
  <2> QED
    BY <2>1 DEF NonceInv, NonceParts, Covered, Below, JobReserved, AiredBelowWatermark, NonceUnique
<1>12. CASE UNCHANGED vars
  BY <1>12 DEF vars, NonceInv, NonceParts, Covered, Below, JobReserved, AiredBelowWatermark, NonceUnique
<1> QED
  BY <1>1, <1>2, <1>3, <1>4, <1>5, <1>6, <1>7, <1>8, <1>9, <1>10, <1>11, <1>12
  DEF Next, NextChunk, AllOps

(* The invariant holds in every behaviour under tolerated faults. *)
LEMMA NonceInvariant ==
  ASSUME FaultsTolerated
  PROVE  Spec => []NonceInv
<1>1. Init => NonceInv
  <2> SUFFICES ASSUME Init
               PROVE  NonceInv
    OBVIOUS
  <2>1. ~on /\ job = NoJob /\ \A n \in Nonces : frames[n] = 0
    BY DEF Init
  <2> QED
    BY <2>1, TypeInit DEF NonceInv, Covered, Below, JobReserved, AiredBelowWatermark, NonceUnique
<1> QED
  BY <1>1, NonceStep, PTL DEF Spec

(* No CCM nonce below the ceiling ever seals two frames, however often     *)
(* the power fails, whatever watermark writes of a boot, a send or an FHSS *)
(* send fail, and even if the store loses the watermark (txctr.rs: "a      *)
(* counter value is never used twice under one key").                      *)
THEOREM NoncesUnique ==
  ASSUME FaultsTolerated
  PROVE  Spec => []NonceUnique
<1>1. NonceInv => NonceUnique
  BY DEF NonceInv
<1> QED
  BY <1>1, NonceInvariant, PTL

(* Nothing is on air that the next boot does not resume above, the store   *)
(* having lost its watermark apart.                                        *)
THEOREM DurablyReserved ==
  ASSUME FaultsTolerated
  PROVE  Spec => []AiredBelowWatermark
<1>1. NonceInv => AiredBelowWatermark
  BY DEF NonceInv
<1> QED
  BY <1>1, NonceInvariant, PTL
=============================================================================
