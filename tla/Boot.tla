-------------------------------- MODULE Boot --------------------------------
(***************************************************************************)
(* A unit's boots and resets: the boot-loop guard, the session id, the     *)
(* crash record and the watchdog (src/bootguard.rs, crashlog.rs,           *)
(* watchdog.rs, and what the console and the app! macro do with them).     *)
(*                                                                         *)
(* A warm reset keeps the two .uninit records; losing power may keep or    *)
(* lose them.  Time is counted in ticks: what is due at a tick is done     *)
(* before the next one, unless the executor hangs.                         *)
(***************************************************************************)
EXTENDS Integers

CONSTANTS
  Threshold,  (* BOOT_LOOP_THRESHOLD                                      *)
  Healthy,    (* HEALTHY_UPTIME, in ticks                                 *)
  Half,       (* half the watchdog's timeout, in ticks                    *)
  MaxAge,     (* the age a check-in may reach, in ticks                   *)
  MaxBoots,   (* model bound: boots                                       *)
  MaxCrashes  (* model bound: panics and faults                           *)

ASSUME BootConstants ==
  /\ {Healthy, Half, MaxAge} \subseteq Nat \ {0} /\ Threshold \in Nat \ {0, 1}
  /\ {MaxBoots, MaxCrashes} \subseteq Nat

Timeout == 2 * Half

VARIABLES
  guard,    (* .uninit: the resets counted, or NoRecord                   *)
  record,   (* .uninit: the crash recorded, or 0                          *)
  stored,   (* EEPROM: the boot counter                                   *)
  pc,       (* how far the boot has come                                  *)
  resets,   (* RAM: the run of fast resets seen by this boot              *)
  session,  (* RAM: the session id                                        *)
  last,     (* RAM: the crash this boot reports, or 0                     *)
  uptime,   (* ticks since the guard ran, up to Healthy                   *)
  dog,      (* the watchdog: ticks left, or Unarmed                       *)
  feed,     (* ticks to the feeder's next turn                            *)
  age,      (* the age of the last check-in                               *)
  loop,     (* the main loop runs, is parked, or the executor hangs       *)
  silence,  (* history: ticks since the loop runs no more                 *)
  wear,     (* history: counter writes since the last healthy or cold boot*)
  told,     (* history: the session id, unless its write failed           *)
  previous, (* history: what the boot before told                         *)
  reports,  (* history: how often each crash was reported                 *)
  boots, crashes

NoRecord == -1
Unarmed == -1
NoSession == -1

retained == <<guard, record>>
watchdog == <<dog, feed, age>>
history == <<silence, wear, told, previous, reports>>
bounds == <<boots, crashes>>
bootVars == <<retained, stored, pc, resets, session, last, uptime, watchdog, loop, history, bounds>>

Crashes == 1..MaxCrashes

-----------------------------------------------------------------------------
(* The boot, in the order of the app! macro. *)

(* A warm reset taken for a cold boot. *)
CountFromZero == 0

(* on_boot: one more fast reset, or the first boot if there is no record.  *)
Count == IF guard = NoRecord THEN 0 ELSE guard + 1

OnBoot ==
  /\ pc = "start"
  /\ guard' = Count /\ resets' = Count
  /\ uptime' = 0
  /\ pc' = "counted"
  /\ UNCHANGED <<record, stored, session, last, watchdog, loop, history, bounds>>

IsLooping == resets >= Threshold

(* An id that moves with every reset, without a write. *)
LoopingId == stored + resets

(* init_session: in a loop nothing is written; else the counter moves on,  *)
(* and a write that fails is ignored.                                      *)
InitSession ==
  /\ pc = "counted"
  /\ IF IsLooping
     THEN session' = LoopingId /\ told' = session' /\ UNCHANGED <<stored, wear>>
     ELSE /\ session' = stored + 1
          /\ wear' = wear + 1
          /\ \/ stored' = stored + 1 /\ told' = session'
             \/ UNCHANGED <<stored, told>>
  /\ pc' = "session"
  /\ UNCHANGED <<retained, resets, last, uptime, watchdog, loop, silence, previous, reports,
                 bounds>>

(* A record that stays. *)
KeepRecord == record

ClearedRecord == 0

(* emit_crash_report: the record is taken, cleared, cached and logged.     *)
ReportCrash ==
  /\ pc = "session"
  /\ last' = record
  /\ record' = ClearedRecord
  /\ reports' = [c \in Crashes |-> IF c = record THEN reports[c] + 1 ELSE reports[c]]
  /\ pc' = "run"
  /\ UNCHANGED <<guard, stored, resets, session, uptime, watchdog, loop, silence, wear,
                 told, previous, bounds>>

(* enable and require_checkin: armed, fed and checked in.                  *)
Enable ==
  /\ pc = "run" /\ dog = Unarmed
  /\ dog' = Timeout /\ feed' = Half /\ age' = 0
  /\ UNCHANGED <<retained, stored, pc, resets, session, last, uptime, loop, history, bounds>>

-----------------------------------------------------------------------------
(* Time and the watchdog. *)

(* The feeder's gate, without the check-ins: the executor runs. *)
Running == TRUE

Live == age <= MaxAge

(* The feeder's turn: the dog is fed only if the last check-in is fresh.   *)
Feed ==
  /\ dog # Unarmed /\ feed = 0 /\ loop # "hung"
  /\ dog' = IF Live THEN Timeout ELSE dog
  /\ feed' = Half
  /\ UNCHANGED <<retained, stored, pc, resets, session, last, uptime, age, loop, history,
                 bounds>>

Checkin ==
  /\ dog # Unarmed /\ loop = "runs" /\ age > 0
  /\ age' = 0
  /\ UNCHANGED <<retained, stored, pc, resets, session, last, uptime, dog, feed, loop,
                 history, bounds>>

(* The main loop waits for something that never comes; or the executor     *)
(* itself does not get on any more.                                        *)
Stop ==
  /\ pc = "run" /\ loop = "runs"
  /\ loop' \in {"parked", "hung"}
  /\ UNCHANGED <<retained, stored, pc, resets, session, last, uptime, watchdog, history,
                 bounds>>

(* healthy_watch: after HEALTHY_UPTIME the run of resets is over.          *)
Age(now) ==
  /\ uptime' = now
  /\ IF uptime < now /\ now = Healthy THEN guard' = 0 /\ resets' = 0 /\ wear' = 0
     ELSE UNCHANGED <<guard, resets, wear>>

(* A tick: an iteration of the loop takes no more than MaxAge.             *)
Tick ==
  /\ pc = "run" /\ dog # 0
  /\ dog # Unarmed => (feed > 0 \/ loop = "hung") /\ (loop = "runs" => age < MaxAge)
  /\ Age(IF uptime < Healthy /\ loop # "hung" THEN uptime + 1 ELSE uptime)
  /\ IF dog = Unarmed THEN UNCHANGED <<watchdog, silence>>
     ELSE /\ dog' = dog - 1
          /\ feed' = (IF feed > 0 THEN feed - 1 ELSE 0)
          /\ age' = (IF age > MaxAge THEN age ELSE age + 1)
          /\ silence' = (IF loop = "runs" THEN 0 ELSE silence + 1)
  /\ UNCHANGED <<record, stored, pc, session, last, loop, told, previous, reports, bounds>>

-----------------------------------------------------------------------------
(* Resets. *)

(* RAM is initialised again. *)
Reset ==
  /\ boots < MaxBoots /\ boots' = boots + 1
  /\ pc' = "start"
  /\ resets' = 0 /\ last' = 0 /\ uptime' = 0
  /\ dog' = Unarmed /\ feed' = 0 /\ age' = 0
  /\ loop' = "runs" /\ silence' = 0
  /\ previous' = told /\ told' = NoSession
  /\ session' = 0
  /\ UNCHANGED <<stored, reports>>

(* The watchdog bites. *)
Bite ==
  /\ dog = 0 /\ Reset
  /\ UNCHANGED <<retained, wear, crashes>>

(* Panic or HardFault, anywhere: the record is written over.               *)
Crash ==
  /\ crashes < MaxCrashes /\ crashes' = crashes + 1
  /\ record' = crashes'
  /\ Reset
  /\ UNCHANGED <<guard, wear>>

(* A reset by pin or by the shell, or a power loss that leaves RAM intact. *)
WarmReset ==
  /\ Reset /\ UNCHANGED <<retained, wear, crashes>>

(* A power loss that does not: the magic numbers are gone. *)
ColdReset ==
  /\ guard' = NoRecord /\ record' = 0 /\ wear' = 0
  /\ Reset /\ UNCHANGED crashes

BootInit ==
  /\ guard = NoRecord /\ record = 0 /\ stored = 0
  /\ pc = "start" /\ resets = 0 /\ session = 0 /\ last = 0 /\ uptime = 0
  /\ dog = Unarmed /\ feed = 0 /\ age = 0 /\ loop = "runs"
  /\ silence = 0 /\ wear = 0 /\ told = NoSession /\ previous = NoSession
  /\ reports = [c \in Crashes |-> 0]
  /\ boots = 0 /\ crashes = 0

BootNext ==
  \/ OnBoot \/ InitSession \/ ReportCrash \/ Enable
  \/ Feed \/ Checkin \/ Stop \/ Tick
  \/ Bite \/ Crash \/ WarmReset \/ ColdReset

BootSpec == BootInit /\ [][BootNext]_bootVars

(* However often a unit is reset, it writes its boot counter at most       *)
(* BOOT_LOOP_THRESHOLD times between two boots that were healthy or cold,  *)
(* whenever the resets come (bootguard, init_session).                     *)
WearBounded == wear <= Threshold

(* The host can tell a boot from the one before: their session ids differ, *)
(* in a loop and out of it, unless a write failed (init_session).          *)
SessionMoves == previous # NoSession => told # previous

(* A crash is reported by one boot at most, and the record kept over a     *)
(* reset is the latest crash, not yet reported (crashlog record, take).    *)
CrashReportedOnce ==
  /\ \A c \in Crashes : reports[c] <= 1
  /\ record # 0 => record = crashes /\ reports[record] = 0

(* A main loop that stops checking in is reset in the time left by its     *)
(* last check-in and a whole timeout, and so is an executor that hangs     *)
(* (watchdog require_checkin, feeder, live).                               *)
HangBounded == silence <= MaxAge + Timeout

(* A loop that checks in within MaxAge is never reset by the watchdog      *)
(* (feeder, live).                                                         *)
HealthyNotBitten == loop = "runs" => dog # 0
=============================================================================
