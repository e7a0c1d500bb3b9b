---------------------------- MODULE Maintenance ----------------------------
(***************************************************************************)
(* The background task of the storage service (src/storage.rs), beside the *)
(* console whose state it follows: it works in slices, keeps out of the    *)
(* way of a host that is talking, and sleeps on a signal that every write  *)
(* raises.  What a slice does is the business of KvStore; here only the    *)
(* number of slices still needed counts.                                   *)
(***************************************************************************)
EXTENDS Console

CONSTANTS
  MaxWork,   (* model bound: the slices a write can make necessary        *)
  MaxWrites  (* model bound: writes                                       *)

ASSUME MaintenanceConstants ==
  MaxWork \in Nat \ {0} /\ MaxWrites \in Nat

VARIABLES
  maint,  (* the task: before a slice (and its pause after the last one), *)
          (* waiting for the host to be quiet, or asleep                  *)
  wake,   (* MAINT_WAKE                                                   *)
  work,   (* slices the store still needs                                 *)
  writes,
  gaveUp  (* a slice failed, and nothing was written since                *)

store == <<maint, wake, work, writes, gaveUp>>
allVars == <<consoleVars, store>>

(* A write that forgets to wake the task. *)
NoSignal == wake

Signal == TRUE

(* A write or a delete: it may leave any amount of work behind. *)
KvWrite ==
  /\ writes < MaxWrites /\ writes' = writes + 1
  /\ \E w \in work..MaxWork : work' = w
  /\ wake' = Signal
  /\ gaveUp' = FALSE
  /\ UNCHANGED <<consoleVars, maint>>

(* At the end of its work the task waits for the signal: if it was raised  *)
(* already, it is taken at once.                                           *)
Wait == maint' = (IF wake THEN "decide" ELSE "asleep") /\ wake' = FALSE

(* One slice: a failing one is taken for the end of the work.              *)
Slice ==
  \/ /\ work' = (IF work > 0 THEN work - 1 ELSE 0)
     /\ IF work' > 0 THEN maint' = "decide" /\ UNCHANGED wake ELSE Wait
     /\ UNCHANGED gaveUp
  \/ /\ Wait
     /\ gaveUp' = TRUE
     /\ UNCHANGED work

(* A slice starts when the host is quiet or the console is down.  Once the *)
(* task waits for quiet, it does not look at the console again.            *)
Maintain ==
  /\ maint \in {"decide", "quiet"}
  /\ IF recent /\ (up \/ maint = "quiet")
     THEN maint' = "quiet" /\ UNCHANGED <<wake, work, gaveUp>>
     ELSE Slice
  /\ UNCHANGED <<consoleVars, writes>>

Woken ==
  /\ maint = "asleep" /\ wake
  /\ maint' = "decide" /\ wake' = FALSE
  /\ UNCHANGED <<consoleVars, work, writes, gaveUp>>

MaintenanceInit ==
  /\ ConsoleInit
  /\ maint = "decide" /\ wake = FALSE /\ work \in 0..MaxWork
  /\ writes = 0 /\ gaveUp = FALSE

MaintenanceStep == Maintain \/ Woken

MaintenanceNext ==
  \/ ConsoleNext /\ UNCHANGED store
  \/ KvWrite \/ MaintenanceStep

MaintenanceSpec == MaintenanceInit /\ [][MaintenanceNext]_allVars

(* The task's polls are timers and signals. *)
FairMaintenance == MaintenanceSpec /\ ConsoleFairness /\ WF_allVars(MaintenanceStep)

(* The work a write leaves gets done, however the console and the host     *)
(* behave, unless a slice fails: then it waits for the next write          *)
(* (maintenance, Nv's writes).                                             *)
MaintenanceRuns == (work > 0) ~> (work = 0 \/ gaveUp)

=============================================================================
