------------------------------- MODULE Button -------------------------------
(***************************************************************************)
(* The button driver (button.rs): one task that debounces the input and    *)
(* makes presses, releases, clicks and holds of it.  It sleeps while the   *)
(* button is released, and samples while a press is being processed, late  *)
(* if something else keeps the executor busy.  A simulated press reads as  *)
(* pressed until its time is over.  Times are in sampling intervals.       *)
(***************************************************************************)
EXTENDS Integers, Sequences

CONSTANTS
  DebouncePress, DebounceRelease, ClickTimeout, HoldTime,  (* Config       *)
  QueueDepth,  (* QUEUE_DEPTH                                             *)
  SimTimes,    (* the simulated presses: how long                         *)
  MaxLag,      (* model bound: how late a sample may be                   *)
  MaxInputs,   (* model bound: changes of the pin, and simulated presses  *)
  None

ASSUME ButtonConstants ==
  /\ {DebouncePress, DebounceRelease, ClickTimeout, HoldTime} \subseteq Nat \ {0}
  /\ {QueueDepth, MaxLag} \subseteq Nat \ {0} /\ MaxInputs \in Nat
  /\ SimTimes \subseteq Nat \ {0} /\ None \notin Nat

VARIABLES
  pin,      (* the input reads pressed                                    *)
  sim,      (* SIM: a simulated press that was asked for, or None         *)
  scan,     (* the state of scan_task                                     *)
  queue,    (* the events for the app                                     *)
  gesture,  (* history: the events made of the latest press               *)
  inputs    (* counts the inputs, for their bound                         *)

button == <<pin, sim, scan, queue, gesture, inputs>>

(* `until` is the time left of a simulated press, `since` the age of a     *)
(* candidate transition, `held` the time since the press.                  *)
Resting == [asleep |-> TRUE, pressed |-> FALSE, fired |-> FALSE, until |-> 0,
            since |-> None, held |-> 0]

(* try_send: what does not fit is lost. *)
Sent(events) ==
  LET room == QueueDepth - Len(queue)
  IN queue \o (IF Len(events) <= room THEN events ELSE SubSeq(events, 1, room))

Make(events) ==
  /\ queue' = Sent(events)
  /\ gesture' = IF events # <<>> /\ events[1] = "press" THEN {"press"}
                ELSE gesture \cup {events[i] : i \in DOMAIN events}

(* A release that makes a click whatever was made before. *)
ReleasedAfterHold(s) ==
  IF s.held <= ClickTimeout THEN <<"release", "click">> ELSE <<"release">>

(* A release makes a click if the press was short and was no hold.         *)
Released(s) ==
  IF ~s.fired /\ s.held <= ClickTimeout THEN <<"release", "click">> ELSE <<"release">>

Threshold(raw) == IF raw THEN DebouncePress ELSE DebounceRelease

(* A level that differs from the debounced state, and has for `age`.       *)
Differs(s, raw, age) ==
  IF age < Threshold(raw)
  THEN scan' = [s EXCEPT !.since = age] /\ Make(<<>>)
  ELSE /\ scan' = [s EXCEPT !.pressed = raw, !.since = None,
                            !.held = 0, !.fired = IF raw THEN FALSE ELSE @, !.asleep = ~raw]
       /\ Make(IF raw THEN <<"press">> ELSE Released(s))

(* A level that agrees: a press held long enough is a hold, once.          *)
Agrees(s, raw) ==
  LET holds == s.pressed /\ ~s.fired /\ s.held >= HoldTime
  IN /\ scan' = [s EXCEPT !.since = None, !.fired = @ \/ holds, !.asleep = ~raw]
     /\ Make(IF holds THEN <<"hold">> ELSE <<>>)

Lesser(a, b) == IF a < b THEN a ELSE b

(* Times past this one make no difference. *)
Longest == ClickTimeout + HoldTime

(* One pass of the loop, `d` after the last. *)
Pass(s, d) ==
  LET left == IF s.until > d THEN s.until - d ELSE 0
      aged == [s EXCEPT !.until = left, !.asleep = FALSE,
                        !.held = IF s.pressed THEN Lesser(@ + d, Longest) ELSE 0]
      raw == left > 0 \/ pin
  IN IF raw # s.pressed
     THEN Differs(aged, raw, IF s.since = None THEN 0 ELSE s.since + d)
     ELSE Agrees(aged, raw)

Sample ==
  /\ ~scan.asleep
  /\ \E d \in 1..MaxLag : Pass(scan, d)
  /\ UNCHANGED <<pin, sim, inputs>>

(* idle_wait: the pin is asked before the simulated press.                 *)
Wake ==
  /\ scan.asleep /\ (pin \/ sim # None)
  /\ IF pin THEN Pass(scan, 0) /\ UNCHANGED sim
            ELSE Pass([scan EXCEPT !.until = sim], 0) /\ sim' = None
  /\ UNCHANGED <<pin, inputs>>

Finger ==
  /\ inputs < MaxInputs /\ inputs' = inputs + 1
  /\ pin' = ~pin
  /\ UNCHANGED <<sim, scan, queue, gesture>>

(* simulate: a later one takes the place of one not begun. *)
Simulate ==
  /\ inputs < MaxInputs /\ inputs' = inputs + 1
  /\ sim' \in SimTimes
  /\ UNCHANGED <<pin, scan, queue, gesture>>

ButtonStarts == sim' = None /\ scan' = Resting /\ queue' = <<>> /\ gesture' = {}

ButtonInit ==
  pin = FALSE /\ sim = None /\ scan = Resting /\ queue = <<>> /\ gesture = {} /\ inputs = 0

ButtonNext == Sample \/ Wake \/ Finger \/ Simulate

(* A press is a click or a hold, never both, however the times are set and *)
(* however late the samples come (scan_task, hold_fired).                  *)
OneGesture == ~({"click", "hold"} \subseteq gesture)
=============================================================================
