-------------------------------- MODULE Led --------------------------------
(***************************************************************************)
(* The LED (led.rs): a queue of commands, and a dispatcher that plays one- *)
(* shot pulses over a background pattern.  A command that finds the queue  *)
(* full is lost, and nobody sends it again.                                *)
(***************************************************************************)
EXTENDS Naturals, Sequences

CONSTANTS
  LedDepth,  (* QUEUE_DEPTH                                               *)
  Dark       (* no background                                             *)

ASSUME LedConstants == LedDepth \in Nat \ {0} /\ Dark # "pulse"

VARIABLES
  commands,    (* the queue: "pulse", or the background that is asked for *)
  background,  (* the pattern that is shown                               *)
  lost         (* history: the latest background asked for was lost       *)

led == <<commands, background, lost>>

(* try_send of each command of a sequence, one after the other.            *)
Ask(cs) ==
  LET room == LedDepth - Len(commands)
      bgs == {i \in DOMAIN cs : cs[i] # "pulse"}
  IN /\ commands' = commands \o (IF Len(cs) <= room THEN cs ELSE SubSeq(cs, 1, room))
     /\ lost' = IF bgs = {} THEN lost ELSE \E i \in bgs : i > room
     /\ UNCHANGED background

(* The dispatcher takes a command: it shows the background asked for, or   *)
(* plays a pulse and goes back to it.                                      *)
Dispatch ==
  /\ commands # <<>>
  /\ commands' = Tail(commands)
  /\ background' = IF Head(commands) = "pulse" THEN background ELSE Head(commands)
  /\ UNCHANGED lost

LedInit(first) == commands = first /\ background = Dark /\ lost = FALSE

LedStarts(first) == commands' = first /\ background' = Dark /\ lost' = FALSE

(* What the LED shows once it has caught up. *)
Shows ==
  LET bgs == {i \in DOMAIN commands : commands[i] # "pulse"}
  IN IF bgs = {} THEN background
     ELSE commands[CHOOSE i \in bgs : \A k \in bgs : k <= i]
=============================================================================
