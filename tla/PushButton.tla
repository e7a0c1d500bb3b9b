----------------------------- MODULE PushButton -----------------------------
(***************************************************************************)
(* The push-button node (radio_push_button.rs): one loop that waits for    *)
(* the button, its timers, the tilt interrupt and requests over the cable, *)
(* and sends, joins and provisions one after the other, beside the         *)
(* button's and the LED's tasks and a shell that works on the same store.  *)
(*                                                                         *)
(* A join and an uplink are modelled by how they end: Pairing, Link and    *)
(* Downlink model what happens on air.                                     *)
(***************************************************************************)
EXTENDS Button, Led, FiniteSets

CONSTANTS
  Gateways,  (* the addresses of gateways                                 *)
  Addrs      (* the addresses a host may give to the node                 *)

ASSUME PushButtonConstants ==
  /\ None \notin Gateways /\ None \notin Addrs
  /\ None \notin [gw : Gateways, addr : Addrs \cup {None}]

VARIABLES
  main,      (* where the loop is                                         *)
  provision, (* provision: the gateway, or None                           *)
  record,    (* stored: KEY_PROVISION                                     *)
  pinned,    (* stored: the `addr` setting                                *)
  shell,     (* shell_rx_task: "idle", or a reboot on its way             *)
  promised,  (* history: an accepted provisioning, or None                *)
  unsaved,   (* history: "hold" or "cable": the record of such a join was *)
             (* not written                                               *)
  erased     (* history: the shell changed the store since the boot, or   *)
             (* since a provisioning was accepted                         *)

node == <<main, provision, record, pinned, shell, promised, unsaved, erased>>
vars == <<button, led, node>>

Store == <<record, pinned>>

(* The background that fits. *)
Fitting(p) == IF p = None THEN "unprovisioned" ELSE Dark

Waits == main' = "wait"

(* A join by cable has ended after the one that was not written. *)
Settled == IF unsaved = "cable" THEN "none" ELSE unsaved

-----------------------------------------------------------------------------
(* The button. *)

(* ota_join begins. *)
HoldJoins ==
  /\ main' = "hold_join" /\ Ask(<<"joining">>)

(* An event: a hold joins while the node is unpaired; else it is shown and *)
(* sent, if it is enabled.                                                 *)
OnEvent ==
  /\ main = "wait" /\ queue # <<>>
  /\ queue' = Tail(queue)
  /\ \/ provision = None /\ Head(queue) = "hold" /\ HoldJoins
     \/ provision = None /\ Head(queue) # "hold" /\ UNCHANGED <<main, led>>
     \/ provision # None /\ UNCHANGED <<main, led>>
     \/ provision # None /\ main' = "uplink" /\ Ask(<<"pulse">>)
  /\ UNCHANGED <<pin, sim, scan, gesture, inputs>>
  /\ UNCHANGED <<provision, record, pinned, shell, promised, unsaved, erased>>

(* ota_join ends: a node that joined goes on as paired even if its record  *)
(* is not written, and sends its Info.                                     *)
HoldJoined ==
  /\ main = "hold_join"
  /\ \E g \in Gateways :
       /\ provision' = g /\ main' = "uplink" /\ Ask(<<Dark>>)
       /\ \/ record' = g /\ unsaved' = "none"
          \/ record' = record /\ unsaved' = "hold"
  /\ UNCHANGED <<button, pinned, shell, promised, erased>>

HoldGivesUp ==
  /\ main = "hold_join"
  /\ Waits /\ Ask(<<"unprovisioned">>) /\ unsaved' = Settled
  /\ UNCHANGED <<button, provision, record, pinned, shell, promised, erased>>

-----------------------------------------------------------------------------
(* Timers, tilts and uplinks. *)

(* A temperature, a heartbeat or a tilt: only a paired node sends it.      *)
OnOther ==
  /\ main = "wait" /\ provision # None
  /\ main' = "uplink"
  /\ UNCHANGED <<button, led, provision, record, pinned, shell, promised, unsaved, erased>>

UplinkEnds ==
  /\ main = "uplink"
  /\ Waits
  /\ UNCHANGED <<button, led, provision, record, pinned, shell, promised, unsaved, erased>>

(* A command in a window of the uplink: the radio shell has the same       *)
(* handlers, and resets when its reply is over.                            *)
Remote ==
  /\ main = "uplink"
  /\ \/ pinned' \in Addrs \cup {None} /\ UNCHANGED <<main, record>>
     \/ record' = None /\ pinned' = None /\ main' = "reset"
     \/ main' = "reset" /\ UNCHANGED Store
  /\ erased' = (erased \/ Store' # Store)
  /\ UNCHANGED <<button, led, provision, shell, promised, unsaved>>

-----------------------------------------------------------------------------
(* The cable. *)

(* After a request a paired node clears the background.                    *)
AfterRequest(p) == IF p = None THEN <<>> ELSE <<Dark>>

(* Describe, and what is refused. *)
Describe ==
  /\ main = "wait"
  /\ Ask(AfterRequest(provision))
  /\ UNCHANGED <<button, node>>

(* Provision, with the record first. *)
ProvisionRecordFirst(g, a) ==
  \/ UNCHANGED <<record, pinned, unsaved, promised, main>>
  \/ record' = g /\ UNCHANGED <<pinned, unsaved, promised, main>>
  \/ /\ record' = g /\ pinned' = IF a = None THEN pinned ELSE a
     /\ unsaved' = "none" /\ promised' = [gw |-> g, addr |-> a]
     /\ main' = "reset"

(* Provision: the address first, if one is given; then the record, which   *)
(* is the commit; then the answer.  Each write may fail.                   *)
ProvisionWrites(g, a) ==
  \/ UNCHANGED <<record, pinned, unsaved, promised, main>>
  \/ a # None /\ pinned' = a /\ UNCHANGED <<record, unsaved, promised, main>>
  \/ /\ record' = g /\ pinned' = IF a = None THEN pinned ELSE a
     /\ unsaved' = "none" /\ promised' = [gw |-> g, addr |-> a]
     /\ main' = "reset"

Provision ==
  /\ main = "wait"
  /\ \E g \in Gateways, a \in Addrs \cup {None} :
       /\ ProvisionWrites(g, a)
       /\ erased' = IF promised' = None THEN erased ELSE FALSE
  /\ Ask(AfterRequest(provision))
  /\ UNCHANGED <<button, provision, shell>>

JoinOpen ==
  /\ main = "wait"
  /\ main' = "cable_join" /\ Ask(<<"joining">>)
  /\ UNCHANGED <<button, provision, record, pinned, shell, promised, unsaved, erased>>

(* A join that leaves the background as it is. *)
StillJoining == <<>>

(* A join that finds no gateway: the background that fits. *)
NotJoined == <<Fitting(provision)>>

JoinEnds ==
  /\ main = "cable_join"
  /\ Waits
  /\ \/ \E g \in Gateways :
          /\ record' = g /\ provision' = g /\ unsaved' = "none"
          /\ Ask(AfterRequest(g))
     \/ /\ Ask(AfterRequest(provision))
        /\ unsaved' = IF unsaved = "hold" THEN "hold" ELSE "cable"
        /\ UNCHANGED <<record, provision>>
     \/ /\ Ask(NotJoined \o AfterRequest(provision))
        /\ unsaved' = Settled
        /\ UNCHANGED <<record, provision>>
  /\ UNCHANGED <<button, pinned, shell, promised, erased>>

-----------------------------------------------------------------------------
(* The shell on the cable, and the reset. *)

ShellSets ==
  /\ shell = "idle"
  /\ pinned' \in Addrs \cup {None}
  /\ erased' = (erased \/ pinned' # pinned)
  /\ UNCHANGED <<button, led, main, provision, record, shell, promised, unsaved>>

(* wipe and reboot answer first: the app goes on until the reset.          *)
ShellWipes ==
  /\ shell = "idle" /\ shell' = "reset"
  /\ record' = None /\ pinned' = None /\ erased' = TRUE
  /\ UNCHANGED <<button, led, main, provision, promised, unsaved>>

ShellReboots ==
  /\ shell = "idle" /\ shell' = "reset"
  /\ UNCHANGED <<button, led, main, provision, record, pinned, promised, unsaved, erased>>

(* A node that comes up unpaired shows it. *)
BootPattern(r) == IF r = None THEN <<"unprovisioned">> ELSE <<>>

Boots(r, p) ==
  /\ main = "wait" /\ provision = r /\ record = r /\ pinned = p
  /\ shell = "idle" /\ promised = None /\ unsaved = "none" /\ erased = FALSE

Reset ==
  /\ "reset" \in {main, shell}
  /\ ButtonStarts
  /\ main' = "wait" /\ provision' = record /\ shell' = "idle"
  /\ promised' = None /\ unsaved' = "none" /\ erased' = FALSE
  /\ LedStarts(BootPattern(record))
  /\ UNCHANGED <<pin, inputs, record, pinned>>

-----------------------------------------------------------------------------

Init ==
  /\ ButtonInit
  /\ \E r \in Gateways \cup {None}, p \in Addrs \cup {None} :
       Boots(r, p) /\ LedInit(BootPattern(r))

Loop ==
  \/ OnEvent \/ HoldJoined \/ HoldGivesUp \/ OnOther \/ UplinkEnds \/ Remote
  \/ Describe \/ Provision \/ JoinOpen \/ JoinEnds

Next ==
  \/ ButtonNext /\ UNCHANGED <<led, node>>
  \/ Dispatch /\ UNCHANGED <<button, node>>
  \/ Loop
  \/ ShellSets \/ ShellWipes \/ ShellReboots \/ Reset

Spec == Init /\ [][Next]_vars

(* What the loop works with is what is stored: a request that was refused  *)
(* changed neither, a join that was reported is in both, and an accepted   *)
(* provisioning is in the store, with the address it names, for the reboot *)
(* it announces. Only a join by hand may go on unsaved, and the shell may    *)
(* have changed the store meanwhile (handle_mgmt, ota_join; the order of   *)
(* the two writes of Provision).                                           *)
ProvisionTruthful ==
  ~erased =>
    IF promised = None
    THEN unsaved = "hold" \/ provision = record
    ELSE record = promised.gw /\ promised.addr \in {None, pinned}

(* While the loop waits, the LED shows, or will with what it has been      *)
(* asked, whether the node is paired: no joining pattern outlasts its join.*)
(* Excepted are a join by cable whose record could not be written, and a   *)
(* pattern that found the LED's queue full (run, ota_join, handle_mgmt).   *)
LedTruthful ==
  main = "wait" /\ ~lost /\ unsaved # "cable" => Shows = Fitting(provision)
=============================================================================
