----------------------------- MODULE Commands -----------------------------
(***************************************************************************)
(* What the downlink path promises the host about remote commands: a node  *)
(* runs the commands queued for it in the order they were accepted, each   *)
(* at most once per boot.  A command may be forgotten (expired, dropped,   *)
(* lost with the gateway's RAM), and one that was not reported delivered   *)
(* may be run again after the node rebooted.                               *)
(***************************************************************************)
EXTENDS Integers, Sequences

CONSTANTS Nodes, Epochs, Ids

(* A command is known by the host's process and its number there. *)
Command == [epoch : 1..Epochs, id : 1..Ids]
Before(c, d) == c.epoch < d.epoch \/ (c.epoch = d.epoch /\ c.id < d.id)

VARIABLES
  waiting,   (* the commands a node may still run                         *)
  ran        (* the commands a node ran in this boot, in order            *)

vars == <<waiting, ran>>

NotYetRun(n, c) == \A i \in DOMAIN ran[n] : Before(ran[n][i], c)

Init == /\ waiting = [n \in Nodes |-> {}]
        /\ ran = [n \in Nodes |-> <<>>]

(* The host's commands are accepted in their order. *)
Accept(n, c) == /\ \A m \in Nodes : \A d \in waiting[m] : Before(d, c)
                /\ NotYetRun(n, c)
                /\ waiting' = [waiting EXCEPT ![n] = @ \cup {c}]
                /\ UNCHANGED ran

(* A command is run; it may stay queued until its delivery is known.       *)
Run(n, c) == /\ c \in waiting[n]
             /\ \A d \in waiting[n] : ~Before(d, c)
             /\ NotYetRun(n, c)
             /\ ran' = [ran EXCEPT ![n] = Append(@, c)]
             /\ waiting' \in {waiting, [waiting EXCEPT ![n] = @ \ {c}]}

Forget == /\ \A n \in Nodes : waiting'[n] \subseteq waiting[n]
          /\ UNCHANGED ran

Reboot(n) == /\ ran' = [ran EXCEPT ![n] = <<>>]
             /\ waiting'[n] \subseteq waiting[n]
             /\ \A m \in Nodes \ {n} : waiting'[m] = waiting[m]

Next == \/ \E n \in Nodes, c \in Command : Accept(n, c) \/ Run(n, c)
        \/ \E n \in Nodes : Reboot(n)
        \/ Forget

Spec == Init /\ [][Next]_vars
=============================================================================
