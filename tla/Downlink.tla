----------------------------- MODULE Downlink -----------------------------
(***************************************************************************)
(* Remote commands from the host, through the gateway's queue, into the    *)
(* receive window of a sleeping node, and the replies back.                *)
(*                                                                         *)
(* The gateway is one loop (apps/radio_dongle_gateway.rs): it serves the   *)
(* host, listens, and after each uplink sends the first queued item of     *)
(* that node, confirmed.  The flag `pending` of a peer rides every ACK of  *)
(* the gateway.  A node (apps/radio_push_button.rs) wakes, sends an uplink *)
(* and, if its ACK carried the flag, opens a window for one command; it    *)
(* runs the command and sends the reply as confirmed uplinks, and the ACK  *)
(* of the last of them opens the next window.                              *)
(*                                                                         *)
(* One try of a confirmed send (radio/net/mod.rs) is one step: the frame   *)
(* is heard or not, its ACK is heard or not.  Nobody hears a frame while   *)
(* waiting for an ACK of its own, so tries can cross.  A receiver takes    *)
(* the first copy it hears and only acknowledges the others.  Time is not  *)
(* counted: a window may end, an item may outlive its TTL at any moment.   *)
(***************************************************************************)
EXTENDS Integers, Sequences, FiniteSets

CONSTANTS
  Nodes,
  QueueCap,      (* QUEUE_CAP: items in all                               *)
  PerNodeCap,    (* PER_NODE_CAP: items per node                          *)
  DownlinkReps,  (* DOWNLINK_REPS: tries of a queued item                 *)
  UplinkReps,    (* tries of an uplink                                    *)
  ChunkReps,     (* CHUNK_REPS: tries of a reply chunk                    *)
  Chunks,        (* model bound: the frames of a reply                    *)
  Epochs,        (* model bound: processes of the host                    *)
  Ids,           (* model bound: commands per process                     *)
  MaxResets,     (* model bound: resets of nodes and gateway              *)
  None

ASSUME DownlinkConstants ==
  /\ {QueueCap, PerNodeCap, DownlinkReps, UplinkReps, ChunkReps, Chunks, Epochs, Ids}
       \subseteq Nat \ {0}
  /\ MaxResets \in Nat

VARIABLES
  queue,     (* gateway RAM: the queued items                             *)
  nextOrder, (* gateway RAM: the order stamp of the next item             *)
  pending,   (* gateway RAM: the flag of each peer                        *)
  gw,        (* gateway: listening, or sending an item                    *)
  node,      (* what each node is doing                                   *)
  last,      (* node RAM: the last command run, for the dedup             *)
  host,      (* the host's process and its last command id                *)
  ran,       (* history: the commands run since the node booted            *)
  fate,      (* history: the commands run, or cut off by a node's reset   *)
  report,    (* history: the final outcome told to the host               *)
  text,      (* history: the text chunks of a reply the host was given    *)
  done,      (* history: commands whose last chunk the host was given     *)
  resets

gateway == <<queue, nextOrder, pending, gw, report>>
replies == <<text, done>>
vars == <<gateway, node, last, host, ran, fate, replies, resets>>

Command == [epoch : 1..Epochs, id : 1..Ids]
Before(c, d) == c.epoch < d.epoch \/ (c.epoch = d.epoch /\ c.id < d.id)

(* None stands for no command and for no node. *)
ASSUME NoneIsNone == None \notin Command \cup Nodes

-----------------------------------------------------------------------------
(* The queue (queue.rs). *)

ItemsOf(n) == {it \in queue : it.node = n}

(* The oldest item of a node that is not expired: one item, or none.       *)
PeekFor(n, expired) ==
  LET live == {it \in ItemsOf(n) : it.cmd \notin expired}
  IN  {it \in live : \A x \in live : it.order <= x.order}

Without(cmds) == {it \in queue : it.cmd \notin cmds}

HasItem(n, items) == \E it \in items : it.node = n

HasRoom(n) == Cardinality(queue) < QueueCap /\ Cardinality(ItemsOf(n)) < PerNodeCap

Queued == {it.cmd : it \in queue}

-----------------------------------------------------------------------------
(* The gateway's loop. *)

Listening == [pc |-> "listen", node |-> None, cmd |-> None, tries |-> 0, heard |-> FALSE,
              expired |-> {}]

Owners(cmds) == {it.node : it \in {i \in queue : i.cmd \in cmds}}

(* The flags of other nodes whose items expired stay as they are. *)
FlagsOfServed(served, expired, items) ==
  [n \in Nodes |-> IF n \in served THEN HasItem(n, items) ELSE pending[n]]

(* The node has been sent its item, so the flag is cleared. *)
FlagsCleared(served, expired, items) ==
  [n \in Nodes |-> IF n \in served THEN FALSE
                   ELSE IF n \in Owners(expired) THEN HasItem(n, items) ELSE pending[n]]

(* The flags of the node served and of those whose items expired are       *)
(* computed anew from the items left.                                      *)
Flags(served, expired, items) ==
  [n \in Nodes |-> IF n \in served \cup Owners(expired) THEN HasItem(n, items)
                   ELSE pending[n]]

(* The rest of an iteration: a delivered item is popped, what had expired  *)
(* when the iteration began is dropped and reported.                       *)
EndOfLoop(served, delivered, expired) ==
  /\ queue' = Without(delivered \cup expired)
  /\ pending' = Flags(served, expired, queue')
  /\ report' = [c \in Command |-> IF c \in delivered THEN "delivered"
                                  ELSE IF c \in expired THEN "expired" ELSE report[c]]
  /\ gw' = Listening
  /\ UNCHANGED nextOrder

(* A fresh uplink of n: send its first item, if it has one.                *)
Serve(n, expired) ==
  \/ PeekFor(n, expired) = {} /\ EndOfLoop({n}, {}, expired)
  \/ /\ \E it \in PeekFor(n, expired) :
          gw' = [pc |-> "send", node |-> n, cmd |-> it.cmd, tries |-> 0, heard |-> FALSE,
                 expired |-> expired]
     /\ UNCHANGED <<queue, nextOrder, pending, report>>

(* An iteration that hears nothing, and finds items expired.               *)
Expire == /\ gw.pc = "listen"
          /\ \E expired \in SUBSET Queued \ {{}} : EndOfLoop({}, {}, expired)
          /\ UNCHANGED <<node, last, host, ran, fate, replies, resets>>

-----------------------------------------------------------------------------
(* The host's requests, served at the top of the loop. *)

QueuePush(n) ==
  LET c == [epoch |-> host.epoch, id |-> host.id + 1]
  IN  /\ gw.pc = "listen" /\ c \in Command
      /\ HasRoom(n)
      /\ queue' = queue \cup {[node |-> n, cmd |-> c, order |-> nextOrder]}
      /\ nextOrder' = nextOrder + 1
      /\ pending' = [pending EXCEPT ![n] = TRUE]
      /\ host' = [host EXCEPT !.id = @ + 1]
      /\ UNCHANGED <<gw, report, node, last, ran, fate, replies, resets>>

(* One item by id, or all the items of a node.                             *)
QueueDrop(n) ==
  /\ gw.pc = "listen"
  /\ LET own == {it.cmd : it \in ItemsOf(n)}
     IN  \E cmds \in {{c} : c \in own} \cup {own} :
           /\ cmds # {}
           /\ queue' = Without(cmds)
           /\ pending' = [pending EXCEPT ![n] = HasItem(n, queue')]
  /\ UNCHANGED <<gw, nextOrder, report, node, last, host, ran, fate, replies, resets>>

(* A new process of the host counts its commands from the start again.     *)
HostRestart == /\ host.epoch < Epochs
               /\ host' = [epoch |-> host.epoch + 1, id |-> 0]
               /\ UNCHANGED <<gateway, node, last, ran, fate, replies, resets>>

-----------------------------------------------------------------------------
(* A node's state. *)

At(pc, c) == [pc |-> pc, cmd |-> c, chunk |-> 0, repeat |-> FALSE, tries |-> 0, heard |-> FALSE]
Asleep == At("asleep", None)
Uplink == At("uplink", None)
Window == At("window", None)
Running(c) == At("run", c)

(* Sending: an uplink of its own, or a chunk of a reply.  `heard` tells    *)
(* whether the gateway has taken the frame, `repeat` that the reply only   *)
(* completes a command that was run before.                                *)
Reply(c, chunk, repeat) ==
  [pc |-> "reply", cmd |-> c, chunk |-> chunk, repeat |-> repeat, tries |-> 0, heard |-> FALSE]

Sending(n) == node[n].pc \in {"uplink", "reply"}
Reps(m) == IF m.pc = "uplink" THEN UplinkReps ELSE ChunkReps

LastChunk(m) == m.repeat \/ m.chunk = Chunks - 1

(* A reply goes on after a chunk that was not delivered. *)
AfterSendGoingOn(m, delivered, flag) ==
  IF m.pc = "reply" /\ ~LastChunk(m) THEN Reply(m.cmd, m.chunk + 1, FALSE)
  ELSE IF delivered /\ flag THEN Window ELSE Asleep

(* What a node does when its confirmed send is over: the next chunk, a     *)
(* window if the last ACK asked for one, or sleep.  A reply that lost a    *)
(* chunk is abandoned.                                                     *)
AfterSend(m, delivered, flag) ==
  IF m.pc = "reply" /\ delivered /\ ~LastChunk(m) THEN Reply(m.cmd, m.chunk + 1, FALSE)
  ELSE IF delivered /\ flag THEN Window ELSE Asleep

(* The command is remembered once its reply is over, complete or not.      *)
Finish(n, delivered, flag) ==
  LET m == node[n]
      after == AfterSend(m, delivered, flag)
  IN  /\ node' = [node EXCEPT ![n] = after]
      /\ last' = IF m.pc = "reply" /\ after.pc # "reply" THEN [last EXCEPT ![n] = m.cmd] ELSE last

(* A try that brought no ACK: the next one, or the send has failed.        *)
TryFailed(n, heard) ==
  LET m == node[n]
  IN  IF m.tries + 1 < Reps(m)
        THEN /\ node' = [node EXCEPT ![n].tries = @ + 1, ![n].heard = heard]
             /\ UNCHANGED last
        ELSE Finish(n, FALSE, pending[n])

-----------------------------------------------------------------------------
(* Uplinks. *)

(* Events of the application, at the latest its heartbeat.                 *)
Wake(n) == /\ node[n].pc = "asleep"
           /\ node' = [node EXCEPT ![n] = Uplink]
           /\ UNCHANGED <<gateway, last, host, ran, fate, replies, resets>>

(* The gateway passes every uplink on to the host.                         *)
Forward(m) ==
  IF m.pc # "reply" THEN UNCHANGED replies
  ELSE /\ text' = IF m.repeat THEN text ELSE [text EXCEPT ![m.cmd] = @ \cup {m.chunk}]
       /\ done' = IF LastChunk(m) THEN done \cup {m.cmd} ELSE done

(* The ACK is built in recv, before the gateway looks at its queue.        *)
UplinkHeard(n, acked) ==
  /\ Sending(n)
  /\ gw.pc = "listen"
  /\ \E expired \in SUBSET Queued :
       IF node[n].heard
         THEN EndOfLoop({}, {}, expired) /\ UNCHANGED replies
         ELSE Serve(n, expired) /\ Forward(node[n])
  /\ IF acked THEN Finish(n, TRUE, pending[n]) ELSE TryFailed(n, TRUE)
  /\ UNCHANGED <<host, ran, fate, resets>>

(* Lost, sent while the gateway was sending, or the channel was busy.      *)
UplinkLost(n) ==
  /\ Sending(n)
  /\ TryFailed(n, node[n].heard)
  /\ UNCHANGED <<gateway, host, ran, fate, replies, resets>>

(* Out of duty budget, or a radio fault: no more tries.                    *)
UplinkRefused(n) ==
  /\ Sending(n)
  /\ Finish(n, FALSE, pending[n])
  /\ UNCHANGED <<gateway, host, ran, fate, replies, resets>>

-----------------------------------------------------------------------------
(* Downlinks. *)

ItemSent(delivered) ==
  EndOfLoop({gw.node}, IF delivered THEN {gw.cmd} ELSE {}, gw.expired)

ItemTryFailed(heard) ==
  IF gw.tries + 1 < DownlinkReps
    THEN /\ gw' = [gw EXCEPT !.tries = @ + 1, !.heard = heard]
         /\ UNCHANGED <<queue, nextOrder, pending, report>>
    ELSE ItemSent(FALSE)

(* A node in its window takes the command and acknowledges it.  It never   *)
(* hears a second copy of one transmission (SecondCopyUnheard).            *)
DownlinkHeard(acked) ==
  /\ gw.pc = "send" /\ ~gw.heard
  /\ node[gw.node].pc = "window"
  /\ node' = [node EXCEPT ![gw.node] = Running(gw.cmd)]
  /\ IF acked THEN ItemSent(TRUE) ELSE ItemTryFailed(TRUE)
  /\ UNCHANGED <<last, host, ran, fate, replies, resets>>

DownlinkLost == /\ gw.pc = "send"
                /\ ItemTryFailed(gw.heard)
                /\ UNCHANGED <<node, last, host, ran, fate, replies, resets>>

DownlinkRefused == /\ gw.pc = "send"
                   /\ ItemSent(FALSE)
                   /\ UNCHANGED <<node, last, host, ran, fate, replies, resets>>

(* What a node does when its window ends without a command. *)
ListenOn == Window

WindowOver == Asleep

(* Its second is over, or recv returned early for a frame that is not an   *)
(* application frame for this node.                                        *)
WindowEnds(n) == /\ node[n].pc = "window"
                 /\ node' = [node EXCEPT ![n] = WindowOver]
                 /\ UNCHANGED <<gateway, last, host, ran, fate, replies, resets>>

NeverDuplicate(n, c) == FALSE
DuplicateById(n, c) == last[n] # None /\ last[n].id = c.id

(* Dedup by (epoch, cmd_id), against the last command only.                *)
Duplicate(n, c) == last[n] = c

(* A repeated command is not run again: one empty chunk completes it.      *)
RunCommand(n) ==
  LET c == node[n].cmd
  IN  /\ node[n].pc = "run"
      /\ node' = [node EXCEPT ![n] = Reply(c, 0, Duplicate(n, c))]
      /\ IF Duplicate(n, c) THEN UNCHANGED <<ran, fate>>
         ELSE /\ ran' = [ran EXCEPT ![n] = Append(@, c)]
              /\ fate' = [fate EXCEPT ![c] = "run"]
      /\ UNCHANGED <<gateway, last, host, replies, resets>>

-----------------------------------------------------------------------------
(* Resets. *)

(* Watchdog, brown-out, or a command that asks for a reboot: RAM is lost.  *)
NodeReset(n) ==
  /\ resets < MaxResets /\ resets' = resets + 1
  /\ node' = [node EXCEPT ![n] = Asleep]
  /\ last' = [last EXCEPT ![n] = None]
  /\ ran' = [ran EXCEPT ![n] = <<>>]
  /\ fate' = IF node[n].pc = "run" /\ fate[node[n].cmd] = "none"
               THEN [fate EXCEPT ![node[n].cmd] = "cut"] ELSE fate
  /\ UNCHANGED <<gateway, host, replies>>

(* The queue is in RAM.  What the gateway took last from a node may not    *)
(* be on EEPROM yet, and is then taken a second time.                      *)
GatewayReset ==
  /\ resets < MaxResets /\ resets' = resets + 1
  /\ queue' = {}
  /\ nextOrder' = 0
  /\ pending' = [n \in Nodes |-> FALSE]
  /\ gw' = Listening
  /\ \E known \in SUBSET Nodes :
       node' = [n \in Nodes |-> [node[n] EXCEPT !.heard = @ /\ n \in known]]
  /\ UNCHANGED <<report, last, host, ran, fate, replies>>

-----------------------------------------------------------------------------
Init == /\ queue = {}
        /\ nextOrder = 0
        /\ pending = [n \in Nodes |-> FALSE]
        /\ gw = Listening
        /\ node = [n \in Nodes |-> Asleep]
        /\ last = [n \in Nodes |-> None]
        /\ host = [epoch |-> 1, id |-> 0]
        /\ ran = [n \in Nodes |-> <<>>]
        /\ fate = [c \in Command |-> "none"]
        /\ report = [c \in Command |-> "none"]
        /\ text = [c \in Command |-> {}]
        /\ done = {}
        /\ resets = 0

NodeStep(n) == \/ UplinkHeard(n, TRUE) \/ UplinkHeard(n, FALSE)
               \/ UplinkLost(n) \/ UplinkRefused(n)
               \/ WindowEnds(n) \/ RunCommand(n)

GatewayStep == \/ DownlinkHeard(TRUE) \/ DownlinkHeard(FALSE)
               \/ DownlinkLost \/ DownlinkRefused

Next == \/ \E n \in Nodes : \/ Wake(n) \/ NodeStep(n) \/ NodeReset(n)
                            \/ QueuePush(n) \/ QueueDrop(n)
        \/ GatewayStep \/ Expire \/ HostRestart \/ GatewayReset

Spec == Init /\ [][Next]_vars

(* Tries, windows and commands take bounded time.  A node wakes for its    *)
(* heartbeat, at times that do not depend on the gateway's, and the radio  *)
(* does not fail for ever: of infinitely many fresh uplinks that could be  *)
(* heard and acknowledged some are, and likewise for commands.  Nothing is *)
(* assumed of the host, of resets, or of TTLs running out.                 *)
Fairness ==
  /\ WF_vars(GatewayStep)
  /\ \A n \in Nodes :
       /\ WF_vars(NodeStep(n))
       /\ SF_vars(gw.pc = "listen" /\ Wake(n))
       /\ SF_vars(~node[n].heard /\ UplinkHeard(n, TRUE))
       /\ SF_vars(gw.node = n /\ DownlinkHeard(TRUE))

FairSpec == Spec /\ Fairness

-----------------------------------------------------------------------------
(* Properties. *)

MaybeCommand == Command \cup {None}

(* Every variable has its type, and the queue keeps its capacities.        *)
TypeOK ==
  /\ queue \subseteq [node : Nodes, cmd : Command, order : Nat]
  /\ Cardinality(queue) <= QueueCap
  /\ \A n \in Nodes : Cardinality(ItemsOf(n)) <= PerNodeCap
  /\ nextOrder \in Nat
  /\ pending \in [Nodes -> BOOLEAN]
  /\ gw \in [pc : {"listen", "send"}, node : Nodes \cup {None}, cmd : MaybeCommand,
             tries : 0..DownlinkReps - 1, heard : BOOLEAN, expired : SUBSET Command]
  /\ node \in [Nodes -> [pc : {"asleep", "uplink", "window", "run", "reply"},
                         cmd : MaybeCommand, chunk : 0..Chunks - 1, repeat : BOOLEAN,
                         tries : 0..UplinkReps + ChunkReps, heard : BOOLEAN]]
  /\ last \in [Nodes -> MaybeCommand]
  /\ host \in [epoch : 1..Epochs, id : 0..Ids]
  /\ ran \in [Nodes -> Seq(Command)]
  /\ fate \in [Command -> {"none", "run", "cut"}]
  /\ report \in [Command -> {"none", "delivered", "expired"}]
  /\ text \in [Command -> SUBSET (0..Chunks - 1)]
  /\ done \subseteq Command
  /\ resets \in 0..MaxResets

(* Whenever the gateway may acknowledge an uplink, the flag it would put   *)
(* into the ACK says whether it has items for that node, whatever was      *)
(* pushed, dropped, delivered or expired since: a node is neither kept     *)
(* awake for nothing nor sent to sleep with commands waiting.              *)
PendingTruthful ==
  gw.pc = "listen" => \A n \in Nodes : pending[n] = HasItem(n, queue)

(* A command reported delivered was run, is about to be run, or was cut    *)
(* off by a reset of the node: the dedup never swallows a new command,     *)
(* not even one whose id a restarted host used before.                     *)
DeliveredWasRun ==
  \A c \in Command :
    report[c] = "delivered" =>
      fate[c] # "none" \/ \E n \in Nodes : node[n].pc = "run" /\ node[n].cmd = c

(* While the gateway repeats an item its node has taken, that node is      *)
(* never in a window: the copy would end it (recv gives nothing back for   *)
(* a retransmission), and with it the delivery of the next command.        *)
SecondCopyUnheard ==
  gw.pc = "send" /\ gw.heard => node[gw.node].pc # "window"

(* If the host was given the last text chunk of a reply, it was given all  *)
(* the earlier ones: a reply that lost a chunk is never continued, so the  *)
(* loss shows as a gap.                                                    *)
LastMeansWhole ==
  \A c \in Command : Chunks - 1 \in text[c] => text[c] = 0..Chunks - 1

(* The queued commands the gateway may still send to a node. *)
Live(n) == {it.cmd : it \in ItemsOf(n)} \ gw.expired

Holds(n) == IF node[n].pc = "run" THEN {node[n].cmd} ELSE {}

(* Nodes run the commands in the order the gateway took them, each at most *)
(* once per boot, in spite of lost ACKs, crossed sends, repeats, drops,    *)
(* expiries and resets.  Waiting are the queued commands the gateway may   *)
(* still send, and the command a node is about to run anew.                *)
Abstract == INSTANCE Commands WITH
  waiting <- [n \in Nodes |-> Live(n) \cup {c \in Holds(n) : ~Duplicate(n, c)}]

ImplementsCommands == Abstract!Spec

(* A queued command leaves the queue, without any help of its TTL.         *)
ItemsLeave == \A c \in Command : c \in Queued ~> c \notin Queued

(* A node always gets back to sleep, however its windows are chained.      *)
NodeSleeps == \A n \in Nodes : node[n].pc # "asleep" ~> node[n].pc = "asleep"

(* What the node's dedup takes for granted (radio_push_button.rs:686-687): *)
(* when it completes a repeated command with an empty chunk, the full text *)
(* already went up.                                                        *)
DoneMeansWhole == \A c \in done : text[c] = 0..Chunks - 1
=============================================================================
