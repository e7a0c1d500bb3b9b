-------------------------- MODULE DownlinkProofs --------------------------
(***************************************************************************)
(* Theorems about Downlink, for any nodes, capacities, repetitions, reply  *)
(* lengths, commands and number of resets.                                 *)
(***************************************************************************)
EXTENDS Downlink, FiniteSetTheorems, TLAPS

-----------------------------------------------------------------------------
(* The inductive invariant. *)

Item == [node : Nodes, cmd : Command, order : Nat]
GatewayState ==
  [pc : {"listen", "send"}, node : Nodes \cup {None}, cmd : MaybeCommand,
   tries : 0..DownlinkReps - 1, heard : BOOLEAN, expired : SUBSET Command]
NodeState ==
  [pc : {"asleep", "uplink", "window", "run", "reply"},
   cmd : MaybeCommand, chunk : 0..Chunks - 1, repeat : BOOLEAN,
   tries : 0..UplinkReps + ChunkReps, heard : BOOLEAN]

QueueTyped ==
  /\ queue \subseteq Item
  /\ IsFiniteSet(queue)
  /\ Cardinality(queue) <= QueueCap
  /\ \A n \in Nodes : Cardinality(ItemsOf(n)) <= PerNodeCap
  /\ nextOrder \in Nat

GatewayTyped ==
  /\ pending \in [Nodes -> BOOLEAN]
  /\ gw \in GatewayState
  /\ gw.pc = "listen" => gw.expired = {}
  /\ report \in [Command -> {"none", "delivered", "expired"}]

NodesTyped ==
  /\ node \in [Nodes -> NodeState]
  /\ \A n \in Nodes : node[n].pc \in {"run", "reply"} => node[n].cmd \in Command
  /\ last \in [Nodes -> MaybeCommand]

HistoryTyped ==
  /\ host \in [epoch : 1..Epochs, id : 0..Ids]
  /\ ran \in [Nodes -> Seq(Command)]
  /\ fate \in [Command -> {"none", "run", "cut"}]
  /\ text \in [Command -> SUBSET (0..Chunks - 1)]
  /\ done \subseteq Command
  /\ resets \in 0..MaxResets

(* The order stamps agree with the order of the host's commands. *)
InOrder ==
  /\ \A it \in queue : it.order < nextOrder /\ ~Before(host, it.cmd)
  /\ \A i, j \in queue : i.order <= j.order => i = j \/ Before(i.cmd, j.cmd)

(* The flags are exact at every moment, also while the gateway sends. *)
FlagsExact == \A n \in Nodes : pending[n] = HasItem(n, queue)

(* What the gateway sends is the first live item of its node. *)
SendsFirst ==
  gw.pc = "send" =>
    \E it \in queue : /\ it.node = gw.node /\ it.cmd = gw.cmd /\ gw.cmd \notin gw.expired
                      /\ \A c \in Live(gw.node) : ~Before(c, gw.cmd)

(* A node ran its commands in order; what is still queued for it, or in    *)
(* its hands, is not older than any of them, and only the command it ran   *)
(* last, the one its dedup knows, can come again.                          *)
RanInOrder(n) ==
  /\ \A i \in DOMAIN ran[n] : ~Before(host, ran[n][i])
  /\ \A i, j \in DOMAIN ran[n] : i < j => Before(ran[n][i], ran[n][j])
  /\ \A c \in Live(n), i \in DOMAIN ran[n] : ~Before(c, ran[n][i])

LastRan(n) == ran[n][Len(ran[n])]

Dedup(n) ==
  /\ node[n].pc # "reply" => \/ ran[n] = <<>> /\ last[n] = None
                             \/ ran[n] # <<>> /\ last[n] = LastRan(n)
  /\ node[n].pc = "reply" => ran[n] # <<>> /\ node[n].cmd = LastRan(n)

RunsNext(n) ==
  node[n].pc = "run" =>
    /\ ~Before(host, node[n].cmd)
    /\ \A c \in Live(n) : ~Before(c, node[n].cmd)
    /\ last[n] = node[n].cmd \/ \A i \in DOMAIN ran[n] : Before(ran[n][i], node[n].cmd)

(* What a node replies to, or remembers, was run. *)
FateKnown(n) == /\ node[n].pc = "reply" => fate[node[n].cmd] # "none"
                /\ last[n] # None => fate[last[n]] # "none"

(* The chunks before the one being sent arrived, and so did that one if it *)
(* was heard.                                                              *)
ChunksSent(n) ==
  node[n].pc = "reply" /\ ~node[n].repeat =>
    /\ 0..node[n].chunk - 1 \subseteq text[node[n].cmd]
    /\ node[n].heard => node[n].chunk \in text[node[n].cmd]

GatewayInv == QueueTyped /\ GatewayTyped /\ InOrder /\ FlagsExact /\ SendsFirst
OrderInv == \A n \in Nodes : RanInOrder(n) /\ Dedup(n) /\ RunsNext(n)
FateInv == DeliveredWasRun /\ \A n \in Nodes : FateKnown(n)
TextInv == LastMeansWhole /\ \A n \in Nodes : ChunksSent(n)

Inv == /\ GatewayInv /\ NodesTyped /\ HistoryTyped
       /\ OrderInv /\ SecondCopyUnheard /\ FateInv /\ TextInv

-----------------------------------------------------------------------------
(* Facts about the data. *)

(* What the assumptions say of each constant. *)
LEMMA Constants ==
  /\ QueueCap \in Nat \ {0} /\ PerNodeCap \in Nat \ {0}
  /\ DownlinkReps \in Nat \ {0} /\ UplinkReps \in Nat \ {0} /\ ChunkReps \in Nat \ {0}
  /\ Chunks \in Nat \ {0} /\ Epochs \in Nat \ {0} /\ Ids \in Nat \ {0}
  /\ MaxResets \in Nat
BY DownlinkConstants

(* Before is a strict total order of the commands. *)
LEMMA BeforeOrder ==
  /\ \A c \in Command : c.epoch \in Int /\ c.id \in Int
  /\ \A c \in Command : ~Before(c, c)
  /\ \A c, d, e \in Command : Before(c, d) /\ Before(d, e) => Before(c, e)
  /\ \A c, d \in Command : Before(c, d) => ~Before(d, c)
  /\ \A c, d \in Command : Before(c, d) \/ Before(d, c) \/ c = d
BY DEF Before, Command

(* The record constructors have their types. *)
LEMMA NodeStateTypes ==
  /\ Asleep \in NodeState /\ Window \in NodeState /\ Uplink \in NodeState
  /\ \A c \in Command : Running(c) \in NodeState
  /\ \A c \in Command, i \in 0..Chunks - 1, r \in BOOLEAN : Reply(c, i, r) \in NodeState
BY Constants DEF Asleep, Window, Uplink, Running, At, Reply, NodeState, MaybeCommand

(* The gateway between two iterations has its type. *)
LEMMA ListeningType == Listening \in GatewayState
BY Constants DEF Listening, GatewayState, MaybeCommand

(* A smaller queue keeps the capacities. *)
LEMMA FewerItems ==
  ASSUME QueueTyped, NEW q \in SUBSET queue
  PROVE  /\ q \subseteq Item /\ IsFiniteSet(q) /\ Cardinality(q) <= QueueCap
         /\ \A n \in Nodes : Cardinality({it \in q : it.node = n}) <= PerNodeCap
<1>1. /\ IsFiniteSet(q) /\ Cardinality(q) <= Cardinality(queue)
      /\ Cardinality(q) \in Nat /\ Cardinality(queue) \in Nat
  BY FS_Subset, FS_CardinalityType DEF QueueTyped
<1>2. ASSUME NEW n \in Nodes
      PROVE  Cardinality({it \in q : it.node = n}) <= PerNodeCap
  <2>1. IsFiniteSet(ItemsOf(n)) /\ {it \in q : it.node = n} \subseteq ItemsOf(n)
    BY FS_Subset DEF QueueTyped, ItemsOf
  <2>2. /\ Cardinality({it \in q : it.node = n}) <= Cardinality(ItemsOf(n))
        /\ Cardinality({it \in q : it.node = n}) \in Nat /\ Cardinality(ItemsOf(n)) \in Nat
    BY <2>1, FS_Subset, FS_CardinalityType
  <2> QED
    BY <2>2, Constants DEF QueueTyped
<1> QED
  BY <1>1, <1>2, Constants DEF QueueTyped

-----------------------------------------------------------------------------
(* The gateway's loop. *)

(* The end of an iteration keeps the gateway's invariant and adds no live  *)
(* command, provided it serves whoever it delivered to and forgets no      *)
(* expired item.                                                           *)
LEMMA EndOfLoopSafe ==
  ASSUME GatewayInv, NEW s, NEW d, NEW e, EndOfLoop(s, d, e), UNCHANGED host,
         Owners(d) \subseteq s, gw.expired \subseteq e
  PROVE  GatewayInv' /\ gw' = Listening /\ \A n : Live(n)' \subseteq Live(n)
<1> USE DEF GatewayInv
<1>1. queue' = Without(d \cup e) /\ queue' \subseteq queue /\ gw' = Listening
  BY DEF EndOfLoop, Without
<1>2. QueueTyped'
  BY <1>1, FewerItems DEF ItemsOf, QueueTyped, EndOfLoop
<1>3. pending' \in [Nodes -> BOOLEAN]
  BY DEF EndOfLoop, Flags, HasItem, GatewayTyped
<1>4. report' \in [Command -> {"none", "delivered", "expired"}]
  BY DEF EndOfLoop, GatewayTyped
<1>5. GatewayTyped'
  BY <1>1, <1>3, <1>4, ListeningType DEF GatewayTyped, Listening
<1>6. InOrder'
  BY <1>1 DEF InOrder, EndOfLoop
<1>7. FlagsExact'
  <2> SUFFICES ASSUME NEW n \in Nodes PROVE pending'[n] = HasItem(n, queue')
    BY DEF FlagsExact
  <2>1. CASE n \in s \cup Owners(e)
    BY <2>1 DEF EndOfLoop, Flags
  <2>2. CASE n \notin s \cup Owners(e)
    <3>1. pending'[n] = HasItem(n, queue)
      BY <2>2 DEF EndOfLoop, Flags, FlagsExact
    <3>2. \A it \in queue : it.node = n => it.cmd \notin d \cup e
      BY <2>2 DEF Owners
    <3>3. HasItem(n, queue) = HasItem(n, queue')
      BY <1>1, <3>2 DEF HasItem, Without
    <3> QED
      BY <3>1, <3>3
  <2> QED
    BY <2>1, <2>2
<1>8. SendsFirst'
  BY <1>1 DEF SendsFirst, Listening
<1>9. \A n : Live(n)' \subseteq Live(n)
  BY <1>1 DEF Live, ItemsOf, Without
<1> QED
  BY <1>1, <1>2, <1>5, <1>6, <1>7, <1>8, <1>9

(* A step that adds no live command and reports nothing but d delivered. *)
NothingNew(d) ==
  /\ \A n : Live(n)' \subseteq Live(n)
  /\ \A c \in Command : report'[c] = "delivered" => c \in d \/ report[c] = "delivered"

(* The end of an iteration reports only what it was told was delivered. *)
LEMMA EndOfLoopReports ==
  ASSUME GatewayInv, NEW s, NEW d, NEW e, EndOfLoop(s, d, e), UNCHANGED host,
         Owners(d) \subseteq s, gw.expired \subseteq e
  PROVE  NothingNew(d)
<1>1. \A n : Live(n)' \subseteq Live(n)
  BY EndOfLoopSafe
<1>2. \A c \in Command : report'[c] = "delivered" => c \in d \/ report[c] = "delivered"
  BY DEF EndOfLoop, GatewayInv, GatewayTyped
<1> QED
  BY <1>1, <1>2 DEF NothingNew

(* Serving a fresh uplink.                                                 *)
LEMMA ServeSafe ==
  ASSUME GatewayInv, NEW n \in Nodes, NEW e \in SUBSET Queued, gw.pc = "listen",
         Serve(n, e), UNCHANGED host
  PROVE  /\ GatewayInv' /\ NothingNew({})
         /\ gw'.pc = "listen" \/ (gw'.pc = "send" /\ ~gw'.heard)
<1>1. CASE PeekFor(n, e) = {} /\ EndOfLoop({n}, {}, e)
  <2>1. Owners({}) \subseteq {n} /\ gw.expired \subseteq e
    BY DEF Owners, GatewayInv, GatewayTyped
  <2> QED
    BY <1>1, <2>1, EndOfLoopSafe, EndOfLoopReports DEF Listening
<1>2. ASSUME NEW it \in PeekFor(n, e),
             gw' = [pc |-> "send", node |-> n, cmd |-> it.cmd, tries |-> 0, heard |-> FALSE,
                    expired |-> e],
             UNCHANGED <<queue, nextOrder, pending, report>>
      PROVE  /\ GatewayInv' /\ NothingNew({})
             /\ gw'.pc = "send" /\ ~gw'.heard
  <2>1. /\ it \in queue /\ it.node = n /\ it.cmd \notin e
        /\ \A x \in queue : x.node = n /\ x.cmd \notin e => it.order <= x.order
    BY <1>2 DEF PeekFor, ItemsOf
  <2>2. QueueTyped' /\ InOrder' /\ FlagsExact'
    BY <1>2 DEF GatewayInv, QueueTyped, ItemsOf, InOrder, FlagsExact, HasItem
  <2>3. queue \subseteq Item
    BY DEF GatewayInv, QueueTyped
  <2>4. gw' \in GatewayState
    <3>1. e \subseteq Command /\ it.cmd \in Command
      BY <2>1, <2>3 DEF Queued, Item
    <3> QED
      BY <1>2, <3>1, Constants DEF GatewayState, MaybeCommand
  <2>5. GatewayTyped'
    BY <1>2, <2>4 DEF GatewayInv, GatewayTyped
  <2>6. ASSUME NEW c \in Live(n)'
        PROVE  ~Before(c, it.cmd)
    <3>1. PICK x \in queue : x.node = n /\ x.cmd = c /\ c \notin e
      BY <1>2 DEF Live, ItemsOf
    <3>2. it = x \/ Before(it.cmd, x.cmd)
      BY <2>1, <3>1 DEF GatewayInv, InOrder
    <3> QED
      BY <2>1, <2>3, <3>1, <3>2, BeforeOrder DEF Item
  <2>7. SendsFirst'
    BY <1>2, <2>1, <2>6 DEF SendsFirst
  <2>8. \A m : Live(m)' \subseteq Live(m)
    BY <1>2 DEF Live, ItemsOf, GatewayInv, GatewayTyped
  <2> QED
    BY <1>2, <2>2, <2>5, <2>7, <2>8 DEF GatewayInv, NothingNew
<1> QED
  BY <1>1, <1>2 DEF Serve

(* While the gateway sends, its item is in the queue, of its node.         *)
LEMMA SendsItem ==
  ASSUME GatewayInv, gw.pc = "send"
  PROVE  /\ gw.node \in Nodes /\ gw.cmd \in Command
         /\ gw.cmd \in Live(gw.node) /\ \A c \in Live(gw.node) : ~Before(c, gw.cmd)
         /\ ~Before(host, gw.cmd)
         /\ Owners({gw.cmd}) \subseteq {gw.node}
<1>1. PICK it \in queue : /\ it.node = gw.node /\ it.cmd = gw.cmd /\ gw.cmd \notin gw.expired
                          /\ \A c \in Live(gw.node) : ~Before(c, gw.cmd)
  BY DEF GatewayInv, SendsFirst
<1>2. queue \subseteq Item
  BY DEF GatewayInv, QueueTyped
<1>3. gw.node \in Nodes /\ gw.cmd \in Command
  BY <1>1, <1>2 DEF Item
<1>4. gw.cmd \in Live(gw.node) /\ ~Before(host, gw.cmd)
  BY <1>1 DEF Live, ItemsOf, GatewayInv, InOrder
<1>5. ASSUME NEW x \in queue, x.cmd = gw.cmd
      PROVE  x = it
  <2>1. x.order \in Nat /\ it.order \in Nat
    BY <1>2 DEF Item
  <2> QED
    BY <1>1, <1>3, <1>5, <2>1, BeforeOrder DEF GatewayInv, InOrder
<1> QED
  BY <1>1, <1>3, <1>4, <1>5 DEF Owners

(* The end of the transmission of an item.                                 *)
LEMMA ItemSentSafe ==
  ASSUME GatewayInv, NEW d \in BOOLEAN, gw.pc = "send", ItemSent(d), UNCHANGED host
  PROVE  GatewayInv' /\ NothingNew(IF d THEN {gw.cmd} ELSE {}) /\ gw'.pc = "listen"
<1> DEFINE cmds == IF d THEN {gw.cmd} ELSE {}
<1>1. EndOfLoop({gw.node}, cmds, gw.expired)
  BY DEF ItemSent
<1>2. Owners(cmds) \subseteq {gw.node}
  BY SendsItem DEF Owners
<1> HIDE DEF cmds
<1>3. GatewayInv' /\ NothingNew(cmds) /\ gw' = Listening
  BY <1>1, <1>2, EndOfLoopSafe, EndOfLoopReports
<1> QED
  BY <1>3 DEF Listening, cmds

(* A try that brought no ACK keeps the gateway's invariant. *)
LEMMA ItemTryFailedSafe ==
  ASSUME GatewayInv, NEW h \in BOOLEAN, gw.pc = "send", ItemTryFailed(h), UNCHANGED host
  PROVE  /\ GatewayInv' /\ NothingNew({})
         /\ gw'.pc = "listen" \/ (gw'.pc = "send" /\ gw'.node = gw.node /\ gw'.heard = h)
<1>1. CASE /\ gw.tries + 1 < DownlinkReps
           /\ gw' = [gw EXCEPT !.tries = @ + 1, !.heard = h]
           /\ UNCHANGED <<queue, nextOrder, pending, report>>
  <2>1. gw \in GatewayState
    BY DEF GatewayInv, GatewayTyped
  <2>2. /\ gw' \in GatewayState
        /\ gw'.pc = "send" /\ gw'.node = gw.node /\ gw'.cmd = gw.cmd
        /\ gw'.expired = gw.expired /\ gw'.heard = h
    <3>1. gw.tries \in 0..DownlinkReps - 1
      BY <2>1 DEF GatewayState
    <3>2. gw.tries + 1 \in 0..DownlinkReps - 1
      BY <1>1, <3>1, Constants
    <3> QED
      BY <1>1, <2>1, <3>2 DEF GatewayState
  <2>3. QueueTyped' /\ InOrder' /\ FlagsExact'
    BY <1>1 DEF GatewayInv, QueueTyped, ItemsOf, InOrder, FlagsExact, HasItem
  <2>4. GatewayTyped'
    BY <1>1, <2>2 DEF GatewayInv, GatewayTyped
  <2>5. \A m : Live(m)' = Live(m)
    BY <1>1, <2>2 DEF Live, ItemsOf
  <2>6. SendsFirst'
    BY <1>1, <2>2, <2>5 DEF GatewayInv, SendsFirst
  <2> QED
    BY <1>1, <2>2, <2>3, <2>4, <2>5, <2>6 DEF GatewayInv, NothingNew
<1>2. CASE ItemSent(FALSE)
  <2>1. GatewayInv' /\ NothingNew(IF FALSE THEN {gw.cmd} ELSE {}) /\ gw'.pc = "listen"
    BY <1>2, ItemSentSafe
  <2> QED
    BY <2>1
<1> QED
  BY <1>1, <1>2 DEF ItemTryFailed

(* One more item fits below a capacity. *)
LEMMA OneMore ==
  ASSUME NEW S, IsFiniteSet(S), NEW x, NEW k \in Nat, Cardinality(S) < k
  PROVE  IsFiniteSet(S \cup {x}) /\ Cardinality(S \cup {x}) <= k
<1>1. Cardinality(S) \in Nat
  BY FS_CardinalityType
<1>2. /\ IsFiniteSet(S \cup {x})
      /\ Cardinality(S \cup {x}) = Cardinality(S) \/ Cardinality(S \cup {x}) = Cardinality(S) + 1
  BY FS_AddElement
<1> QED
  BY <1>1, <1>2

(* The host's requests.                                                    *)
LEMMA PushSafe ==
  ASSUME GatewayInv, HistoryTyped, NEW n \in Nodes, QueuePush(n)
  PROVE  /\ GatewayInv'
         /\ \A m \in Nodes : \A c \in Live(m)' : c \in Live(m) \/ Before(host, c)
         /\ LET c == [epoch |-> host.epoch, id |-> host.id + 1]
            IN  /\ c \in Command /\ \A d \in Command : ~Before(host, d) => Before(d, c)
                /\ \A m : Live(m)' = IF m = n THEN Live(m) \cup {c} ELSE Live(m)
<1> DEFINE c == [epoch |-> host.epoch, id |-> host.id + 1]
           it == [node |-> n, cmd |-> c, order |-> nextOrder]
<1>1. /\ gw.pc = "listen" /\ c \in Command /\ HasRoom(n)
      /\ queue' = queue \cup {it} /\ nextOrder' = nextOrder + 1
      /\ pending' = [pending EXCEPT ![n] = TRUE] /\ host' = [host EXCEPT !.id = @ + 1]
      /\ UNCHANGED <<gw, report>>
  BY DEF QueuePush
<1>2. /\ it \in Item /\ it.node = n /\ it.cmd = c /\ it.order = nextOrder
      /\ host.epoch \in Int /\ host.id \in Int
      /\ c.epoch = host.epoch /\ c.id = host.id + 1
      /\ host'.epoch = host.epoch /\ host'.id = host.id + 1
      /\ nextOrder \in Nat /\ queue \subseteq Item
  BY <1>1 DEF Item, GatewayInv, QueueTyped, HistoryTyped
<1> HIDE DEF c, it
<1>3. Before(host, c) /\ ~Before(host', c)
  BY <1>2 DEF Before
<1>4. \A d \in Command : ~Before(host, d) => Before(d, c) /\ ~Before(host', d)
  BY <1>2, BeforeOrder DEF Before
<1>5. \A m : ItemsOf(m)' = IF m = n THEN ItemsOf(m) \cup {it} ELSE ItemsOf(m)
  BY <1>1, <1>2 DEF ItemsOf
<1>6. QueueTyped'
  <2>1. /\ IsFiniteSet(queue') /\ Cardinality(queue') <= QueueCap
    BY <1>1, OneMore, Constants DEF GatewayInv, QueueTyped, HasRoom
  <2>2. ASSUME NEW m \in Nodes PROVE Cardinality(ItemsOf(m)') <= PerNodeCap
    <3>1. IsFiniteSet(ItemsOf(m))
      BY FS_Subset DEF GatewayInv, QueueTyped, ItemsOf
    <3>2. CASE m = n
      <4>1. ItemsOf(m)' = ItemsOf(m) \cup {it} /\ Cardinality(ItemsOf(m)) < PerNodeCap
        BY <1>1, <1>5, <3>2 DEF HasRoom
      <4>2. Cardinality(ItemsOf(m) \cup {it}) <= PerNodeCap
        BY <3>1, <4>1, OneMore, Constants
      <4> QED
        BY <4>1, <4>2
    <3>3. CASE m # n
      BY <1>5, <3>3 DEF GatewayInv, QueueTyped
    <3> QED
      BY <3>2, <3>3
  <2> QED
    BY <1>1, <1>2, <2>1, <2>2 DEF QueueTyped
<1>7. GatewayTyped' /\ SendsFirst'
  BY <1>1 DEF GatewayInv, GatewayTyped, SendsFirst
<1>8. InOrder'
  <2>1. \A x \in queue : /\ x.order \in Nat /\ x.cmd \in Command
                         /\ x.order < nextOrder /\ ~Before(host, x.cmd)
                         /\ Before(x.cmd, c) /\ ~Before(host', x.cmd)
    BY <1>2, <1>4 DEF GatewayInv, InOrder, Item
  <2>2. \A x \in queue' : x.order < nextOrder' /\ ~Before(host', x.cmd)
    BY <1>1, <1>2, <1>3, <2>1
  <2>3. ASSUME NEW x \in queue', NEW y \in queue', x.order <= y.order
        PROVE  x = y \/ Before(x.cmd, y.cmd)
    BY <1>1, <1>2, <2>1, <2>3 DEF GatewayInv, InOrder
  <2> QED
    BY <2>2, <2>3 DEF InOrder
<1>9. FlagsExact'
  <2> SUFFICES ASSUME NEW m \in Nodes PROVE pending'[m] = HasItem(m, queue')
    BY DEF FlagsExact
  <2>1. CASE m = n
    BY <1>1, <1>2, <2>1 DEF HasItem, GatewayInv, GatewayTyped
  <2>2. CASE m # n
    <3>1. pending'[m] = HasItem(m, queue)
      BY <1>1, <2>2 DEF GatewayInv, GatewayTyped, FlagsExact
    <3>2. HasItem(m, queue) = HasItem(m, queue')
      BY <1>1, <1>2, <2>2 DEF HasItem
    <3> QED
      BY <3>1, <3>2
  <2> QED
    BY <2>1, <2>2
<1>10. \A m \in Nodes : \A d \in Live(m)' : d \in Live(m) \/ Before(host, d)
  BY <1>1, <1>2, <1>3, <1>5 DEF Live
<1>11. \A m : Live(m)' = IF m = n THEN Live(m) \cup {c} ELSE Live(m)
  <2>1. gw.expired = {} /\ gw'.expired = {}
    BY <1>1 DEF GatewayInv, GatewayTyped
  <2> QED
    BY <1>2, <1>5, <2>1 DEF Live
<1> QED
  BY <1>1, <1>4, <1>6, <1>7, <1>8, <1>9, <1>10, <1>11 DEF GatewayInv, c

(* Dropping one item, or all the items of a node. *)
LEMMA DropSafe ==
  ASSUME GatewayInv, NEW n \in Nodes, QueueDrop(n)
  PROVE  GatewayInv' /\ NothingNew({})
<1>1. PICK cmds \in {{c} : c \in {it.cmd : it \in ItemsOf(n)}} \cup {{it.cmd : it \in ItemsOf(n)}} :
        queue' = Without(cmds) /\ pending' = [pending EXCEPT ![n] = HasItem(n, queue')]
  BY DEF QueueDrop
<1>2. gw.pc = "listen" /\ UNCHANGED <<gw, nextOrder, report, host>>
  BY DEF QueueDrop
<1>3. queue' \subseteq queue /\ queue \subseteq Item
  BY <1>1 DEF Without, GatewayInv, QueueTyped
<1>4. QueueTyped'
  BY <1>2, <1>3, FewerItems DEF ItemsOf, GatewayInv, QueueTyped
<1>5. InOrder'
  BY <1>2, <1>3 DEF GatewayInv, InOrder
<1>6. GatewayTyped' /\ SendsFirst'
  BY <1>1, <1>2 DEF GatewayInv, GatewayTyped, SendsFirst, HasItem
<1>7. FlagsExact'
  <2> SUFFICES ASSUME NEW m \in Nodes PROVE pending'[m] = HasItem(m, queue')
    BY DEF FlagsExact
  <2>1. CASE m = n
    BY <1>1, <2>1 DEF GatewayInv, GatewayTyped
  <2>2. CASE m # n
    <3>1. pending'[m] = HasItem(m, queue)
      BY <1>1, <2>2 DEF GatewayInv, GatewayTyped, FlagsExact
    <3>2. ASSUME NEW x \in queue, x.node = m PROVE x.cmd \notin cmds
      <4>1. SUFFICES ASSUME x.cmd \in cmds PROVE FALSE
        OBVIOUS
      <4>2. PICK y \in queue : y.node = n /\ y.cmd = x.cmd
        BY <1>1, <4>1 DEF ItemsOf
      <4>3. x.order \in Nat /\ y.order \in Nat /\ x.cmd \in Command
        BY <1>3 DEF Item
      <4>4. x = y
        BY <4>2, <4>3, BeforeOrder DEF GatewayInv, InOrder
      <4> QED
        BY <2>2, <3>2, <4>2, <4>4
    <3>3. HasItem(m, queue) = HasItem(m, queue')
      BY <1>1, <1>3, <3>2 DEF HasItem, Without
    <3> QED
      BY <3>1, <3>3
  <2> QED
    BY <2>1, <2>2
<1>8. \A m : Live(m)' \subseteq Live(m)
  BY <1>2, <1>3 DEF Live, ItemsOf
<1> QED
  BY <1>2, <1>4, <1>5, <1>6, <1>7, <1>8 DEF GatewayInv, NothingNew

(* The gateway after a reset. *)
Empty == /\ queue = {} /\ nextOrder = 0 /\ pending = [n \in Nodes |-> FALSE] /\ gw = Listening
         /\ report \in [Command -> {"none", "delivered", "expired"}]

(* An empty queue is sound. *)
LEMMA EmptySafe == Empty => GatewayInv
<1> SUFFICES ASSUME Empty PROVE GatewayInv
  OBVIOUS
<1> USE DEF Empty
<1>1. \A n : ItemsOf(n) = {}
  BY DEF ItemsOf
<1>2. QueueTyped
  BY <1>1, FS_EmptySet, Constants DEF QueueTyped
<1>3. GatewayTyped
  BY ListeningType DEF GatewayTyped, Listening
<1>4. InOrder /\ SendsFirst
  BY DEF InOrder, SendsFirst, Listening
<1>5. FlagsExact
  BY DEF FlagsExact, HasItem
<1> QED
  BY <1>2, <1>3, <1>4, <1>5 DEF GatewayInv

-----------------------------------------------------------------------------
(* The parts of the invariant about nodes. *)

(* The order is kept when the host only goes on, only new commands become  *)
(* live, and each node stays as it is or stays sound.                      *)
LEMMA OrderKept ==
  ASSUME NodesTyped, HistoryTyped, OrderInv,
         \A m \in Nodes : Live(m) \subseteq Command,
         \A c \in Command : ~Before(host, c) => ~Before(host, c)',
         \A m \in Nodes : \A c \in Live(m)' :
           c \in Live(m) \/ (c \in Command /\ Before(host, c)),
         ran' = ran,
         \A m \in Nodes :
           \/ node'[m].pc = node[m].pc /\ node'[m].cmd = node[m].cmd /\ last'[m] = last[m]
           \/ Dedup(m)' /\ RunsNext(m)'
  PROVE  OrderInv'
<1> SUFFICES ASSUME NEW m \in Nodes PROVE RanInOrder(m)' /\ Dedup(m)' /\ RunsNext(m)'
  BY DEF OrderInv
<1>1. RanInOrder(m) /\ Dedup(m) /\ RunsNext(m)
  BY DEF OrderInv
<1>2. \A i \in DOMAIN ran[m] : ran[m][i] \in Command
  BY DEF HistoryTyped
<1>3. ASSUME NEW c \in Live(m)', NEW d \in Command, ~Before(host, d), ~(c \in Live(m))
      PROVE  ~Before(c, d)
  <2>1. c \in Command /\ Before(host, c)
    BY <1>3
  <2>2. /\ host.epoch \in Int /\ host.id \in Int /\ c.epoch \in Int /\ c.id \in Int
        /\ d.epoch \in Int /\ d.id \in Int
    BY <1>3, <2>1, BeforeOrder DEF HistoryTyped
  <2> QED
    BY <1>3, <2>1, <2>2 DEF Before
<1>4. RanInOrder(m)'
  <2>1. \A j \in DOMAIN ran[m] : ~Before(host, ran[m][j])'
    BY <1>1, <1>2 DEF RanInOrder
  <2>2. ASSUME NEW c \in Live(m)', NEW j \in DOMAIN ran[m] PROVE ~Before(c, ran[m][j])
    BY <1>1, <1>2, <1>3 DEF RanInOrder
  <2> QED
    BY <1>1, <2>1, <2>2 DEF RanInOrder
<1>5. CASE node'[m].pc = node[m].pc /\ node'[m].cmd = node[m].cmd /\ last'[m] = last[m]
  <2>1. Dedup(m)'
    BY <1>1, <1>5 DEF Dedup, LastRan
  <2>2. ASSUME node[m].pc = "run"
        PROVE  /\ ~Before(host', node[m].cmd)
               /\ \A c \in Live(m)' : ~Before(c, node[m].cmd)
    <3>1. node[m].cmd \in Command /\ ~Before(host, node[m].cmd)
      BY <1>1, <2>2 DEF RunsNext, NodesTyped
    <3> QED
      BY <1>1, <1>3, <2>2, <3>1 DEF RunsNext
  <2>3. RunsNext(m)'
    BY <1>1, <1>5, <2>2 DEF RunsNext
  <2> QED
    BY <1>4, <2>1, <2>3
<1> QED
  BY <1>4, <1>5

(* The facts about outcomes are kept when nothing is newly delivered, no   *)
(* fate is forgotten, and no node loses a command without a fate.          *)
LEMMA FateKept ==
  ASSUME FateInv, NodesTyped,
         \A c \in Command : report'[c] = "delivered" => report[c] = "delivered",
         \A c \in Command : fate[c] # "none" => fate'[c] # "none",
         \A m \in Nodes : node[m].pc = "run" =>
           \/ node'[m].pc = "run" /\ node'[m].cmd = node[m].cmd
           \/ fate'[node[m].cmd] # "none",
         \A m \in Nodes : FateKnown(m)'
  PROVE  FateInv'
<1>1. ASSUME NEW c \in Command, report'[c] = "delivered"
      PROVE  fate'[c] # "none" \/ \E m \in Nodes : node'[m].pc = "run" /\ node'[m].cmd = c
  <2>1. fate[c] # "none" \/ \E m \in Nodes : node[m].pc = "run" /\ node[m].cmd = c
    BY <1>1 DEF FateInv, DeliveredWasRun
  <2> QED
    BY <2>1
<1> QED
  BY <1>1 DEF FateInv, DeliveredWasRun

(* The gateway stands still, the host may go on. *)
LEMMA GatewayIdle ==
  ASSUME GatewayInv, UNCHANGED <<queue, nextOrder, pending, gw, report>>,
         \A c \in Command : ~Before(host, c) => ~Before(host, c)'
  PROVE  GatewayInv' /\ NothingNew({})
<1>1. QueueTyped' /\ GatewayTyped'
  BY DEF GatewayInv, QueueTyped, ItemsOf, GatewayTyped
<1>2. InOrder'
  BY DEF GatewayInv, InOrder, QueueTyped, Item
<1>3. \A m : Live(m)' = Live(m)
  BY DEF Live, ItemsOf
<1>4. FlagsExact' /\ SendsFirst'
  BY <1>3 DEF GatewayInv, FlagsExact, HasItem, SendsFirst
<1> QED
  BY <1>1, <1>2, <1>3, <1>4 DEF GatewayInv, NothingNew

(* What is live is a command. *)
LEMMA LiveCommands ==
  ASSUME GatewayInv
  PROVE  \A m : Live(m) \subseteq Command
BY DEF GatewayInv, QueueTyped, Live, ItemsOf, Item

-----------------------------------------------------------------------------
(* One try of a node's confirmed send. *)

(* The node after a try: d tells whether the ACK was heard, h whether the  *)
(* gateway is known to have taken the frame.                               *)
Tried(n, x, d, h) ==
  /\ x \in NodeState /\ node' = [node EXCEPT ![n] = x]
  /\ x.pc \in {"asleep", "uplink", "window", "reply"}
  /\ x.pc = "window" => d
  /\ x.pc = "reply" =>
       /\ node[n].pc = "reply" /\ x.cmd = node[n].cmd
       /\ \/ x.chunk = node[n].chunk /\ x.repeat = node[n].repeat /\ (x.heard => h)
          \/ d /\ ~node[n].repeat /\ ~x.repeat /\ x.chunk = node[n].chunk + 1 /\ ~x.heard
  /\ last' = IF node[n].pc = "reply" /\ x.pc # "reply" THEN [last EXCEPT ![n] = node[n].cmd]
             ELSE last

(* The end of a confirmed send is such a step. *)
LEMMA FinishTried ==
  ASSUME NodesTyped, NEW n \in Nodes, Sending(n), NEW d \in BOOLEAN, NEW f \in BOOLEAN,
         Finish(n, d, f)
  PROVE  \E x : Tried(n, x, d, FALSE)
<1> DEFINE m == node[n]
           x == AfterSend(m, d, f)
<1>1. m \in NodeState /\ (m.pc = "reply" => m.cmd \in Command)
  BY DEF NodesTyped
<1>2. CASE m.pc = "reply" /\ d /\ ~LastChunk(m)
  <2>1. x = Reply(m.cmd, m.chunk + 1, FALSE) /\ ~m.repeat /\ m.chunk # Chunks - 1
    BY <1>2 DEF AfterSend, LastChunk
  <2>2. m.chunk + 1 \in 0..Chunks - 1
    BY <1>1, <2>1, Constants DEF NodeState
  <2>3. x \in NodeState
    BY <1>1, <1>2, <2>1, <2>2, NodeStateTypes
  <2>4. /\ x.pc = "reply" /\ x.cmd = m.cmd /\ x.chunk = m.chunk + 1
        /\ x.repeat = FALSE /\ x.heard = FALSE
    BY <2>1 DEF Reply
  <2>5. node' = [node EXCEPT ![n] = x] /\ last' = last
    BY <2>4 DEF Finish
  <2> HIDE DEF x
  <2> QED
    BY <1>2, <2>1, <2>3, <2>4, <2>5 DEF Tried
<1>3. CASE ~(m.pc = "reply" /\ d /\ ~LastChunk(m))
  <2>1. x = Asleep \/ (x = Window /\ d)
    BY <1>3 DEF AfterSend
  <2>2. x \in NodeState /\ x.pc \in {"asleep", "window"} /\ (x.pc = "window" => d)
    BY <2>1, NodeStateTypes DEF Asleep, Window, At
  <2>3. /\ node' = [node EXCEPT ![n] = x]
        /\ last' = IF m.pc = "reply" /\ x.pc # "reply" THEN [last EXCEPT ![n] = m.cmd] ELSE last
    BY DEF Finish
  <2> HIDE DEF x
  <2> QED
    BY <2>2, <2>3 DEF Tried
<1> QED
  BY <1>2, <1>3

(* So is a try that failed. *)
LEMMA TryFailedTried ==
  ASSUME NodesTyped, GatewayInv, NEW n \in Nodes, Sending(n), NEW h \in BOOLEAN,
         TryFailed(n, h)
  PROVE  \E x : Tried(n, x, FALSE, h)
<1> DEFINE m == node[n]
<1>1. m \in NodeState /\ node \in [Nodes -> NodeState]
  BY DEF NodesTyped
<1>2. CASE /\ m.tries + 1 < Reps(m) /\ UNCHANGED last
           /\ node' = [node EXCEPT ![n].tries = @ + 1, ![n].heard = h]
  <2> DEFINE x == [m EXCEPT !.tries = @ + 1, !.heard = h]
  <2>1. node' = [node EXCEPT ![n] = x]
    BY <1>1, <1>2
  <2>2. m.tries \in Nat /\ m.tries + 1 \in 0..UplinkReps + ChunkReps
    <3>1. m.tries \in Int /\ 0 <= m.tries /\ m.tries + 1 < Reps(m)
      BY <1>1, <1>2 DEF NodeState
    <3> QED
      BY <3>1, Constants DEF Reps
  <2>3. /\ x \in NodeState
        /\ x.pc = m.pc /\ x.cmd = m.cmd /\ x.chunk = m.chunk /\ x.repeat = m.repeat
        /\ x.heard = h
    BY <1>1, <2>2 DEF NodeState
  <2> HIDE DEF x
  <2> QED
    BY <1>2, <2>1, <2>3 DEF Tried, Sending
<1>3. CASE Finish(n, FALSE, pending[n])
  <2>1. PICK x : Tried(n, x, FALSE, FALSE)
    BY <1>3, FinishTried DEF GatewayInv, GatewayTyped
  <2> QED
    BY <2>1 DEF Tried
<1> QED
  BY <1>2, <1>3 DEF TryFailed

(* Typing, order and outcomes survive a try, whatever the gateway did with *)
(* the frame.                                                              *)
LEMMA TriedSafe ==
  ASSUME Inv, NEW n \in Nodes, NEW x, NEW d \in BOOLEAN, NEW h \in BOOLEAN,
         Sending(n), Tried(n, x, d, h), NothingNew({}), UNCHANGED <<host, ran, fate>>
  PROVE  NodesTyped' /\ OrderInv' /\ FateInv'
<1> USE DEF Inv
<1>1. /\ node \in [Nodes -> NodeState] /\ last \in [Nodes -> MaybeCommand]
      /\ node'[n] = x /\ x.pc # "run" /\ node[n].pc # "run"
      /\ (node[n].pc = "reply" => node[n].cmd \in Command)
      /\ \A m \in Nodes \ {n} : node'[m] = node[m] /\ last'[m] = last[m]
      /\ last'[n] = IF node[n].pc = "reply" /\ x.pc # "reply" THEN node[n].cmd ELSE last[n]
  BY DEF Tried, NodesTyped, Sending
<1>2. NodesTyped'
  <2>1. node' \in [Nodes -> NodeState] /\ last' \in [Nodes -> MaybeCommand]
    BY <1>1 DEF Tried, MaybeCommand
  <2>2. ASSUME NEW m \in Nodes, node'[m].pc \in {"run", "reply"} PROVE node'[m].cmd \in Command
    BY <1>1, <2>2 DEF NodesTyped, Tried
  <2> QED
    BY <2>1, <2>2 DEF NodesTyped
<1>3. OrderInv'
  <2>1. Dedup(n) /\ RunsNext(n)
    BY DEF OrderInv
  <2>2. Dedup(n)' /\ RunsNext(n)'
    <3>1. CASE x.pc = "reply"
      <4>1. node[n].pc = "reply" /\ x.cmd = node[n].cmd /\ ran' = ran
        BY <3>1 DEF Tried
      <4> QED
        BY <1>1, <2>1, <3>1, <4>1 DEF Dedup, RunsNext, LastRan
    <3>2. CASE x.pc # "reply"
      BY <1>1, <2>1, <3>2 DEF Dedup, RunsNext, LastRan
    <3> QED
      BY <3>1, <3>2
  <2>3. \A m \in Nodes : Live(m) \subseteq Command /\ Live(m)' \subseteq Live(m)
    BY LiveCommands DEF NothingNew
  <2>4. \A c \in Command : ~Before(host, c) => ~Before(host, c)'
    BY DEF Before
  <2> QED
    BY <1>1, <2>2, <2>3, <2>4, OrderKept
<1>4. FateInv'
  <2>1. \A m \in Nodes : FateKnown(m)'
    <3> SUFFICES ASSUME NEW m \in Nodes PROVE FateKnown(m)'
      OBVIOUS
    <3>1. FateKnown(m) /\ FateKnown(n)
      BY DEF FateInv
    <3>2. CASE m # n
      BY <1>1, <3>1, <3>2 DEF FateKnown
    <3>3. CASE m = n
      <4>1. x.pc = "reply" => node[n].pc = "reply" /\ x.cmd = node[n].cmd
        BY DEF Tried
      <4> QED
        BY <1>1, <3>1, <3>3, <4>1 DEF FateKnown
    <3> QED
      BY <3>2, <3>3
  <2>2. \A m \in Nodes : node[m].pc = "run" => node'[m].pc = "run" /\ node'[m].cmd = node[m].cmd
    BY <1>1
  <2> QED
    BY <2>1, <2>2, FateKept DEF NothingNew
<1> QED
  BY <1>2, <1>3, <1>4

(* So do the chunks, if the ones known to be taken were forwarded.         *)
LEMMA TriedChunks ==
  ASSUME Inv, NEW n \in Nodes, NEW x, NEW d \in BOOLEAN, NEW h \in BOOLEAN,
         Sending(n), Tried(n, x, d, h), LastMeansWhole',
         \A c \in Command : text[c] \subseteq text'[c],
         node[n].pc = "reply" /\ ~node[n].repeat /\ (d \/ h) =>
           node[n].chunk \in text'[node[n].cmd]
  PROVE  TextInv'
<1> USE DEF Inv
<1>1. /\ node'[n] = x /\ node[n] \in NodeState
      /\ \A m \in Nodes \ {n} : node'[m] = node[m]
      /\ \A m \in Nodes : node[m].pc = "reply" => node[m].cmd \in Command
  BY DEF Tried, NodesTyped
<1> SUFFICES ASSUME NEW m \in Nodes PROVE ChunksSent(m)'
  BY DEF TextInv
<1>2. ChunksSent(m) /\ ChunksSent(n)
  BY DEF TextInv
<1>3. CASE m # n
  BY <1>1, <1>2, <1>3 DEF ChunksSent
<1>4. CASE m = n
  <2> SUFFICES ASSUME x.pc = "reply", ~x.repeat
               PROVE  /\ 0..x.chunk - 1 \subseteq text'[x.cmd]
                      /\ x.heard => x.chunk \in text'[x.cmd]
    BY <1>1, <1>4 DEF ChunksSent
  <2>1. node[n].pc = "reply" /\ x.cmd = node[n].cmd /\ node[n].cmd \in Command
    BY <1>1 DEF Tried
  <2>2. CASE x.chunk = node[n].chunk /\ x.repeat = node[n].repeat /\ (x.heard => h)
    BY <1>2, <2>1, <2>2 DEF ChunksSent
  <2>3. CASE d /\ ~node[n].repeat /\ ~x.repeat /\ x.chunk = node[n].chunk + 1 /\ ~x.heard
    <3>1. node[n].chunk \in Int
      BY <1>1 DEF NodeState
    <3>2. 0..node[n].chunk - 1 \subseteq text'[x.cmd] /\ node[n].chunk \in text'[x.cmd]
      BY <1>2, <2>1, <2>3 DEF ChunksSent
    <3> QED
      BY <2>3, <3>1, <3>2
  <2> QED
    BY <2>1, <2>2, <2>3 DEF Tried
<1> QED
  BY <1>3, <1>4

(* A step that runs nothing, and after which a node holds a command only   *)
(* if it did before or has been given a live one.                          *)
Forgets ==
  /\ ran' = ran
  /\ \A m : Live(m)' \subseteq Live(m)
  /\ \A m \in Nodes : node'[m].pc = "run" =>
       \/ node'[m].cmd \in Live(m)
       \/ node[m].pc = "run" /\ node'[m].cmd = node[m].cmd /\ last'[m] = last[m]

(* A try the gateway did not hear, or the end of the tries. *)
LEMMA UplinkLostSafe ==
  ASSUME Inv, NEW n \in Nodes, UplinkLost(n) \/ UplinkRefused(n)
  PROVE  Inv' /\ Forgets
<1> USE DEF Inv
<1>1. /\ Sending(n) /\ UNCHANGED <<queue, nextOrder, pending, gw, report>>
      /\ UNCHANGED <<host, ran, fate, text, done, resets>>
  BY DEF UplinkLost, UplinkRefused, gateway, replies
<1>2. node[n].heard \in BOOLEAN /\ pending[n] \in BOOLEAN
  BY DEF NodesTyped, NodeState, GatewayInv, GatewayTyped
<1>3. PICK x : Tried(n, x, FALSE, node[n].heard)
  <2>1. CASE UplinkLost(n)
    BY <1>1, <1>2, <2>1, TryFailedTried DEF UplinkLost
  <2>2. CASE UplinkRefused(n)
    <3>1. PICK x : Tried(n, x, FALSE, FALSE)
      BY <1>1, <1>2, <2>2, FinishTried DEF UplinkRefused
    <3> QED
      BY <1>2, <3>1 DEF Tried
  <2> QED
    BY <2>1, <2>2
<1>4. GatewayInv' /\ NothingNew({})
  <2>1. \A c \in Command : ~Before(host, c) => ~Before(host, c)'
    BY <1>1 DEF Before
  <2> QED
    BY <1>1, <2>1, GatewayIdle
<1>5. NodesTyped' /\ OrderInv' /\ FateInv'
  BY <1>1, <1>2, <1>3, <1>4, TriedSafe
<1>6. HistoryTyped' /\ LastMeansWhole'
  BY <1>1 DEF HistoryTyped, LastMeansWhole, TextInv
<1>7. TextInv'
  <2>1. ChunksSent(n) /\ \A c \in Command : text[c] \subseteq text'[c]
    BY <1>1 DEF TextInv
  <2> QED
    BY <1>1, <1>2, <1>3, <1>6, <2>1, TriedChunks DEF ChunksSent
<1>8. SecondCopyUnheard'
  BY <1>1, <1>3 DEF SecondCopyUnheard, Tried, NodesTyped
<1>9. Forgets
  <2>1. \A m \in Nodes : node'[m].pc # "run" \/ (node'[m] = node[m] /\ last'[m] = last[m])
    BY <1>3 DEF Tried, NodesTyped
  <2> QED
    BY <1>1, <1>4, <2>1 DEF Forgets, NothingNew
<1> QED
  BY <1>4, <1>5, <1>6, <1>7, <1>8, <1>9

(* The host is given the chunk; if it is the last one, it has them all.    *)
LEMMA ForwardSafe ==
  ASSUME Inv, NEW n \in Nodes, ~node[n].heard, Forward(node[n])
  PROVE  /\ text' \in [Command -> SUBSET (0..Chunks - 1)] /\ done' \subseteq Command
         /\ LastMeansWhole' /\ \A c \in Command : text[c] \subseteq text'[c]
         /\ node[n].pc = "reply" /\ ~node[n].repeat => node[n].chunk \in text'[node[n].cmd]
<1> USE DEF Inv
<1>1. /\ text \in [Command -> SUBSET (0..Chunks - 1)] /\ done \subseteq Command
      /\ LastMeansWhole /\ ChunksSent(n)
      /\ (node[n].pc = "reply" => node[n].cmd \in Command)
      /\ node[n].chunk \in 0..Chunks - 1
  BY DEF HistoryTyped, TextInv, NodesTyped, NodeState
<1>2. done' \subseteq Command
  BY <1>1 DEF Forward, replies
<1>3. CASE text' = text /\ ~(node[n].pc = "reply" /\ ~node[n].repeat)
  BY <1>1, <1>2, <1>3 DEF LastMeansWhole
<1>4. CASE /\ node[n].pc = "reply" /\ ~node[n].repeat
           /\ text' = [text EXCEPT ![node[n].cmd] = @ \cup {node[n].chunk}]
  <2>1. /\ text' \in [Command -> SUBSET (0..Chunks - 1)]
        /\ text'[node[n].cmd] = text[node[n].cmd] \cup {node[n].chunk}
        /\ \A c \in Command \ {node[n].cmd} : text'[c] = text[c]
    BY <1>1, <1>4
  <2>2. ASSUME node[n].chunk = Chunks - 1 PROVE text'[node[n].cmd] = 0..Chunks - 1
    <3>1. 0..Chunks - 2 \subseteq text[node[n].cmd]
      BY <1>1, <1>4, <2>2, Constants DEF ChunksSent
    <3>2. 0..Chunks - 1 \subseteq text'[node[n].cmd]
      <4> SUFFICES ASSUME NEW k \in 0..Chunks - 1 PROVE k \in text'[node[n].cmd]
        OBVIOUS
      <4>1. k = Chunks - 1 \/ k \in 0..Chunks - 2
        BY Constants
      <4> QED
        BY <2>1, <2>2, <3>1, <4>1
    <3>3. text'[node[n].cmd] \subseteq 0..Chunks - 1
      BY <1>1, <1>4, <2>1
    <3> QED
      BY <3>2, <3>3
  <2>3. LastMeansWhole'
    <3> SUFFICES ASSUME NEW c \in Command, Chunks - 1 \in text'[c]
                 PROVE  text'[c] = 0..Chunks - 1
      BY DEF LastMeansWhole
    <3>1. CASE Chunks - 1 \in text[c]
      <4>1. /\ text[c] = 0..Chunks - 1 /\ text[c] \subseteq text'[c]
            /\ text'[c] \subseteq 0..Chunks - 1
        BY <1>1, <1>4, <2>1, <3>1 DEF LastMeansWhole
      <4> QED
        BY <4>1
    <3>2. CASE Chunks - 1 \notin text[c]
      BY <1>1, <1>4, <2>1, <2>2, <3>2
    <3> QED
      BY <3>1, <3>2
  <2> QED
    BY <1>1, <1>2, <1>4, <2>1, <2>3
<1> QED
  BY <1>3, <1>4 DEF Forward, replies

(* A try the gateway hears: it serves the node or repeats its ACK. *)
LEMMA UplinkHeardSafe ==
  ASSUME Inv, NEW n \in Nodes, NEW a \in BOOLEAN, UplinkHeard(n, a)
  PROVE  Inv' /\ Forgets
<1> USE DEF Inv
<1>1. PICK e \in SUBSET Queued :
        IF node[n].heard THEN EndOfLoop({}, {}, e) /\ UNCHANGED replies
        ELSE Serve(n, e) /\ Forward(node[n])
  BY DEF UplinkHeard
<1>2. /\ Sending(n) /\ gw.pc = "listen" /\ UNCHANGED <<host, ran, fate, resets>>
      /\ node[n].heard \in BOOLEAN /\ pending[n] \in BOOLEAN
  BY DEF UplinkHeard, NodesTyped, NodeState, GatewayInv, GatewayTyped
<1>3. PICK x : Tried(n, x, a, TRUE)
  <2>1. CASE a
    <3>1. PICK x : Tried(n, x, TRUE, FALSE)
      BY <1>2, <2>1, FinishTried DEF UplinkHeard
    <3>2. Tried(n, x, a, TRUE)
      BY <2>1, <3>1 DEF Tried
    <3> QED
      BY <3>2
  <2>2. CASE ~a
    BY <1>2, <2>2, TryFailedTried DEF UplinkHeard
  <2> QED
    BY <2>1, <2>2
<1>4. /\ GatewayInv' /\ NothingNew({})
      /\ gw'.pc = "listen" \/ (gw'.pc = "send" /\ ~gw'.heard)
  <2>1. CASE node[n].heard
    <3>1. Owners({}) \subseteq {} /\ gw.expired \subseteq e
      BY <1>2 DEF Owners, GatewayInv, GatewayTyped
    <3>2. GatewayInv' /\ NothingNew({}) /\ gw' = Listening
      BY <1>1, <1>2, <2>1, <3>1, EndOfLoopSafe, EndOfLoopReports
    <3> QED
      BY <3>2 DEF Listening
  <2>2. CASE ~node[n].heard
    BY <1>1, <1>2, <2>2, ServeSafe
  <2> QED
    BY <1>2, <2>1, <2>2
<1>5. NodesTyped' /\ OrderInv' /\ FateInv'
  BY <1>2, <1>3, <1>4, TriedSafe
<1>6. /\ text' \in [Command -> SUBSET (0..Chunks - 1)] /\ done' \subseteq Command
      /\ LastMeansWhole' /\ \A c \in Command : text[c] \subseteq text'[c]
      /\ node[n].pc = "reply" /\ ~node[n].repeat => node[n].chunk \in text'[node[n].cmd]
  <2>1. CASE node[n].heard
    <3>1. text' = text /\ done' = done
      BY <1>1, <2>1 DEF replies
    <3>2. LastMeansWhole /\ ChunksSent(n)
      BY DEF TextInv
    <3> QED
      BY <2>1, <3>1, <3>2 DEF HistoryTyped, LastMeansWhole, ChunksSent
  <2>2. CASE ~node[n].heard
    BY <1>1, <2>2, ForwardSafe
  <2> QED
    BY <1>2, <2>1, <2>2
<1>7. TextInv'
  BY <1>2, <1>3, <1>6, TriedChunks
<1>8. HistoryTyped'
  BY <1>2, <1>6 DEF HistoryTyped
<1>9. SecondCopyUnheard'
  BY <1>4 DEF SecondCopyUnheard
<1>10. Forgets
  <2>1. \A m \in Nodes : node'[m].pc # "run" \/ (node'[m] = node[m] /\ last'[m] = last[m])
    BY <1>3 DEF Tried, NodesTyped
  <2> QED
    BY <1>2, <1>4, <2>1 DEF Forgets, NothingNew
<1> QED
  BY <1>4, <1>5, <1>7, <1>8, <1>9, <1>10

-----------------------------------------------------------------------------
(* The other actions. *)

(* Nothing but the gateway, and perhaps the host, changes.                 *)
LEMMA NodesIdle ==
  ASSUME Inv, GatewayInv', HistoryTyped', UNCHANGED <<node, last, ran, fate, replies>>,
         \A c \in Command : report'[c] = "delivered" => report[c] = "delivered",
         \A c \in Command : ~Before(host, c) => ~Before(host, c)',
         \A m \in Nodes : \A c \in Live(m)' : c \in Live(m) \/ Before(host, c),
         \/ gw'.pc = "listen" \/ ~gw'.heard
         \/ gw.pc = "send" /\ gw'.node = gw.node /\ gw'.heard = gw.heard
  PROVE  Inv'
<1> USE DEF Inv
<1>1. NodesTyped' /\ TextInv'
  BY DEF NodesTyped, TextInv, LastMeansWhole, ChunksSent, replies
<1>2. \A m \in Nodes : Live(m) \subseteq Command /\ Live(m)' \subseteq Command
  <2>1. \A m : Live(m)' \subseteq Command
    BY DEF GatewayInv, QueueTyped, Live, ItemsOf, Item
  <2> QED
    BY <2>1, LiveCommands
<1>3. OrderInv'
  BY <1>2, OrderKept
<1>4. FateInv'
  <2>1. \A m \in Nodes : FateKnown(m)'
    BY DEF FateInv, FateKnown
  <2> QED
    BY <2>1, FateKept
<1>5. SecondCopyUnheard'
  BY DEF SecondCopyUnheard
<1> QED
  BY <1>1, <1>3, <1>4, <1>5

(* A try of a queued item that the node does not hear, or the last. *)
LEMMA DownlinkFailedSafe ==
  ASSUME Inv, DownlinkLost \/ DownlinkRefused
  PROVE  Inv' /\ Forgets
<1> USE DEF Inv
<1>1. gw.pc = "send" /\ UNCHANGED <<node, last, host, ran, fate, replies, resets>>
  BY DEF DownlinkLost, DownlinkRefused
<1>2. gw.heard \in BOOLEAN
  BY DEF GatewayInv, GatewayTyped, GatewayState
<1>3. /\ GatewayInv' /\ NothingNew({})
      /\ gw'.pc = "listen" \/ (gw'.pc = "send" /\ gw'.node = gw.node /\ gw'.heard = gw.heard)
  <2>1. CASE DownlinkLost
    BY <1>1, <1>2, <2>1, ItemTryFailedSafe DEF DownlinkLost
  <2>2. CASE DownlinkRefused
    <3>1. GatewayInv' /\ NothingNew(IF FALSE THEN {gw.cmd} ELSE {}) /\ gw'.pc = "listen"
      BY <1>1, <2>2, ItemSentSafe DEF DownlinkRefused
    <3> QED
      BY <3>1
  <2> QED
    BY <2>1, <2>2
<1>4. HistoryTyped'
  BY <1>1 DEF HistoryTyped, replies
<1>5. \A c \in Command : ~Before(host, c) => ~Before(host, c)'
  BY <1>1 DEF Before
<1> QED
  BY <1>1, <1>3, <1>4, <1>5, NodesIdle DEF NothingNew, Forgets

(* Expired items leave. *)
LEMMA ExpireSafe ==
  ASSUME Inv, Expire
  PROVE  Inv' /\ Forgets
<1> USE DEF Inv
<1>1. gw.pc = "listen" /\ UNCHANGED <<node, last, host, ran, fate, replies, resets>>
  BY DEF Expire
<1>2. PICK e \in SUBSET Queued : EndOfLoop({}, {}, e)
  BY DEF Expire
<1>3. Owners({}) \subseteq {} /\ gw.expired \subseteq e
  BY <1>1 DEF Owners, GatewayInv, GatewayTyped
<1>4. GatewayInv' /\ NothingNew({}) /\ gw' = Listening
  BY <1>1, <1>2, <1>3, EndOfLoopSafe, EndOfLoopReports
<1>5. HistoryTyped'
  BY <1>1 DEF HistoryTyped, replies
<1>6. \A c \in Command : ~Before(host, c) => ~Before(host, c)'
  BY <1>1 DEF Before
<1> QED
  BY <1>1, <1>4, <1>5, <1>6, NodesIdle DEF NothingNew, Forgets, Listening

(* A new command of the host. *)
LEMMA QueuePushSafe ==
  ASSUME Inv, NEW n \in Nodes, QueuePush(n)
  PROVE  Inv'
<1> USE DEF Inv
<1>1. /\ gw.pc = "listen" /\ host.id + 1 \in 1..Ids
      /\ host' = [host EXCEPT !.id = @ + 1]
      /\ UNCHANGED <<gw, report, node, last, ran, fate, replies, resets>>
  BY DEF QueuePush, Command
<1>2. /\ GatewayInv'
      /\ \A m \in Nodes : \A c \in Live(m)' : c \in Live(m) \/ Before(host, c)
  BY PushSafe
<1>3. HistoryTyped'
  BY <1>1 DEF HistoryTyped, replies
<1>4. \A c \in Command : ~Before(host, c) => ~Before(host, c)'
  BY <1>1 DEF Before, HistoryTyped, Command
<1> QED
  BY <1>1, <1>2, <1>3, <1>4, NodesIdle

(* Commands withdrawn by the host. *)
LEMMA QueueDropSafe ==
  ASSUME Inv, NEW n \in Nodes, QueueDrop(n)
  PROVE  Inv' /\ Forgets
<1> USE DEF Inv
<1>1. /\ gw.pc = "listen"
      /\ UNCHANGED <<gw, report, node, last, host, ran, fate, replies, resets>>
  BY DEF QueueDrop
<1>2. GatewayInv' /\ NothingNew({})
  BY DropSafe
<1>3. HistoryTyped'
  BY <1>1 DEF HistoryTyped, replies
<1>4. \A c \in Command : ~Before(host, c) => ~Before(host, c)'
  BY <1>1 DEF Before
<1> QED
  BY <1>1, <1>2, <1>3, <1>4, NodesIdle DEF NothingNew, Forgets

(* A new process of the host. *)
LEMMA HostRestartSafe ==
  ASSUME Inv, HostRestart
  PROVE  Inv' /\ Forgets
<1> USE DEF Inv
<1>1. /\ host.epoch < Epochs /\ host' = [epoch |-> host.epoch + 1, id |-> 0]
      /\ UNCHANGED <<queue, nextOrder, pending, gw, report, node, last, ran, fate, replies, resets>>
  BY DEF HostRestart, gateway
<1>2. HistoryTyped'
  BY <1>1, Constants DEF HistoryTyped, replies
<1>3. \A c \in Command : ~Before(host, c) => ~Before(host, c)'
  BY <1>1 DEF Before, HistoryTyped, Command
<1>4. GatewayInv' /\ NothingNew({})
  BY <1>1, <1>3, GatewayIdle
<1>5. gw'.pc = "listen" \/ gw.pc = "send"
  BY <1>1 DEF GatewayInv, GatewayTyped, GatewayState
<1> QED
  BY <1>1, <1>2, <1>3, <1>4, <1>5, NodesIdle DEF NothingNew, Forgets

(* A node that sends no reply and runs no command starts or stops waiting. *)
LEMMA WakeSafe ==
  ASSUME Inv, NEW n \in Nodes, Wake(n) \/ WindowEnds(n)
  PROVE  Inv' /\ Forgets
<1> USE DEF Inv
<1>1. /\ node[n].pc \in {"asleep", "window"}
      /\ UNCHANGED <<queue, nextOrder, pending, gw, report, last, host, ran, fate, replies, resets>>
      /\ node' = [node EXCEPT ![n] = Uplink] \/ node' = [node EXCEPT ![n] = Asleep]
  BY DEF Wake, WindowEnds, WindowOver, gateway
<1>2. /\ node'[n] \in NodeState /\ node'[n].pc \in {"uplink", "asleep"}
      /\ \A m \in Nodes \ {n} : node'[m] = node[m]
      /\ node' \in [Nodes -> NodeState]
  <2>1. /\ Uplink \in NodeState /\ Asleep \in NodeState
        /\ Uplink.pc = "uplink" /\ Asleep.pc = "asleep"
    BY NodeStateTypes DEF Uplink, Asleep, At
  <2> QED
    BY <1>1, <2>1 DEF NodesTyped
<1>3. NodesTyped' /\ HistoryTyped'
  BY <1>1, <1>2 DEF NodesTyped, HistoryTyped, replies
<1>4. \A c \in Command : ~Before(host, c) => ~Before(host, c)'
  BY <1>1 DEF Before
<1>5. GatewayInv' /\ NothingNew({})
  BY <1>1, <1>4, GatewayIdle
<1>6. OrderInv'
  <2>1. Dedup(n)' /\ RunsNext(n)'
    BY <1>1, <1>2 DEF OrderInv, Dedup, RunsNext, LastRan
  <2>2. \A m \in Nodes : Live(m) \subseteq Command /\ Live(m)' \subseteq Live(m)
    BY <1>5, LiveCommands DEF NothingNew
  <2>3. \A m \in Nodes :
          \/ node'[m].pc = node[m].pc /\ node'[m].cmd = node[m].cmd /\ last'[m] = last[m]
          \/ Dedup(m)' /\ RunsNext(m)'
    BY <1>1, <1>2, <2>1
  <2> QED
    BY <1>1, <1>4, <2>2, <2>3, OrderKept
<1>7. FateInv'
  <2>1. \A m \in Nodes : FateKnown(m)'
    BY <1>1, <1>2 DEF FateInv, FateKnown
  <2>2. \A m \in Nodes : node[m].pc = "run" => node'[m].pc = "run" /\ node'[m].cmd = node[m].cmd
    BY <1>1, <1>2
  <2> QED
    BY <1>1, <1>5, <2>1, <2>2, FateKept DEF NothingNew
<1>8. TextInv'
  BY <1>1, <1>2 DEF TextInv, LastMeansWhole, ChunksSent, replies
<1>9. SecondCopyUnheard'
  <2>1. gw.pc = "send" => gw.node \in Nodes
    BY SendsItem
  <2> QED
    BY <1>1, <1>2, <2>1 DEF SecondCopyUnheard
<1>10. Forgets
  BY <1>1, <1>2, <1>5 DEF Forgets, NothingNew
<1> QED
  BY <1>3, <1>5, <1>6, <1>7, <1>8, <1>9, <1>10

(* A command taken is the first live one, so it comes after everything the *)
(* node ran, or is the one it ran last.                                    *)
LEMMA DownlinkHeardSafe ==
  ASSUME Inv, NEW a \in BOOLEAN, DownlinkHeard(a)
  PROVE  Inv' /\ Forgets
<1> USE DEF Inv
<1>a. PICK n \in Nodes, c \in Command : n = gw.node /\ c = gw.cmd
  BY SendsItem DEF DownlinkHeard
<1>1. /\ gw.pc = "send" /\ ~gw.heard /\ node[n].pc = "window"
      /\ node' = [node EXCEPT ![n] = Running(c)]
      /\ UNCHANGED <<last, host, ran, fate, replies, resets>>
      /\ IF a THEN ItemSent(TRUE) ELSE ItemTryFailed(TRUE)
  BY <1>a DEF DownlinkHeard
<1>2. /\ c \in Live(n) /\ \A d \in Live(n) : ~Before(d, c)
      /\ ~Before(host, c)
  BY <1>a, <1>1, SendsItem
<1>3. GatewayInv' /\ NothingNew(IF a THEN {c} ELSE {})
  <2>1. CASE a
    <3>1. GatewayInv' /\ NothingNew(IF TRUE THEN {gw.cmd} ELSE {})
      BY <1>1, <2>1, ItemSentSafe
    <3> QED
      BY <1>a, <2>1, <3>1
  <2>2. CASE ~a
    BY <1>1, <2>2, ItemTryFailedSafe
  <2> QED
    BY <2>1, <2>2
<1>4. gw'.pc = "listen" \/ (gw'.pc = "send" /\ gw'.node = n)
  <2>1. CASE a
    BY <1>1, <2>1, ItemSentSafe
  <2>2. CASE ~a
    BY <1>a, <1>1, <2>2, ItemTryFailedSafe
  <2> QED
    BY <2>1, <2>2
<1>5. /\ node' \in [Nodes -> NodeState] /\ node'[n].pc = "run" /\ node'[n].cmd = c
      /\ \A m \in Nodes \ {n} : node'[m] = node[m]
  <2>1. Running(c) \in NodeState /\ Running(c).pc = "run" /\ Running(c).cmd = c
    BY <1>2, NodeStateTypes DEF Running, At
  <2> QED
    BY <1>1, <2>1 DEF NodesTyped
<1>6. NodesTyped' /\ HistoryTyped'
  BY <1>1, <1>2, <1>5 DEF NodesTyped, HistoryTyped, replies
<1>7. OrderInv'
  <2>1. RanInOrder(n) /\ Dedup(n)
    BY <1>2 DEF OrderInv
  <2>2. Dedup(n)'
    BY <1>1, <1>5, <2>1 DEF Dedup, LastRan
  <2>3. last[n] = c \/ \A i \in DOMAIN ran[n] : Before(ran[n][i], c)
    <3> SUFFICES ASSUME NEW i \in DOMAIN ran[n], ~Before(ran[n][i], c)
                 PROVE  last[n] = c
      OBVIOUS
    <3>1. /\ ran[n] \in Seq(Command) /\ ran[n] # <<>> /\ ran[n][i] \in Command
          /\ Len(ran[n]) \in DOMAIN ran[n] /\ LastRan(n) \in Command
          /\ i \in 1..Len(ran[n])
      BY <1>2 DEF HistoryTyped, LastRan
    <3>2. ran[n][i] = c
      BY <1>2, <2>1, <3>1, BeforeOrder DEF RanInOrder
    <3>3. i = Len(ran[n])
      <4>1. SUFFICES ASSUME i < Len(ran[n]) PROVE FALSE
        BY <3>1
      <4>2. Before(c, LastRan(n)) /\ ~Before(c, LastRan(n))
        BY <1>2, <2>1, <3>1, <3>2, <4>1 DEF RanInOrder, LastRan
      <4> QED
        BY <4>2
    <3> QED
      BY <1>1, <2>1, <3>1, <3>2, <3>3 DEF Dedup, LastRan
  <2>4. RunsNext(n)'
    <3>1. \A d \in Live(n)' : ~Before(d, c)
      BY <1>2, <1>3 DEF NothingNew
    <3>2. ~Before(host', c) /\ last' = last /\ ran' = ran
      BY <1>1, <1>2 DEF Before
    <3> QED
      BY <1>5, <2>3, <3>1, <3>2 DEF RunsNext
  <2>5. \A m \in Nodes : Live(m) \subseteq Command /\ Live(m)' \subseteq Live(m)
    BY <1>3, LiveCommands DEF NothingNew
  <2>6. \A d \in Command : ~Before(host, d) => ~Before(host, d)'
    BY <1>1 DEF Before
  <2>7. \A m \in Nodes :
          \/ node'[m].pc = node[m].pc /\ node'[m].cmd = node[m].cmd /\ last'[m] = last[m]
          \/ Dedup(m)' /\ RunsNext(m)'
    BY <1>1, <1>5, <2>2, <2>4
  <2> QED
    BY <1>1, <2>5, <2>6, <2>7, OrderKept
<1>8. FateInv'
  <2>1. ASSUME NEW d \in Command, report'[d] = "delivered"
        PROVE  fate'[d] # "none" \/ \E m \in Nodes : node'[m].pc = "run" /\ node'[m].cmd = d
    <3>1. CASE d = c
      BY <1>2, <1>5, <3>1
    <3>2. CASE d # c
      <4>1. report[d] = "delivered"
        BY <1>3, <2>1, <3>2 DEF NothingNew
      <4>2. fate[d] # "none" \/ \E m \in Nodes : node[m].pc = "run" /\ node[m].cmd = d
        BY <4>1 DEF FateInv, DeliveredWasRun
      <4> QED
        BY <1>1, <1>5, <4>2
    <3> QED
      BY <3>1, <3>2
  <2>2. \A m \in Nodes : FateKnown(m)'
    BY <1>1, <1>5 DEF FateInv, FateKnown
  <2> QED
    BY <2>1, <2>2 DEF FateInv, DeliveredWasRun
<1>9. TextInv'
  BY <1>1, <1>5 DEF TextInv, LastMeansWhole, ChunksSent, replies
<1>10. SecondCopyUnheard'
  BY <1>4, <1>5 DEF SecondCopyUnheard
<1>11. Forgets
  BY <1>1, <1>2, <1>3, <1>5 DEF Forgets, NothingNew
<1> QED
  BY <1>3, <1>6, <1>7, <1>8, <1>9, <1>10, <1>11

(* A command that is run becomes the last one.                             *)
LEMMA RunCommandSafe ==
  ASSUME Inv, NEW n \in Nodes, RunCommand(n)
  PROVE  Inv'
<1> USE DEF Inv
<1>a. PICK c \in Command : c = node[n].cmd
  BY DEF RunCommand, NodesTyped
<1>b. PICK dup \in BOOLEAN : dup = (last[n] = c)
  OBVIOUS
<1>1. /\ node[n].pc = "run"
      /\ node' = [node EXCEPT ![n] = Reply(c, 0, dup)]
      /\ UNCHANGED <<queue, nextOrder, pending, gw, report, last, host, replies, resets>>
      /\ dup => UNCHANGED <<ran, fate>>
      /\ ~dup => /\ ran' = [ran EXCEPT ![n] = Append(@, c)]
                 /\ fate' = [fate EXCEPT ![c] = "run"]
      /\ dup <=> last[n] = c
  BY <1>a, <1>b DEF RunCommand, gateway, Duplicate
<1>2. /\ node' \in [Nodes -> NodeState]
      /\ node'[n].pc = "reply" /\ node'[n].cmd = c
      /\ node'[n].chunk = 0 /\ ~node'[n].heard
      /\ \A m \in Nodes \ {n} : node'[m] = node[m]
  <2>1. /\ Reply(c, 0, dup) \in NodeState
        /\ Reply(c, 0, dup).pc = "reply" /\ Reply(c, 0, dup).cmd = c
        /\ Reply(c, 0, dup).chunk = 0 /\ Reply(c, 0, dup).heard = FALSE
    BY <1>1, NodeStateTypes, Constants DEF Reply
  <2> QED
    BY <1>1, <2>1 DEF NodesTyped
<1>3. NodesTyped' /\ HistoryTyped'
  <2>1. ran' \in [Nodes -> Seq(Command)] /\ fate' \in [Command -> {"none", "run", "cut"}]
    <3>1. CASE dup
      BY <1>1, <3>1 DEF HistoryTyped
    <3>2. CASE ~dup
      <4>1. Append(ran[n], c) \in Seq(Command)
        BY DEF HistoryTyped
      <4> QED
        BY <1>1, <3>2, <4>1 DEF HistoryTyped
    <3> QED
      BY <3>1, <3>2
  <2>2. HistoryTyped'
    BY <1>1, <2>1 DEF HistoryTyped, replies
  <2>3. NodesTyped'
    BY <1>1, <1>2 DEF NodesTyped
  <2> QED
    BY <2>2, <2>3
<1>4. \A d : Before(host, d)' = Before(host, d)
  BY <1>1 DEF Before
<1>5. GatewayInv' /\ NothingNew({}) /\ \A m : Live(m)' = Live(m)
  <2>1. \A m : Live(m)' = Live(m)
    BY <1>1 DEF Live, ItemsOf
  <2> QED
    BY <1>1, <1>4, <2>1, GatewayIdle
<1>6. OrderInv'
  <2> SUFFICES ASSUME NEW m \in Nodes PROVE RanInOrder(m)' /\ Dedup(m)' /\ RunsNext(m)'
    BY DEF OrderInv
  <2>1. RanInOrder(m) /\ Dedup(m) /\ RunsNext(m)
    BY DEF OrderInv
  <2>2. CASE m # n
    <3>1. ran'[m] = ran[m] /\ node'[m] = node[m] /\ last'[m] = last[m]
      BY <1>1, <1>2, <2>2 DEF HistoryTyped
    <3> QED
      BY <1>4, <1>5, <2>1, <3>1 DEF RanInOrder, Dedup, RunsNext, LastRan
  <2>3. CASE m = n /\ dup
    <3>1. c # None /\ last[n] = c /\ ran' = ran
      BY <1>1, <2>3, NoneIsNone
    <3>2. ran[n] # <<>> /\ c = LastRan(n)
      BY <1>1, <2>1, <2>3, <3>1 DEF Dedup
    <3>3. RanInOrder(n)'
      BY <1>4, <1>5, <2>1, <2>3, <3>1 DEF RanInOrder
    <3>4. Dedup(n)' /\ RunsNext(n)'
      BY <1>2, <3>1, <3>2 DEF Dedup, RunsNext, LastRan
    <3> QED
      BY <2>3, <3>3, <3>4
  <2>4. CASE m = n /\ ~dup
    <3>1. /\ ran[n] \in Seq(Command) /\ ran'[n] = Append(ran[n], c)
          /\ \A i \in DOMAIN ran[n] : Before(ran[n][i], c)
          /\ ~Before(host, c) /\ \A d \in Live(n) : ~Before(d, c)
      BY <1>a, <1>1, <2>1, <2>4 DEF HistoryTyped, RunsNext
    <3>2. /\ Len(ran'[n]) = Len(ran[n]) + 1 /\ ran'[n] # <<>>
          /\ DOMAIN ran'[n] = 1..Len(ran[n]) + 1 /\ DOMAIN ran[n] = 1..Len(ran[n])
          /\ Len(ran[n]) \in Nat
          /\ ran'[n][Len(ran[n]) + 1] = c
          /\ \A i \in 1..Len(ran[n]) : ran'[n][i] = ran[n][i]
      BY <1>1, <3>1
    <3>3. \A i \in DOMAIN ran'[n] : i \in DOMAIN ran[n] \/ i = Len(ran[n]) + 1
      BY <3>2
    <3>4. /\ \A i \in DOMAIN ran'[n] : ~Before(host, ran'[n][i])
          /\ \A d \in Live(n), i \in DOMAIN ran'[n] : ~Before(d, ran'[n][i])
      BY <2>1, <2>4, <3>1, <3>2, <3>3 DEF RanInOrder
    <3>5. ASSUME NEW i \in DOMAIN ran'[n], NEW j \in DOMAIN ran'[n], i < j
          PROVE  Before(ran'[n][i], ran'[n][j])
      <4>1. i \in DOMAIN ran[n]
        BY <3>2, <3>5
      <4> QED
        BY <2>1, <2>4, <3>1, <3>2, <3>3, <3>5, <4>1 DEF RanInOrder
    <3>6. RanInOrder(n)'
      BY <1>4, <1>5, <3>4, <3>5 DEF RanInOrder
    <3>7. Dedup(n)' /\ RunsNext(n)'
      BY <1>2, <3>2 DEF Dedup, RunsNext, LastRan
    <3> QED
      BY <2>4, <3>6, <3>7
  <2> QED
    BY <2>2, <2>3, <2>4
<1>7. FateInv'
  <2>1. \A d \in Command : fate[d] # "none" => fate'[d] # "none"
    BY <1>1 DEF HistoryTyped
  <2>2. fate'[c] # "none"
    <3>1. CASE dup
      <4>1. FateKnown(n) /\ c # None
        BY <1>1, NoneIsNone DEF FateInv
      <4> QED
        BY <1>1, <3>1, <4>1 DEF FateKnown
    <3>2. CASE ~dup
      BY <1>1, <3>2 DEF HistoryTyped
    <3> QED
      BY <3>1, <3>2
  <2>3. ASSUME NEW m \in Nodes PROVE FateKnown(m)'
    <3>1. FateKnown(m) /\ last' = last /\ last[m] \in MaybeCommand
      BY <1>1 DEF FateInv, NodesTyped
    <3>2. last'[m] # None => fate'[last'[m]] # "none"
      BY <2>1, <3>1 DEF FateKnown, MaybeCommand
    <3>3. node'[m].pc = "reply" => fate'[node'[m].cmd] # "none"
      BY <1>2, <2>1, <2>2, <3>1 DEF FateKnown, NodesTyped
    <3> QED
      BY <3>2, <3>3 DEF FateKnown
  <2>4. ASSUME NEW m \in Nodes, node[m].pc = "run"
        PROVE  \/ node'[m].pc = "run" /\ node'[m].cmd = node[m].cmd
               \/ fate'[node[m].cmd] # "none"
    BY <1>a, <1>2, <2>2, <2>4
  <2> QED
    BY <1>1, <2>1, <2>3, <2>4, FateKept
<1>8. TextInv'
  <2>1. 0..0 - 1 = {}
    OBVIOUS
  <2> QED
    BY <1>1, <1>2, <2>1 DEF TextInv, LastMeansWhole, ChunksSent, replies
<1>9. SecondCopyUnheard'
  <2>1. gw.pc = "send" => gw.node \in Nodes
    BY SendsItem
  <2> QED
    BY <1>1, <1>2, <2>1 DEF SecondCopyUnheard
<1> QED
  BY <1>3, <1>5, <1>6, <1>7, <1>8, <1>9

(* A reset forgets what the node was doing; a command it was about to run  *)
(* is cut off.                                                             *)
LEMMA NodeResetSafe ==
  ASSUME Inv, NEW n \in Nodes, NodeReset(n)
  PROVE  Inv'
<1> USE DEF Inv
<1>1. /\ resets < MaxResets /\ resets' = resets + 1
      /\ node' = [node EXCEPT ![n] = Asleep]
      /\ last' = [last EXCEPT ![n] = None] /\ ran' = [ran EXCEPT ![n] = <<>>]
      /\ UNCHANGED <<queue, nextOrder, pending, gw, report, host, text, done>>
  BY DEF NodeReset, gateway, replies
<1>2. /\ fate' \in [Command -> {"none", "run", "cut"}]
      /\ \A c \in Command : fate[c] # "none" => fate'[c] # "none"
      /\ node[n].pc = "run" => fate'[node[n].cmd] # "none"
  <2>1. CASE node[n].pc = "run" /\ fate[node[n].cmd] = "none"
    BY <2>1 DEF NodeReset, HistoryTyped, NodesTyped
  <2>2. CASE ~(node[n].pc = "run" /\ fate[node[n].cmd] = "none")
    BY <2>2 DEF NodeReset, HistoryTyped, NodesTyped
  <2> QED
    BY <2>1, <2>2
<1>3. /\ node' \in [Nodes -> NodeState] /\ node'[n].pc = "asleep"
      /\ \A m \in Nodes \ {n} : node'[m] = node[m] /\ last'[m] = last[m] /\ ran'[m] = ran[m]
      /\ last'[n] = None /\ ran'[n] = <<>>
  <2>1. Asleep \in NodeState /\ Asleep.pc = "asleep"
    BY NodeStateTypes DEF Asleep, At
  <2> QED
    BY <1>1, <2>1 DEF NodesTyped, HistoryTyped
<1>4. HistoryTyped'
  BY <1>1, <1>2, Constants DEF HistoryTyped
<1>5. NodesTyped'
  BY <1>1, <1>3 DEF NodesTyped, MaybeCommand
<1>6. \A d : Before(host, d)' = Before(host, d)
  BY <1>1 DEF Before
<1>7. GatewayInv' /\ NothingNew({}) /\ \A m : Live(m)' = Live(m)
  <2>1. \A m : Live(m)' = Live(m)
    BY <1>1 DEF Live, ItemsOf
  <2> QED
    BY <1>1, <1>6, <2>1, GatewayIdle
<1>8. OrderInv'
  <2> SUFFICES ASSUME NEW m \in Nodes PROVE RanInOrder(m)' /\ Dedup(m)' /\ RunsNext(m)'
    BY DEF OrderInv
  <2>1. CASE m # n
    <3>1. RanInOrder(m) /\ Dedup(m) /\ RunsNext(m)
      BY DEF OrderInv
    <3> QED
      BY <1>3, <1>6, <1>7, <2>1, <3>1 DEF RanInOrder, Dedup, RunsNext, LastRan
  <2>2. CASE m = n
    BY <1>3, <2>2 DEF RanInOrder, Dedup, RunsNext
  <2> QED
    BY <2>1, <2>2
<1>9. FateInv'
  <2>1. ASSUME NEW m \in Nodes PROVE FateKnown(m)'
    <3>1. FateKnown(m) /\ last[m] \in MaybeCommand
      BY DEF FateInv, NodesTyped
    <3>2. CASE m = n
      BY <1>3, <3>2 DEF FateKnown
    <3>3. CASE m # n
      <4>1. node'[m] = node[m] /\ last'[m] = last[m]
        BY <1>3, <3>3
      <4> QED
        BY <1>2, <3>1, <4>1 DEF FateKnown, MaybeCommand, NodesTyped
    <3> QED
      BY <3>2, <3>3
  <2>2. ASSUME NEW m \in Nodes, node[m].pc = "run"
        PROVE  \/ node'[m].pc = "run" /\ node'[m].cmd = node[m].cmd
               \/ fate'[node[m].cmd] # "none"
    BY <1>2, <1>3, <2>2
  <2> QED
    BY <1>1, <1>2, <2>1, <2>2, FateKept
<1>10. TextInv'
  BY <1>1, <1>3 DEF TextInv, LastMeansWhole, ChunksSent
<1>11. SecondCopyUnheard'
  <2>1. gw.pc = "send" => gw.node \in Nodes
    BY SendsItem
  <2> QED
    BY <1>1, <1>3, <2>1 DEF SecondCopyUnheard
<1> QED
  BY <1>4, <1>5, <1>7, <1>8, <1>9, <1>10, <1>11

(* The gateway starts over with an empty queue, and may not know which     *)
(* frames it took.                                                         *)
LEMMA GatewayResetSafe ==
  ASSUME Inv, GatewayReset
  PROVE  Inv' /\ Forgets
<1> USE DEF Inv
<1>1. /\ resets < MaxResets /\ resets' = resets + 1
      /\ queue' = {} /\ nextOrder' = 0 /\ pending' = [n \in Nodes |-> FALSE] /\ gw' = Listening
      /\ UNCHANGED <<report, last, host, ran, fate, text, done>>
  BY DEF GatewayReset, replies
<1>2. PICK known \in SUBSET Nodes :
        node' = [n \in Nodes |-> [node[n] EXCEPT !.heard = @ /\ n \in known]]
  BY DEF GatewayReset
<1>3. ASSUME NEW n \in Nodes
      PROVE  /\ node'[n] \in NodeState
             /\ node'[n].pc = node[n].pc /\ node'[n].cmd = node[n].cmd
             /\ node'[n].chunk = node[n].chunk /\ node'[n].repeat = node[n].repeat
             /\ node'[n].heard => node[n].heard
  <2>1. node[n] \in NodeState /\ (node[n].heard /\ n \in known) \in BOOLEAN
    BY DEF NodesTyped
  <2>2. node'[n] = [node[n] EXCEPT !.heard = node[n].heard /\ n \in known]
    BY <1>2
  <2> QED
    BY <2>1, <2>2 DEF NodeState
<1>4. HistoryTyped'
  BY <1>1, Constants DEF HistoryTyped
<1>5. NodesTyped'
  <2>1. node' \in [Nodes -> NodeState]
    BY <1>2, <1>3
  <2> QED
    BY <1>1, <1>3, <2>1 DEF NodesTyped
<1>6. GatewayInv'
  <2>1. report' \in [Command -> {"none", "delivered", "expired"}]
    BY <1>1 DEF GatewayInv, GatewayTyped
  <2>2. Empty'
    BY <1>1, <2>1 DEF Empty, Listening
  <2>3. (Empty => GatewayInv)'
    BY EmptySafe, PTL
  <2> QED
    BY <2>2, <2>3
<1>7. OrderInv'
  <2>1. \A m \in Nodes : Live(m) \subseteq Command /\ Live(m)' = {}
    BY <1>1, LiveCommands DEF Live, ItemsOf
  <2>2. \A c \in Command : ~Before(host, c) => ~Before(host, c)'
    BY <1>1 DEF Before
  <2> QED
    BY <1>1, <1>3, <2>1, <2>2, OrderKept
<1>8. FateInv'
  <2>1. \A m \in Nodes : FateKnown(m)'
    BY <1>1, <1>3 DEF FateInv, FateKnown
  <2> QED
    BY <1>1, <1>3, <2>1, FateKept
<1>9. TextInv'
  BY <1>1, <1>3 DEF TextInv, LastMeansWhole, ChunksSent
<1>10. SecondCopyUnheard'
  BY <1>1 DEF SecondCopyUnheard, Listening
<1>11. Forgets
  BY <1>1, <1>3 DEF Forgets, Live, ItemsOf
<1> QED
  BY <1>4, <1>5, <1>6, <1>7, <1>8, <1>9, <1>10, <1>11

-----------------------------------------------------------------------------
(* The theorems. *)

(* The invariant holds at the start. *)
LEMMA InvInit == Init => Inv
<1> SUFFICES ASSUME Init PROVE Inv
  OBVIOUS
<1> USE DEF Init
<1>1. GatewayInv
  <2>1. Empty
    BY DEF Empty
  <2> QED
    BY <2>1, EmptySafe
<1>2. NodesTyped
  <2>1. Asleep \in NodeState /\ Asleep.pc = "asleep"
    BY NodeStateTypes DEF Asleep, At
  <2> QED
    BY <2>1 DEF NodesTyped, MaybeCommand
<1>3. HistoryTyped
  BY Constants DEF HistoryTyped
<1>4. \A n \in Nodes : node[n].pc = "asleep" /\ last[n] = None /\ ran[n] = <<>>
  BY DEF Asleep, At
<1>5. OrderInv
  BY <1>4 DEF OrderInv, RanInOrder, Dedup, RunsNext
<1>6. SecondCopyUnheard
  BY DEF SecondCopyUnheard, Listening
<1>7. FateInv
  BY <1>4 DEF FateInv, FateKnown, DeliveredWasRun
<1>8. TextInv
  BY <1>4, Constants DEF TextInv, ChunksSent, LastMeansWhole
<1> QED
  BY <1>1, <1>2, <1>3, <1>5, <1>6, <1>7, <1>8 DEF Inv

(* It does not depend on anything but the variables. *)
LEMMA InvUnchanged ==
  ASSUME Inv, UNCHANGED vars
  PROVE  Inv'
<1> USE DEF Inv
<1>1. /\ UNCHANGED <<queue, nextOrder, pending, gw, report, host, text, done, resets>>
      /\ UNCHANGED <<node, last, ran, fate>>
  BY DEF vars, gateway, replies
<1>2. \A c \in Command : ~Before(host, c) => ~Before(host, c)'
  BY <1>1 DEF Before
<1>3. GatewayInv' /\ NothingNew({})
  BY <1>1, <1>2, GatewayIdle
<1>4. HistoryTyped'
  BY <1>1 DEF HistoryTyped
<1>5. gw'.pc = "listen" \/ gw.pc = "send"
  BY <1>1 DEF GatewayInv, GatewayTyped, GatewayState
<1> QED
  BY <1>1, <1>2, <1>3, <1>4, <1>5, NodesIdle DEF NothingNew, replies

(* Every step keeps it. *)
LEMMA InvNext == Inv /\ [Next]_vars => Inv'
<1> SUFFICES ASSUME Inv, [Next]_vars PROVE Inv'
  OBVIOUS
<1>1. ASSUME NEW n \in Nodes, Wake(n) PROVE Inv'
  BY <1>1, WakeSafe
<1>2. ASSUME NEW n \in Nodes, NodeStep(n) PROVE Inv'
  <2>1. CASE UplinkHeard(n, TRUE) \/ UplinkHeard(n, FALSE)
    BY <2>1, UplinkHeardSafe
  <2>2. CASE UplinkLost(n) \/ UplinkRefused(n)
    BY <2>2, UplinkLostSafe
  <2>3. CASE WindowEnds(n)
    BY <2>3, WakeSafe
  <2>4. CASE RunCommand(n)
    BY <2>4, RunCommandSafe
  <2> QED
    BY <1>2, <2>1, <2>2, <2>3, <2>4 DEF NodeStep
<1>3. ASSUME NEW n \in Nodes, NodeReset(n) \/ QueuePush(n) \/ QueueDrop(n) PROVE Inv'
  BY <1>3, NodeResetSafe, QueuePushSafe, QueueDropSafe
<1>4. ASSUME GatewayStep PROVE Inv'
  BY <1>4, DownlinkHeardSafe, DownlinkFailedSafe DEF GatewayStep
<1>5. ASSUME Expire \/ HostRestart \/ GatewayReset PROVE Inv'
  BY <1>5, ExpireSafe, HostRestartSafe, GatewayResetSafe
<1>6. CASE UNCHANGED vars
  BY <1>6, InvUnchanged
<1> QED
  BY <1>1, <1>2, <1>3, <1>4, <1>5, <1>6 DEF Next

(* The inductive invariant holds in every reachable state: the queue is in  *)
(* the host's order, the flags are exact, and each node's dedup knows the   *)
(* only command that can come again.                                        *)
THEOREM Invariance == Spec => []Inv
<1>1. Init => Inv
  BY InvInit
<1>2. Inv /\ [Next]_vars => Inv'
  BY InvNext
<1> QED
  BY <1>1, <1>2, PTL DEF Spec

(* Every variable has its type, and push (queue.rs) keeps the queue within *)
(* its capacities, in all and per node.                                    *)
THEOREM TypeCorrect == Spec => []TypeOK
<1>1. Inv => TypeOK
  BY DEF Inv, GatewayInv, QueueTyped, GatewayTyped, NodesTyped, HistoryTyped, TypeOK,
         Item, GatewayState, NodeState
<1> QED
  BY <1>1, Invariance, PTL

(* The flag recv puts into an ACK says whether the node has commands       *)
(* waiting, however the gateway's loop got there.                          *)
THEOREM FlagTruthful == Spec => []PendingTruthful
<1>1. Inv => PendingTruthful
  BY DEF Inv, GatewayInv, FlagsExact, PendingTruthful
<1> QED
  BY <1>1, Invariance, PTL

(* A command the gateway reports delivered was run or is about to be, or a *)
(* reset cut it off: the dedup of downlink_window swallows no new command. *)
THEOREM NotSwallowed == Spec => []DeliveredWasRun
<1>1. Inv => DeliveredWasRun
  BY DEF Inv, FateInv
<1> QED
  BY <1>1, Invariance, PTL

(* The gateway's repetition of a command the node took never ends the      *)
(* node's next window.                                                     *)
THEOREM RepeatsUnheard == Spec => []SecondCopyUnheard
<1>1. Inv => SecondCopyUnheard
  BY DEF Inv
<1> QED
  BY <1>1, Invariance, PTL

(* The last text chunk of a reply arrives after all the others: RadioSink  *)
(* never goes on after a chunk it lost.                                    *)
THEOREM LastChunkLast == Spec => []LastMeansWhole
<1>1. Inv => LastMeansWhole
  BY DEF Inv, TextInv
<1> QED
  BY <1>1, Invariance, PTL

-----------------------------------------------------------------------------
(* The refinement. *)

(* The commands a node may still run, as the refinement maps them. *)
W(n) == Live(n) \cup {c \in Holds(n) : ~Duplicate(n, c)}

(* Commands orders the commands as Downlink does. *)
LEMMA SameOrder == Abstract!Command = Command /\ \A c, d : Abstract!Before(c, d) = Before(c, d)
BY DEF Abstract!Command, Command, Abstract!Before, Before

(* A step that runs and accepts nothing only forgets. *)
LEMMA ForgetsMaps ==
  ASSUME Forgets
  PROVE  Abstract!Forget
<1>1. ASSUME NEW n \in Nodes PROVE W(n)' \subseteq W(n)
  <2> SUFFICES ASSUME NEW c \in W(n)', c \notin Live(n)
               PROVE  c \in {d \in Holds(n) : ~Duplicate(n, d)}
    BY DEF W
  <2>1. node'[n].pc = "run" /\ c = node'[n].cmd /\ last'[n] # c
    BY DEF W, Holds, Duplicate, Forgets
  <2>2. node[n].pc = "run" /\ node[n].cmd = c /\ last[n] # c
    BY <2>1 DEF Forgets
  <2> QED
    BY <2>2 DEF Holds, Duplicate
<1> QED
  BY <1>1 DEF Forgets, Abstract!Forget, W

(* A push is an acceptance. *)
LEMMA PushMaps ==
  ASSUME Inv, NEW n \in Nodes, QueuePush(n)
  PROVE  \E c \in Command : Abstract!Accept(n, c)
<1> USE DEF Inv
<1>1. PICK c \in Command :
        /\ \A d \in Command : ~Before(host, d) => Before(d, c)
        /\ \A m : Live(m)' = IF m = n THEN Live(m) \cup {c} ELSE Live(m)
  BY PushSafe
<1>2. UNCHANGED <<node, last, ran>>
  BY DEF QueuePush
<1>3. \A m \in Nodes : W(m)' = IF m = n THEN W(m) \cup {c} ELSE W(m)
  BY <1>1, <1>2 DEF W, Holds, Duplicate
<1>4. ASSUME NEW m \in Nodes, NEW d \in W(m) PROVE Before(d, c)
  <2>1. d \in Command /\ ~Before(host, d)
    <3>1. CASE d \in Live(m)
      BY <3>1 DEF GatewayInv, InOrder, QueueTyped, Item, Live, ItemsOf
    <3>2. CASE d \in Holds(m)
      BY <3>2 DEF Holds, OrderInv, RunsNext, NodesTyped
    <3> QED
      BY <1>4, <3>1, <3>2 DEF W
  <2> QED
    BY <1>1, <2>1
<1>5. \A k \in DOMAIN ran[n] : Before(ran[n][k], c)
  BY <1>1 DEF OrderInv, RanInOrder, HistoryTyped
<1> QED
  BY <1>2, <1>3, <1>4, <1>5, SameOrder DEF Abstract!Accept, Abstract!NotYetRun, W

(* Running a command is a run, repeating the last one changes nothing. *)
LEMMA RunMaps ==
  ASSUME Inv, NEW n \in Nodes, RunCommand(n)
  PROVE  Abstract!Forget \/ \E c \in Command : Abstract!Run(n, c)
<1> USE DEF Inv
<1>1. PICK c \in Command : c = node[n].cmd
  BY DEF RunCommand, NodesTyped
<1>2. /\ node[n].pc = "run" /\ node'[n].pc = "reply"
      /\ \A m \in Nodes \ {n} : node'[m] = node[m]
      /\ UNCHANGED <<queue, gw, last>>
  BY DEF RunCommand, NodesTyped, Reply, gateway
<1>3. \A m : Live(m)' = Live(m)
  BY <1>2 DEF Live, ItemsOf
<1>4. CASE Duplicate(n, c)
  <2>1. ran' = ran
    BY <1>1, <1>4 DEF RunCommand
  <2>2. Forgets
    BY <1>2, <1>3, <2>1 DEF Forgets
  <2> QED
    BY <2>2, ForgetsMaps
<1>5. CASE ~Duplicate(n, c)
  <2>1. ran' = [ran EXCEPT ![n] = Append(@, c)]
    BY <1>1, <1>5 DEF RunCommand
  <2>2. RunsNext(n) /\ last[n] # c
    BY <1>5 DEF OrderInv, Duplicate
  <2>3. W(n) = Live(n) \cup {c} /\ W(n)' = Live(n)
    BY <1>1, <1>2, <1>3, <1>5 DEF W, Holds
  <2>4. \A m \in Nodes \ {n} : W(m)' = W(m)
    BY <1>2, <1>3 DEF W, Holds, Duplicate
  <2>5. c \in W(n) /\ \A d \in W(n) : ~Before(d, c)
    BY <1>1, <1>2, <2>2, <2>3, BeforeOrder DEF RunsNext
  <2>6. \A k \in DOMAIN ran[n] : Before(ran[n][k], c)
    BY <1>1, <1>2, <2>2 DEF RunsNext
  <2> DEFINE waiting == [m \in Nodes |-> W(m)]
  <2>7. waiting' \in {waiting, [waiting EXCEPT ![n] = @ \ {c}]}
    <3>1. waiting' = [m \in Nodes |-> W(m)']
      OBVIOUS
    <3>2. CASE c \in Live(n)
      <4>1. \A m \in Nodes : W(m)' = W(m)
        BY <2>3, <2>4, <3>2
      <4> QED
        BY <4>1
    <3>3. CASE c \notin Live(n)
      <4>1. W(n)' = W(n) \ {c}
        BY <2>3, <3>3
      <4> QED
        BY <2>4, <4>1
    <3> QED
      BY <3>2, <3>3
  <2>8. Abstract!Run(n, c)
    BY <2>1, <2>5, <2>6, <2>7, SameOrder DEF Abstract!Run, Abstract!NotYetRun, W
  <2> QED
    BY <2>8
<1> QED
  BY <1>4, <1>5

(* A reset of a node is a reboot. *)
LEMMA ResetMaps ==
  ASSUME Inv, NEW n \in Nodes, NodeReset(n)
  PROVE  Abstract!Reboot(n)
<1> USE DEF Inv
<1>1. /\ node'[n].pc = "asleep" /\ ran' = [ran EXCEPT ![n] = <<>>]
      /\ \A m \in Nodes \ {n} : node'[m] = node[m] /\ last'[m] = last[m]
      /\ UNCHANGED <<queue, gw>>
  BY DEF NodeReset, NodesTyped, Asleep, At, gateway
<1>2. \A m : Live(m)' = Live(m)
  BY <1>1 DEF Live, ItemsOf
<1>3. W(n)' \subseteq W(n)
  BY <1>1, <1>2 DEF W, Holds
<1>4. \A m \in Nodes \ {n} : W(m)' = W(m)
  BY <1>1, <1>2 DEF W, Holds, Duplicate
<1> QED
  BY <1>1, <1>3, <1>4 DEF Abstract!Reboot, W

(* Every step of Downlink is a step of Commands, or none. *)
LEMMA StepMaps == Inv /\ [Next]_vars => [Abstract!Next]_Abstract!vars
<1> SUFFICES ASSUME Inv, [Next]_vars PROVE [Abstract!Next]_Abstract!vars
  OBVIOUS
<1>1. CASE Forgets
  BY <1>1, ForgetsMaps DEF Abstract!Next
<1>2. ASSUME NEW n \in Nodes, Wake(n) \/ WindowEnds(n) \/ QueueDrop(n) PROVE Forgets
  BY <1>2, WakeSafe, QueueDropSafe
<1>3. ASSUME NEW n \in Nodes, \/ UplinkHeard(n, TRUE) \/ UplinkHeard(n, FALSE)
                              \/ UplinkLost(n) \/ UplinkRefused(n)
      PROVE  Forgets
  BY <1>3, UplinkHeardSafe, UplinkLostSafe
<1>4. ASSUME GatewayStep \/ Expire \/ HostRestart \/ GatewayReset PROVE Forgets
  BY <1>4, DownlinkHeardSafe, DownlinkFailedSafe, ExpireSafe, HostRestartSafe, GatewayResetSafe
     DEF GatewayStep
<1>5. ASSUME NEW n \in Nodes, RunCommand(n) PROVE Abstract!Next
  BY <1>5, RunMaps, SameOrder DEF Abstract!Next
<1>6. ASSUME NEW n \in Nodes, QueuePush(n) PROVE Abstract!Next
  BY <1>6, PushMaps, SameOrder DEF Abstract!Next
<1>7. ASSUME NEW n \in Nodes, NodeReset(n) PROVE Abstract!Next
  BY <1>7, ResetMaps DEF Abstract!Next
<1>8. CASE UNCHANGED vars
  BY <1>8 DEF vars, gateway, Abstract!vars, Live, ItemsOf, Holds, Duplicate
<1> QED
  BY <1>1, <1>2, <1>3, <1>4, <1>5, <1>6, <1>7, <1>8 DEF Next, NodeStep

(* Queue, window and dedup together keep what Commands promises: nodes run *)
(* their commands in the order the host gave them, each at most once per   *)
(* boot.                                                                   *)
THEOREM Refinement == Spec => ImplementsCommands
<1>1. Init => Abstract!Init
  BY DEF Init, Abstract!Init, Live, ItemsOf, Holds, Asleep, At
<1>2. Inv /\ [Next]_vars => [Abstract!Next]_Abstract!vars
  BY StepMaps
<1> QED
  BY <1>1, <1>2, Invariance, PTL DEF Spec, ImplementsCommands, Abstract!Spec
=============================================================================
