----------------------------- MODULE PeerLanes -----------------------------
(***************************************************************************)
(* The replay lanes of a gateway: which counters it accepts from each      *)
(* node, and what of that survives a reboot.                               *)
(*                                                                         *)
(* A node has a key and a counter.  The gateway has a registry of nodes on *)
(* EEPROM (tower-gw-core), a peer table in RAM with one replay lane per    *)
(* peer (tower-net-core, radio/net/mod.rs), and per lane an EEPROM record  *)
(* of the last counter seen, written lazily: every P accepts.  A record is *)
(* tagged with the address it belongs to and found again by that address.  *)
(*                                                                         *)
(* The air loses, duplicates, delays and reorders: any frame ever aired    *)
(* may arrive at any time.  Power may fail between any two EEPROM writes.  *)
(***************************************************************************)
EXTENDS Integers, FiniteSets, FiniteSetsExt

CONSTANTS
  Addrs,        (* node addresses                                         *)
  P,            (* the lazy-persist period                                *)
  MaxPeers,     (* lanes in RAM and on EEPROM; the registry's CAPACITY    *)
  PerBucket,    (* registry records per bucket                            *)
  Buckets,      (* registry buckets                                       *)
  StaleRestore, (* whether a lane record may be restored for another key  *)
                (* than the one it was counted under                      *)
  MaxAired,     (* model bound: frames ever aired                         *)
  MaxKey,       (* model bound: keys a node ever has                      *)
  MaxCtr,       (* model bound on a node's counter                        *)
  None

ASSUME LaneConstants ==
  /\ {P, MaxPeers, PerBucket, Buckets, MaxAired, MaxKey, MaxCtr} \subseteq Nat \ {0}
  /\ MaxPeers <= PerBucket * Buckets
  /\ StaleRestore \in BOOLEAN

VARIABLES
  node,      (* a node's key (0: none yet) and next counter               *)
  aired,     (* history: every frame put on air                           *)
  registry,  (* EEPROM: the node at each place, a bucket and a slot in it *)
  records,   (* EEPROM: the lane records; `key` is history, the key the   *)
             (* counter was seen under                                    *)
  peers,     (* RAM: the peer table                                       *)
  todo,      (* RAM: the places whose nodes the boot has yet to install   *)
  accepted,  (* history: the frames accepted as fresh                     *)
  session,   (* history: those accepted since their lane was loaded       *)
  acked      (* history: the frames acknowledged                          *)

history == <<accepted, session, acked>>
vars == <<node, aired, registry, records, peers, todo, history>>

Keys == 1..MaxKey
Locals == 0..MaxPeers - 1
Frames == [src : Addrs, key : Keys, ctr : 1..MaxCtr]
Node(a, k) == [addr |-> a, key |-> k]
Record(a, k, c) == [addr |-> a, key |-> k, seen |-> c]

Nodes == [addr : Addrs, key : Keys]
LaneRecords == [addr : Addrs, key : Keys, seen : 0..MaxCtr]
Peers == [key : Keys, seen : 0..MaxCtr, accepts : 0..P - 1, local : Locals]

ASSUME NoneIsNone == None \notin Nodes \cup LaneRecords \cup Peers

Running == todo = {}
InTable == {a \in Addrs : peers[a] # None}

-----------------------------------------------------------------------------
(* The lane kernel (replay.rs). *)

(* An older counter taken for a retransmit as well. *)
ClassifyLoosely(lane, c) == IF c > lane.seen THEN "Fresh" ELSE "Retransmit"

Classify(lane, c) ==
  CASE c > lane.seen -> "Fresh"
    [] c = lane.seen -> "Retransmit"
    [] c < lane.seen -> "Replay"

PersistDue(accepts) == accepts = 0

(* One accept too many between persists. *)
NextAcceptLate(accepts) == IF accepts = P THEN 0 ELSE accepts + 1

(* The accepts are counted modulo P. *)
NextAccept(accepts) == IF accepts + 1 = P THEN 0 ELSE accepts + 1

Accept(lane, c) == [lane EXCEPT !.seen = c, !.accepts = NextAccept(@)]

(* Binding that does not look at which locals live peers hold. *)
AssignLaneShared(a, used) ==
  LET own == {l \in Locals : records[l] # None /\ records[l].addr = a}
  IN  IF own # {} THEN [local |-> Min(own), seen |-> records[Min(own)].seen, fresh |-> FALSE]
      ELSE [local |-> 0, seen |-> 0, fresh |-> TRUE]

(* Binding by order of registration. *)
AssignLaneByOrder(a, used) == [local |-> Min(Locals \ used), seen |-> 0, fresh |-> TRUE]

(* The address's own record at a free local, else the lowest free local.   *)
AssignLane(a, used) ==
  LET own == {l \in Locals \ used : records[l] # None /\ records[l].addr = a}
  IN  IF own # {} THEN [local |-> Min(own), seen |-> records[Min(own)].seen, fresh |-> FALSE]
      ELSE [local |-> Min(Locals \ used), seen |-> 0, fresh |-> TRUE]

-----------------------------------------------------------------------------
(* The registry (registry.rs). *)

Slots == (1..Buckets) \X (1..PerBucket)
Places == {s \in Slots : registry[s] # None}
Registered == {registry[s] : s \in Places}

(* The order of the buckets, and of the slots in a bucket. *)
Precedes(s, t) == s[1] < t[1] \/ (s[1] = t[1] /\ s[2] < t[2])

FirstOf(slots) == {s \in slots : \A t \in slots : ~Precedes(t, s)}

Held(a) == {s \in Places : registry[s].addr = a}

Full == Cardinality(Registered) >= MaxPeers \/ Places = Slots

(* Overwrite in place, else append to the first bucket with room, unless   *)
(* the registry is full.                                                   *)
RegistryAdd(a, k) ==
  \/ \E s \in Held(a) : registry' = [registry EXCEPT ![s] = Node(a, k)]
  \/ /\ Held(a) = {} /\ ~Full
     /\ \E s \in FirstOf(Slots \ Places) : registry' = [registry EXCEPT ![s] = Node(a, k)]
  \/ Held(a) = {} /\ Full /\ UNCHANGED registry

(* What follows in the bucket moves up. *)
RegistryRemove(s) ==
  registry' = [t \in Slots |->
                 IF t[1] # s[1] \/ t[2] < s[2] THEN registry[t]
                 ELSE IF t[2] < PerBucket THEN registry[<<t[1], t[2] + 1>>]
                 ELSE None]

-----------------------------------------------------------------------------
(* The peer table (radio/net/mod.rs). *)

(* What a re-key leaves of the lane record: as it was, reset in RAM only.  *)
RekeyRecordKept(l, a, k) == [records[l] EXCEPT !.key = k]

RekeyRecord(l, a, k) == Record(a, k, 0)

(* A peer whose lane is loaded anew. *)
Loaded(k, c, l) == [key |-> k, seen |-> c, accepts |-> 0, local |-> l]

(* The locals that live peers hold. *)
Used == {peers[b].local : b \in InTable}

(* The peer and the record of its local after add_peer.  A known address   *)
(* keeps its lane under the same key and starts over under another; a new  *)
(* one is bound to a lane, and claims its record unless it has one.  There *)
(* is always room: the registry's capacity is the table's.                 *)
AddPeer(a, k) ==
  IF a \in InTable
    THEN LET p == peers[a]
         IN  IF p.key = k
               THEN [peer |-> p, record |-> records[p.local]]
               ELSE [peer |-> Loaded(k, 0, p.local),
                     record |-> RekeyRecord(p.local, a, k)]
    ELSE LET lane == AssignLane(a, Used)
         IN  [peer |-> Loaded(k, lane.seen, lane.local),
              record |-> IF lane.fresh THEN Record(a, k, 0) ELSE records[lane.local]]

InstallPeer(a, k) ==
  LET added == AddPeer(a, k)
      keeps == a \in InTable /\ peers[a].key = k
  IN  /\ peers' = [peers EXCEPT ![a] = added.peer]
      /\ records' = [records EXCEPT ![added.peer.local] = added.record]
      /\ session' = IF keeps THEN session ELSE {f \in session : f.src # a}

-----------------------------------------------------------------------------
(* Actions. *)

(* A node is given its next key, over the air or by cable; if it was reset *)
(* to factory state first, its counter starts again at 1.                  *)
Provision(a, restart) ==
  /\ node[a].key < MaxKey
  /\ node' = [node EXCEPT ![a] = [key |-> @.key + 1, next |-> IF restart THEN 1 ELSE @.next]]
  /\ UNCHANGED <<aired, registry, records, peers, todo, history>>

(* It sends a confirmed frame under a counter of its own. *)
Transmit(a) ==
  /\ node[a].key # 0 /\ node[a].next <= MaxCtr /\ Cardinality(aired) < MaxAired
  /\ aired' = aired \cup {[src |-> a, key |-> node[a].key, ctr |-> node[a].next]}
  /\ node' = [node EXCEPT ![a].next = @ + 1]
  /\ UNCHANGED <<registry, records, peers, todo, history>>

(* recv: a frame that opens under the key of its source is classified; a   *)
(* fresh one is accepted, and its lane persisted when that is due.  ACKs   *)
(* are lost like any frame, so the model always sends the ones it may.     *)
Receive(f) ==
  /\ Running
  /\ f \in aired /\ f.src \in InTable
  /\ LET p == peers[f.src]
         verdict == Classify(p, f.ctr)
         lane == Accept(p, f.ctr)
     IN  /\ f.key = p.key
         /\ verdict # "Replay"
         /\ acked' = acked \cup {f}
         /\ IF verdict = "Fresh"
              THEN /\ peers' = [peers EXCEPT ![f.src] = lane]
                   /\ records' = IF PersistDue(lane.accepts)
                                   THEN [records EXCEPT ![p.local] = Record(f.src, f.key, f.ctr)]
                                   ELSE records
                   /\ accepted' = accepted \cup {f}
                   /\ session' = session \cup {f}
              ELSE UNCHANGED <<peers, records, accepted, session>>
  /\ UNCHANGED <<node, aired, registry, todo>>

(* With StaleRestore off, a node comes back under the key of its record.   *)
KeyFits(a, k) ==
  \/ StaleRestore
  \/ \A l \in Locals : records[l] # None /\ records[l].addr = a => records[l].key = k

(* The keys the gateway may be given for a node: the one it has, or one it *)
(* is to get, never one it has given up.                                   *)
Issued(a, k) == k >= node[a].key

(* NodeAdd by the host, or commit_pairing: the registry, then the table.   *)
NodeAdd(a, k) ==
  /\ Running
  /\ Issued(a, k)
  /\ a \in InTable \/ KeyFits(a, k)
  /\ RegistryAdd(a, k)
  /\ IF Node(a, k) \in Registered'
       THEN InstallPeer(a, k)
       ELSE UNCHANGED <<peers, records, session>>
  /\ UNCHANGED <<node, aired, todo, accepted, acked>>

GoDown ==
  /\ peers' = [a \in Addrs |-> None]
  /\ session' = {}

(* The power fails between the two. *)
NodeAddTorn(a, k) ==
  /\ Running
  /\ Issued(a, k)
  /\ KeyFits(a, k)
  /\ RegistryAdd(a, k)
  /\ GoDown /\ todo' = Places'
  /\ UNCHANGED <<node, aired, records, accepted, acked>>

(* NodeRemove: the record of the lane stays behind. *)
NodeRemove(a) ==
  /\ Running
  /\ \E s \in Held(a) : RegistryRemove(s)
  /\ peers' = [peers EXCEPT ![a] = None]
  /\ session' = {f \in session : f.src # a}
  /\ UNCHANGED <<node, aired, records, todo, accepted, acked>>

Reboot ==
  /\ GoDown /\ todo' = Places
  /\ UNCHANGED <<node, aired, registry, records, accepted, acked>>

(* The boot installs the registered nodes one after the other. *)
Mirror ==
  /\ ~Running
  /\ \E s \in FirstOf(todo) :
       /\ InstallPeer(registry[s].addr, registry[s].key)
       /\ todo' = todo \ {s}
  /\ UNCHANGED <<node, aired, registry, accepted, acked>>

-----------------------------------------------------------------------------

Init ==
  /\ node = [a \in Addrs |-> [key |-> 0, next |-> 1]]
  /\ aired = {}
  /\ registry = [s \in Slots |-> None]
  /\ records = [l \in Locals |-> None]
  /\ peers = [a \in Addrs |-> None]
  /\ todo = {}
  /\ accepted = {} /\ session = {} /\ acked = {}

Next ==
  \/ \E a \in Addrs, restart \in BOOLEAN : Provision(a, restart)
  \/ \E a \in Addrs : Transmit(a)
  \/ \E f \in Frames : Receive(f)
  \/ \E a \in Addrs, k \in Keys : NodeAdd(a, k) \/ NodeAddTorn(a, k)
  \/ \E a \in Addrs : NodeRemove(a)
  \/ Reboot
  \/ Mirror

Spec == Init /\ [][Next]_vars

-----------------------------------------------------------------------------
(* Properties. *)

(* The type invariant. *)
TypeOK ==
  /\ node \in [Addrs -> [key : 0..MaxKey, next : 1..MaxCtr + 1]]
  /\ aired \subseteq Frames
  /\ registry \in [Slots -> Nodes \cup {None}]
  /\ records \in [Locals -> LaneRecords \cup {None}]
  /\ peers \in [Addrs -> Peers \cup {None}]
  /\ todo \subseteq Places
  /\ session \subseteq accepted /\ accepted \subseteq aired /\ acked \subseteq aired

(* Two live peers never share a lane record, and each one's record is its  *)
(* own, so that neither can move the other's counter.                      *)
LanesDisjoint ==
  \A a \in InTable :
    /\ records[peers[a].local] # None
    /\ records[peers[a].local].addr = a
    /\ records[peers[a].local].seen <= peers[a].seen
    /\ \A b \in InTable \ {a} : peers[b].local # peers[a].local

(* A reboot now would accept again fewer than P of the frames accepted     *)
(* since the lane was loaded.                                              *)
Exposed(fs, a) ==
  {f \in fs : f.src = a /\ f.key = peers[a].key /\ f.ctr > records[peers[a].local].seen}

WindowPerSession == \A a \in InTable : Cardinality(Exposed(session, a)) < P

(* The same for all the frames ever accepted: "up to P already-seen        *)
(* counters are re-accepted once each" (replay.rs).                        *)
ReplayWindow == \A a \in InTable : Cardinality(Exposed(accepted, a)) <= P

(* Only what was accepted is acknowledged: the sender drops a frame for    *)
(* good once it is.                                                        *)
AckedWasAccepted == acked \subseteq accepted

(* A node that shares the gateway's key is heard: its next frame is above  *)
(* its lane ("a re-key resets both", docs/radio.md).                       *)
NodeIsHeard ==
  \A a \in InTable : peers[a].key = node[a].key => peers[a].seen < node[a].next

(* While a node stays registered under one key, the counter that a reboot  *)
(* restores for it never goes back, provided that every registered node    *)
(* has its record: the order of registration does not matter.              *)
Floor(recs, n) ==
  LET own == {l \in DOMAIN recs : recs[l] # None /\ recs[l].addr = n.addr}
  IN  IF own = {} THEN -1 ELSE recs[Min(own)].seen

FloorNeverDrops ==
  [][(\A n \in Registered : Floor(records, n) >= 0) =>
       \A n \in Registered \cap Registered' : Floor(records', n) >= Floor(records, n)]_vars
=============================================================================
