------------------------------ MODULE Pairing ------------------------------
(***************************************************************************)
(* Pairing over the air: the window a host opens on the gateway, the       *)
(* three-way join of a node, and the registration that ends it             *)
(* (radio/net/pairing.rs, radio_dongle_gateway.rs).                        *)
(*                                                                         *)
(* A frame that was sent may be lost, heard late and heard again: `frames` *)
(* keeps all of them.  The gateway serves the host between the slices of   *)
(* the window, and is deaf to the host within a slice.                     *)
(***************************************************************************)
EXTENDS Naturals, FiniteSets

CONSTANTS
  Nodes,
  Keys,         (* the keys a host hands out                              *)
  MaxRequests,  (* model bound: requests of the host                      *)
  HostOps,      (* the operations the host asks for                       *)
  Capacity,     (* registry::CAPACITY                                     *)
  WindowSlices, (* the slices of one window (window / PAIR_SLICE)         *)
  MaxJoins,     (* model bound: JOIN_REQs of the nodes                    *)
  MaxExchanges, (* model bound: JOIN_REQs the gateway answers             *)
  None

ASSUME PairingConstants ==
  /\ HostOps \subseteq {"open", "cancel", "add", "remove"}
  /\ IsFiniteSet(Nodes) /\ Capacity \in Nat \ {0} /\ WindowSlices \in Nat \ {0}
  /\ None \notin Keys \cup Nodes
  /\ {MaxRequests, MaxJoins, MaxExchanges} \subseteq Nat

VARIABLES
  registry, (* EEPROM of the gateway: the key of a node, or None          *)
  session,  (* PairingSession: its request, key and slices left, or None  *)
  gateway,  (* where its loop is, whom and which challenge it waits for   *)
  inbox,    (* the request of the host not served yet                     *)
  served,   (* requests served in this iteration                          *)
  asked,    (* the number of requests sent so far, which names the latest *)
  answers,  (* history: final responses, per request                      *)
  turnedAway, (* history: a join completed, the registry had no room      *)
  frames,   (* the frames sent so far                                     *)
  minted,   (* the challenges drawn so far (rand_u32, never the same)     *)
  waiting,  (* the nodes that wait for a JOIN_RESP                        *)
  held,     (* the key a node holds, or None (KEY_PROVISION)              *)
  joins

host == <<inbox, asked>>
pair == <<registry, session, answers, turnedAway>>
node == <<waiting, held, joins>>
pairingVars == <<pair, gateway, served, host, frames, minted, node>>

Requests == 1..MaxRequests

Req(n) == [type |-> "req", node |-> n]
Resp(n, k, c) == [type |-> "resp", node |-> n, key |-> k, challenge |-> c]
Confirm(n, c) == [type |-> "confirm", node |-> n, challenge |-> c]

Registered == {n \in Nodes : registry[n] # None}

Full == Cardinality(Registered) >= Capacity

Idle == [at |-> "loop", peer |-> None, challenge |-> 0]

Listening == [at |-> "listen", peer |-> None, challenge |-> 0]

(* respond_empty, respond_record: one final response. *)
Answer(r) == answers' = [answers EXCEPT ![r] = @ + 1]

-----------------------------------------------------------------------------
(* The host. *)

HostAsks ==
  /\ inbox = None /\ asked < MaxRequests /\ asked' = asked + 1
  /\ \E op \in HostOps, n \in Nodes \cup {None}, k \in Keys \cup {None} :
       /\ n # None <=> op \in {"add", "remove"}
       /\ k # None <=> op \in {"add", "open"}
       /\ inbox' = [req |-> asked', op |-> op, node |-> n, key |-> k]
  /\ UNCHANGED <<pair, gateway, served, frames, minted, node>>

-----------------------------------------------------------------------------
(* handle_mgmt. *)

(* PairingOpen: refused while a window is open or the registry is full;    *)
(* else its response waits for the end of the window.                      *)
Open(q) ==
  IF session # None \/ Full
  THEN Answer(q.req) /\ UNCHANGED <<registry, session, turnedAway>>
  ELSE /\ session' = [req |-> q.req, key |-> q.key, slices |-> WindowSlices]
       /\ UNCHANGED <<registry, answers, turnedAway>>

(* PairingCancel: the window's request is answered, then this one.         *)
Cancel(q) ==
  /\ session' = None
  /\ answers' = [r \in Requests |->
                   IF r = q.req \/ (session # None /\ r = session.req)
                   THEN answers[r] + 1 ELSE answers[r]]
  /\ UNCHANGED <<registry, turnedAway>>

(* registry::add: an overwrite, or a new record if there is room; the      *)
(* store may fail.                                                         *)
NodeAdd(q) ==
  /\ Answer(q.req)
  /\ \/ (registry[q.node] # None \/ ~Full) /\ registry' = [registry EXCEPT ![q.node] = q.key]
     \/ UNCHANGED registry
  /\ UNCHANGED <<session, turnedAway>>

NodeRemove(q) ==
  /\ Answer(q.req)
  /\ registry' = [registry EXCEPT ![q.node] = None] \/ UNCHANGED registry
  /\ UNCHANGED <<session, turnedAway>>

(* At most two requests before the radio's turn. *)
Serve ==
  /\ gateway.at = "loop" /\ inbox # None /\ served < 2
  /\ \/ inbox.op = "open" /\ Open(inbox)
     \/ inbox.op = "cancel" /\ Cancel(inbox)
     \/ inbox.op = "add" /\ NodeAdd(inbox)
     \/ inbox.op = "remove" /\ NodeRemove(inbox)
  /\ inbox' = None /\ served' = served + 1
  /\ UNCHANGED <<gateway, asked, frames, minted, node>>

-----------------------------------------------------------------------------
(* The gateway's loop and open_pairing. *)

(* The registry is looked at only when the window opens. *)
EndsOnTime == session.slices = 0

(* The window ends when the registry is full or its time is up. *)
Ends == Full \/ session.slices = 0

(* Every slice gets the whole window anew. *)
AfterSliceRenewed == session

AfterSlice == [session EXCEPT !.slices = @ - 1]

(* The radio's turn: the end of the window, or one slice of it.            *)
Turn ==
  /\ gateway.at = "loop" /\ (inbox = None \/ served = 2)
  /\ served' = 0
  /\ IF session = None THEN served = 2 /\ UNCHANGED <<pair, gateway>>
     ELSE IF Ends
     THEN Answer(session.req) /\ session' = None /\ UNCHANGED <<registry, turnedAway, gateway>>
     ELSE /\ session' = AfterSlice
          /\ gateway' = Listening
          /\ UNCHANGED <<registry, answers, turnedAway>>
  /\ UNCHANGED <<host, frames, minted, node>>

(* The slice ends, at once if the TX counter is locked.                    *)
SliceEnds ==
  /\ gateway.at = "listen" /\ gateway' = Idle
  /\ UNCHANGED <<pair, served, host, frames, minted, node>>

(* A JOIN_REQ is answered with the key and a challenge of its own; what    *)
(* tx_pair returns is not looked at.                                       *)
HearReq ==
  /\ gateway.at = "listen"
  /\ \E f \in frames :
       /\ f.type = "req"
       /\ minted < MaxExchanges /\ minted' = minted + 1
       /\ gateway' = [at |-> "confirm", peer |-> f.node, challenge |-> minted']
       /\ \/ frames' = frames \cup {Resp(f.node, session.key, minted')}
          \/ UNCHANGED frames
  /\ UNCHANGED <<pair, served, host, node>>

(* Anybody's confirm, of any exchange. *)
MatchesAddr(f) == f.node = gateway.peer

(* confirm_matches *)
Matches(f) == f.node = gateway.peer /\ f.challenge = gateway.challenge

(* commit_pairing: the window is closed, the node registered if there is   *)
(* room and the store succeeds, and the request answered.                  *)
Commit(n) ==
  /\ session' = None /\ Answer(session.req)
  /\ IF registry[n] = None /\ Full
     THEN turnedAway' = TRUE /\ UNCHANGED registry
     ELSE /\ registry' = [registry EXCEPT ![n] = session.key] \/ UNCHANGED registry
          /\ UNCHANGED turnedAway

(* One frame, or none, ends the wait for the confirm.                      *)
HearConfirm ==
  /\ gateway.at = "confirm"
  /\ \/ \E f \in frames : /\ f.type = "confirm" /\ Matches(f)
                       /\ Commit(f.node) /\ gateway' = Idle
     \/ gateway' = Listening /\ UNCHANGED pair
  /\ UNCHANGED <<served, host, frames, minted, node>>

(* Power loss: the window and the requests go, the registry stays.         *)
Restart ==
  /\ gateway.at # "loop" /\ gateway' = Idle
  /\ session' = None /\ served' = 0 /\ inbox' = None
  /\ UNCHANGED <<registry, answers, turnedAway, asked, frames, minted, node>>

-----------------------------------------------------------------------------
(* The node: join. *)

(* A JOIN_REQ, the first or after JOIN_RESP_WINDOW.  A join is started by  *)
(* a long press or by a host, not within the wait for a confirm.           *)
AskJoin(n) ==
  /\ joins < MaxJoins /\ joins' = joins + 1
  /\ n \in waiting \/ gateway.peer # n
  /\ waiting' = waiting \cup {n}
  /\ frames' = frames \cup {Req(n)} \/ UNCHANGED frames
  /\ UNCHANGED <<pair, gateway, served, host, minted, held>>

(* Any JOIN_RESP will do; the key is kept once the confirm is sent, or was *)
(* to be sent.                                                             *)
HearResp(n) ==
  /\ n \in waiting /\ waiting' = waiting \ {n}
  /\ \E f \in frames :
       /\ f.type = "resp"
       /\ held' = [held EXCEPT ![n] = f.key]
       /\ frames' = frames \cup {Confirm(n, f.challenge)} \/ UNCHANGED frames
  /\ UNCHANGED <<pair, gateway, served, host, minted, joins>>

GiveUp(n) ==
  /\ n \in waiting /\ waiting' = waiting \ {n}
  /\ UNCHANGED <<pair, gateway, served, host, frames, minted, held, joins>>

-----------------------------------------------------------------------------
PairingInit ==
  /\ registry = [n \in Nodes |-> None] /\ session = None
  /\ gateway = Idle /\ inbox = None /\ served = 0 /\ asked = 0
  /\ answers = [r \in Requests |-> 0] /\ turnedAway = FALSE
  /\ frames = {} /\ minted = 0
  /\ waiting = {} /\ held = [n \in Nodes |-> None] /\ joins = 0

Loop == Serve \/ Turn \/ SliceEnds \/ HearReq \/ HearConfirm

Joiner == \E n \in Nodes : AskJoin(n) \/ HearResp(n) \/ GiveUp(n)

PairingNext == HostAsks \/ Loop \/ Restart \/ Joiner

PairingSpec == PairingInit /\ [][PairingNext]_pairingVars

(* The loop never rests, and a slice ends by its deadline.                 *)
FairPairing == PairingSpec /\ WF_pairingVars(Serve) /\ WF_pairingVars(Turn) /\ WF_pairingVars(HearConfirm) /\ SF_pairingVars(SliceEnds)

(* A node that completed the join, and so keeps its key, is never turned   *)
(* away for want of room (the early close before a slice).                 *)
NeverRefused == ~turnedAway

(* A request gets at most one final response (handle_mgmt, the ends of the *)
(* window, commit_pairing).                                                *)
AnsweredOnce == \A r \in Requests : answers[r] <= (IF r <= asked THEN 1 ELSE 0)

(* The key the gateway registers after a join is the one the node holds,   *)
(* whatever frames of other joins and windows are heard (confirm_matches). *)
KeysAgree ==
  [][gateway.at = "confirm" =>
       \A n \in Nodes : registry'[n] # registry[n] => held[n] = registry'[n]]_pairingVars

(* A window ends: its request is answered unless the gateway restarts      *)
(* (the slices of the loop).                                               *)
WindowResolves ==
  \A r \in Requests : session # None /\ session.req = r ~> session = None \/ session.req # r

=============================================================================
