-------------------------- MODULE PeerLanesProofs --------------------------
(***************************************************************************)
(* Proofs about the replay lanes, for any number of nodes, lanes, keys and *)
(* counters, any period P and any shape of the registry.                   *)
(***************************************************************************)
EXTENDS PeerLanes, FiniteSetTheorems, TLAPS

Own(a) == {l \in Locals \ Used : records[l] # None /\ records[l].addr = a}

(* An address is registered at one place. *)
Distinct ==
  \A s, t \in Places : registry[s].addr = registry[t].addr => s = t

(* No more nodes are registered than there are lanes. *)
Fits == Cardinality(Registered) <= MaxPeers

(* The table holds the registered nodes, less those the boot has yet to    *)
(* install, under their keys.                                              *)
Mirrored ==
  /\ \A a \in InTable : \E s \in Places \ todo : registry[s] = Node(a, peers[a].key)
  /\ \A s \in Places \ todo : registry[s].addr \in InTable

(* An address has one lane record. *)
OneRecord ==
  \A l, m \in Locals :
    records[l] # None /\ records[m] # None /\ records[l].addr = records[m].addr => l = m

(* What a lane has accepted since it was loaded is under its key and not   *)
(* above it.                                                               *)
SessionSeen ==
  \A f \in session :
    f.src \in InTable /\ f.key = peers[f.src].key /\ f.ctr <= peers[f.src].seen

(* What is exposed has been accepted since the lane was last persisted.    *)
Windowed == \A a \in InTable : Cardinality(Exposed(session, a)) <= peers[a].accepts

Lanes == LanesDisjoint /\ OneRecord /\ SessionSeen /\ Windowed

IInv == TypeOK /\ IsFiniteSet(aired) /\ Distinct /\ Fits /\ Mirrored /\ Lanes

-----------------------------------------------------------------------------
(* The constants. *)
LEMMA Numbers ==
  /\ P \in Nat \ {0} /\ MaxPeers \in Nat \ {0} /\ PerBucket \in Nat \ {0}
  /\ Buckets \in Nat \ {0} /\ MaxKey \in Nat \ {0} /\ MaxCtr \in Nat \ {0}
  BY LaneConstants

(* None is not a node, a record or a peer. *)
LEMMA NoneIsNothing == None \notin Nodes /\ None \notin LaneRecords /\ None \notin Peers
  BY NoneIsNone

(* A set of numbers that is not empty has a least one: among the intervals *)
(* that end in its elements, one is in all the others.                     *)
LEMMA MinIsLeast ==
  ASSUME NEW S \in SUBSET Nat, S # {}
  PROVE  Min(S) \in S /\ \A n \in S : Min(S) <= n
<1> DEFINE R == StrictSubsetOrdering(Nat)
           T == {0..n : n \in S}
<1>1. IsWellFoundedOn(R, FiniteSubsetsOf(Nat)) BY FS_StrictSubsetOrderingWellFounded
<1>2. T \subseteq FiniteSubsetsOf(Nat) /\ T # {}
  <2>1. ASSUME NEW n \in S PROVE 0..n \in SUBSET Nat /\ IsFiniteSet(0..n)
    <3>1. n \in Int /\ 0 \in Int OBVIOUS
    <3> QED BY <3>1, FS_Interval
  <2> QED BY <2>1 DEF FiniteSubsetsOf
<1>3. PICK t \in T : \A u \in T : <<u, t>> \notin R BY <1>1, <1>2, WFMin, Zenon
<1>4. PICK m \in S : t = 0..m OBVIOUS
<1>5. ASSUME NEW n \in S PROVE m <= n
  <2>1. <<0..n, 0..m>> \notin R BY <1>3, <1>4
  <2>2. 0..n \in SUBSET Nat /\ 0..m \in SUBSET Nat OBVIOUS
  <2>3. ~(0..n \subseteq 0..m) \/ 0..n = 0..m BY <2>1, <2>2 DEF StrictSubsetOrdering
  <2>4. CASE ~(0..n \subseteq 0..m) BY <2>4
  <2>5. CASE 0..n = 0..m
    <3>1. m \in 0..n BY <2>5
    <3> QED BY <3>1
  <2> QED BY <2>3, <2>4, <2>5
<1> QED BY <1>5 DEF Min

(* One element more makes a finite set larger by one at most. *)
LEMMA OneMore ==
  ASSUME NEW S, IsFiniteSet(S), NEW x
  PROVE  /\ IsFiniteSet(S \cup {x})
         /\ Cardinality(S) \in Nat /\ Cardinality(S \cup {x}) \in Nat
         /\ Cardinality(S \cup {x}) <= Cardinality(S) + 1
<1>1. IsFiniteSet(S \cup {x}) BY FS_AddElement
<1>2. Cardinality(S) \in Nat /\ Cardinality(S \cup {x}) \in Nat BY <1>1, FS_CardinalityType
<1>3. Cardinality(S \cup {x}) = IF x \in S THEN Cardinality(S) ELSE Cardinality(S) + 1
  BY FS_AddElement
<1> QED BY <1>1, <1>2, <1>3

-----------------------------------------------------------------------------
(* The registry. *)

(* It is finite, whatever it holds. *)
LEMMA RegisteredIsFinite == IsFiniteSet(Slots) /\ IsFiniteSet(Registered)
<1>1. IsFiniteSet(1..Buckets) /\ IsFiniteSet(1..PerBucket) BY Numbers, FS_Interval
<1>2. IsFiniteSet(Slots) BY <1>1, FS_Product DEF Slots
<1>3. IsFiniteSet(Places) BY <1>2, FS_Subset DEF Places
<1>4. [s \in Places |-> registry[s]] \in Surjection(Places, Registered)
  BY DEF Surjection, Registered
<1> QED BY <1>2, <1>3, <1>4, FS_Surjection

(* registry::add leaves every address at one place, no more nodes than     *)
(* lanes, and all the other nodes where they were.                         *)
LEMMA AddRegisters ==
  ASSUME TypeOK, Distinct, Fits, NEW a \in Addrs, NEW k \in Keys, RegistryAdd(a, k)
  PROVE  /\ registry' \in [Slots -> Nodes \cup {None}]
         /\ Distinct' /\ Fits'
         /\ Places \subseteq Places'
         /\ \A s \in Places : registry[s].addr # a => registry'[s] = registry[s]
         /\ \A s \in Places' : \/ s \in Places /\ registry'[s] = registry[s]
                               \/ registry'[s] = Node(a, k)
         /\ \/ Node(a, k) \in Registered'
            \/ registry' = registry /\ Held(a) = {}
<1>0. registry \in [Slots -> Nodes \cup {None}] BY DEF TypeOK
<1>n. Node(a, k) \in Nodes /\ Node(a, k) # None /\ Node(a, k).addr = a
  BY NoneIsNothing DEF Node, Nodes
<1>1. CASE Held(a) = {} /\ Full /\ UNCHANGED registry
  BY <1>0, <1>1 DEF Places, Distinct, Fits, Registered
<1>2. CASE \E s \in Held(a) : registry' = [registry EXCEPT ![s] = Node(a, k)]
  <2>1. PICK s \in Places : registry[s].addr = a /\ registry' = [registry EXCEPT ![s] = Node(a, k)]
    BY <1>2 DEF Held
  <2>2. s \in Slots BY DEF Places
  <2>3. registry' \in [Slots -> Nodes \cup {None}] BY <1>0, <1>n, <2>1
  <2>4. registry'[s] = Node(a, k) /\ \A t \in Slots \ {s} : registry'[t] = registry[t]
    BY <1>0, <2>1, <2>2
  <2>5. Places' = Places BY <1>n, <2>2, <2>4 DEF Places
  <2>6. Distinct' BY <1>n, <2>1, <2>2, <2>4, <2>5 DEF Distinct, Places
  <2>7. \A t \in Places : registry[t].addr # a => registry'[t] = registry[t]
    BY <2>1, <2>4 DEF Places
  <2>8. \A t \in Places' : registry'[t] = registry[t] \/ registry'[t] = Node(a, k)
    BY <2>4, <2>5 DEF Places
  <2>9. Registered' = (Registered \ {registry[s]}) \cup {Node(a, k)}
    <3>1. \A t \in Places \ {s} : registry[t] # registry[s] BY DEF Distinct
    <3> QED BY <2>1, <2>2, <2>4, <2>5, <3>1 DEF Registered, Places
  <2>10. Fits'
    <3>1. registry[s] \in Registered BY DEF Registered
    <3>2. IsFiniteSet(Registered \ {registry[s]})
          /\ Cardinality(Registered \ {registry[s]}) = Cardinality(Registered) - 1
      BY <3>1, RegisteredIsFinite, FS_RemoveElement
    <3>3. /\ Cardinality(Registered') <= Cardinality(Registered \ {registry[s]}) + 1
          /\ Cardinality(Registered') \in Nat
      BY <2>9, <3>2, OneMore
    <3>4. Cardinality(Registered) \in Nat BY RegisteredIsFinite, FS_CardinalityType
    <3> QED BY <3>2, <3>3, <3>4, Numbers DEF Fits
  <2> QED BY <2>1, <2>2, <2>3, <2>4, <2>5, <2>6, <2>7, <2>8, <2>10 DEF Registered
<1>3. CASE /\ Held(a) = {} /\ ~Full
           /\ \E s \in FirstOf(Slots \ Places) : registry' = [registry EXCEPT ![s] = Node(a, k)]
  <2>1. PICK s \in Slots \ Places : registry' = [registry EXCEPT ![s] = Node(a, k)]
    BY <1>3 DEF FirstOf
  <2>2. registry' \in [Slots -> Nodes \cup {None}] BY <1>0, <1>n, <2>1
  <2>3. registry'[s] = Node(a, k) /\ \A t \in Slots \ {s} : registry'[t] = registry[t]
    BY <1>0, <2>1
  <2>4. Places' = Places \cup {s} BY <1>n, <2>3 DEF Places
  <2>5. \A t \in Places : registry[t].addr # a /\ registry'[t] = registry[t]
    BY <1>3, <2>3 DEF Places, Held
  <2>6. Distinct' BY <1>n, <2>3, <2>4, <2>5 DEF Distinct
  <2>7. Registered' = Registered \cup {Node(a, k)} BY <2>3, <2>4, <2>5 DEF Registered
  <2>8. Fits'
    <3>1. Cardinality(Registered') <= Cardinality(Registered) + 1 /\ Cardinality(Registered) \in Nat
          /\ Cardinality(Registered') \in Nat
      BY <2>7, RegisteredIsFinite, OneMore
    <3>2. Cardinality(Registered) < MaxPeers BY <1>3, <3>1, Numbers DEF Full
    <3> QED BY <3>1, <3>2, Numbers DEF Fits
  <2> QED BY <2>2, <2>3, <2>4, <2>5, <2>6, <2>7, <2>8
<1> QED BY <1>1, <1>2, <1>3 DEF RegistryAdd

(* registry::remove leaves all the other nodes, each still at one place.   *)
LEMMA RemoveDeregisters ==
  ASSUME TypeOK, Distinct, Fits, NEW s \in Places, RegistryRemove(s)
  PROVE  /\ registry' \in [Slots -> Nodes \cup {None}]
         /\ Distinct' /\ Fits'
         /\ \A t \in Places' : \E u \in Places \ {s} : registry'[t] = registry[u]
         /\ \A u \in Places \ {s} : \E t \in Places' : registry'[t] = registry[u]
<1> DEFINE Stays(t) == t[1] # s[1] \/ t[2] < s[2]
           From(t) == IF Stays(t) THEN t ELSE <<t[1], t[2] + 1>>
<1>0. registry \in [Slots -> Nodes \cup {None}] BY DEF TypeOK
<1>1. s \in Slots /\ s[1] \in 1..Buckets /\ s[2] \in 1..PerBucket BY DEF Places, Slots
<1>2. ASSUME NEW t \in Slots, ~Stays(t), t[2] < PerBucket
      PROVE  From(t) \in Slots
  BY <1>2, Numbers DEF Slots
<1>3. \A t \in Slots :
        registry'[t] = IF Stays(t) THEN registry[t]
                       ELSE IF t[2] < PerBucket THEN registry[<<t[1], t[2] + 1>>] ELSE None
  BY DEF RegistryRemove
<1>4. registry' \in [Slots -> Nodes \cup {None}]
  <2>1. \A t \in Slots : registry'[t] \in Nodes \cup {None}
    <3> SUFFICES ASSUME NEW t \in Slots PROVE registry'[t] \in Nodes \cup {None} OBVIOUS
    <3>1. CASE Stays(t) BY <1>0, <1>3, <3>1
    <3>2. CASE ~Stays(t) /\ t[2] < PerBucket BY <1>0, <1>2, <1>3, <3>2
    <3>3. CASE ~Stays(t) /\ ~(t[2] < PerBucket) BY <1>3, <3>3
    <3> QED BY <3>1, <3>2, <3>3
  <2>2. registry' = [t \in Slots |-> registry'[t]] BY DEF RegistryRemove
  <2> QED BY <2>1, <2>2
<1>5. ASSUME NEW t \in Places'
      PROVE  t \in Slots /\ From(t) \in Places \ {s} /\ registry'[t] = registry[From(t)]
  <2>1. t \in Slots /\ registry'[t] # None BY DEF Places
  <2>2. CASE Stays(t) BY <1>1, <1>3, <2>1, <2>2 DEF Places, Slots
  <2>3. CASE ~Stays(t)
    <3>1. t[2] < PerBucket /\ registry'[t] = registry[<<t[1], t[2] + 1>>] BY <1>3, <2>1, <2>3
    <3>2. From(t) \in Slots /\ From(t) # s BY <1>1, <1>2, <2>1, <2>3, <3>1 DEF Slots
    <3> QED BY <2>1, <2>3, <3>1, <3>2 DEF Places
  <2> QED BY <2>2, <2>3
<1>6. \A t \in Places' : \E u \in Places \ {s} : registry'[t] = registry[u] BY <1>5
<1>7. ASSUME NEW t \in Places', NEW u \in Places', registry'[t].addr = registry'[u].addr
      PROVE  t = u
  <2>1. From(t) = From(u) BY <1>5, <1>7 DEF Distinct
  <2>2. t \in Slots /\ u \in Slots BY <1>5
  <2> QED BY <1>1, <2>1, <2>2 DEF Slots
<1>8. ASSUME NEW u \in Places \ {s}
      PROVE  \E t \in Places' : registry'[t] = registry[u]
  <2>1. u \in Slots /\ registry[u] # None BY DEF Places
  <2>2. CASE Stays(u)
    <3>1. registry'[u] = registry[u] BY <1>3, <2>1, <2>2
    <3> QED BY <2>1, <3>1 DEF Places
  <2>3. CASE ~Stays(u)
    <3> DEFINE t == <<u[1], u[2] - 1>>
    <3>1. u[1] = s[1] /\ u[2] > s[2] BY <1>1, <2>1, <2>3 DEF Slots
    <3>2. t \in Slots /\ ~Stays(t) /\ t[2] < PerBucket BY <1>1, <2>1, <3>1, Numbers DEF Slots
    <3>3. <<t[1], t[2] + 1>> = u BY <2>1 DEF Slots
    <3>4. registry'[t] = registry[u] BY <1>3, <3>2, <3>3
    <3> QED BY <2>1, <3>2, <3>4 DEF Places
  <2> QED BY <2>2, <2>3
<1>9. Fits'
  <2>1. Registered' \subseteq Registered BY <1>6 DEF Registered
  <2>2. Cardinality(Registered') <= Cardinality(Registered)
        /\ Cardinality(Registered') \in Nat /\ Cardinality(Registered) \in Nat
    BY <2>1, RegisteredIsFinite, FS_Subset, FS_CardinalityType
  <2> QED BY <2>2, Numbers DEF Fits
<1> QED BY <1>4, <1>6, <1>7, <1>8, <1>9 DEF Distinct

-----------------------------------------------------------------------------
(* The peer table. *)

(* While a peer is missing from the table there is a free local for it:    *)
(* the peers of the table have one each, and are fewer than the locals.    *)
LEMMA FreeLocal ==
  ASSUME TypeOK, NEW a \in Addrs, a \notin InTable,
         NEW R, IsFiniteSet(R), Cardinality(R) <= MaxPeers, InTable \cup {a} \subseteq R
  PROVE  Locals \ Used # {}
<1> SUFFICES ASSUME Locals \subseteq Used PROVE FALSE OBVIOUS
<1>1. IsFiniteSet(Locals) /\ Cardinality(Locals) = MaxPeers
  <2>1. 0 \in Int /\ MaxPeers - 1 \in Int /\ ~(0 > MaxPeers - 1) BY Numbers
  <2>2. IsFiniteSet(0..MaxPeers - 1) /\ Cardinality(0..MaxPeers - 1) = MaxPeers - 1 - 0 + 1
    BY <2>1, FS_Interval
  <2> QED BY <2>2, Numbers DEF Locals
<1>2. IsFiniteSet(R \ {a}) /\ Cardinality(R \ {a}) = Cardinality(R) - 1
      /\ Cardinality(R) \in Nat
  BY FS_RemoveElement, FS_CardinalityType
<1>3. IsFiniteSet(InTable) /\ Cardinality(InTable) <= Cardinality(R \ {a})
  BY <1>2, FS_Subset
<1>4. [b \in InTable |-> peers[b].local] \in Surjection(InTable, Used) BY DEF Surjection, Used
<1>5. IsFiniteSet(Used) /\ Cardinality(Used) <= Cardinality(InTable) BY <1>3, <1>4, FS_Surjection
<1>6. Cardinality(Locals) <= Cardinality(Used) BY <1>5, FS_Subset
<1>7. Cardinality(Used) \in Nat /\ Cardinality(InTable) \in Nat
  BY <1>3, <1>5, FS_CardinalityType
<1> QED BY <1>1, <1>2, <1>3, <1>5, <1>6, <1>7, Numbers

(* What add_peer does: a known peer under its key, a known peer under a    *)
(* new one, a peer that has a record, a peer that claims one.              *)
LEMMA InstallCases ==
  ASSUME TypeOK, NEW a \in Addrs, NEW k \in Keys, InstallPeer(a, k),
         a \notin InTable => Locals \ Used # {}
  PROVE
    \/ a \in InTable /\ peers[a].key = k /\ UNCHANGED <<peers, records, session>>
    \/ /\ a \in InTable /\ peers[a].key # k
       /\ peers' = [peers EXCEPT ![a] = Loaded(k, 0, peers[a].local)]
       /\ records' = [records EXCEPT ![peers[a].local] = Record(a, k, 0)]
       /\ session' = {f \in session : f.src # a}
    \/ /\ a \notin InTable
       /\ session' = {f \in session : f.src # a}
       /\ \E l \in Own(a) :
            /\ peers' = [peers EXCEPT ![a] = Loaded(k, records[l].seen, l)]
            /\ records' = records
    \/ /\ a \notin InTable /\ Own(a) = {}
       /\ session' = {f \in session : f.src # a}
       /\ \E l \in Locals \ Used :
            /\ peers' = [peers EXCEPT ![a] = Loaded(k, 0, l)]
            /\ records' = [records EXCEPT ![l] = Record(a, k, 0)]
<1>i. /\ peers' = [peers EXCEPT ![a] = AddPeer(a, k).peer]
      /\ records' = [records EXCEPT ![AddPeer(a, k).peer.local] = AddPeer(a, k).record]
      /\ session' = IF a \in InTable /\ peers[a].key = k THEN session
                    ELSE {f \in session : f.src # a}
  BY DEF InstallPeer
<1>0. peers \in [Addrs -> Peers \cup {None}] /\ records \in [Locals -> LaneRecords \cup {None}]
  BY DEF TypeOK
<1>l. Locals \subseteq Nat BY Numbers DEF Locals
<1>1. CASE a \in InTable /\ peers[a].key = k
  <2>1. AddPeer(a, k) = [peer |-> peers[a], record |-> records[peers[a].local]]
    BY <1>1 DEF AddPeer
  <2>2. /\ peers' = [peers EXCEPT ![a] = peers[a]]
        /\ records' = [records EXCEPT ![peers[a].local] = records[peers[a].local]]
        /\ session' = session
    BY <1>1, <1>i, <2>1
  <2>3. peers[a] \in Peers BY <1>0, <1>1 DEF InTable
  <2> QED BY <1>0, <1>1, <2>2, <2>3 DEF Peers
<1>2. CASE a \in InTable /\ peers[a].key # k
  <2>1. AddPeer(a, k) = [peer |-> Loaded(k, 0, peers[a].local), record |-> Record(a, k, 0)]
    BY <1>2 DEF AddPeer, RekeyRecord
  <2>3. Loaded(k, 0, peers[a].local).local = peers[a].local
    BY DEF Loaded
  <2>4. /\ AddPeer(a, k).peer = Loaded(k, 0, peers[a].local)
        /\ AddPeer(a, k).record = Record(a, k, 0)
    BY <2>1
  <2> QED BY <1>2, <1>i, <2>3, <2>4, Zenon
<1>3. CASE a \notin InTable /\ Own(a) # {}
  <2> DEFINE l == Min(Own(a))
  <2>1. l \in Own(a)
    <3>1. Own(a) \in SUBSET Nat BY <1>l DEF Own
    <3> QED BY <1>3, <3>1, MinIsLeast
  <2>2. AssignLane(a, Used) = [local |-> l, seen |-> records[l].seen, fresh |-> FALSE]
    BY <1>3 DEF AssignLane, Own
  <2>3. AddPeer(a, k) = [peer |-> Loaded(k, records[l].seen, l), record |-> records[l]]
    BY <1>3, <2>2 DEF AddPeer
  <2>4. /\ peers' = [peers EXCEPT ![a] = Loaded(k, records[l].seen, l)]
        /\ records' = [records EXCEPT ![l] = records[l]]
        /\ session' = {f \in session : f.src # a}
    <3>1. /\ AddPeer(a, k).peer =
               Loaded(k, records[l].seen, l)
          /\ AddPeer(a, k).record = records[l]
      BY <2>3
    <3>2. Loaded(k, records[l].seen, l).local = l BY DEF Loaded
    <3> QED BY <1>3, <1>i, <3>1, <3>2, Zenon
  <2>5. records' = records BY <1>0, <2>1, <2>4 DEF Own
  <2> QED BY <1>3, <2>1, <2>4, <2>5
<1>4. CASE a \notin InTable /\ Own(a) = {}
  <2> DEFINE l == Min(Locals \ Used)
  <2>1. l \in Locals \ Used
    <3>1. Locals \ Used \in SUBSET Nat BY <1>l
    <3> QED BY <1>4, <3>1, MinIsLeast
  <2>2. AssignLane(a, Used) = [local |-> l, seen |-> 0, fresh |-> TRUE]
    BY <1>4 DEF AssignLane, Own
  <2>3. AddPeer(a, k) = [peer |-> Loaded(k, 0, l), record |-> Record(a, k, 0)]
    BY <1>4, <2>2 DEF AddPeer
  <2>4. /\ AddPeer(a, k).peer = Loaded(k, 0, l)
        /\ AddPeer(a, k).record = Record(a, k, 0)
    BY <2>3
  <2>5. Loaded(k, 0, l).local = l BY DEF Loaded
  <2> QED BY <1>4, <1>i, <2>1, <2>4, <2>5, Zenon
<1> QED BY <1>1, <1>2, <1>3, <1>4

(* In short: nothing is done, or the lane of a is loaded at a local l that *)
(* no other peer holds and that has the only record of a, as seen there.   *)
LoadsAt(a, k, l) ==
  /\ peers' = [peers EXCEPT ![a] = peers'[a]] /\ peers'[a] \in Peers
  /\ peers'[a].key = k /\ peers'[a].local = l /\ peers'[a].accepts = 0
  /\ records' \in [Locals -> LaneRecords \cup {None}]
  /\ records'[l] \in LaneRecords /\ records'[l].addr = a /\ records'[l].seen = peers'[a].seen
  /\ \A m \in Locals \ {l} :
       records'[m] = records[m] /\ (records[m] # None => records[m].addr # a)
  /\ \A b \in InTable \ {a} : peers[b].local # l
  /\ session' = {f \in session : f.src # a}

LEMMA InstallLoads ==
  ASSUME TypeOK, Lanes, NEW a \in Addrs, NEW k \in Keys, InstallPeer(a, k),
         a \notin InTable => Locals \ Used # {}
  PROVE  \/ a \in InTable /\ peers[a].key = k /\ UNCHANGED <<peers, records, session>>
         \/ \E l \in Locals : LoadsAt(a, k, l)
<1>0. peers \in [Addrs -> Peers \cup {None}] /\ records \in [Locals -> LaneRecords \cup {None}]
  BY DEF TypeOK
<1>r. Record(a, k, 0) \in LaneRecords /\ Record(a, k, 0).addr = a /\ Record(a, k, 0).seen = 0
  BY Numbers DEF Record, LaneRecords
<1>p. \A l \in Locals, c \in 0..MaxCtr :
        LET p == Loaded(k, c, l)
        IN  p \in Peers /\ p.key = k /\ p.seen = c /\ p.accepts = 0 /\ p.local = l
  BY Numbers DEF Peers, Loaded
<1>1. CASE /\ a \in InTable /\ peers[a].key # k
           /\ peers' = [peers EXCEPT ![a] = Loaded(k, 0, peers[a].local)]
           /\ records' = [records EXCEPT ![peers[a].local] = Record(a, k, 0)]
           /\ session' = {f \in session : f.src # a}
  <2> DEFINE l == peers[a].local
  <2>1. peers[a] \in Peers BY <1>0, <1>1 DEF InTable
  <2>2. l \in Locals BY <2>1 DEF Peers
  <2>3. peers'[a] = Loaded(k, 0, l) BY <1>0, <1>1, <2>2
  <2>4. /\ peers'[a] \in Peers /\ peers'[a].key = k /\ peers'[a].seen = 0
        /\ peers'[a].accepts = 0 /\ peers'[a].local = l
    BY <1>p, <2>2, <2>3, Numbers
  <2>5. records'[l] = Record(a, k, 0) /\ records' \in [Locals -> LaneRecords \cup {None}]
        /\ \A m \in Locals \ {l} : records'[m] = records[m]
    BY <1>0, <1>1, <1>r, <2>2
  <2>6. records[l] # None /\ records[l].addr = a /\ \A b \in InTable \ {a} : peers[b].local # l
    BY <1>1 DEF Lanes, LanesDisjoint
  <2>7. \A m \in Locals \ {l} : records[m] # None => records[m].addr # a
    BY <2>2, <2>6 DEF Lanes, OneRecord
  <2>8. peers' = [peers EXCEPT ![a] = peers'[a]] BY <1>1, <2>2, <2>3
  <2> HIDE DEF l
  <2> QED BY <1>1, <1>r, <2>2, <2>4, <2>5, <2>6, <2>7, <2>8 DEF LoadsAt
<1>2. CASE /\ a \notin InTable
           /\ session' = {f \in session : f.src # a}
           /\ \E l \in Own(a) :
                /\ peers' = [peers EXCEPT ![a] = Loaded(k, records[l].seen, l)]
                /\ records' = records
  <2>1. PICK l \in Own(a) :
          /\ peers' = [peers EXCEPT ![a] = Loaded(k, records[l].seen, l)]
          /\ records' = records
    BY <1>2
  <2>2. l \in Locals \ Used /\ records[l] \in LaneRecords /\ records[l].addr = a
    BY <1>0 DEF Own
  <2>3. records[l].seen \in 0..MaxCtr BY <2>2 DEF LaneRecords
  <2>4. peers'[a] = Loaded(k, records[l].seen, l)
    BY <1>0, <2>1
  <2>5. \A m \in Locals \ {l} : records[m] # None => records[m].addr # a
    BY <2>2, NoneIsNothing DEF Lanes, OneRecord
  <2>6. \A b \in InTable \ {a} : peers[b].local # l BY <2>2 DEF Used
  <2>7. /\ peers'[a] \in Peers /\ peers'[a].key = k /\ peers'[a].seen = records[l].seen
        /\ peers'[a].accepts = 0 /\ peers'[a].local = l
    BY <1>p, <2>2, <2>3, <2>4
  <2>8. peers' = [peers EXCEPT ![a] = peers'[a]] BY <2>1, <2>4
  <2> QED BY <1>0, <1>2, <2>1, <2>2, <2>5, <2>6, <2>7, <2>8 DEF LoadsAt
<1>3. CASE /\ a \notin InTable /\ Own(a) = {}
           /\ session' = {f \in session : f.src # a}
           /\ \E l \in Locals \ Used :
                /\ peers' = [peers EXCEPT ![a] = Loaded(k, 0, l)]
                /\ records' = [records EXCEPT ![l] = Record(a, k, 0)]
  <2>1. PICK l \in Locals \ Used :
          /\ peers' = [peers EXCEPT ![a] = Loaded(k, 0, l)]
          /\ records' = [records EXCEPT ![l] = Record(a, k, 0)]
    BY <1>3
  <2>2. peers'[a] = Loaded(k, 0, l) BY <1>0, <2>1
  <2>3. /\ peers'[a] \in Peers /\ peers'[a].key = k /\ peers'[a].seen = 0
        /\ peers'[a].accepts = 0 /\ peers'[a].local = l
    BY <1>p, <2>2, Numbers
  <2>4. records'[l] = Record(a, k, 0) /\ records' \in [Locals -> LaneRecords \cup {None}]
        /\ \A m \in Locals \ {l} : records'[m] = records[m]
    BY <1>0, <1>r, <2>1
  <2>5. ASSUME NEW m \in Locals, records[m] # None PROVE records[m].addr # a
    <3>1. CASE m \in Used BY <1>3, <3>1 DEF Used, Lanes, LanesDisjoint
    <3>2. CASE m \notin Used BY <1>3, <2>5, <3>2 DEF Own
    <3> QED BY <3>1, <3>2
  <2>6. \A b \in InTable \ {a} : peers[b].local # l BY DEF Used
  <2>7. peers' = [peers EXCEPT ![a] = peers'[a]] BY <2>1, <2>2
  <2> QED BY <1>r, <1>3, <2>3, <2>4, <2>5, <2>6, <2>7 DEF LoadsAt
<1> QED BY <1>1, <1>2, <1>3, InstallCases

(* add_peer keeps the lanes apart, and the peer is then in the table.      *)
LEMMA InstallKeeps ==
  ASSUME TypeOK, IsFiniteSet(aired), Lanes, NEW a \in Addrs, NEW k \in Keys, InstallPeer(a, k),
         a \notin InTable => Locals \ Used # {}
  PROVE  /\ peers' \in [Addrs -> Peers \cup {None}]
         /\ records' \in [Locals -> LaneRecords \cup {None}]
         /\ session' \subseteq session
         /\ InTable' = InTable \cup {a} /\ peers'[a].key = k
         /\ \A b \in InTable \ {a} : peers'[b] = peers[b]
         /\ Lanes'
<1>0. peers \in [Addrs -> Peers \cup {None}] /\ records \in [Locals -> LaneRecords \cup {None}]
  BY DEF TypeOK
<1>1. CASE a \in InTable /\ peers[a].key = k /\ UNCHANGED <<peers, records, session>>
  BY <1>0, <1>1 DEF InTable, Lanes, LanesDisjoint, OneRecord, SessionSeen, Windowed, Exposed
<1>2. CASE \E l \in Locals : LoadsAt(a, k, l)
  <2>1. PICK l \in Locals : LoadsAt(a, k, l) BY <1>2
  <2>2. /\ peers' \in [Addrs -> Peers \cup {None}]
        /\ \A b \in Addrs \ {a} : peers'[b] = peers[b]
    BY <1>0, <2>1 DEF LoadsAt
  <2>3. InTable' = InTable \cup {a} BY <2>1, <2>2, NoneIsNothing DEF InTable, LoadsAt
  <2>4. LanesDisjoint'
    <3> SUFFICES ASSUME NEW b \in InTable'
                 PROVE  /\ records'[peers'[b].local] # None
                        /\ records'[peers'[b].local].addr = b
                        /\ records'[peers'[b].local].seen <= peers'[b].seen
                        /\ \A c \in InTable' \ {b} : peers'[c].local # peers'[b].local
      BY DEF LanesDisjoint
    <3>1. CASE b = a
      <4>1. peers'[a].seen \in Nat BY <2>1, Numbers DEF LoadsAt, Peers
      <4>2. \A c \in InTable \ {a} : peers'[c].local # l BY <2>1, <2>2 DEF LoadsAt, InTable
      <4> QED BY <2>1, <2>3, <3>1, <4>1, <4>2, NoneIsNothing DEF LoadsAt
    <3>2. CASE b # a
      <4>1. b \in InTable /\ peers'[b] = peers[b] BY <2>2, <2>3, <3>2 DEF InTable
      <4>2. peers[b].local \in Locals \ {l}
        BY <1>0, <2>1, <3>2, <4>1 DEF LoadsAt, InTable, Peers
      <4>3. records'[peers[b].local] = records[peers[b].local] BY <2>1, <4>2 DEF LoadsAt
      <4>4. \A c \in InTable' \ {b} : peers'[c].local # peers'[b].local
        BY <2>1, <2>2, <2>3, <4>1, <4>2 DEF LoadsAt, Lanes, LanesDisjoint, InTable
      <4> QED BY <4>1, <4>3, <4>4 DEF Lanes, LanesDisjoint
    <3> QED BY <3>1, <3>2
  <2>5. OneRecord' BY <2>1 DEF LoadsAt, Lanes, OneRecord
  <2>6. SessionSeen' BY <2>1, <2>2, <2>3 DEF LoadsAt, Lanes, SessionSeen, InTable
  <2>7. Windowed'
    <3> SUFFICES ASSUME NEW b \in InTable'
                 PROVE  Cardinality(Exposed(session, b)') <= peers'[b].accepts
      BY DEF Windowed, Exposed
    <3>1. CASE b = a
      <4>1. Exposed(session, b)' = {} BY <2>1, <3>1 DEF Exposed, LoadsAt
      <4>2. Cardinality({}) = 0 BY FS_EmptySet
      <4>3. peers'[b].accepts = 0 BY <2>1, <3>1 DEF LoadsAt
      <4> QED BY <4>1, <4>2, <4>3
    <3>2. CASE b # a
      <4>1. b \in InTable /\ peers'[b] = peers[b] BY <2>2, <2>3, <3>2 DEF InTable
      <4>2. peers[b].local \in Locals \ {l}
        BY <1>0, <2>1, <3>2, <4>1 DEF LoadsAt, InTable, Peers
      <4>3. records'[peers[b].local] = records[peers[b].local] BY <2>1, <4>2 DEF LoadsAt
      <4>4. Exposed(session, b)' = Exposed(session, b)
        BY <2>1, <3>2, <4>1, <4>3 DEF Exposed, LoadsAt
      <4> QED BY <4>1, <4>4 DEF Lanes, Windowed
    <3> QED BY <3>1, <3>2
  <2>8. /\ records' \in [Locals -> LaneRecords \cup {None}]
        /\ session' \subseteq session /\ peers'[a].key = k
    BY <2>1 DEF LoadsAt
  <2>9. Lanes' BY <2>4, <2>5, <2>6, <2>7 DEF Lanes
  <2> QED BY <2>2, <2>3, <2>8, <2>9 DEF InTable
<1> QED BY <1>1, <1>2, InstallLoads

-----------------------------------------------------------------------------
(* The inductive invariant. *)

(* The registered nodes have no more addresses than there are lanes. *)
LEMMA NamesFit ==
  ASSUME NEW R, IsFiniteSet(R), Cardinality(R) <= MaxPeers
  PROVE  IsFiniteSet({n.addr : n \in R}) /\ Cardinality({n.addr : n \in R}) <= MaxPeers
<1> DEFINE N == {n.addr : n \in R}
<1>1. [n \in R |-> n.addr] \in Surjection(R, N) BY DEF Surjection
<1>2. IsFiniteSet(N) /\ Cardinality(N) <= Cardinality(R) BY <1>1, FS_Surjection
<1>3. Cardinality(N) \in Nat /\ Cardinality(R) \in Nat BY <1>2, FS_CardinalityType
<1> QED BY <1>2, <1>3, Numbers

LEMMA InitEstablishes == Init => IInv
<1> SUFFICES ASSUME Init PROVE IInv OBVIOUS
<1> USE DEF Init
<1>1. InTable = {} /\ Places = {} /\ Registered = {}
  BY DEF InTable, Places, Registered
<1>2. TypeOK
  <2>1. node \in [Addrs -> [key : 0..MaxKey, next : 1..MaxCtr + 1]] BY Numbers
  <2> QED BY <1>1, <2>1 DEF TypeOK
<1>3. IsFiniteSet(aired) /\ Fits BY <1>1, FS_EmptySet, Numbers DEF Fits
<1>4. Distinct /\ Mirrored BY <1>1 DEF Distinct, Mirrored
<1>5. Lanes BY <1>1 DEF Lanes, LanesDisjoint, OneRecord, SessionSeen, Windowed
<1> QED BY <1>2, <1>3, <1>4, <1>5 DEF IInv

(* Steps that leave the gateway alone. *)
LEMMA ElsewhereKeeps ==
  ASSUME IInv, UNCHANGED <<registry, records, peers, todo, history>>,
         node' \in [Addrs -> [key : 0..MaxKey, next : 1..MaxCtr + 1]],
         aired \subseteq aired', aired' \subseteq Frames, IsFiniteSet(aired')
  PROVE  IInv'
<1> USE DEF history
<1>1. InTable' = InTable /\ Places' = Places /\ Registered' = Registered
  BY DEF InTable, Places, Registered, IInv
<1>2. TypeOK' BY <1>1 DEF IInv, TypeOK
<1>3. Distinct' /\ Fits' /\ Mirrored' BY <1>1 DEF IInv, Distinct, Fits, Mirrored
<1>4. Lanes'
  BY <1>1 DEF IInv, Lanes, LanesDisjoint, OneRecord, SessionSeen, Windowed, Exposed
<1> QED BY <1>2, <1>3, <1>4 DEF IInv

LEMMA ProvisionKeeps ==
  ASSUME IInv, NEW a \in Addrs, NEW restart \in BOOLEAN, Provision(a, restart)
  PROVE  IInv'
<1>1. node' \in [Addrs -> [key : 0..MaxKey, next : 1..MaxCtr + 1]]
  <2>1. node[a].key + 1 \in 0..MaxKey /\ (IF restart THEN 1 ELSE node[a].next) \in 1..MaxCtr + 1
    BY Numbers DEF IInv, TypeOK, Provision
  <2> QED BY <2>1 DEF IInv, TypeOK, Provision
<1> QED BY <1>1, ElsewhereKeeps DEF IInv, TypeOK, Provision

LEMMA TransmitKeeps ==
  ASSUME IInv, NEW a \in Addrs, Transmit(a)
  PROVE  IInv'
<1>0. node[a] \in [key : 0..MaxKey, next : 1..MaxCtr + 1] BY DEF IInv, TypeOK
<1>1. node' \in [Addrs -> [key : 0..MaxKey, next : 1..MaxCtr + 1]]
  <2>1. node[a].next + 1 \in 1..MaxCtr + 1 BY <1>0, Numbers DEF Transmit
  <2> QED BY <2>1 DEF IInv, TypeOK, Transmit
<1>2. [src |-> a, key |-> node[a].key, ctr |-> node[a].next] \in Frames
  BY <1>0, Numbers DEF Transmit, Frames, Keys
<1>3. IsFiniteSet(aired') BY OneMore DEF IInv, Transmit
<1> QED BY <1>1, <1>2, <1>3, ElsewhereKeeps DEF IInv, TypeOK, Transmit

(* A gateway that goes down has no peers, and all the registered nodes to  *)
(* install.                                                                *)
LEMMA DownKeeps ==
  ASSUME IInv, GoDown, UNCHANGED <<node, aired, records, accepted, acked>>, todo' = Places',
         registry' \in [Slots -> Nodes \cup {None}], Distinct', Fits'
  PROVE  IInv'
<1>1. InTable' = {} /\ session' = {} BY DEF InTable, GoDown
<1>2. TypeOK' BY <1>1 DEF IInv, TypeOK, GoDown
<1>3. Mirrored' BY <1>1 DEF Mirrored
<1>4. Lanes' BY <1>1 DEF IInv, Lanes, LanesDisjoint, OneRecord, SessionSeen, Windowed
<1> QED BY <1>2, <1>3, <1>4 DEF IInv

LEMMA RebootKeeps == IInv /\ Reboot => IInv'
<1> SUFFICES ASSUME IInv, Reboot PROVE IInv' OBVIOUS
<1>1. Places' = Places /\ Registered' = Registered BY DEF Reboot, Places, Registered
<1>2. Distinct' /\ Fits' BY <1>1 DEF IInv, Reboot, Distinct, Fits
<1>3. registry' \in [Slots -> Nodes \cup {None}] BY DEF IInv, TypeOK, Reboot
<1> QED BY <1>1, <1>2, <1>3, DownKeeps DEF Reboot

LEMMA NodeAddTornKeeps ==
  ASSUME IInv, NEW a \in Addrs, NEW k \in Keys, NodeAddTorn(a, k)
  PROVE  IInv'
<1>1. registry' \in [Slots -> Nodes \cup {None}] /\ Distinct' /\ Fits'
  BY AddRegisters DEF IInv, NodeAddTorn
<1> QED BY <1>1, DownKeeps DEF NodeAddTorn

(* What an installation leaves of the invariant, if the registry and what  *)
(* is left to do agree with the table then.                                *)
LEMMA InstallingKeeps ==
  ASSUME IInv, NEW a \in Addrs, NEW k \in Keys, InstallPeer(a, k),
         a \notin InTable => Locals \ Used # {},
         UNCHANGED <<node, aired, accepted, acked>>,
         registry' \in [Slots -> Nodes \cup {None}], todo' \subseteq Places',
         Distinct', Fits', Mirrored'
  PROVE  IInv'
<1>1. /\ peers' \in [Addrs -> Peers \cup {None}]
      /\ records' \in [Locals -> LaneRecords \cup {None}]
      /\ session' \subseteq session /\ Lanes'
  BY InstallKeeps DEF IInv
<1>2. TypeOK' BY <1>1 DEF IInv, TypeOK
<1> QED BY <1>1, <1>2 DEF IInv

LEMMA NodeAddKeeps ==
  ASSUME IInv, NEW a \in Addrs, NEW k \in Keys, NodeAdd(a, k)
  PROVE  IInv'
<1>0. /\ RegistryAdd(a, k) /\ todo = {} /\ todo' = {}
      /\ UNCHANGED <<node, aired, accepted, acked>>
  BY DEF NodeAdd, Running
<1>1. /\ registry' \in [Slots -> Nodes \cup {None}]
      /\ Distinct' /\ Fits'
      /\ \A s \in Places : s \in Places' /\ (registry[s].addr # a => registry'[s] = registry[s])
      /\ \A s \in Places' : \/ s \in Places /\ registry'[s] = registry[s]
                            \/ registry'[s] = Node(a, k)
      /\ Node(a, k) \in Registered' \/ (registry' = registry /\ Held(a) = {})
  BY <1>0, AddRegisters DEF IInv
<1>2. CASE Node(a, k) \in Registered'
  <2>1. InstallPeer(a, k) BY <1>2 DEF NodeAdd
  <2>2. PICK t \in Places' : registry'[t] = Node(a, k) BY <1>2 DEF Registered
  <2>3. \A b \in InTable : \E s \in Places : registry[s] = Node(b, peers[b].key)
    BY <1>0 DEF IInv, Mirrored
  <2>4. ASSUME a \notin InTable PROVE Locals \ Used # {}
    <3> DEFINE N == {n.addr : n \in Registered'}
    <3>1. IsFiniteSet(Registered)' BY RegisteredIsFinite, PTL
    <3>2. IsFiniteSet(N) /\ Cardinality(N) <= MaxPeers BY <1>1, <3>1, NamesFit DEF Fits
    <3>3. a \in N BY <1>2 DEF Node
    <3>4. ASSUME NEW b \in InTable PROVE b \in N
      <4>1. PICK s \in Places : registry[s] = Node(b, peers[b].key) BY <2>3
      <4>2. registry'[s] = registry[s] /\ s \in Places' BY <1>1, <2>4, <4>1 DEF Node
      <4>3. registry[s].addr = b BY <4>1 DEF Node
      <4> QED BY <4>2, <4>3 DEF Registered
    <3>5. InTable \cup {a} \subseteq N BY <3>3, <3>4
    <3>6. TypeOK BY DEF IInv
    <3> HIDE DEF N
    <3> QED BY <2>4, <3>2, <3>5, <3>6, FreeLocal
  <2>5. /\ InTable' = InTable \cup {a} /\ peers'[a].key = k
        /\ \A b \in InTable \ {a} : peers'[b] = peers[b]
    BY <2>1, <2>4, InstallKeeps DEF IInv
  <2>6. Mirrored'
    <3>1. ASSUME NEW b \in InTable'
          PROVE  \E s \in Places' : registry'[s] = Node(b, peers'[b].key)
      <4>1. CASE b = a BY <2>2, <2>5, <4>1
      <4>2. CASE b # a
        <5>1. b \in InTable /\ peers'[b] = peers[b] BY <2>5, <4>2
        <5>2. PICK s \in Places : registry[s] = Node(b, peers[b].key) BY <2>3, <5>1
        <5>3. registry[s].addr = b BY <5>2 DEF Node
        <5> QED BY <1>1, <4>2, <5>1, <5>2, <5>3
      <4> QED BY <4>1, <4>2
    <3>2. ASSUME NEW s \in Places' PROVE registry'[s].addr \in InTable'
      <4>1. CASE s \in Places /\ registry'[s] = registry[s]
        BY <1>0, <2>5, <4>1 DEF IInv, Mirrored
      <4>2. CASE registry'[s] = Node(a, k) BY <2>5, <4>2 DEF Node
      <4> QED BY <1>1, <4>1, <4>2
    <3> QED BY <1>0, <3>1, <3>2 DEF Mirrored
  <2> QED BY <1>0, <1>1, <2>1, <2>4, <2>6, InstallingKeeps
<1>3. CASE Node(a, k) \notin Registered'
  <2>1. UNCHANGED <<registry, records, peers, todo, history>>
    BY <1>0, <1>1, <1>3 DEF NodeAdd, history
  <2>2. node' \in [Addrs -> [key : 0..MaxKey, next : 1..MaxCtr + 1]]
        /\ aired' = aired /\ aired' \subseteq Frames /\ IsFiniteSet(aired')
    BY <1>0 DEF IInv, TypeOK
  <2> QED BY <2>1, <2>2, ElsewhereKeeps
<1> QED BY <1>2, <1>3

LEMMA MirrorKeeps == IInv /\ Mirror => IInv'
<1> SUFFICES ASSUME IInv, Mirror PROVE IInv' OBVIOUS
<1>1. PICK s \in todo : /\ InstallPeer(registry[s].addr, registry[s].key)
                        /\ todo' = todo \ {s}
  BY DEF Mirror, FirstOf
<1> DEFINE a == registry[s].addr
           k == registry[s].key
<1>2. UNCHANGED <<node, aired, registry, accepted, acked>> BY DEF Mirror
<1>3. Places' = Places /\ Registered' = Registered BY <1>2 DEF Places, Registered
<1>4. s \in Places /\ todo \subseteq Places BY DEF IInv, TypeOK
<1>5. registry[s] \in Nodes BY <1>4 DEF IInv, TypeOK, Places
<1>6. a \in Addrs /\ k \in Keys /\ registry[s] = Node(a, k) BY <1>5 DEF Nodes, Node
<1>7. ASSUME a \notin InTable PROVE Locals \ Used # {}
  <2> DEFINE N == {n.addr : n \in Registered}
  <2>1. IsFiniteSet(N) /\ Cardinality(N) <= MaxPeers
    BY RegisteredIsFinite, NamesFit DEF IInv, Fits
  <2>2. a \in N BY <1>4 DEF Registered
  <2>3. ASSUME NEW b \in InTable PROVE b \in N
    <3>1. PICK t \in Places : registry[t] = Node(b, peers[b].key) BY DEF IInv, Mirrored
    <3>2. registry[t].addr = b BY <3>1 DEF Node
    <3> QED BY <3>2 DEF Registered
  <2>4. TypeOK /\ InTable \cup {a} \subseteq N BY <2>2, <2>3 DEF IInv
  <2> HIDE DEF N, a
  <2> QED BY <1>6, <1>7, <2>1, <2>4, FreeLocal
<1>8. /\ InTable' = InTable \cup {a} /\ peers'[a].key = k
      /\ \A b \in InTable \ {a} : peers'[b] = peers[b]
  BY <1>1, <1>6, <1>7, InstallKeeps DEF IInv
<1>9. Mirrored'
  <2>1. ASSUME NEW b \in InTable'
        PROVE  \E t \in Places \ todo' : registry[t] = Node(b, peers'[b].key)
    <3>1. CASE b = a BY <1>1, <1>4, <1>6, <1>8, <3>1
    <3>2. CASE b # a BY <1>1, <1>8, <3>2 DEF IInv, Mirrored
    <3> QED BY <3>1, <3>2
  <2>2. \A t \in Places \ todo' : registry[t].addr \in InTable'
    BY <1>1, <1>8 DEF IInv, Mirrored
  <2> QED BY <1>2, <1>3, <2>1, <2>2 DEF Mirrored
<1>10. registry' \in [Slots -> Nodes \cup {None}] /\ Distinct' /\ Fits' /\ todo' \subseteq Places'
  BY <1>1, <1>2, <1>3, <1>4 DEF IInv, TypeOK, Distinct, Fits
<1> HIDE DEF a, k
<1>11. InstallPeer(a, k) BY <1>1 DEF a, k
<1> QED BY <1>2, <1>6, <1>7, <1>9, <1>10, <1>11, InstallingKeeps

LEMMA NodeRemoveKeeps ==
  ASSUME IInv, NEW a \in Addrs, NodeRemove(a)
  PROVE  IInv'
<1>1. PICK s \in Places : registry[s].addr = a /\ RegistryRemove(s) BY DEF NodeRemove, Held
<1>2. /\ todo = {} /\ todo' = {} /\ UNCHANGED <<node, aired, records, accepted, acked>>
      /\ peers' = [peers EXCEPT ![a] = None]
      /\ session' = {f \in session : f.src # a}
  BY DEF NodeRemove, Running
<1>3. /\ registry' \in [Slots -> Nodes \cup {None}] /\ Distinct' /\ Fits'
      /\ \A t \in Places' : \E u \in Places \ {s} : registry'[t] = registry[u]
      /\ \A u \in Places \ {s} : \E t \in Places' : registry'[t] = registry[u]
  BY <1>1, RemoveDeregisters DEF IInv
<1>4. peers' \in [Addrs -> Peers \cup {None}] /\ InTable' = InTable \ {a}
      /\ \A b \in InTable' : peers'[b] = peers[b]
  BY <1>2 DEF IInv, TypeOK, InTable
<1>5. TypeOK' BY <1>2, <1>3, <1>4 DEF IInv, TypeOK
<1>6. Mirrored'
  <2>1. ASSUME NEW b \in InTable'
        PROVE  \E t \in Places' : registry'[t] = Node(b, peers'[b].key)
    <3>1. PICK u \in Places : registry[u] = Node(b, peers[b].key)
      BY <1>2, <1>4 DEF IInv, Mirrored
    <3>2. registry[u].addr = b BY <3>1 DEF Node
    <3> QED BY <1>1, <1>3, <1>4, <3>1, <3>2
  <2>2. ASSUME NEW t \in Places' PROVE registry'[t].addr \in InTable'
    <3>1. PICK u \in Places \ {s} : registry'[t] = registry[u] BY <1>3
    <3>2. registry[u].addr \in InTable BY <1>2 DEF IInv, Mirrored
    <3>3. registry[u].addr # a BY <1>1 DEF IInv, Distinct
    <3> QED BY <1>4, <3>1, <3>2, <3>3
  <2> QED BY <1>2, <2>1, <2>2 DEF Mirrored
<1>7. Lanes'
  <2>1. LanesDisjoint' BY <1>2, <1>4 DEF IInv, Lanes, LanesDisjoint
  <2>2. OneRecord' /\ SessionSeen' BY <1>2, <1>4 DEF IInv, Lanes, OneRecord, SessionSeen
  <2>3. ASSUME NEW b \in InTable' PROVE Exposed(session, b)' = Exposed(session, b)
    BY <1>2, <1>4 DEF Exposed
  <2>4. Windowed' BY <1>4, <2>3 DEF IInv, Lanes, Windowed, Exposed
  <2> QED BY <2>1, <2>2, <2>4 DEF Lanes
<1> QED BY <1>2, <1>3, <1>5, <1>6, <1>7 DEF IInv

(* What recv does with a frame: nothing to a retransmit, and a fresh one   *)
(* moves its lane, and the record as well when that is due.                *)
LEMMA ReceiveCases ==
  ASSUME TypeOK, NEW f \in Frames, Receive(f)
  PROVE  /\ f \in aired /\ f.src \in InTable /\ f.key = peers[f.src].key
         /\ acked' = acked \cup {f}
         /\ \/ f.ctr = peers[f.src].seen /\ UNCHANGED <<peers, records, accepted, session>>
            \/ /\ f.ctr > peers[f.src].seen
               /\ peers' = [peers EXCEPT ![f.src] = Accept(peers[f.src], f.ctr)]
               /\ records' = IF peers[f.src].accepts + 1 = P
                               THEN [records EXCEPT ![peers[f.src].local] =
                                                      Record(f.src, f.key, f.ctr)]
                               ELSE records
               /\ accepted' = accepted \cup {f} /\ session' = session \cup {f}
<1> DEFINE p == peers[f.src]
<1>1. f \in aired /\ f.src \in InTable /\ f.key = p.key /\ acked' = acked \cup {f}
  BY DEF Receive
<1>2. p \in Peers /\ f.ctr \in Nat /\ p.seen \in Nat /\ p.accepts \in Nat
  BY <1>1, Numbers DEF TypeOK, InTable, Peers, Frames
<1>3. Classify(p, f.ctr) # "Replay" BY DEF Receive
<1>4. CASE f.ctr = p.seen
  <2>1. Classify(p, f.ctr) = "Retransmit" BY <1>2, <1>4 DEF Classify
  <2> QED BY <1>1, <1>4, <2>1 DEF Receive
<1>5. CASE f.ctr > p.seen
  <2>1. Classify(p, f.ctr) = "Fresh" BY <1>2, <1>5 DEF Classify
  <2>2. Accept(p, f.ctr).accepts = NextAccept(p.accepts) BY <1>2 DEF Accept, Peers
  <2>3. PersistDue(NextAccept(p.accepts)) <=> p.accepts + 1 = P
    BY <1>2, Numbers DEF PersistDue, NextAccept
  <2> QED BY <1>1, <1>5, <2>1, <2>2, <2>3 DEF Receive
<1>6. CASE f.ctr < p.seen BY <1>2, <1>3, <1>6 DEF Classify
<1> QED BY <1>2, <1>4, <1>5, <1>6

LEMMA ReceiveKeeps ==
  ASSUME IInv, NEW f \in Frames, Receive(f)
  PROVE  IInv'
<1> DEFINE a == f.src
           p == peers[a]
           q == Accept(p, f.ctr)
<1>0. TypeOK /\ Lanes BY DEF IInv
<1>1. f \in aired /\ a \in InTable /\ f.key = p.key /\ acked' = acked \cup {f}
      /\ UNCHANGED <<node, aired, registry, todo>>
  BY <1>0, ReceiveCases DEF Receive
<1>2. p \in Peers /\ f.ctr \in 1..MaxCtr /\ a \in Addrs /\ f.key \in Keys
  BY <1>0, <1>1 DEF TypeOK, InTable, Frames
<1>3. Places' = Places /\ Registered' = Registered BY <1>1 DEF Places, Registered
<1>4. Distinct' /\ Fits' BY <1>1, <1>3 DEF IInv, Distinct, Fits
<1>5. CASE f.ctr = p.seen /\ UNCHANGED <<peers, records, accepted, session>>
  <2>1. InTable' = InTable BY <1>5 DEF InTable
  <2>2. TypeOK' BY <1>0, <1>1, <1>3, <1>5 DEF TypeOK
  <2>3. Mirrored' BY <1>1, <1>3, <1>5, <2>1 DEF IInv, Mirrored
  <2>4. Lanes'
    BY <1>0, <1>5, <2>1 DEF Lanes, LanesDisjoint, OneRecord, SessionSeen, Windowed, Exposed
  <2> QED BY <1>1, <1>4, <2>2, <2>3, <2>4 DEF IInv
<1>6. CASE /\ f.ctr > p.seen /\ peers' = [peers EXCEPT ![a] = q]
           /\ records' = IF p.accepts + 1 = P
                           THEN [records EXCEPT ![p.local] = Record(a, f.key, f.ctr)]
                           ELSE records
           /\ accepted' = accepted \cup {f} /\ session' = session \cup {f}
  <2>1. /\ q \in Peers /\ q.key = p.key /\ q.seen = f.ctr /\ q.local = p.local
        /\ q.accepts = IF p.accepts + 1 = P THEN 0 ELSE p.accepts + 1
    <3>1. NextAccept(p.accepts) \in 0..P - 1 BY <1>2, Numbers DEF NextAccept, Peers
    <3>2. \A x \in Peers, n \in 0..P - 1 : [x EXCEPT !.accepts = n] \in Peers BY DEF Peers
    <3>3. f.ctr \in 0..MaxCtr BY <1>2, Numbers
    <3>4. [p EXCEPT !.seen = f.ctr] \in Peers BY <1>2, <3>3 DEF Peers
    <3>5. q = [[p EXCEPT !.seen = f.ctr] EXCEPT !.accepts = NextAccept(p.accepts)]
      BY <1>2 DEF Accept, Peers
    <3>6. q \in Peers BY <3>1, <3>2, <3>4, <3>5
    <3> QED BY <1>2, <3>6 DEF Accept, NextAccept, Peers
  <2>2. /\ peers' \in [Addrs -> Peers \cup {None}] /\ peers'[a] = q
        /\ \A b \in Addrs \ {a} : peers'[b] = peers[b]
    BY <1>0, <1>2, <1>6, <2>1 DEF TypeOK
  <2> HIDE DEF q
  <2>3. InTable' = InTable
    BY <1>1, <1>2, <2>1, <2>2, NoneIsNothing DEF InTable
  <2>4. Record(a, f.key, f.ctr) \in LaneRecords /\ p.local \in Locals
        /\ Record(a, f.key, f.ctr).addr = a /\ Record(a, f.key, f.ctr).seen = f.ctr
    BY <1>2, Numbers DEF Record, LaneRecords, Peers
  <2>5. records' \in [Locals -> LaneRecords \cup {None}]
        /\ \A m \in Locals \ {p.local} : records'[m] = records[m]
    BY <1>0, <1>6, <2>4 DEF TypeOK
  <2>6. records[p.local] # None /\ records[p.local].addr = a
        /\ records[p.local].seen <= p.seen
        /\ \A b \in InTable \ {a} : peers[b].local # p.local
    BY <1>0, <1>1 DEF Lanes, LanesDisjoint
  <2>7. records[p.local].seen \in Nat /\ p.seen \in Nat /\ f.ctr \in Nat /\ p.accepts \in Nat
    BY <1>0, <1>2, <2>4, <2>6, Numbers DEF TypeOK, LaneRecords, Peers
  <2>8. /\ records'[p.local] # None /\ records'[p.local].addr = a
        /\ records'[p.local].seen <= f.ctr
        /\ p.accepts + 1 = P => records'[p.local].seen = f.ctr
        /\ p.accepts + 1 # P => records' = records
    BY <1>0, <1>6, <2>4, <2>6, <2>7, NoneIsNothing DEF TypeOK
  <2>9. TypeOK' BY <1>0, <1>1, <1>3, <1>6, <2>2, <2>5 DEF TypeOK
  <2>10. Mirrored'
    <3>1. \A b \in InTable : peers'[b].key = peers[b].key BY <2>1, <2>2 DEF InTable
    <3> QED BY <1>1, <1>3, <2>3, <3>1 DEF IInv, Mirrored
  <2>11. LanesDisjoint'
    <3>1. \A b \in InTable : peers'[b].local = peers[b].local BY <2>1, <2>2 DEF InTable
    <3>2. \A b \in InTable \ {a} : /\ peers[b].local \in Locals \ {p.local}
                                  /\ records'[peers[b].local] = records[peers[b].local]
      BY <1>0, <2>5, <2>6 DEF TypeOK, InTable, Peers
    <3>3. \A b \in InTable \ {a} : peers'[b] = peers[b] BY <2>2 DEF InTable
    <3> SUFFICES ASSUME NEW b \in InTable
                 PROVE  /\ records'[peers'[b].local] # None
                        /\ records'[peers'[b].local].addr = b
                        /\ records'[peers'[b].local].seen <= peers'[b].seen
                        /\ \A c \in InTable \ {b} : peers'[c].local # peers'[b].local
      BY <2>3 DEF LanesDisjoint
    <3>4. \A c \in InTable \ {b} : peers'[c].local # peers'[b].local
      BY <1>0, <3>1 DEF Lanes, LanesDisjoint
    <3>5. CASE b = a BY <2>1, <2>2, <2>8, <3>4, <3>5
    <3>6. CASE b # a BY <1>0, <3>2, <3>3, <3>4, <3>6 DEF Lanes, LanesDisjoint
    <3> QED BY <3>5, <3>6
  <2>12. OneRecord'
    <3>1. \A m \in Locals : /\ records'[m] # None <=> records[m] # None
                            /\ records'[m] # None => records'[m].addr = records[m].addr
      BY <2>5, <2>6, <2>8
    <3> QED BY <1>0, <3>1 DEF Lanes, OneRecord
  <2>13. SessionSeen'
    <3> SUFFICES ASSUME NEW g \in session'
                 PROVE  g.src \in InTable /\ g.key = peers'[g.src].key /\ g.ctr <= peers'[g.src].seen
      BY <2>3 DEF SessionSeen
    <3>1. CASE g = f BY <1>1, <2>1, <2>2, <2>7, <3>1
    <3>2. CASE g \in session
      <4>1. g \in Frames /\ g.ctr \in Nat BY <1>0, <3>2, Numbers DEF TypeOK, Frames
      <4>2. g.src \in InTable /\ g.key = peers[g.src].key /\ g.ctr <= peers[g.src].seen
        BY <1>0, <3>2 DEF Lanes, SessionSeen
      <4>3. CASE g.src = a BY <1>6, <2>1, <2>2, <2>7, <4>1, <4>2, <4>3
      <4>4. CASE g.src # a BY <2>2, <4>2, <4>4 DEF InTable
      <4> QED BY <4>3, <4>4
    <3> QED BY <1>6, <3>1, <3>2
  <2>14. Windowed'
    <3> SUFFICES ASSUME NEW b \in InTable
                 PROVE  Cardinality(Exposed(session, b)') <= peers'[b].accepts
      BY <2>3 DEF Windowed, Exposed
    <3>1. IsFiniteSet(Exposed(session, b)) /\ Cardinality(Exposed(session, b)) <= peers[b].accepts
      <4>1. Exposed(session, b) \subseteq aired BY <1>0 DEF Exposed, TypeOK
      <4>2. IsFiniteSet(Exposed(session, b)) BY <4>1, FS_Subset DEF IInv
      <4> QED BY <1>0, <4>2 DEF Lanes, Windowed
    <3>2. CASE b # a
      <4>1. peers'[b] = peers[b] BY <2>2, <3>2 DEF InTable
      <4>2. peers[b].local \in Locals \ {p.local}
        BY <1>0, <2>6, <3>2 DEF TypeOK, InTable, Peers
      <4>3. records'[peers[b].local] = records[peers[b].local] BY <2>5, <4>2
      <4>4. Exposed(session, b)' = Exposed(session, b)
        BY <1>6, <3>2, <4>1, <4>3 DEF Exposed
      <4> QED BY <3>1, <4>1, <4>4
    <3>3. CASE b = a /\ p.accepts + 1 = P
      <4>1. Exposed(session, b)' = {}
        <5> SUFFICES ASSUME NEW g \in Exposed(session, b)' PROVE FALSE OBVIOUS
        <5>1. g \in session' /\ g.src = a /\ g.ctr > f.ctr
          BY <2>1, <2>2, <2>8, <3>3 DEF Exposed
        <5>2. g.ctr <= f.ctr /\ g.ctr \in Nat
          BY <2>1, <2>2, <2>9, <2>13, <5>1, Numbers DEF SessionSeen, TypeOK, Frames
        <5> QED BY <2>7, <5>1, <5>2
      <4>2. Cardinality({}) = 0 BY FS_EmptySet
      <4> QED BY <2>1, <2>2, <3>3, <4>1, <4>2
    <3>4. CASE b = a /\ p.accepts + 1 # P
      <4>1. peers'[b].accepts = p.accepts + 1 BY <2>1, <2>2, <3>4
      <4>2. Exposed(session, b)' \subseteq Exposed(session, b) \cup {f}
        BY <1>6, <2>1, <2>2, <2>8, <3>4 DEF Exposed
      <4>3. /\ IsFiniteSet(Exposed(session, b) \cup {f})
            /\ Cardinality(Exposed(session, b)) \in Nat
            /\ Cardinality(Exposed(session, b) \cup {f}) \in Nat
            /\ Cardinality(Exposed(session, b) \cup {f}) <= Cardinality(Exposed(session, b)) + 1
        BY <3>1, OneMore
      <4>4. /\ Cardinality(Exposed(session, b)') <= Cardinality(Exposed(session, b) \cup {f})
            /\ Cardinality(Exposed(session, b)') \in Nat
        BY <4>2, <4>3, FS_Subset, FS_CardinalityType
      <4>5. Cardinality(Exposed(session, b)) <= p.accepts BY <3>1, <3>4
      <4> HIDE DEF p
      <4> QED BY <2>7, <4>1, <4>3, <4>4, <4>5
    <3> QED BY <3>2, <3>3, <3>4
  <2>15. Lanes' BY <2>11, <2>12, <2>13, <2>14 DEF Lanes
  <2> QED BY <1>1, <1>4, <2>9, <2>10, <2>15 DEF IInv
<1> HIDE DEF p, q
<1> QED BY <1>0, <1>5, <1>6, ReceiveCases DEF p, q

(* The inductive invariant holds in every reachable state. *)
LEMMA StepKeeps == IInv /\ [Next]_vars => IInv'
<1> SUFFICES ASSUME IInv, [Next]_vars PROVE IInv' OBVIOUS
<1>1. CASE UNCHANGED vars
  <2>1. /\ UNCHANGED <<registry, records, peers, todo, history>>
        /\ node' \in [Addrs -> [key : 0..MaxKey, next : 1..MaxCtr + 1]]
        /\ aired \subseteq aired' /\ aired' \subseteq Frames /\ IsFiniteSet(aired')
    BY <1>1 DEF vars, IInv, TypeOK
  <2> QED BY <2>1, ElsewhereKeeps
<1>2. CASE Next
  BY <1>2, ProvisionKeeps, TransmitKeeps, ReceiveKeeps, NodeAddKeeps, NodeAddTornKeeps,
     NodeRemoveKeeps, RebootKeeps, MirrorKeeps DEF Next
<1> QED BY <1>1, <1>2

LEMMA Invariance == Spec => []IInv
  BY InitEstablishes, StepKeeps, PTL DEF Spec

(* The type invariant. *)
THEOREM TypeCorrect == Spec => []TypeOK
<1>1. IInv => TypeOK BY DEF IInv
<1> QED BY Invariance, <1>1, PTL

(* Two live peers never share a lane record, and each one's record is its  *)
(* own, whatever is registered, removed, re-keyed and torn.                *)
THEOREM LanesStayApart == Spec => []LanesDisjoint
<1>1. IInv => LanesDisjoint BY DEF IInv, Lanes
<1> QED BY Invariance, <1>1, PTL

(* Fewer than P of the frames accepted since a lane was loaded would be    *)
(* accepted again after a reboot.                                          *)
THEOREM WindowIsShort == Spec => []WindowPerSession
<1>1. ASSUME IInv PROVE WindowPerSession
  <2> SUFFICES ASSUME NEW a \in InTable PROVE Cardinality(Exposed(session, a)) < P
    BY DEF WindowPerSession
  <2>1. peers[a].accepts \in 0..P - 1 BY <1>1 DEF IInv, TypeOK, InTable, Peers
  <2>2. Exposed(session, a) \subseteq aired BY <1>1 DEF IInv, TypeOK, Exposed
  <2>3. Cardinality(Exposed(session, a)) \in Nat
    BY <1>1, <2>2, FS_Subset, FS_CardinalityType DEF IInv
  <2>4. Cardinality(Exposed(session, a)) <= peers[a].accepts
    BY <1>1 DEF IInv, Lanes, Windowed
  <2> QED BY <2>1, <2>3, <2>4, Numbers
<1> QED BY Invariance, <1>1, PTL

-----------------------------------------------------------------------------
(* The floor. *)

(* With one record per address, the floor is what that record says. *)
LEMMA FloorIs ==
  ASSUME NEW recs \in [Locals -> LaneRecords \cup {None}], NEW n, NEW l \in Locals,
         recs[l] # None, recs[l].addr = n.addr,
         \A m \in Locals : recs[m] # None /\ recs[m].addr = n.addr => m = l
  PROVE  Floor(recs, n) = recs[l].seen
<1> DEFINE own == {m \in DOMAIN recs : recs[m] # None /\ recs[m].addr = n.addr}
<1>1. own = {l} OBVIOUS
<1>2. {l} \in SUBSET Nat BY Numbers DEF Locals
<1>3. Min({l}) = l BY <1>2, MinIsLeast
<1> QED BY <1>1, <1>3 DEF Floor

LEMMA FloorHas ==
  ASSUME NEW recs \in [Locals -> LaneRecords \cup {None}], NEW n, Floor(recs, n) >= 0
  PROVE  \E l \in Locals : recs[l] # None /\ recs[l].addr = n.addr
<1> DEFINE own == {m \in DOMAIN recs : recs[m] # None /\ recs[m].addr = n.addr}
<1>1. own # {} BY DEF Floor
<1> QED BY <1>1

LEMMA FloorIsNumber ==
  ASSUME IInv, NEW n, Floor(records, n) >= 0
  PROVE  Floor(records, n) \in Nat
<1>0. records \in [Locals -> LaneRecords \cup {None}] BY DEF IInv, TypeOK
<1>1. PICK l \in Locals : records[l] # None /\ records[l].addr = n.addr BY <1>0, FloorHas
<1>2. \A m \in Locals : records[m] # None /\ records[m].addr = n.addr => m = l
  BY <1>1 DEF IInv, Lanes, OneRecord
<1>3. Floor(records, n) = records[l].seen BY <1>0, <1>1, <1>2, FloorIs
<1>4. records[l] \in LaneRecords BY <1>0, <1>1
<1> QED BY <1>3, <1>4, Numbers DEF LaneRecords

(* An installation leaves the record of another registered node alone, if  *)
(* all of them have theirs.                                                *)
LEMMA InstallKeepsFloor ==
  ASSUME IInv, NEW a \in Addrs, NEW k \in Keys, InstallPeer(a, k),
         a \notin InTable => Locals \ Used # {},
         NEW n \in Registered, NEW l \in Locals, records[l] # None, records[l].addr = n.addr,
         a \in InTable /\ peers[a].key # k => n.addr # a,
         a \notin InTable => n.addr \in InTable \/ Own(a) # {}
  PROVE  records'[l] = records[l]
<1>1. TypeOK /\ Lanes BY DEF IInv
<1>2. records \in [Locals -> LaneRecords \cup {None}] BY <1>1 DEF TypeOK
<1>3. CASE a \in InTable /\ peers[a].key # k
  <2>1. records' = [records EXCEPT ![peers[a].local] = Record(a, k, 0)]
    BY <1>1, <1>3, InstallCases
  <2>2. records[peers[a].local].addr = a BY <1>1, <1>3 DEF Lanes, LanesDisjoint
  <2>3. l # peers[a].local BY <1>3, <2>2
  <2> QED BY <1>2, <2>1, <2>3
<1>4. CASE a \notin InTable /\ Own(a) = {}
  <2>1. PICK m \in Locals \ Used : records' = [records EXCEPT ![m] = Record(a, k, 0)]
    BY <1>1, <1>4, InstallCases
  <2> DEFINE b == n.addr
  <2>2. b \in InTable BY <1>4
  <2>3. /\ records[peers[b].local] # None /\ records[peers[b].local].addr = b
        /\ peers[b].local \in Locals
    BY <1>1, <2>2 DEF Lanes, LanesDisjoint, TypeOK, InTable, Peers
  <2>4. l = peers[b].local BY <1>1, <2>3 DEF Lanes, OneRecord
  <2>5. l \in Used BY <2>2, <2>4 DEF Used
  <2> QED BY <1>2, <2>1, <2>5
<1>5. CASE ~(a \in InTable /\ peers[a].key # k) /\ ~(a \notin InTable /\ Own(a) = {})
  <2>1. records' = records BY <1>1, <1>5, InstallCases
  <2> QED BY <2>1
<1> QED BY <1>3, <1>4, <1>5

(* A node that is registered and in the table is registered under the key  *)
(* it has there.                                                           *)
LEMMA TableKey ==
  ASSUME IInv, NEW s \in Places, registry[s].addr \in InTable
  PROVE  s \notin todo /\ registry[s] = Node(registry[s].addr, peers[registry[s].addr].key)
<1> DEFINE a == registry[s].addr
<1>1. PICK t \in Places \ todo : registry[t] = Node(a, peers[a].key) BY DEF IInv, Mirrored
<1>2. registry[t].addr = a BY <1>1 DEF Node
<1>3. t = s BY <1>2 DEF IInv, Distinct
<1> QED BY <1>1, <1>3

(* There is a local for the peer that NodeAdd or the boot installs. *)
LEMMA RoomToInstall ==
  ASSUME IInv, IInv', NEW a \in Addrs, a \notin InTable, InTable \cup {a} \subseteq InTable'
  PROVE  Locals \ Used # {}
<1> DEFINE N == {n.addr : n \in Registered'}
<1>1. IsFiniteSet(Registered)' BY RegisteredIsFinite, PTL
<1>2. IsFiniteSet(N) /\ Cardinality(N) <= MaxPeers BY <1>1, NamesFit DEF IInv, Fits
<1>3. ASSUME NEW b \in InTable' PROVE b \in N
  <2>1. PICK t \in Places' : registry'[t] = Node(b, peers'[b].key) BY DEF IInv, Mirrored
  <2>2. registry'[t].addr = b BY <2>1 DEF Node
  <2> QED BY <2>2 DEF Registered
<1>4. TypeOK /\ InTable \cup {a} \subseteq N BY <1>3 DEF IInv
<1> HIDE DEF N
<1> QED BY <1>2, <1>4, FreeLocal

(* The addresses of the table stay in it when a peer is installed, so      *)
(* there was a local for a new one.                                        *)
LEMMA InstallRoom ==
  ASSUME IInv, IInv', NEW a \in Addrs, NEW k \in Keys, InstallPeer(a, k), a \in InTable',
         a \notin InTable
  PROVE  Locals \ Used # {}
<1>1. peers' = [peers EXCEPT ![a] = AddPeer(a, k).peer] BY DEF InstallPeer
<1>2. InTable \cup {a} \subseteq InTable' BY <1>1 DEF InTable, IInv, TypeOK
<1> QED BY <1>2, RoomToInstall

(* The floor of a node is the same after an installation, unless that      *)
(* re-keys the node.                                                       *)
LEMMA InstallFloor ==
  ASSUME IInv, IInv', NEW a \in Addrs, NEW k \in Keys, InstallPeer(a, k), a \in InTable',
         NEW n \in Registered, Floor(records, n) >= 0,
         a \in InTable /\ peers[a].key # k => n.addr # a,
         a \notin InTable => n.addr \in InTable \/ Own(a) # {}
  PROVE  Floor(records', n) = Floor(records, n)
<1>0. /\ records \in [Locals -> LaneRecords \cup {None}]
      /\ records' \in [Locals -> LaneRecords \cup {None}]
  BY DEF IInv, TypeOK
<1>3. a \notin InTable => Locals \ Used # {} BY InstallRoom
<1>4. PICK l \in Locals : records[l] # None /\ records[l].addr = n.addr BY <1>0, FloorHas
<1>5. records'[l] = records[l] BY <1>3, <1>4, InstallKeepsFloor
<1>6. \A m \in Locals : records[m] # None /\ records[m].addr = n.addr => m = l
  BY <1>4 DEF IInv, Lanes, OneRecord
<1>7. \A m \in Locals : records'[m] # None /\ records'[m].addr = n.addr => m = l
  BY <1>4, <1>5 DEF IInv, Lanes, OneRecord
<1>8. Floor(records, n) = records[l].seen BY <1>0, <1>4, <1>6, FloorIs
<1>9. Floor(records', n) = records'[l].seen BY <1>0, <1>4, <1>5, <1>7, FloorIs
<1> QED BY <1>5, <1>8, <1>9

LEMMA NodeAddFloor ==
  ASSUME IInv, IInv', NEW a \in Addrs, NEW k \in Keys, NodeAdd(a, k),
         NEW n \in Registered, n \in Registered', Floor(records, n) >= 0
  PROVE  Floor(records', n) >= Floor(records, n)
<1>0. todo = {} /\ todo' = {} BY DEF NodeAdd, Running
<1>1. CASE Node(a, k) \in Registered'
  <2>1. InstallPeer(a, k) BY <1>1 DEF NodeAdd
  <2>2. PICK t \in Places' : registry'[t] = Node(a, k) BY <1>1 DEF Registered
  <2>3. a \in InTable' BY <1>0, <2>2 DEF IInv, Mirrored, Node
  <2>4. ASSUME a \in InTable, peers[a].key # k, n.addr = a PROVE FALSE
    <3>1. PICK s \in Places : registry[s] = n BY DEF Registered
    <3>2. n = Node(a, peers[a].key) BY <2>4, <3>1, TableKey
    <3>3. PICK u \in Places' : registry'[u] = n BY DEF Registered
    <3>4. u = t BY <2>2, <2>4, <3>3 DEF IInv, Distinct, Node
    <3>5. n.key = k /\ n.key = peers[a].key BY <2>2, <3>2, <3>3, <3>4 DEF Node
    <3> QED BY <2>4, <3>5
  <2>5. n.addr \in InTable BY <1>0 DEF IInv, Mirrored, Registered
  <2>6. Floor(records', n) = Floor(records, n) BY <2>1, <2>3, <2>4, <2>5, InstallFloor
  <2> QED BY <2>6, FloorIsNumber
<1>2. CASE Node(a, k) \notin Registered' BY <1>2, FloorIsNumber DEF NodeAdd
<1> QED BY <1>1, <1>2

LEMMA MirrorFloor ==
  ASSUME IInv, IInv', Mirror, \A n \in Registered : Floor(records, n) >= 0, NEW n \in Registered
  PROVE  Floor(records', n) >= Floor(records, n)
<1>1. PICK s \in todo : /\ InstallPeer(registry[s].addr, registry[s].key)
                        /\ todo' = todo \ {s} /\ registry' = registry
  BY DEF Mirror, FirstOf
<1> DEFINE a == registry[s].addr
           k == registry[s].key
<1>2. s \in Places /\ s \in Places' BY <1>1 DEF IInv, TypeOK, Places
<1>3. registry[s] \in Nodes BY <1>2 DEF IInv, TypeOK, Places
<1>4. a \in Addrs /\ k \in Keys BY <1>3 DEF Nodes
<1>5. a \in InTable' BY <1>1, <1>2 DEF IInv, Mirrored
<1>6. a \notin InTable BY <1>1, <1>2, TableKey
<1>7. Own(a) # {}
  <2>1. records \in [Locals -> LaneRecords \cup {None}] /\ registry[s] \in Registered
    BY <1>2 DEF IInv, TypeOK, Registered
  <2>2. PICK l \in Locals : records[l] # None /\ records[l].addr = a BY <2>1, FloorHas
  <2>3. ASSUME NEW b \in InTable PROVE peers[b].local # l
    <3>1. records[peers[b].local].addr = b BY DEF IInv, Lanes, LanesDisjoint
    <3> QED BY <1>6, <2>2, <3>1
  <2>4. l \notin Used BY <2>3 DEF Used
  <2> QED BY <2>2, <2>4 DEF Own
<1> HIDE DEF a, k
<1>8. InstallPeer(a, k) BY <1>1 DEF a, k
<1>9. Floor(records', n) = Floor(records, n)
  BY <1>4, <1>5, <1>6, <1>7, <1>8, InstallFloor
<1>10. Floor(records, n) >= 0 OBVIOUS
<1> QED BY <1>9, <1>10, FloorIsNumber

LEMMA ReceiveFloor ==
  ASSUME IInv, IInv', NEW f \in Frames, Receive(f), NEW n \in Registered, Floor(records, n) >= 0
  PROVE  Floor(records', n) >= Floor(records, n)
<1> DEFINE a == f.src
           p == peers[a]
<1>0. /\ records \in [Locals -> LaneRecords \cup {None}]
      /\ records' \in [Locals -> LaneRecords \cup {None}]
  BY DEF IInv, TypeOK
<1>1. a \in InTable /\ a \in Addrs BY DEF Receive, InTable
<1>2. p \in Peers BY <1>1 DEF IInv, TypeOK, InTable
<1>3. CASE records' = records BY <1>3, FloorIsNumber
<1>4. CASE f.ctr > p.seen /\ records' = [records EXCEPT ![p.local] = Record(a, f.key, f.ctr)]
  <2>1. PICK l \in Locals : records[l] # None /\ records[l].addr = n.addr BY <1>0, FloorHas
  <2>2. /\ p.local \in Locals /\ records[p.local] # None /\ records[p.local].addr = a
        /\ records[p.local].seen <= p.seen
    BY <1>1, <1>2 DEF IInv, Lanes, LanesDisjoint, Peers
  <2>3. records'[p.local] = Record(a, f.key, f.ctr)
        /\ \A m \in Locals \ {p.local} : records'[m] = records[m]
    BY <1>0, <1>4, <2>2
  <2>4. Record(a, f.key, f.ctr).addr = a /\ Record(a, f.key, f.ctr).seen = f.ctr
        /\ Record(a, f.key, f.ctr) \in LaneRecords
    BY <1>1, Numbers DEF Record, LaneRecords, Frames
  <2>5. /\ records'[l] # None /\ records'[l].addr = n.addr
        /\ records'[l].seen >= records[l].seen
    <3>1. records[l].seen \in Nat /\ p.seen \in Nat /\ f.ctr \in Nat
      BY <1>0, <1>2, <2>1, Numbers DEF LaneRecords, Peers, Frames
    <3>2. CASE l = p.local
      BY <1>4, <2>1, <2>2, <2>3, <2>4, <3>1, <3>2, NoneIsNothing
    <3>3. CASE l # p.local BY <2>1, <2>3, <3>1, <3>3
    <3> QED BY <3>2, <3>3
  <2>6. Floor(records, n) = records[l].seen
    <3>1. \A m \in Locals : records[m] # None /\ records[m].addr = n.addr => m = l
      BY <2>1 DEF IInv, Lanes, OneRecord
    <3> QED BY <1>0, <2>1, <3>1, FloorIs
  <2>7. Floor(records', n) = records'[l].seen
    <3>1. \A m \in Locals : records'[m] # None /\ records'[m].addr = n.addr => m = l
      BY <2>5 DEF IInv, Lanes, OneRecord
    <3> QED BY <1>0, <2>5, <3>1, FloorIs
  <2> QED BY <2>5, <2>6, <2>7
<1>5. TypeOK BY DEF IInv
<1>6. records' = records \/ (f.ctr > p.seen /\ records' = [records EXCEPT ![p.local] = Record(a, f.key, f.ctr)])
  BY <1>5, ReceiveCases
<1> QED BY <1>3, <1>4, <1>6

(* The counter that a reboot restores for a node that stays registered     *)
(* under its key never goes back.                                          *)
THEOREM FloorHolds == Spec => FloorNeverDrops
<1>1. ASSUME IInv, IInv', [Next]_vars, \A n \in Registered : Floor(records, n) >= 0,
             NEW n \in Registered \cap Registered'
      PROVE  Floor(records', n) >= Floor(records, n)
  <2>0. Floor(records, n) >= 0 /\ n \in Registered /\ n \in Registered' BY <1>1
  <2>1. CASE records' = records BY <1>1, <2>0, <2>1, FloorIsNumber
  <2>2. CASE \E f \in Frames : Receive(f) BY <1>1, <2>0, <2>2, ReceiveFloor
  <2>3. CASE \E a \in Addrs, k \in Keys : NodeAdd(a, k) BY <1>1, <2>0, <2>3, NodeAddFloor
  <2>4. CASE Mirror BY <1>1, <2>0, <2>4, MirrorFloor
  <2>5. CASE UNCHANGED vars BY <2>1, <2>5 DEF vars
  <2>6. CASE \/ \E a \in Addrs, restart \in BOOLEAN : Provision(a, restart)
             \/ \E a \in Addrs : Transmit(a) \/ NodeRemove(a)
             \/ \E a \in Addrs, k \in Keys : NodeAddTorn(a, k)
             \/ Reboot
    BY <2>1, <2>6 DEF Provision, Transmit, NodeRemove, NodeAddTorn, Reboot
  <2> QED BY <1>1, <2>2, <2>3, <2>4, <2>5, <2>6 DEF Next
<1>2. ASSUME IInv, IInv', [Next]_vars
      PROVE  [(\A n \in Registered : Floor(records, n) >= 0) =>
                \A n \in Registered \cap Registered' : Floor(records', n) >= Floor(records, n)]_vars
  BY <1>1, <1>2
<1> QED BY Invariance, <1>2, PTL DEF Spec, FloorNeverDrops

-----------------------------------------------------------------------------
(* What a lane has seen, when no record is restored for another key than   *)
(* its own.                                                                *)

Frame(a, k, c) == [src |-> a, key |-> k, ctr |-> c]

(* A node has used no key above its own, and under that no counter from    *)
(* its next one on.                                                        *)
AiredKnown ==
  \A f \in aired :
    \/ f.key < node[f.src].key
    \/ f.key = node[f.src].key /\ f.ctr < node[f.src].next

(* The record of a registered address was counted under the key it is      *)
(* registered with.                                                        *)
RecordKey ==
  \A s \in Places, l \in Locals :
    records[l] # None /\ records[l].addr = registry[s].addr => records[l].key = registry[s].key

(* What a record or a peer says it has seen was accepted, under its key.   *)
Witnessed ==
  /\ \A l \in Locals :
       records[l] # None =>
         \/ records[l].seen = 0
         \/ Frame(records[l].addr, records[l].key, records[l].seen) \in accepted
  /\ \A a \in InTable : \/ peers[a].seen = 0
                        \/ Frame(a, peers[a].key, peers[a].seen) \in accepted

HInv == AiredKnown /\ RecordKey /\ Witnessed /\ AckedWasAccepted

LEMMA HInvInit == Init => HInv
  BY DEF Init, HInv, AiredKnown, RecordKey, Witnessed, AckedWasAccepted, Places, InTable

LEMMA AiredKnownKeeps ==
  ASSUME TypeOK, AiredKnown, [Next]_vars
  PROVE  AiredKnown'
<1>0. /\ node \in [Addrs -> [key : 0..MaxKey, next : 1..MaxCtr + 1]]
      /\ \A f \in aired : f.src \in Addrs /\ f.key \in Nat /\ f.ctr \in Nat
  BY Numbers DEF TypeOK, Frames, Keys
<1>1. CASE \E a \in Addrs, restart \in BOOLEAN : Provision(a, restart)
  <2>1. PICK a \in Addrs, restart \in BOOLEAN : Provision(a, restart) BY <1>1
  <2>2. /\ node'[a].key = node[a].key + 1 /\ aired' = aired
        /\ \A b \in Addrs \ {a} : node'[b] = node[b]
    BY <1>0, <2>1 DEF Provision
  <2>3. node[a].key \in Nat BY <1>0, Numbers
  <2> SUFFICES ASSUME NEW f \in aired
               PROVE  \/ f.key < node'[f.src].key
                      \/ f.key = node'[f.src].key /\ f.ctr < node'[f.src].next
    BY <2>2 DEF AiredKnown
  <2>4. CASE f.src = a BY <1>0, <2>2, <2>3, <2>4 DEF AiredKnown
  <2>5. CASE f.src # a BY <1>0, <2>2, <2>5 DEF AiredKnown
  <2> QED BY <2>4, <2>5
<1>2. CASE \E a \in Addrs : Transmit(a)
  <2>1. PICK a \in Addrs : Transmit(a) BY <1>2
  <2> DEFINE g == [src |-> a, key |-> node[a].key, ctr |-> node[a].next]
  <2>2. /\ node'[a].key = node[a].key /\ node'[a].next = node[a].next + 1
        /\ \A b \in Addrs \ {a} : node'[b] = node[b]
        /\ aired' = aired \cup {g}
    BY <1>0, <2>1 DEF Transmit
  <2>3. node[a].key \in Nat /\ node[a].next \in Nat BY <1>0, Numbers
  <2> SUFFICES ASSUME NEW f \in aired'
               PROVE  \/ f.key < node'[f.src].key
                      \/ f.key = node'[f.src].key /\ f.ctr < node'[f.src].next
    BY DEF AiredKnown
  <2>4. CASE f = g BY <2>2, <2>3, <2>4
  <2>5. CASE f \in aired /\ f.src = a BY <1>0, <2>2, <2>3, <2>5 DEF AiredKnown
  <2>6. CASE f \in aired /\ f.src # a BY <1>0, <2>2, <2>6 DEF AiredKnown
  <2> HIDE DEF g
  <2> QED BY <2>2, <2>4, <2>5, <2>6
<1>3. CASE UNCHANGED <<node, aired>> BY <1>3 DEF AiredKnown
<1> QED
  BY <1>1, <1>2, <1>3
  DEF Next, vars, Receive, NodeAdd, NodeAddTorn, NodeRemove, Reboot, Mirror

(* A node of the table is registered under the key it has there. *)
LEMMA RegisteredKey ==
  ASSUME IInv, NEW a \in InTable, NEW s \in Places, registry[s].addr = a
  PROVE  registry[s].key = peers[a].key
<1>1. PICK t \in Places \ todo : registry[t] = Node(a, peers[a].key) BY DEF IInv, Mirrored
<1>2. registry[t].addr = a /\ registry[t].key = peers[a].key BY <1>1 DEF Node
<1> QED BY <1>2 DEF IInv, Distinct

(* add_peer changes one record at most, to a new one of its peer. *)
LEMMA InstallRecord ==
  ASSUME IInv, IInv', NEW a \in Addrs, NEW k \in Keys, InstallPeer(a, k), a \in InTable',
         NEW l \in Locals
  PROVE  /\ \/ records'[l] = Record(a, k, 0)
            \/ records'[l] = records[l]
         /\ a \in InTable /\ peers[a].key # k /\ records[l] # None /\ records[l].addr = a =>
              records'[l] = Record(a, k, 0)
<1>0. TypeOK /\ records \in [Locals -> LaneRecords \cup {None}] BY DEF IInv, TypeOK
<1>1. a \notin InTable => Locals \ Used # {} BY InstallRoom
<1>2. CASE a \in InTable /\ peers[a].key # k
  <2>1. records' = [records EXCEPT ![peers[a].local] = Record(a, k, 0)]
    BY <1>0, <1>1, <1>2, InstallCases
  <2>2. records[peers[a].local] # None /\ records[peers[a].local].addr = a
        /\ peers[a].local \in Locals
    BY <1>2 DEF IInv, TypeOK, InTable, Peers, Lanes, LanesDisjoint
  <2>3. ASSUME records[l] # None, records[l].addr = a PROVE l = peers[a].local
    BY <2>2, <2>3 DEF IInv, Lanes, OneRecord
  <2> QED BY <1>0, <2>1, <2>2, <2>3
<1>3. CASE ~(a \in InTable /\ peers[a].key # k)
  <2>1. records' = records \/ \E m \in Locals : records' = [records EXCEPT ![m] = Record(a, k, 0)]
    BY <1>0, <1>1, <1>3, InstallCases
  <2> QED BY <1>0, <1>3, <2>1
<1> QED BY <1>2, <1>3

LEMMA NodeAddRecordKey ==
  ASSUME IInv, IInv', RecordKey, StaleRestore = FALSE,
         NEW a \in Addrs, NEW k \in Keys, NodeAdd(a, k)
  PROVE  RecordKey'
<1>0. todo' = {} /\ RegistryAdd(a, k) /\ (a \in InTable \/ KeyFits(a, k))
  BY DEF NodeAdd, Running
<1>1. /\ \A s \in Places' : \/ s \in Places /\ registry'[s] = registry[s]
                            \/ registry'[s] = Node(a, k)
      /\ Node(a, k) \in Registered' \/ registry' = registry
  BY <1>0, AddRegisters DEF IInv
<1>2. CASE Node(a, k) \notin Registered'
  BY <1>1, <1>2 DEF NodeAdd, RecordKey, Places
<1>3. CASE Node(a, k) \in Registered'
  <2>1. InstallPeer(a, k) BY <1>3 DEF NodeAdd
  <2>2. PICK t \in Places' : registry'[t] = Node(a, k) BY <1>3 DEF Registered
  <2>3. a \in InTable' BY <1>0, <2>2 DEF IInv, Mirrored, Node
  <2> SUFFICES ASSUME NEW s \in Places', NEW l \in Locals,
                      records'[l] # None, records'[l].addr = registry'[s].addr
               PROVE  records'[l].key = registry'[s].key
    BY DEF RecordKey
  <2>4. CASE registry'[s].addr = a
    <3>1. s = t BY <2>2, <2>4 DEF IInv, Distinct, Node
    <3>2. registry'[s].key = k BY <2>2, <3>1 DEF Node
    <3>3. CASE records'[l] = Record(a, k, 0) BY <3>2, <3>3 DEF Record
    <3>4. CASE records'[l] = records[l] /\ records'[l] # Record(a, k, 0)
      <4>1. records[l] # None /\ records[l].addr = a BY <2>4, <3>4
      <4>2. CASE a \in InTable
        <5>1. peers[a].key = k BY <2>1, <2>3, <3>4, <4>1, <4>2, InstallRecord
        <5>2. PICK u \in Places : registry[u] = Node(a, k)
          BY <4>2, <5>1 DEF IInv, Mirrored
        <5> QED BY <3>2, <3>4, <4>1, <5>2 DEF RecordKey, Node
      <4>3. CASE KeyFits(a, k) BY <3>2, <3>4, <4>1, <4>3 DEF KeyFits
      <4> QED BY <1>0, <4>2, <4>3
    <3> QED BY <2>1, <2>3, <3>3, <3>4, InstallRecord
  <2>5. CASE registry'[s].addr # a
    <3>1. s \in Places /\ registry'[s] = registry[s] BY <1>1, <2>5 DEF Node
    <3>2. records'[l] = records[l]
      <4>1. records'[l] # Record(a, k, 0) BY <2>5 DEF Record
      <4> QED BY <2>1, <2>3, <4>1, InstallRecord
    <3> QED BY <3>1, <3>2 DEF RecordKey
  <2> QED BY <2>4, <2>5
<1> QED BY <1>2, <1>3

LEMMA MirrorRecordKey ==
  ASSUME IInv, IInv', RecordKey, Mirror
  PROVE  RecordKey'
<1>1. PICK s \in todo : /\ InstallPeer(registry[s].addr, registry[s].key)
                        /\ todo' = todo \ {s} /\ registry' = registry
  BY DEF Mirror, FirstOf
<1> DEFINE a == registry[s].addr
           k == registry[s].key
<1>2. s \in Places /\ s \in Places' BY <1>1 DEF IInv, TypeOK, Places
<1>3. registry[s] \in Nodes BY <1>2 DEF IInv, TypeOK, Places
<1>4. a \in Addrs /\ k \in Keys BY <1>3 DEF Nodes
<1>5. a \in InTable' BY <1>1, <1>2 DEF IInv, Mirrored
<1>6. \A l \in Locals : records'[l] = Record(a, k, 0) \/ records'[l] = records[l]
  BY <1>1, <1>4, <1>5, InstallRecord
<1> SUFFICES ASSUME NEW t \in Places, NEW l \in Locals,
                    records'[l] # None, records'[l].addr = registry[t].addr
             PROVE  records'[l].key = registry[t].key
  BY <1>1 DEF RecordKey, Places
<1>7. CASE records'[l] = Record(a, k, 0)
  <2>1. t = s BY <1>2, <1>7 DEF IInv, Distinct, Record
  <2> QED BY <1>7, <2>1 DEF Record
<1>8. CASE records'[l] = records[l] BY <1>8 DEF RecordKey
<1> QED BY <1>6, <1>7, <1>8

LEMMA ReceiveRecordKey ==
  ASSUME IInv, RecordKey, NEW f \in Frames, Receive(f)
  PROVE  RecordKey'
<1> DEFINE a == f.src
           p == peers[a]
<1>1. a \in InTable /\ a \in Addrs /\ f.key = p.key /\ registry' = registry
  BY DEF Receive, InTable
<1>2. TypeOK /\ records \in [Locals -> LaneRecords \cup {None}] BY DEF IInv, TypeOK
<1>3. records' = records \/ records' = [records EXCEPT ![p.local] = Record(a, f.key, f.ctr)]
  BY <1>2, ReceiveCases
<1> SUFFICES ASSUME NEW s \in Places, NEW l \in Locals,
                    records'[l] # None, records'[l].addr = registry[s].addr
             PROVE  records'[l].key = registry[s].key
  BY <1>1 DEF RecordKey, Places
<1>4. CASE records'[l] = records[l] BY <1>4 DEF RecordKey
<1>5. CASE records'[l] = Record(a, f.key, f.ctr)
  <2>1. registry[s].addr = a /\ records'[l].key = f.key BY <1>5 DEF Record
  <2> QED BY <1>1, <2>1, RegisteredKey
<1> QED BY <1>2, <1>3, <1>4, <1>5

LEMMA RecordKeyKeeps ==
  ASSUME IInv, IInv', RecordKey, StaleRestore = FALSE, [Next]_vars
  PROVE  RecordKey'
<1>1. CASE UNCHANGED <<registry, records>> BY <1>1 DEF RecordKey, Places
<1>2. CASE \E a \in Addrs, k \in Keys : NodeAdd(a, k) BY <1>2, NodeAddRecordKey
<1>3. CASE Mirror BY <1>3, MirrorRecordKey
<1>4. CASE \E f \in Frames : Receive(f) BY <1>4, ReceiveRecordKey
<1>5. CASE \E a \in Addrs, k \in Keys : NodeAddTorn(a, k)
  <2>1. PICK a \in Addrs, k \in Keys : NodeAddTorn(a, k) BY <1>5
  <2>2. RegistryAdd(a, k) /\ KeyFits(a, k) /\ records' = records BY <2>1 DEF NodeAddTorn
  <2>3. \A s \in Places' : \/ s \in Places /\ registry'[s] = registry[s]
                           \/ registry'[s] = Node(a, k)
    BY <2>2, AddRegisters DEF IInv
  <2> QED BY <2>2, <2>3 DEF RecordKey, KeyFits, Node
<1>6. CASE \E a \in Addrs : NodeRemove(a)
  <2>1. PICK a \in Addrs : NodeRemove(a) BY <1>6
  <2>2. PICK s \in Places : RegistryRemove(s) BY <2>1 DEF NodeRemove, Held
  <2>3. \A t \in Places' : \E u \in Places \ {s} : registry'[t] = registry[u]
    BY <2>2, RemoveDeregisters DEF IInv
  <2>4. records' = records BY <2>1 DEF NodeRemove
  <2> QED BY <2>3, <2>4 DEF RecordKey
<1> QED
  BY <1>1, <1>2, <1>3, <1>4, <1>5, <1>6 DEF Next, vars, Provision, Transmit, Reboot

LEMMA InstallWitnesses ==
  ASSUME IInv, IInv', RecordKey', Witnessed, NEW a \in Addrs, NEW k \in Keys,
         InstallPeer(a, k), a \in InTable', Node(a, k) \in Registered', accepted' = accepted
  PROVE  Witnessed'
<1>0. TypeOK /\ records \in [Locals -> LaneRecords \cup {None}]
      /\ peers \in [Addrs -> Peers \cup {None}]
  BY DEF IInv, TypeOK
<1>1. a \notin InTable => Locals \ Used # {} BY InstallRoom
<1>2. \A l \in Locals : records'[l] = Record(a, k, 0) \/ records'[l] = records[l]
  BY InstallRecord
<1>3. ASSUME NEW l \in Locals, records'[l] # None
      PROVE  \/ records'[l].seen = 0
             \/ Frame(records'[l].addr, records'[l].key, records'[l].seen) \in accepted
  <2>1. CASE records'[l] = Record(a, k, 0) BY <2>1 DEF Record
  <2>2. CASE records'[l] = records[l] BY <1>3, <2>2 DEF Witnessed
  <2> QED BY <1>2, <2>1, <2>2
<1>4. /\ \A b \in Addrs \ {a} : peers'[b] = peers[b]
      /\ \/ a \in InTable /\ peers' = peers
         \/ peers'[a].seen = 0
         \/ \E l \in Locals : /\ records[l] # None /\ records[l].addr = a /\ records' = records
                              /\ peers'[a] = Loaded(k, records[l].seen, l)
  <2>1. CASE a \in InTable /\ UNCHANGED <<peers, records, session>> BY <2>1
  <2>2. CASE \E l \in Locals : peers' = [peers EXCEPT ![a] = Loaded(k, 0, l)]
    <3>1. \A l \in Locals : Loaded(k, 0, l).seen = 0 BY DEF Loaded
    <3> QED BY <1>0, <2>2, <3>1
  <2>3. CASE \E l \in Own(a) : /\ peers' = [peers EXCEPT ![a] = Loaded(k, records[l].seen, l)]
                               /\ records' = records
    BY <1>0, <2>3 DEF Own
  <2>4. a \in InTable => peers[a].local \in Locals BY <1>0 DEF InTable, Peers
  <2> QED BY <1>0, <1>1, <2>1, <2>2, <2>3, <2>4, InstallCases
<1>5. ASSUME NEW b \in InTable'
      PROVE  peers'[b].seen = 0 \/ Frame(b, peers'[b].key, peers'[b].seen) \in accepted
  <2>1. CASE peers'[b] = peers[b] BY <1>5, <2>1 DEF Witnessed, InTable
  <2>2. CASE b = a /\ \E l \in Locals :
               /\ records[l] # None /\ records[l].addr = a /\ records' = records
               /\ peers'[a] = Loaded(k, records[l].seen, l)
    <3>1. PICK l \in Locals : /\ records[l] # None /\ records[l].addr = a /\ records' = records
                              /\ peers'[a] = Loaded(k, records[l].seen, l)
      BY <2>2
    <3>2. PICK t \in Places' : registry'[t] = Node(a, k) BY DEF Registered
    <3>3. records[l].key = k BY <3>1, <3>2 DEF RecordKey, Node
    <3>4. peers'[a].key = k /\ peers'[a].seen = records[l].seen BY <3>1 DEF Loaded
    <3> QED BY <2>2, <3>1, <3>3, <3>4 DEF Witnessed
  <2>3. b \in Addrs BY DEF InTable
  <2> QED BY <1>4, <2>1, <2>2, <2>3
<1> QED BY <1>3, <1>5 DEF Witnessed

LEMMA ReceiveWitnesses ==
  ASSUME IInv, Witnessed, AckedWasAccepted, NEW f \in Frames, Receive(f)
  PROVE  Witnessed' /\ AckedWasAccepted'
<1> DEFINE a == f.src
           p == peers[a]
<1>0. TypeOK /\ records \in [Locals -> LaneRecords \cup {None}]
      /\ peers \in [Addrs -> Peers \cup {None}]
  BY DEF IInv, TypeOK
<1>1. a \in InTable /\ a \in Addrs /\ f.key = p.key /\ acked' = acked \cup {f}
  BY DEF Receive, InTable
<1>2. f = Frame(a, f.key, f.ctr) /\ f.ctr \in Nat \ {0} BY Numbers DEF Frame, Frames
<1>3. CASE f.ctr = p.seen /\ UNCHANGED <<peers, records, accepted, session>>
  <2>1. f \in accepted BY <1>1, <1>2, <1>3 DEF Witnessed
  <2> QED BY <1>1, <1>3, <2>1 DEF Witnessed, AckedWasAccepted, InTable
<1>4. CASE /\ peers' = [peers EXCEPT ![a] = Accept(p, f.ctr)]
           /\ \/ records' = [records EXCEPT ![p.local] = Record(a, f.key, f.ctr)]
              \/ records' = records
           /\ accepted' = accepted \cup {f}
  <2>1. p \in Peers BY <1>0, <1>1 DEF InTable
  <2>2. Accept(p, f.ctr).seen = f.ctr /\ Accept(p, f.ctr).key = p.key
    BY <2>1 DEF Accept, Peers
  <2>3. peers'[a].seen = f.ctr /\ peers'[a].key = p.key
        /\ \A b \in Addrs \ {a} : peers'[b] = peers[b]
    BY <1>0, <1>1, <1>4, <2>2
  <2>4. ASSUME NEW b \in InTable'
        PROVE  peers'[b].seen = 0 \/ Frame(b, peers'[b].key, peers'[b].seen) \in accepted'
    <3>1. CASE b = a BY <1>1, <1>2, <1>4, <2>3, <3>1
    <3>2. CASE b # a BY <1>4, <2>3, <3>2 DEF Witnessed, InTable
    <3> QED BY <3>1, <3>2
  <2>5. ASSUME NEW l \in Locals, records'[l] # None
        PROVE  \/ records'[l].seen = 0
               \/ Frame(records'[l].addr, records'[l].key, records'[l].seen) \in accepted'
    <3>1. CASE records'[l] = records[l] BY <1>4, <2>5, <3>1 DEF Witnessed
    <3>2. CASE records'[l] = Record(a, f.key, f.ctr) BY <1>2, <1>4, <3>2 DEF Record
    <3> QED BY <1>0, <1>4, <3>1, <3>2
  <2>6. AckedWasAccepted' BY <1>1, <1>4 DEF AckedWasAccepted
  <2> QED BY <2>4, <2>5, <2>6 DEF Witnessed
<1> QED BY <1>0, <1>3, <1>4, ReceiveCases

LEMMA WitnessedKeeps ==
  ASSUME IInv, IInv', RecordKey', Witnessed, AckedWasAccepted, [Next]_vars
  PROVE  Witnessed' /\ AckedWasAccepted'
<1>0. peers \in [Addrs -> Peers \cup {None}] BY DEF IInv, TypeOK
<1>1. CASE \E f \in Frames : Receive(f) BY <1>1, ReceiveWitnesses
<1>2. CASE UNCHANGED <<accepted, acked, records, peers>>
  BY <1>2 DEF Witnessed, AckedWasAccepted, InTable
<1>3. CASE UNCHANGED <<accepted, acked, records>> /\ peers' = [a \in Addrs |-> None]
  BY <1>3 DEF Witnessed, AckedWasAccepted, InTable
<1>4. CASE \E a \in Addrs : NodeRemove(a)
  <2>1. PICK a \in Addrs : NodeRemove(a) BY <1>4
  <2>2. UNCHANGED <<accepted, acked, records>> /\ peers' = [peers EXCEPT ![a] = None]
    BY <2>1 DEF NodeRemove
  <2>3. \A b \in InTable' : b \in InTable /\ peers'[b] = peers[b] BY <1>0, <2>2 DEF InTable
  <2> QED BY <2>2, <2>3 DEF Witnessed, AckedWasAccepted
<1>5. CASE \E a \in Addrs, k \in Keys : NodeAdd(a, k)
  <2>1. PICK a \in Addrs, k \in Keys : NodeAdd(a, k) BY <1>5
  <2>2. UNCHANGED <<accepted, acked>> /\ todo' = {} BY <2>1 DEF NodeAdd, Running
  <2>3. CASE Node(a, k) \in Registered'
    <3>1. InstallPeer(a, k) BY <2>1, <2>3 DEF NodeAdd
    <3>2. PICK t \in Places' : registry'[t] = Node(a, k) BY <2>3 DEF Registered
    <3>3. a \in InTable' BY <2>2, <3>2 DEF IInv, Mirrored, Node
    <3>4. Witnessed' BY <2>2, <2>3, <3>1, <3>3, InstallWitnesses
    <3> QED BY <2>2, <3>4 DEF AckedWasAccepted
  <2>4. CASE Node(a, k) \notin Registered' BY <1>2, <2>1, <2>2, <2>4 DEF NodeAdd
  <2> QED BY <2>3, <2>4
<1>6. CASE Mirror
  <2>1. PICK s \in todo : /\ InstallPeer(registry[s].addr, registry[s].key)
                          /\ todo' = todo \ {s} /\ UNCHANGED <<registry, accepted, acked>>
    BY <1>6 DEF Mirror, FirstOf
  <2> DEFINE a == registry[s].addr
             k == registry[s].key
  <2>2. s \in Places /\ s \in Places' BY <2>1 DEF IInv, TypeOK, Places
  <2>3. registry[s] \in Nodes BY <2>2 DEF IInv, TypeOK, Places
  <2>4. a \in Addrs /\ k \in Keys /\ registry[s] = Node(a, k) BY <2>3 DEF Nodes, Node
  <2>5. a \in InTable' BY <2>1, <2>2 DEF IInv, Mirrored
  <2>6. Node(a, k) \in Registered' BY <2>1, <2>2, <2>4 DEF Registered
  <2> HIDE DEF a, k
  <2>7. InstallPeer(a, k) BY <2>1 DEF a, k
  <2>8. Witnessed' BY <2>1, <2>4, <2>5, <2>6, <2>7, InstallWitnesses
  <2> QED BY <2>1, <2>8 DEF AckedWasAccepted
<1> QED
  BY <1>1, <1>2, <1>3, <1>4, <1>5, <1>6
  DEF Next, vars, history, Provision, Transmit, NodeAddTorn, Reboot, GoDown

LEMMA HInvariance ==
  ASSUME StaleRestore = FALSE
  PROVE  Spec => []HInv
<1>1. IInv /\ IInv' /\ HInv /\ [Next]_vars => HInv'
  BY AiredKnownKeeps, RecordKeyKeeps, WitnessedKeeps DEF HInv, IInv
<1> QED BY <1>1, HInvInit, Invariance, PTL DEF Spec

(* No frame is acknowledged that was not accepted, if a node never comes   *)
(* back under another key than its record has.                             *)
THEOREM AcksAreTrue ==
  ASSUME StaleRestore = FALSE
  PROVE  Spec => []AckedWasAccepted
<1>1. HInv => AckedWasAccepted BY DEF HInv
<1> QED BY HInvariance, <1>1, PTL

(* Under the same condition, a node that shares the gateway's key is       *)
(* heard.                                                                  *)
THEOREM NodesAreHeard ==
  ASSUME StaleRestore = FALSE
  PROVE  Spec => []NodeIsHeard
<1>1. ASSUME IInv, HInv PROVE NodeIsHeard
  <2> SUFFICES ASSUME NEW a \in InTable, peers[a].key = node[a].key
               PROVE  peers[a].seen < node[a].next
    BY DEF NodeIsHeard
  <2>1. a \in Addrs /\ peers[a].seen \in Nat /\ node[a].next \in Nat \ {0}
        /\ node[a].key \in Nat
    BY <1>1, Numbers DEF IInv, TypeOK, InTable, Peers
  <2>2. CASE peers[a].seen = 0 BY <2>1, <2>2
  <2>3. CASE Frame(a, peers[a].key, peers[a].seen) \in accepted
    <3> DEFINE g == Frame(a, peers[a].key, peers[a].seen)
    <3>1. g \in aired BY <1>1, <2>3 DEF IInv, TypeOK
    <3>2. g.src = a /\ g.key = node[a].key /\ g.ctr = peers[a].seen BY DEF Frame
    <3>3. g.key < node[a].key \/ g.ctr < node[a].next
      BY <1>1, <3>1, <3>2 DEF HInv, AiredKnown
    <3> HIDE DEF g
    <3> QED BY <2>1, <3>2, <3>3
  <2> QED BY <1>1, <2>2, <2>3 DEF HInv, Witnessed
<1> QED BY Invariance, HInvariance, <1>1, PTL
=============================================================================
