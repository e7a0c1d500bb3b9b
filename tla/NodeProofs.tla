----------------------------- MODULE NodeProofs -----------------------------
(***************************************************************************)
(* The push-button node: its button, its store and its LED, and the shell  *)
(* every node and gateway has.  Two components that share no state, each   *)
(* with its own specification (Spec is the node's, ShellSpec the shell's). *)
(***************************************************************************)
EXTENDS PushButton, Shell, DataLemmas, TLAPS

-----------------------------------------------------------------------------
(* The button. *)

Scan == [asleep : BOOLEAN, pressed : BOOLEAN, fired : BOOLEAN,
         until : Nat, since : Nat \cup {None}, held : Nat]

(* A hold of this press was fired as one, and a click ends its press.      *)
GestureInv ==
  /\ pin \in BOOLEAN /\ sim \in SimTimes \cup {None} /\ scan \in Scan
  /\ scan.pressed /\ "hold" \in gesture => scan.fired
  /\ "click" \in gesture => ~scan.pressed
  /\ OneGesture

LEMMA Passed ==
  ASSUME GestureInv, NEW s \in Scan, NEW d \in Nat, Pass(s, d),
         s.pressed = scan.pressed, s.fired = scan.fired, pin' \in BOOLEAN,
         sim' \in SimTimes \cup {None}
  PROVE  GestureInv'
<1> DEFINE left == IF s.until > d THEN s.until - d ELSE 0
           held == IF s.pressed THEN Lesser(s.held + d, Longest) ELSE 0
           aged == [s EXCEPT !.until = left, !.asleep = FALSE, !.held = held]
           raw == left > 0 \/ pin
           age == IF s.since = None THEN 0 ELSE s.since + d
<1>1. left \in Nat
  BY SMT DEF Scan
<1>2. held \in Nat
  BY ButtonConstants, SMT DEF ButtonConstants, Lesser, Longest, Scan
<1>3. age \in Nat
  BY SMT DEF Scan
<1>4. aged \in Scan /\ aged.pressed = scan.pressed /\ aged.fired = scan.fired
  BY <1>1, <1>2 DEF Scan
<1>5. raw \in BOOLEAN
  OBVIOUS
<1>6. IF raw # s.pressed THEN Differs(aged, raw, age) ELSE Agrees(aged, raw)
  BY DEF Pass
<1> HIDE DEF aged, raw, age
<1>7. CASE raw # s.pressed /\ age < Threshold(raw)
  <2>1. scan' = [aged EXCEPT !.since = age] /\ Make(<<>>)
    BY <1>6, <1>7 DEF Differs
  <2>2. scan' \in Scan /\ scan'.pressed = scan.pressed /\ scan'.fired = scan.fired
    BY <1>3, <1>4, <2>1 DEF Scan
  <2>3. gesture' = gesture
    BY <2>1 DEF Make
  <2>4. QED
    BY <2>2, <2>3 DEF GestureInv, OneGesture
<1>8. CASE raw # s.pressed /\ ~(age < Threshold(raw)) /\ raw
  <2>1. scan' = [aged EXCEPT !.pressed = raw, !.since = None, !.held = 0, !.fired = FALSE, !.asleep = ~raw]
        /\ Make(<<"press">>)
    BY <1>6, <1>8 DEF Differs
  <2>2. scan' \in Scan
    BY <1>4, <1>5, <2>1 DEF Scan
  <2>3. gesture' = {"press"}
    BY <2>1 DEF Make
  <2>4. QED
    BY <2>2, <2>3 DEF GestureInv, OneGesture
<1>9. CASE raw # s.pressed /\ ~(age < Threshold(raw)) /\ ~raw
  <2>1. scan' = [aged EXCEPT !.pressed = raw, !.since = None, !.held = 0, !.asleep = ~raw]
        /\ Make(Released(aged))
    <3>1. scan' = [aged EXCEPT !.pressed = raw, !.since = None, !.held = 0, !.fired = @, !.asleep = ~raw]
          /\ Make(Released(aged))
      BY <1>6, <1>9 DEF Differs
    <3>2. QED
      BY <1>4, <3>1 DEF Scan
  <2>2. scan' \in Scan /\ scan'.pressed = FALSE /\ scan'.fired = scan.fired
    BY <1>4, <1>5, <1>9, <2>1 DEF Scan
  <2>3. scan.pressed = TRUE
    BY <1>5, <1>9 DEF Scan, GestureInv
  <2>4. CASE Released(aged) = <<"release", "click">>
    <3>1. ~scan.fired
      BY <1>4, <2>4 DEF Released
    <3>2. "hold" \notin gesture
      BY <2>3, <3>1 DEF GestureInv
    <3>3. gesture' = gesture \cup {"release", "click"}
      BY <2>1, <2>4 DEF Make
    <3>4. QED
      BY <2>2, <3>2, <3>3 DEF GestureInv, OneGesture
  <2>5. CASE Released(aged) = <<"release">>
    <3>1. gesture' = gesture \cup {"release"}
      BY <2>1, <2>5 DEF Make
    <3>2. QED
      BY <2>2, <3>1 DEF GestureInv, OneGesture
  <2>6. QED
    BY <2>4, <2>5 DEF Released
<1>10. CASE raw = s.pressed
  <2> DEFINE holds == aged.pressed /\ ~aged.fired /\ aged.held >= HoldTime
  <2>1. scan' = [aged EXCEPT !.since = None, !.fired = @ \/ holds, !.asleep = ~raw]
        /\ Make(IF holds THEN <<"hold">> ELSE <<>>)
    BY <1>6, <1>10 DEF Agrees
  <2>2. CASE holds
    <3>1. scan' = [aged EXCEPT !.since = None, !.fired = TRUE, !.asleep = ~raw] /\ Make(<<"hold">>)
      BY <2>1, <2>2
    <3>2. scan' \in Scan /\ scan'.pressed = TRUE /\ scan'.fired = TRUE /\ scan.pressed = TRUE
      BY <1>4, <1>5, <2>2, <3>1 DEF Scan
    <3>3. gesture' = gesture \cup {"hold"}
      BY <3>1 DEF Make
    <3>4. QED
      BY <3>2, <3>3 DEF GestureInv, OneGesture
  <2>3. CASE ~holds
    <3>1. scan' = [aged EXCEPT !.since = None, !.asleep = ~raw] /\ Make(<<>>)
      BY <1>4, <2>1, <2>3 DEF Scan
    <3>2. scan' \in Scan /\ scan'.pressed = scan.pressed /\ scan'.fired = scan.fired
      BY <1>4, <1>5, <3>1 DEF Scan
    <3>3. gesture' = gesture
      BY <3>1 DEF Make
    <3>4. QED
      BY <3>2, <3>3 DEF GestureInv, OneGesture
  <2>4. QED
    BY <2>2, <2>3
<1>11. QED
  BY <1>7, <1>8, <1>9, <1>10

LEMMA GestureKept == GestureInv /\ [Next]_vars => GestureInv'
<1> SUFFICES ASSUME GestureInv, [Next]_vars PROVE GestureInv'
  OBVIOUS
<1>1. CASE Sample
  <2>1. PICK d \in 1..MaxLag : Pass(scan, d)
    BY <1>1 DEF Sample
  <2>2. d \in Nat /\ pin' = pin /\ sim' = sim
    BY <1>1, SMT DEF Sample
  <2>3. scan \in Scan /\ pin' \in BOOLEAN /\ sim' \in SimTimes \cup {None}
    BY <2>2 DEF GestureInv
  <2>4. QED
    BY <2>1, <2>2, <2>3, Passed
<1>2. CASE Wake
  <2>1. scan \in Scan /\ pin' = pin /\ pin \in BOOLEAN
    BY <1>2 DEF GestureInv, Wake
  <2>2. CASE pin
    <3>1. Pass(scan, 0) /\ sim' = sim
      BY <1>2, <2>2 DEF Wake
    <3>2. QED
      BY <2>1, <3>1, Passed DEF GestureInv
  <2>3. CASE ~pin
    <3>1. Pass([scan EXCEPT !.until = sim], 0) /\ sim' = None /\ sim # None
      BY <1>2, <2>3 DEF Wake
    <3>2. sim \in Nat
      BY <3>1, ButtonConstants DEF GestureInv, ButtonConstants
    <3>3. [scan EXCEPT !.until = sim] \in Scan /\ [scan EXCEPT !.until = sim].pressed = scan.pressed
          /\ [scan EXCEPT !.until = sim].fired = scan.fired
      BY <2>1, <3>2 DEF Scan
    <3>4. QED
      BY <2>1, <3>1, <3>3, Passed
  <2>4. QED
    BY <2>2, <2>3
<1>3. CASE Finger
  BY <1>3 DEF Finger, GestureInv, OneGesture
<1>4. CASE Simulate
  BY <1>4 DEF Simulate, GestureInv, OneGesture
<1>5. CASE Reset
  <2>1. scan' = Resting /\ gesture' = {} /\ sim' = None /\ pin' = pin
    BY <1>5 DEF Reset, ButtonStarts
  <2>2. Resting \in Scan /\ ~Resting.pressed
    BY DEF Resting, Scan
  <2>3. QED
    BY <2>1, <2>2 DEF GestureInv, OneGesture
<1>6. CASE UNCHANGED <<pin, sim, scan, gesture>>
  BY <1>6 DEF GestureInv, OneGesture
<1>7. CASE Loop
  BY <1>6, <1>7 DEF Loop, OnEvent, HoldJoined, HoldGivesUp, OnOther, UplinkEnds, Remote, Describe,
     Provision, JoinOpen, JoinEnds, button
<1>8. CASE ShellSets \/ ShellWipes \/ ShellReboots \/ UNCHANGED button
  BY <1>6, <1>8 DEF ShellSets, ShellWipes, ShellReboots, button
<1>9. QED
  BY <1>1, <1>2, <1>3, <1>4, <1>5, <1>7, <1>8 DEF Next, ButtonNext, vars

(* A press is a click or a hold, never both, for every timing of the       *)
(* driver, and however late the samples come (scan_task, hold_fired).      *)
THEOREM PressIsOneGesture == Spec => []OneGesture
<1>1. Init => GestureInv
  <2> SUFFICES ASSUME Init PROVE GestureInv
    OBVIOUS
  <2>1. pin = FALSE /\ sim = None /\ scan = Resting /\ gesture = {}
    BY DEF Init, ButtonInit
  <2>2. Resting \in Scan /\ ~Resting.pressed
    BY DEF Resting, Scan
  <2>3. QED
    BY <2>1, <2>2 DEF GestureInv, OneGesture
<1>2. GestureInv => OneGesture
  BY DEF GestureInv
<1>3. QED
  BY <1>1, <1>2, GestureKept, PTL DEF Spec

-----------------------------------------------------------------------------
(* The store.  A provisioning that was accepted ends the loop's work.      *)

StoreInv ==
  /\ provision \in Gateways \cup {None} /\ record \in Gateways \cup {None}
  /\ erased \in BOOLEAN
  /\ promised # None => main = "reset"
  /\ unsaved = "hold" => provision # None
  /\ main = "hold_join" => provision = None
  /\ main = "uplink" => provision # None
  /\ main \in {"wait", "hold_join", "cable_join", "uplink", "reset"}
  /\ ProvisionTruthful

LEMMA StoreKept == StoreInv /\ [Next]_vars => StoreInv'
<1> SUFFICES ASSUME StoreInv, [Next]_vars PROVE StoreInv'
  OBVIOUS
<1> USE PushButtonConstants DEF PushButtonConstants, StoreInv, ProvisionTruthful
<1>1. CASE OnEvent
  BY <1>1 DEF OnEvent, HoldJoins
<1>2. CASE HoldJoined
  BY <1>2 DEF HoldJoined
<1>3. CASE HoldGivesUp
  BY <1>3 DEF HoldGivesUp, Waits, Settled
<1>4. CASE OnOther \/ UplinkEnds
  BY <1>4 DEF OnOther, UplinkEnds, Waits
<1>5. CASE Remote
  BY <1>5 DEF Remote, Store
<1>6. CASE Describe
  BY <1>6 DEF Describe, node
<1>7. CASE Provision
  <2>1. PICK g \in Gateways, a \in Addrs \cup {None} :
          ProvisionWrites(g, a) /\ erased' = IF promised' = None THEN erased ELSE FALSE
    BY <1>7 DEF Provision
  <2>2. main = "wait" /\ provision' = provision /\ promised = None
    BY <1>7 DEF Provision
  <2>3. CASE UNCHANGED <<record, unsaved, promised, main>>
    BY <2>1, <2>2, <2>3
  <2>4. CASE /\ record' = g /\ pinned' = IF a = None THEN pinned ELSE a
             /\ unsaved' = "none" /\ promised' = [gw |-> g, addr |-> a]
             /\ main' = "reset"
    <3>1. promised' # None /\ promised'.gw = g /\ promised'.addr = a
      BY <2>4
    <3>2. QED
      BY <2>1, <2>2, <2>4, <3>1
  <2>5. QED
    BY <2>1, <2>3, <2>4 DEF ProvisionWrites
<1>8. CASE JoinOpen
  BY <1>8 DEF JoinOpen
<1>9. CASE JoinEnds
  BY <1>9 DEF JoinEnds, Waits, Settled
<1>10. CASE ShellSets
  BY <1>10 DEF ShellSets
<1>11. CASE ShellWipes \/ ShellReboots
  BY <1>11 DEF ShellWipes, ShellReboots
<1>12. CASE Reset
  BY <1>12 DEF Reset
<1>13. CASE UNCHANGED node
  BY <1>13 DEF node
<1>14. QED
  BY <1>1, <1>2, <1>3, <1>4, <1>5, <1>6, <1>7, <1>8, <1>9, <1>10, <1>11, <1>12, <1>13
  DEF Next, Loop, vars

(* What the node works with is what is stored, and an accepted             *)
(* provisioning is in the store for the reboot, for all sets of gateways   *)
(* and addresses (handle_mgmt, ota_join, the order of Provision's writes). *)
THEOREM ProvisionIsTruthful == Spec => []ProvisionTruthful
<1>1. Init => StoreInv
  BY PushButtonConstants DEF Init, Boots, StoreInv, ProvisionTruthful
<1>2. StoreInv => ProvisionTruthful
  BY DEF StoreInv
<1>3. QED
  BY <1>1, <1>2, StoreKept, PTL DEF Spec

-----------------------------------------------------------------------------
(* The LED: what it will show, for a queue of commands and a background.   *)

Patterns(c) == {i \in DOMAIN c : c[i] # "pulse"}

Shown(c, bg) ==
  IF Patterns(c) = {} THEN bg ELSE c[CHOOSE i \in Patterns(c) : \A k \in Patterns(c) : k <= i]

(* There is a last pattern, if there is one. *)
LEMMA LastPattern ==
  ASSUME NEW S, NEW c \in Seq(S), Patterns(c) # {}
  PROVE  \E i \in Patterns(c) : \A k \in Patterns(c) : k <= i
<1> DEFINE T == {Len(c) - i : i \in Patterns(c)}
<1>1. Len(c) \in Nat /\ Patterns(c) \subseteq 1..Len(c)
  BY DEF Patterns
<1>2. T \in SUBSET Nat /\ T # {}
  BY <1>1, SMT
<1> HIDE DEF T
<1>3. PICK t \in T : \A u \in T : t <= u
  BY <1>2, Least
<1>4. PICK i \in Patterns(c) : t = Len(c) - i
  BY <1>3 DEF T
<1>5. ASSUME NEW k \in Patterns(c) PROVE k <= i
  <2>1. Len(c) - i <= Len(c) - k
    BY <1>3, <1>4 DEF T
  <2>2. QED
    BY <1>1, <2>1, SMT
<1>6. QED
  BY <1>5

(* The last pattern is what will be shown. *)
LEMMA ShownIsLast ==
  ASSUME NEW S, NEW c \in Seq(S), NEW bg, NEW i \in Patterns(c), \A k \in Patterns(c) : k <= i
  PROVE  Shown(c, bg) = c[i]
<1> DEFINE j == CHOOSE n \in Patterns(c) : \A k \in Patterns(c) : k <= n
<1>1. j \in Patterns(c) /\ \A k \in Patterns(c) : k <= j
  OBVIOUS
<1>2. j \in Int /\ i \in Int
  BY <1>1, SMT DEF Patterns
<1>3. j = i
  BY <1>1, <1>2, SMT
<1>4. Patterns(c) # {}
  OBVIOUS
<1>5. QED
  BY <1>3, <1>4 DEF Shown

(* Pulses after it change nothing of what will be shown. *)
LEMMA PulsesPass ==
  ASSUME NEW S, NEW c \in Seq(S), NEW d \in Seq(S), NEW bg, Len(d) >= Len(c),
         \A i \in 1..Len(c) : d[i] = c[i], \A i \in 1..Len(d) : i > Len(c) => d[i] = "pulse"
  PROVE  Shown(d, bg) = Shown(c, bg)
<1>1. Patterns(d) = Patterns(c)
  BY SMT DEF Patterns
<1>2. CASE Patterns(c) = {}
  BY <1>1, <1>2 DEF Shown
<1>3. CASE Patterns(c) # {}
  <2>1. PICK i \in Patterns(c) : \A k \in Patterns(c) : k <= i
    BY <1>3, LastPattern
  <2>2. Shown(c, bg) = c[i] /\ Shown(d, bg) = d[i]
    BY <1>1, <2>1, ShownIsLast
  <2>3. i \in 1..Len(c)
    BY DEF Patterns
  <2>4. QED
    BY <2>2, <2>3
<1>4. QED
  BY <1>2, <1>3

LedCommand == {"pulse", "joining", "unprovisioned", Dark}

LedTyped == commands \in Seq(LedCommand) /\ Len(commands) <= LedDepth /\ lost \in BOOLEAN

(* What fits of a sequence of commands. *)
LEMMA Fits ==
  ASSUME LedTyped, NEW cs \in Seq(LedCommand), Ask(cs)
  PROVE  /\ LedTyped'
         /\ background' = background
         /\ Len(commands') = Len(commands) + Lesser(Len(cs), LedDepth - Len(commands))
         /\ \A i \in 1..Len(commands) : commands'[i] = commands[i]
         /\ \A i \in 1..Len(commands') : i > Len(commands) => commands'[i] = cs[i - Len(commands)]
<1> DEFINE room == LedDepth - Len(commands)
           fit == IF Len(cs) <= room THEN cs ELSE SubSeq(cs, 1, room)
<1>1. room \in Nat /\ Len(commands) \in Nat /\ Len(cs) \in Nat
  BY LedConstants, SMT DEF LedTyped, LedConstants
<1>2. fit \in Seq(LedCommand) /\ Len(fit) = Lesser(Len(cs), room) /\ \A i \in 1..Len(fit) : fit[i] = cs[i]
  <2>1. CASE Len(cs) <= room
    BY <1>1, <2>1, SMT DEF Lesser
  <2>2. CASE ~(Len(cs) <= room)
    <3>1. fit = SubSeq(cs, 1, room) /\ room < Len(cs)
      BY <1>1, <2>2, SMT
    <3>2. fit \in Seq(LedCommand) /\ Len(fit) = room /\ \A i \in 1..room : fit[i] = cs[i]
      BY <1>1, <3>1, SMT
    <3>3. QED
      BY <1>1, <3>1, <3>2, SMT DEF Lesser
  <2>3. QED
    BY <2>1, <2>2
<1>3. commands' = commands \o fit /\ background' = background
  BY DEF Ask
<1> HIDE DEF fit
<1>4. commands' \in Seq(LedCommand) /\ Len(commands') = Len(commands) + Len(fit)
      /\ (\A i \in 1..Len(commands) : commands'[i] = commands[i])
      /\ (\A i \in 1..Len(commands') : i > Len(commands) => commands'[i] = fit[i - Len(commands)])
  BY <1>1, <1>2, <1>3, SMT DEF LedTyped
<1>5. \A i \in 1..Len(commands') : i > Len(commands) => commands'[i] = cs[i - Len(commands)]
  <2> SUFFICES ASSUME NEW i \in 1..Len(commands'), i > Len(commands)
               PROVE  commands'[i] = cs[i - Len(commands)]
    OBVIOUS
  <2>1. i - Len(commands) \in 1..Len(fit)
    BY <1>1, <1>2, <1>4, SMT
  <2>2. QED
    BY <1>2, <1>4, <2>1
<1>6. Len(commands') <= LedDepth
  BY <1>1, <1>2, <1>4, LedConstants, SMT DEF Lesser, LedConstants
<1>7. lost' \in BOOLEAN
  BY DEF Ask, LedTyped
<1>8. QED
  BY <1>2, <1>3, <1>4, <1>5, <1>6, <1>7 DEF LedTyped

(* A sequence of one pattern, not lost, is what will be shown. *)
LEMMA PatternAsked ==
  ASSUME LedTyped, NEW b \in LedCommand, b # "pulse", NEW cs \in {<<b>>, <<b, b>>}, Ask(cs), ~lost'
  PROVE  Shown(commands', background') = b
<1>1. cs \in Seq(LedCommand) /\ Len(cs) \in 1..2 /\ \A i \in 1..Len(cs) : cs[i] = b
  <2>1. CASE cs = <<b>>
    <3>1. Len(cs) = 1 /\ cs[1] = b
      BY <2>1
    <3>2. \A i \in 1..Len(cs) : cs[i] = b
      BY <3>1, SMT
    <3>3. cs \in Seq(LedCommand)
      BY <2>1
    <3>4. QED
      BY <3>1, <3>2, <3>3, SMT
  <2>2. CASE cs = <<b, b>>
    <3>1. Len(cs) = 2 /\ cs[1] = b /\ cs[2] = b
      BY <2>2
    <3>2. \A i \in 1..Len(cs) : cs[i] = b
      BY <3>1, SMT
    <3>3. cs \in Seq(LedCommand)
      BY <2>2
    <3>4. QED
      BY <3>1, <3>2, <3>3, SMT
  <2>3. QED
    BY <2>1, <2>2
<1>a. Len(cs) \in 1..Len(cs)
  <2>1. Len(cs) \in 1..2
    BY <1>1
  <2>2. \A n \in 1..2 : n \in 1..n
    BY SMT
  <2>3. QED
    BY <2>1, <2>2
<1>2. {i \in DOMAIN cs : cs[i] # "pulse"} = 1..Len(cs)
  BY <1>1, SMT
<1>3. \A i \in 1..Len(cs) : ~(i > LedDepth - Len(commands))
  BY <1>1, <1>2, SMT DEF Ask
<1>4. Len(commands) \in Nat /\ LedDepth \in Nat
  BY LedConstants DEF LedTyped, LedConstants
<1>5. Len(cs) <= LedDepth - Len(commands)
  <2>1. ~(Len(cs) > LedDepth - Len(commands)) /\ Len(cs) \in 1..2
    BY <1>1, <1>3, <1>a
  <2>2. QED
    BY <1>4, <2>1, SMT
<1>6. /\ commands' \in Seq(LedCommand) /\ Len(commands') = Len(commands) + Len(cs)
      /\ \A i \in 1..Len(commands') : i > Len(commands) => commands'[i] = cs[i - Len(commands)]
  BY <1>1, <1>4, <1>5, Fits, SMT DEF LedTyped, Lesser
<1>7. Len(commands') \in 1..Len(commands') /\ commands'[Len(commands')] = b
  <2>1. Len(commands') \in 1..Len(commands') /\ Len(commands') > Len(commands)
    <3>1. Len(commands') = Len(commands) + Len(cs) /\ Len(cs) \in 1..2
      BY <1>1, <1>6
    <3>2. QED
      BY <1>4, <3>1, SMT
  <2>2. Len(commands') - Len(commands) = Len(cs)
    <3>1. Len(commands') = Len(commands) + Len(cs) /\ Len(cs) \in Nat
      BY <1>1, <1>6
    <3>2. QED
      BY <1>4, <3>1, SMT
  <2>3. QED
    BY <1>1, <1>6, <1>a, <2>1, <2>2
<1>8. Len(commands') \in Patterns(commands') /\ \A k \in Patterns(commands') : k <= Len(commands')
  BY <1>6, <1>7, SMT DEF Patterns
<1>9. QED
  BY <1>6, <1>7, <1>8, ShownIsLast

(* A pulse, or nothing, leaves it as it is. *)
LEMMA NoPatternAsked ==
  ASSUME LedTyped, NEW cs \in {<<>>, <<"pulse">>}, Ask(cs)
  PROVE  Shown(commands', background') = Shown(commands, background) /\ lost' = lost
<1>1. cs \in Seq(LedCommand) /\ Len(cs) \in 0..1 /\ \A i \in 1..Len(cs) : cs[i] = "pulse"
  <2>1. CASE cs = <<>>
    BY <2>1, SMT
  <2>2. CASE cs = <<"pulse">>
    <3>1. Len(cs) = 1 /\ cs[1] = "pulse"
      BY <2>2
    <3>2. \A i \in 1..Len(cs) : cs[i] = "pulse"
      BY <3>1, SMT
    <3>3. cs \in Seq(LedCommand)
      BY <2>2 DEF LedCommand
    <3>4. QED
      BY <3>1, <3>2, <3>3, SMT
  <2>3. QED
    BY <2>1, <2>2
<1>2. {i \in DOMAIN cs : cs[i] # "pulse"} = {}
  BY <1>1, SMT
<1>3. lost' = lost
  BY <1>2, Zenon DEF Ask
<1>4. Len(commands) \in Nat /\ LedDepth - Len(commands) \in Nat /\ commands \in Seq(LedCommand)
  BY LedConstants, SMT DEF LedTyped, LedConstants
<1>5. /\ commands' \in Seq(LedCommand) /\ background' = background
      /\ Len(commands') = Len(commands) + Lesser(Len(cs), LedDepth - Len(commands))
      /\ \A i \in 1..Len(commands) : commands'[i] = commands[i]
      /\ \A i \in 1..Len(commands') : i > Len(commands) => commands'[i] = cs[i - Len(commands)]
  BY <1>1, Fits DEF LedTyped
<1>6. Len(commands') >= Len(commands) /\ Len(commands') <= Len(commands) + Len(cs)
  BY <1>1, <1>4, <1>5, SMT DEF Lesser
<1>7. \A i \in 1..Len(commands') : i > Len(commands) => commands'[i] = "pulse"
  <2> SUFFICES ASSUME NEW i \in 1..Len(commands'), i > Len(commands) PROVE commands'[i] = "pulse"
    OBVIOUS
  <2>1. i - Len(commands) \in 1..Len(cs)
    BY <1>1, <1>4, <1>5, <1>6, SMT
  <2>2. QED
    BY <1>1, <1>5, <2>1
<1>8. Shown(commands', background) = Shown(commands, background)
  BY <1>4, <1>5, <1>6, <1>7, PulsesPass
<1>9. QED
  BY <1>3, <1>5, <1>8

(* The dispatcher takes a command, and what will be shown stays. *)
LEMMA Dispatched ==
  ASSUME LedTyped, Dispatch
  PROVE  LedTyped' /\ lost' = lost /\ Shown(commands', background') = Shown(commands, background)
<1>1. /\ commands # <<>> /\ commands' = Tail(commands) /\ lost' = lost
      /\ background' = IF Head(commands) = "pulse" THEN background ELSE Head(commands)
  BY DEF Dispatch
<1>2. commands \in Seq(LedCommand) /\ Len(commands) \in Nat /\ Len(commands) >= 1
  BY <1>1, SMT DEF LedTyped
<1>3. /\ commands' \in Seq(LedCommand) /\ Len(commands') = Len(commands) - 1
      /\ \A i \in 1..Len(commands') : commands'[i] = commands[i + 1]
      /\ Head(commands) = commands[1]
  BY <1>1, <1>2, SMT
<1>4. LedTyped'
  BY <1>1, <1>2, <1>3, LedConstants, SMT DEF LedTyped, LedConstants
<1>5. \A i \in 1..Len(commands') : i \in Patterns(commands') <=> i + 1 \in Patterns(commands)
  BY <1>2, <1>3, SMT DEF Patterns
<1>6. CASE Patterns(commands') # {}
  <2>1. PICK i \in Patterns(commands') : \A k \in Patterns(commands') : k <= i
    BY <1>3, <1>6, LastPattern
  <2>2. Shown(commands', background') = commands'[i]
    BY <1>3, <2>1, ShownIsLast
  <2>3. i \in 1..Len(commands') /\ i + 1 \in Patterns(commands)
    BY <1>5 DEF Patterns
  <2>4. ASSUME NEW k \in Patterns(commands) PROVE k <= i + 1
    <3>1. k \in 1..Len(commands)
      BY DEF Patterns
    <3>2. CASE k = 1
      BY <2>3, <3>2, SMT
    <3>3. CASE k # 1
      <4>1. k - 1 \in 1..Len(commands') /\ (k - 1) + 1 = k
        BY <1>2, <1>3, <3>1, <3>3, SMT
      <4>2. k - 1 \in Patterns(commands')
        BY <1>5, <4>1
      <4>3. k - 1 <= i
        BY <2>1, <4>2
      <4>4. QED
        BY <2>3, <3>1, <4>3, SMT
    <3>4. QED
      BY <3>2, <3>3
  <2>5. Shown(commands, background) = commands[i + 1]
    BY <1>2, <2>3, <2>4, ShownIsLast
  <2>6. QED
    BY <1>1, <1>3, <1>4, <2>2, <2>3, <2>5
<1>7. CASE Patterns(commands') = {}
  <2>1. \A k \in Patterns(commands) : k = 1
    <3> SUFFICES ASSUME NEW k \in Patterns(commands), k # 1 PROVE FALSE
      OBVIOUS
    <3>1. k - 1 \in 1..Len(commands') /\ (k - 1) + 1 = k
      BY <1>2, <1>3, SMT DEF Patterns
    <3>2. QED
      BY <1>5, <1>7, <3>1
  <2>2. Shown(commands', background') = background'
    BY <1>7 DEF Shown
  <2>3. CASE Head(commands) = "pulse"
    <3>1. 1 \notin Patterns(commands)
      BY <1>3, <2>3 DEF Patterns
    <3>2. Patterns(commands) = {}
      BY <2>1, <3>1
    <3>3. QED
      BY <1>1, <1>4, <2>2, <2>3, <3>2 DEF Shown
  <2>4. CASE Head(commands) # "pulse"
    <3>1. 1 \in Patterns(commands) /\ \A k \in Patterns(commands) : k <= 1
      <4>1. 1 \in Patterns(commands)
        BY <1>2, <1>3, <2>4, SMT DEF Patterns
      <4>2. QED
        BY <2>1, <4>1, SMT
    <3>2. Shown(commands, background) = commands[1]
      BY <1>2, <3>1, ShownIsLast
    <3>3. QED
      BY <1>1, <1>3, <1>4, <2>2, <2>4, <3>2
  <2>5. QED
    BY <2>3, <2>4
<1>8. QED
  BY <1>6, <1>7

(* While the loop waits or sends, the LED shows what fits. *)
LedInv ==
  /\ LedTyped
  /\ main \in {"wait", "uplink"} /\ ~lost /\ unsaved # "cable" =>
       Shown(commands, background) = Fitting(provision)

LEMMA ShowsShown == Shows = Shown(commands, background)
BY DEF Shows, Shown, Patterns

(* A sequence of a pattern, asked by the loop: it will be shown. *)
LEMMA Asked ==
  ASSUME LedTyped, NEW b \in LedCommand, b # "pulse", NEW cs \in {<<b>>, <<b, b>>}, Ask(cs)
  PROVE  LedTyped' /\ (~lost' => Shown(commands', background') = b)
<1>1. cs \in Seq(LedCommand)
  <2>1. CASE cs = <<b>>
    BY <2>1
  <2>2. CASE cs = <<b, b>>
    BY <2>2
  <2>3. QED
    BY <2>1, <2>2
<1>2. LedTyped'
  BY <1>1, Fits
<1>3. QED
  BY <1>2, PatternAsked

(* After a request: what fits stays, or is asked for. *)
LEMMA RequestAsked ==
  ASSUME LedTyped, NEW p \in Gateways \cup {None}, Ask(AfterRequest(p))
  PROVE  /\ LedTyped'
         /\ p # None /\ ~lost' => Shown(commands', background') = Fitting(p)
         /\ p = None => Shown(commands', background') = Shown(commands, background) /\ lost' = lost
<1>1. CASE p = None
  <2>1. Ask(<<>>)
    BY <1>1 DEF AfterRequest
  <2>2. <<>> \in Seq(LedCommand)
    OBVIOUS
  <2>3. QED
    BY <1>1, <2>1, <2>2, Fits, NoPatternAsked
<1>2. CASE p # None
  <2>1. Ask(<<Dark>>) /\ Fitting(p) = Dark
    BY <1>2 DEF AfterRequest, Fitting
  <2>2. Dark \in LedCommand /\ Dark # "pulse"
    BY LedConstants DEF LedConstants, LedCommand
  <2>3. QED
    BY <1>2, <2>1, <2>2, Asked
<1>3. QED
  BY <1>1, <1>2

(* What a boot asks for fits. *)
LEMMA BootShown ==
  ASSUME NEW r
  PROVE  /\ BootPattern(r) \in Seq(LedCommand) /\ Len(BootPattern(r)) <= LedDepth
         /\ Shown(BootPattern(r), Dark) = Fitting(r)
<1>1. "unprovisioned" \in LedCommand /\ LedDepth \in Nat /\ LedDepth >= 1
  BY LedConstants, SMT DEF LedCommand, LedConstants
<1>2. CASE r = None
  <2>1. BootPattern(r) = <<"unprovisioned">> /\ Fitting(r) = "unprovisioned"
    BY <1>2 DEF BootPattern, Fitting
  <2> DEFINE c == <<"unprovisioned">>
  <2>2. c \in Seq(LedCommand) /\ Len(c) = 1 /\ c[1] = "unprovisioned"
    BY <1>1
  <2>3. 1 \in Patterns(c) /\ \A k \in Patterns(c) : k <= 1
    BY <2>2, SMT DEF Patterns
  <2>4. Shown(c, Dark) = "unprovisioned"
    BY <2>2, <2>3, ShownIsLast
  <2>5. QED
    BY <1>1, <2>1, <2>2, <2>4, SMT
<1>3. CASE r # None
  <2>1. BootPattern(r) = <<>> /\ Fitting(r) = Dark
    BY <1>3 DEF BootPattern, Fitting
  <2>2. Patterns(<<>>) = {}
    BY SMT DEF Patterns
  <2>3. QED
    BY <1>1, <2>1, <2>2, SMT DEF Shown
<1>4. QED
  BY <1>2, <1>3

LEMMA LedKept == StoreInv /\ LedInv /\ [Next]_vars => LedInv'
<1> SUFFICES ASSUME StoreInv, LedInv, [Next]_vars PROVE LedInv'
  OBVIOUS
<1>0. /\ Dark \in LedCommand /\ Dark # "pulse" /\ "unprovisioned" \in LedCommand /\ "joining" \in LedCommand
      /\ LedTyped /\ provision \in Gateways \cup {None}
  BY LedConstants DEF LedConstants, LedCommand, LedInv, StoreInv
<1>1. CASE UNCHANGED <<led, main, unsaved, provision>>
  BY <1>1 DEF led, LedInv, LedTyped
<1>2. CASE Dispatch /\ UNCHANGED node
  <2>1. LedTyped' /\ lost' = lost /\ Shown(commands', background') = Shown(commands, background)
    BY <1>0, <1>2, Dispatched
  <2>2. main' = main /\ unsaved' = unsaved /\ provision' = provision
    BY <1>2 DEF node
  <2>3. QED
    BY <2>1, <2>2 DEF LedInv
<1>3. CASE OnEvent
  <2>1. main = "wait" /\ provision' = provision /\ unsaved' = unsaved
    BY <1>3 DEF OnEvent
  <2>2. CASE HoldJoins
    BY <1>0, <2>2, Asked DEF HoldJoins, LedInv
  <2>3. CASE UNCHANGED <<main, led>>
    BY <1>1, <2>1, <2>3
  <2>4. CASE main' = "uplink" /\ Ask(<<"pulse">>)
    <3>1. <<"pulse">> \in Seq(LedCommand)
      <4>1. "pulse" \in LedCommand
        BY DEF LedCommand
      <4>2. QED
        BY <4>1
    <3>2. LedTyped'
      BY <1>0, <2>4, <3>1, Fits
    <3>3. Shown(commands', background') = Shown(commands, background) /\ lost' = lost
      BY <1>0, <2>4, NoPatternAsked
    <3>4. QED
      BY <2>1, <3>2, <3>3 DEF LedInv
  <2>5. QED
    BY <1>3, <2>2, <2>3, <2>4 DEF OnEvent
<1>4. CASE HoldJoined
  <2>1. provision' # None /\ Ask(<<Dark>>)
    BY <1>4, PushButtonConstants DEF HoldJoined, PushButtonConstants
  <2>2. LedTyped' /\ (~lost' => Shown(commands', background') = Dark)
    BY <1>0, <2>1, Asked
  <2>3. QED
    BY <2>1, <2>2 DEF LedInv, Fitting
<1>5. CASE HoldGivesUp
  <2>1. provision' = None /\ Ask(<<"unprovisioned">>)
    BY <1>5 DEF HoldGivesUp, StoreInv
  <2>2. LedTyped' /\ (~lost' => Shown(commands', background') = "unprovisioned")
    BY <1>0, <2>1, Asked
  <2>3. QED
    BY <2>1, <2>2 DEF LedInv, Fitting
<1>6. CASE OnOther \/ UplinkEnds
  <2>1. main \in {"wait", "uplink"} /\ UNCHANGED <<led, unsaved, provision>>
    BY <1>6 DEF OnOther, UplinkEnds
  <2>2. QED
    BY <2>1 DEF LedInv, LedTyped, led
<1>7. CASE Remote
  <2>1. main = "uplink" /\ UNCHANGED <<led, unsaved, provision>>
    BY <1>7 DEF Remote
  <2>2. QED
    BY <2>1 DEF LedInv, LedTyped, led
<1>8. CASE Describe \/ Provision
  <2>1. /\ main = "wait" /\ provision' = provision /\ Ask(AfterRequest(provision))
        /\ unsaved' = unsaved \/ main' = "reset"
    BY <1>8 DEF Describe, Provision, ProvisionWrites, node
  <2>2. /\ LedTyped'
        /\ provision # None /\ ~lost' => Shown(commands', background') = Fitting(provision)
        /\ provision = None =>
             Shown(commands', background') = Shown(commands, background) /\ lost' = lost
    BY <1>0, <2>1, RequestAsked
  <2>3. QED
    BY <2>1, <2>2 DEF LedInv
<1>9. CASE JoinOpen
  <2>1. main' = "cable_join" /\ Ask(<<"joining">>)
    BY <1>9 DEF JoinOpen
  <2>2. QED
    BY <1>0, <2>1, Asked DEF LedInv
<1>10. CASE JoinEnds
  <2>1. ASSUME NEW g \in Gateways, provision' = g, Ask(AfterRequest(g)) PROVE LedInv'
    <3>1. g # None
      BY PushButtonConstants DEF PushButtonConstants
    <3>2. LedTyped' /\ (~lost' => Shown(commands', background') = Fitting(g))
      BY <1>0, <2>1, <3>1, RequestAsked
    <3>3. QED
      BY <2>1, <3>2 DEF LedInv
  <2>2. CASE /\ Ask(AfterRequest(provision)) /\ provision' = provision
             /\ unsaved' = IF unsaved = "hold" THEN "hold" ELSE "cable"
    <3>1. unsaved' # "cable" => provision # None
      BY <2>2 DEF StoreInv
    <3>2. LedTyped' /\ (provision # None /\ ~lost' => Shown(commands', background') = Fitting(provision))
      BY <1>0, <2>2, RequestAsked
    <3>3. QED
      BY <2>2, <3>1, <3>2 DEF LedInv
  <2>3. CASE Ask(NotJoined \o AfterRequest(provision)) /\ provision' = provision
    <3>1. NotJoined \o AfterRequest(provision) \in {<<Fitting(provision)>>, <<Fitting(provision), Fitting(provision)>>}
      <4>1. CASE provision = None
        BY <4>1, SMT DEF NotJoined, AfterRequest
      <4>2. CASE provision # None
        <5>1. NotJoined = <<Dark>> /\ AfterRequest(provision) = <<Dark>> /\ Fitting(provision) = Dark
          BY <4>2 DEF NotJoined, AfterRequest, Fitting
        <5>2. <<Dark>> \o <<Dark>> = <<Dark, Dark>>
          <6> DEFINE one == <<Dark>> \o <<Dark>>   two == <<Dark, Dark>>
          <6>1. one \in Seq(LedCommand) /\ two \in Seq(LedCommand) /\ Len(one) = 2 /\ Len(two) = 2
            BY <1>0, SMT
          <6>2. one[1] = Dark /\ one[2] = Dark /\ two[1] = Dark /\ two[2] = Dark
            BY <1>0, SMT
          <6> HIDE DEF one, two
          <6>3. \A i \in 1..Len(one) : one[i] = two[i]
            BY <6>1, <6>2, SMT
          <6>4. one = two
            BY <6>1, <6>3, SeqEqual
          <6>5. QED
            BY <6>4 DEF one, two
        <5>3. QED
          BY <5>1, <5>2
      <4>3. QED
        BY <4>1, <4>2
    <3>2. Fitting(provision) \in LedCommand /\ Fitting(provision) # "pulse"
      BY <1>0 DEF Fitting
    <3>3. LedTyped' /\ (~lost' => Shown(commands', background') = Fitting(provision))
      BY <1>0, <2>3, <3>1, <3>2, Asked
    <3>4. QED
      BY <2>3, <3>3 DEF LedInv
  <2>4. QED
    BY <1>10, <2>1, <2>2, <2>3 DEF JoinEnds
<1>11. CASE Reset
  <2>1. /\ main' = "wait" /\ provision' = record /\ background' = Dark /\ lost' = FALSE
        /\ commands' = BootPattern(record)
    BY <1>11 DEF Reset, LedStarts
  <2>2. LedTyped' /\ Shown(BootPattern(record), Dark) = Fitting(record)
    BY <1>0, <2>1, BootShown DEF LedTyped
  <2>3. QED
    BY <2>1, <2>2 DEF LedInv
<1>12. QED
  BY <1>1, <1>2, <1>3, <1>4, <1>5, <1>6, <1>7, <1>8, <1>9, <1>10, <1>11
  DEF Next, Loop, ShellSets, ShellWipes, ShellReboots, vars, node

(* The LED shows whether the node is paired, while it waits, for every     *)
(* depth of the LED's queue (run, ota_join, handle_mgmt).                  *)
THEOREM LedIsTruthful == Spec => []LedTruthful
<1>1. Init => StoreInv /\ LedInv
  <2>1. Init => StoreInv
    BY PushButtonConstants DEF Init, Boots, StoreInv, ProvisionTruthful
  <2>2. ASSUME Init PROVE LedInv
    <3>1. PICK r \in Gateways \cup {None} :
            commands = BootPattern(r) /\ background = Dark /\ lost = FALSE /\ provision = r
      BY <2>2 DEF Init, LedInit, Boots
    <3>2. QED
      BY <3>1, BootShown DEF LedInv, LedTyped
  <2>3. QED
    BY <2>1, <2>2
<1>2. StoreInv /\ LedInv /\ [Next]_vars => StoreInv' /\ LedInv'
  BY StoreKept, LedKept
<1>3. LedInv => LedTruthful
  BY ShowsShown DEF LedInv, LedTruthful
<1>4. QED
  BY <1>1, <1>2, <1>3, PTL DEF Spec

-----------------------------------------------------------------------------
(* The tree. *)

Leads(path, d) ==
  /\ \A e \in 1..d : SubSeq(path, 1, e) \in Entries("menus")
  /\ d = Len(path) \/ SubSeq(path, 1, d + 1) \notin Entries("menus")

(* A path leads as far as it leads, and no further. *)
LEMMA DepthIs ==
  ASSUME NEW path \in Seq(STRING), NEW d \in 0..Len(path), Leads(path, d)
  PROVE  MenuDepth(path) = d
<1> DEFINE m == MenuDepth(path)
<1>1. m = CHOOSE n \in 0..Len(path) : Leads(path, n)
  BY DEF MenuDepth, Leads
<1>2. m \in 0..Len(path) /\ Leads(path, m)
  BY <1>1
<1> HIDE DEF m
<1>3. CASE m < d
  <2>1. m + 1 \in 1..d /\ m # Len(path)
    BY <1>2, <1>3, SMT
  <2>2. QED
    BY <1>2, <2>1 DEF Leads
<1>4. CASE d < m
  <2>1. d + 1 \in 1..m /\ d # Len(path)
    BY <1>2, <1>4, SMT
  <2>2. QED
    BY <1>2, <2>1 DEF Leads
<1>5. QED
  BY <1>2, <1>3, <1>4, SMT DEF m

LEMMA DepthLeads ==
  ASSUME NEW path \in Seq(STRING)
  PROVE  MenuDepth(path) \in 0..Len(path) /\ Leads(path, MenuDepth(path))
<1> DEFINE D == {d \in 0..Len(path) : d = Len(path) \/ SubSeq(path, 1, d + 1) \notin Entries("menus")}
<1>1. D \in SUBSET Nat /\ Len(path) \in D /\ Len(path) \in Nat
  BY SMT
<1>2. PICK d \in D : \A n \in D : d <= n
  BY <1>1, Least
<1>3. ASSUME NEW e \in 1..d PROVE SubSeq(path, 1, e) \in Entries("menus")
  <2>1. e - 1 \in 0..Len(path) /\ (e - 1) + 1 = e /\ e - 1 # Len(path) /\ ~(d <= e - 1)
    BY <1>1, SMT
  <2>2. e - 1 \notin D
    BY <1>2, <2>1
  <2>3. QED
    BY <2>1, <2>2
<1>4. d \in 0..Len(path) /\ Leads(path, d)
  BY <1>3 DEF Leads
<1>5. QED
  BY <1>4, DepthIs

(* The front of a path and its last name make the path, and share its      *)
(* prefixes.                                                               *)
LEMMA Rejoined ==
  ASSUME NEW p \in Seq(STRING), p # <<>>
  PROVE  /\ Append(Front(p), Last(p)) = p /\ Front(p) \in Seq(STRING)
         /\ Len(Front(p)) = Len(p) - 1 /\ Len(p) \in Nat /\ Len(p) >= 1
         /\ SubSeq(p, 1, Len(p)) = p
         /\ \A e \in 1..Len(p) - 1 : SubSeq(Front(p), 1, e) = SubSeq(p, 1, e)
<1>1. Len(p) \in Nat /\ Len(p) >= 1 /\ \A i \in 1..Len(p) : p[i] \in STRING
  BY SMT
<1> DEFINE f == Front(p)   l == Last(p)
<1>2. f \in Seq(STRING) /\ Len(f) = Len(p) - 1 /\ (\A i \in 1..Len(p) - 1 : f[i] = p[i])
  <2>1. f = SubSeq(p, 1, Len(p) - 1) /\ Len(p) - 1 \in Int /\ 1 \in Int
    BY <1>1, SMT DEF Front
  <2>2. \A i \in 1..Len(p) - 1 : p[i] \in STRING
    BY <1>1, SMT
  <2>3. /\ SubSeq(p, 1, Len(p) - 1) \in Seq(STRING)
        /\ Len(SubSeq(p, 1, Len(p) - 1)) = IF 1 <= Len(p) - 1 THEN (Len(p) - 1) - 1 + 1 ELSE 0
        /\ \A i \in 1..(Len(p) - 1) - 1 + 1 : SubSeq(p, 1, Len(p) - 1)[i] = p[1 + i - 1]
    BY <2>1, <2>2, SubSeqProperties
  <2>4. QED
    <3>1. f \in Seq(STRING)
      BY <2>1, <2>3
    <3>2. Len(f) = Len(p) - 1
      <4>1. \A n \in Nat : (IF 1 <= n THEN n - 1 + 1 ELSE 0) = n
        OBVIOUS
      <4>2. Len(p) - 1 \in Nat
        BY <1>1, SMT
      <4>3. QED
        BY <2>1, <2>3, <4>1, <4>2, Zenon
    <3>3. ASSUME NEW i \in 1..Len(p) - 1 PROVE f[i] = p[i]
      <4>1. i \in 1..(Len(p) - 1) - 1 + 1 /\ 1 + i - 1 = i
        BY <1>1, SMT
      <4>2. SubSeq(p, 1, Len(p) - 1)[i] = p[1 + i - 1]
        BY <2>3, <4>1
      <4>3. QED
        BY <2>1, <4>1, <4>2
    <3>4. QED
      BY <3>1, <3>2, <3>3
<1>3. l \in STRING /\ l = p[Len(p)]
  BY <1>1, SMT DEF Last
<1> HIDE DEF f, l
<1>4. Append(f, l) = p
  <2>1. /\ Append(f, l) \in Seq(STRING) /\ Len(Append(f, l)) = Len(p)
        /\ \A i \in 1..Len(p) : Append(f, l)[i] = p[i]
    BY <1>1, <1>2, <1>3, SMT
  <2>2. QED
    BY <2>1, SeqEqual
<1>5. SubSeq(p, 1, Len(p)) = p
  <2>1. /\ SubSeq(p, 1, Len(p)) \in Seq(STRING) /\ Len(SubSeq(p, 1, Len(p))) = Len(p)
        /\ \A i \in 1..Len(p) : SubSeq(p, 1, Len(p))[i] = p[i]
    BY <1>1, SMT
  <2>2. QED
    BY <2>1, SeqEqual
<1>6. ASSUME NEW e \in 1..Len(p) - 1 PROVE SubSeq(f, 1, e) = SubSeq(p, 1, e)
  <2> DEFINE a == SubSeq(f, 1, e)   b == SubSeq(p, 1, e)
  <2>1. a \in Seq(STRING) /\ Len(a) = e /\ \A i \in 1..e : a[i] = f[i]
    BY <1>1, <1>2, SMT
  <2>2. b \in Seq(STRING) /\ Len(b) = e /\ \A i \in 1..e : b[i] = p[i]
    BY <1>1, SMT
  <2>3. \A i \in 1..e : f[i] = p[i]
    BY <1>1, <1>2, SMT
  <2> HIDE DEF a, b
  <2>4. a = b
    BY <2>1, <2>2, <2>3, SeqEqual
  <2>5. QED
    BY <2>4 DEF a, b
<1>7. QED
  BY <1>1, <1>2, <1>4, <1>5, <1>6 DEF f, l

(* A name that a menu offers leads to a menu or a command.                 *)
LEMMA MenuOffers ==
  ASSUME NEW path \in Seq(STRING), Resolve(path).is = "menu", NEW c \in Children(path)
  PROVE  Resolve(Append(path, c)).is # "none"
<1>1. PICK p \in Entries("menus") \cup Entries("commands") :
        p # <<>> /\ Front(p) = path /\ Last(p) = c
  BY DEF Children
<1>2. p \in Seq(STRING)
  BY ShellConstants DEF ShellConstants, Entries
<1>3. /\ Append(path, c) = p /\ Len(path) = Len(p) - 1 /\ Len(p) \in Nat /\ Len(p) >= 1
      /\ SubSeq(p, 1, Len(p)) = p
      /\ \A e \in 1..Len(p) - 1 : SubSeq(path, 1, e) = SubSeq(p, 1, e)
  BY <1>1, <1>2, Rejoined
<1>4. MenuDepth(path) = Len(path)
  <2>1. CASE MenuDepth(path) < Len(path)
    BY <2>1, SMT DEF Resolve, Found
  <2>2. QED
    BY <2>1, DepthLeads, SMT
<1>5. \A e \in 1..Len(p) - 1 : SubSeq(p, 1, e) \in Entries("menus")
  BY <1>3, <1>4, DepthLeads DEF Leads
<1>6. CASE p \in Entries("menus")
  <2>1. \A e \in 1..Len(p) : SubSeq(p, 1, e) \in Entries("menus")
    <3> SUFFICES ASSUME NEW e \in 1..Len(p) PROVE SubSeq(p, 1, e) \in Entries("menus")
      OBVIOUS
    <3>1. CASE e = Len(p)
      BY <1>3, <1>6, <3>1
    <3>2. CASE e # Len(p)
      <4>1. e \in 1..Len(p) - 1
        BY <1>3, <3>2, SMT
      <4>2. QED
        BY <1>5, <4>1
    <3>3. QED
      BY <3>1, <3>2
  <2>2. Len(p) \in 0..Len(p) /\ Leads(p, Len(p))
    BY <1>3, <2>1, SMT DEF Leads
  <2>3. MenuDepth(p) = Len(p)
    BY <1>2, <2>2, DepthIs
  <2>4. Resolve(p).is = "menu"
    BY <1>3, <2>3, SMT DEF Resolve, Found
  <2>5. QED
    BY <1>3, <2>4
<1>7. CASE p \notin Entries("menus")
  <2>1. Len(p) - 1 \in 0..Len(p) /\ (Len(p) - 1) + 1 = Len(p)
    BY <1>3, SMT
  <2>2. Leads(p, Len(p) - 1)
    BY <1>3, <1>5, <1>7, <2>1 DEF Leads
  <2>3. MenuDepth(p) = Len(p) - 1
    BY <1>2, <2>1, <2>2, DepthIs
  <2>4. MenuDepth(p) # Len(p) /\ MenuDepth(p) < Len(p)
    BY <1>3, <2>3, SMT
  <2>5. Step(p) = p /\ p \in Entries("commands")
    BY <1>3, <1>7, <2>1, <2>3 DEF Step
  <2>6. Resolve(p).is = "command"
    BY <2>4, <2>5, SMT DEF Resolve, Found
  <2>7. QED
    BY <1>3, <2>6
<1>8. QED
  BY <1>6, <1>7
(* A setting that completion offers exists, and its values are accepted.   *)
LEMMA SettingOffers ==
  ASSUME NEW path, NEW name \in Settings \cup {"none"}, Resolve(path).is # "menu",
         NEW c \in Completions(path, name)
  PROVE  /\ name = "none" => c \in Settings
         /\ name # "none" =>
              \A st : \A o \in SetOutcomes([path |-> path, name |-> name, value |-> c], st) :
                o.result # "bad_arg"
<1> DEFINE r == Resolve(path)
           cmd == IF r.is = "command" THEN Last(r.path) ELSE "none"
<1>1. Completions(path, name) =
        CASE r.is = "menu" -> Children(path)
          [] cmd = "set" /\ name \in Settings -> Hints[name]
          [] cmd \in {"set", "get"} /\ name \notin Settings -> Settings
          [] OTHER -> {}
  BY DEF Completions
<1> HIDE DEF cmd, r
<1>2. r.is # "menu"
  BY DEF r
<1>3. CASE name = "none"
  <2>1. name \notin Settings
    BY <1>3, SettingsConstants DEF SettingsConstants
  <2>2. Completions(path, name) \in {Settings, {}}
    BY <1>1, <1>2, <2>1
  <2>3. QED
    BY <1>3, <2>2
<1>4. CASE name # "none"
  <2>1. name \in Settings
    BY <1>4
  <2>2. Completions(path, name) \in {Hints[name], {}}
    BY <1>1, <1>2, <2>1
  <2>3. c \in Accepted[name] \/ (IsAddr(name) /\ c = "random")
    BY <2>1, <2>2, SettingsConstants DEF SettingsConstants
  <2>4. c \in Accepted[name] => c # Unset
    BY <2>1, SettingsConstants DEF SettingsConstants
  <2>5. ASSUME NEW st, NEW o \in SetOutcomes([path |-> path, name |-> name, value |-> c], st)
        PROVE  o.result # "bad_arg"
    <3> DEFINE values == IF IsAddr(name) /\ c = "random" THEN Random ELSE {Encoded(name, c)} \ {Unset}
    <3>1. values # {}
      BY <2>3, <2>4, SettingsConstants DEF SettingsConstants, Encoded
    <3>2. o \in {Outcome("ok", [st EXCEPT ![name] = v], FALSE) : v \in values}
               \cup {Outcome("storage", st, FALSE)}
      BY <2>1, <2>5, <3>1 DEF SetOutcomes
    <3> HIDE DEF values
    <3>3. CASE o = Outcome("storage", st, FALSE)
      BY <3>3 DEF Outcome
    <3>4. ASSUME NEW v \in values, o = Outcome("ok", [st EXCEPT ![name] = v], FALSE)
          PROVE  o.result # "bad_arg"
      BY <3>4 DEF Outcome
    <3>5. QED
      BY <3>2, <3>3, <3>4
  <2>6. QED
    BY <1>4, <2>5
<1>5. QED
  BY <1>3, <1>4

(* What the console's answer offers is what completion makes of what was   *)
(* asked.                                                                  *)
AnswerInv ==
  /\ {"offers", "asked", "pc", "reboot"} \subseteq DOMAIN usb
  /\ \/ usb.offers = {}
     \/ /\ usb.asked.path \in Paths /\ usb.asked.name \in Settings \cup {"none"}
        /\ usb.offers = Completions(usb.asked.path, usb.asked.name)

LEMMA AnswerKept == AnswerInv /\ [ShellNext]_shellVars => AnswerInv'
<1> SUFFICES ASSUME AnswerInv, [ShellNext]_shellVars PROVE AnswerInv'
  OBVIOUS
<1>0. /\ {"offers", "asked", "pc", "reboot"} \subseteq DOMAIN Quiet /\ Quiet.offers = {}
      /\ "result" \in DOMAIN Quiet /\ "whole" \in DOMAIN Quiet
  BY DEF Quiet
<1>1. ASSUME NEW l \in Lines, Command(l) PROVE AnswerInv'
  <2>1. CASE Known(l)
    <3>1. PICK o \in Outcomes(l, store) :
            LET w == Capture(Output(l, store), 0)
            IN usb' = [Quiet EXCEPT !.pc = "answer", !.reboot = o.reboot,
                         !.result = IF More(w) /\ o.result = "ok" THEN "truncated" ELSE o.result,
                         !.whole = w.out = FlattenSeq(Output(l, store))]
      BY <1>1, <2>1 DEF Command
    <3>2. DOMAIN usb' = DOMAIN Quiet /\ usb'.offers = Quiet.offers
      BY <3>1 DEF Quiet
    <3>3. QED
      BY <1>0, <3>2 DEF AnswerInv
  <2>2. CASE ~Known(l)
    <3>1. usb' = [Quiet EXCEPT !.pc = "answer", !.result = Refusal(l)]
      BY <1>1, <2>2 DEF Command
    <3>2. DOMAIN usb' = DOMAIN Quiet /\ usb'.offers = Quiet.offers
      BY <3>1 DEF Quiet
    <3>3. QED
      BY <1>0, <3>2 DEF AnswerInv
  <2>3. QED
    BY <2>1, <2>2
<1>2. ASSUME NEW p \in Paths, NEW n \in Settings \cup {"none"}, Complete(p, n) PROVE AnswerInv'
  <2>1. usb' = [Quiet EXCEPT !.pc = "answer", !.offers = Completions(p, n),
                             !.asked = [path |-> p, name |-> n]]
    BY <1>2 DEF Complete
  <2>2. DOMAIN usb' = DOMAIN Quiet /\ usb'.offers = Completions(p, n)
        /\ usb'.asked = [path |-> p, name |-> n]
    BY <2>1 DEF Quiet
  <2>3. QED
    BY <1>0, <2>2 DEF AnswerInv
<1>3. CASE Answered
  <2>1. CASE usb' = [usb EXCEPT !.pc = "flush"]
    <3>1. DOMAIN usb' = DOMAIN usb /\ usb'.offers = usb.offers /\ usb'.asked = usb.asked
      BY <2>1 DEF AnswerInv
    <3>2. QED
      BY <3>1 DEF AnswerInv
  <2>2. CASE usb' = Quiet
    BY <1>0, <2>2 DEF AnswerInv
  <2>3. QED
    BY <1>3, <2>1, <2>2 DEF Answered
<1>4. CASE ShellReset
  BY <1>0, <1>4 DEF ShellReset, AnswerInv
<1>5. CASE usb' = usb
  BY <1>5 DEF AnswerInv
<1>6. QED
  BY <1>1, <1>2, <1>3, <1>4, <1>5 DEF ShellNext, StreamLine, Pushed, StreamOver, shellVars

(* What completion offers is accepted, for every pair of trees and every   *)
(* table of settings (Args; complete against resolve, settings_set and     *)
(* encode_value).                                                          *)
THEOREM CompletionIsAccepted == ShellSpec => []OffersAccepted
<1>1. ShellInit => AnswerInv
  BY DEF ShellInit, AnswerInv, Quiet
<1>2. AnswerInv => OffersAccepted
  <2> SUFFICES ASSUME AnswerInv, NEW c \in usb.offers
               PROVE  /\ Resolve(usb.asked.path).is = "menu" =>
                           Resolve(Append(usb.asked.path, c)).is # "none"
                      /\ Resolve(usb.asked.path).is # "menu" /\ usb.asked.name = "none" => c \in Settings
                      /\ Resolve(usb.asked.path).is # "menu" /\ usb.asked.name # "none" =>
                           \A o \in SetOutcomes([path |-> usb.asked.path, name |-> usb.asked.name,
                                                 value |-> c], store) : o.result # "bad_arg"
    BY DEF OffersAccepted
  <2>1. /\ usb.asked.path \in Paths /\ usb.asked.name \in Settings \cup {"none"}
        /\ c \in Completions(usb.asked.path, usb.asked.name)
    BY DEF AnswerInv
  <2>2. usb.asked.path \in Seq(STRING)
    BY <2>1, ShellConstants DEF ShellConstants
  <2>3. CASE Resolve(usb.asked.path).is = "menu"
    <3>1. Completions(usb.asked.path, usb.asked.name) = Children(usb.asked.path)
      BY <2>3 DEF Completions
    <3>2. QED
      BY <2>1, <2>2, <2>3, <3>1, MenuOffers
  <2>4. CASE Resolve(usb.asked.path).is # "menu"
    BY <2>1, <2>4, SettingOffers
  <2>5. QED
    BY <2>3, <2>4
<1>3. QED
  BY <1>1, <1>2, AnswerKept, PTL DEF ShellSpec

-----------------------------------------------------------------------------
(* The settings: what is stored was accepted. *)

Values == (UNION {Accepted[s] : s \in Settings}) \cup {Unset}

Stored(st) == st \in [Settings -> Values] /\ \A s \in Settings : st[s] \in Accepted[s] \cup {Unset}

LEMMA VirginStored == Stored(Virgin)
<1>1. Unset \in Values
  BY DEF Values
<1>2. Virgin \in [Settings -> Values] /\ \A s \in Settings : Virgin[s] = Unset
  BY <1>1 DEF Virgin
<1>3. QED
  BY <1>2 DEF Stored

LEMMA OutcomesStored ==
  ASSUME NEW line, NEW st, Stored(st), NEW o \in Outcomes(line, st)
  PROVE  Stored(o.store)
<1>1. Stored(Virgin)
  BY VirginStored
<1>2. CASE o \in SetOutcomes(line, st)
  <2>1. CASE o \in {Outcome("not_found", st, FALSE), Outcome("bad_arg", st, FALSE),
                    Outcome("storage", st, FALSE)}
    BY <2>1 DEF Outcome
  <2>2. ASSUME line.name \in Settings,
               NEW v \in IF IsAddr(line.name) /\ line.value = "random" THEN Random
                         ELSE {Encoded(line.name, line.value)} \ {Unset},
               o = Outcome("ok", [st EXCEPT ![line.name] = v], FALSE)
        PROVE  Stored(o.store)
    <3>1. v \in Accepted[line.name]
      BY <2>2, SettingsConstants DEF SettingsConstants, Encoded
    <3>2. v \in Values
      BY <2>2, <3>1 DEF Values
    <3>3. o.store = [st EXCEPT ![line.name] = v]
      BY <2>2 DEF Outcome
    <3>4. QED
      BY <2>2, <3>1, <3>2, <3>3 DEF Stored
  <2>3. QED
    BY <1>2, <2>1, <2>2 DEF SetOutcomes
<1>3. CASE \E result, reboot : o = Outcome(result, st, reboot)
  BY <1>3 DEF Outcome
<1>4. CASE \E result, reboot : o = Outcome(result, Virgin, reboot)
  BY <1>1, <1>4 DEF Outcome
<1>5. QED
  <2> DEFINE cmd == Last(line.path)
  <2>1. cmd = "set" => o \in SetOutcomes(line, st)
    BY DEF Outcomes
  <2>2. cmd = "get" => o = Outcome(IF line.name \in Settings THEN "ok" ELSE "not_found", st, FALSE)
    BY DEF Outcomes
  <2>3. cmd = "reboot" => o = Outcome("ok", st, TRUE)
    BY DEF Outcomes
  <2>4. cmd = "wipe" => o \in {Outcome("ok", Virgin, TRUE), Outcome("bad_arg", st, FALSE)}
    BY DEF Outcomes
  <2>5. cmd \notin {"set", "get", "reboot", "wipe"} => o = Outcome("ok", st, FALSE)
    BY DEF Outcomes
  <2> HIDE DEF cmd
  <2>6. QED
    BY <1>2, <1>3, <1>4, <2>1, <2>2, <2>3, <2>4, <2>5

LEMMA StoredKept == Stored(store) /\ [ShellNext]_shellVars => Stored(store)'
<1> SUFFICES ASSUME Stored(store), [ShellNext]_shellVars PROVE Stored(store')
  BY DEF Stored
<1>1. ASSUME NEW l \in Lines, Command(l) PROVE Stored(store')
  <2>1. CASE Known(l)
    <3>1. PICK o \in Outcomes(l, store) : store' = o.store
      BY <1>1, <2>1, Zenon DEF Command
    <3>2. QED
      BY <3>1, OutcomesStored
  <2>2. CASE ~Known(l)
    BY <1>1, <2>2, Zenon DEF Command
  <2>3. QED
    BY <2>1, <2>2
<1>2. ASSUME NEW l, NEW skip, NEW sent, Page(l, skip, sent) PROVE Stored(store')
  BY <1>2, OutcomesStored DEF Page
<1>3. CASE store' = store
  BY <1>3
<1>4. ASSUME NEW l \in Lines, StreamLine(l) PROVE Stored(store')
  BY <1>2, <1>3, <1>4 DEF StreamLine
<1>5. CASE Pushed
  BY <1>2, <1>3, <1>5 DEF Pushed
<1>6. QED
  BY <1>1, <1>3, <1>4, <1>5 DEF ShellNext, Complete, Answered, StreamOver, ShellReset, shellVars

(* A replayed export gives every setting back, and leaves a free address   *)
(* free, for every table of settings whose defaults are valid              *)
(* (write_setting, encode_value, read_value).                              *)
THEOREM ExportReplays == ShellSpec => []ReplayKeeps
<1>1. ShellInit => Stored(store)
  BY VirginStored DEF ShellInit
<1>2. Stored(store) => ReplayKeeps
  <2> SUFFICES ASSUME Stored(store), NEW s \in Settings
               PROVE  LET back == Encoded(s, ExportValue(store, s))
                      IN /\ back # Unset
                         /\ IsAddr(s) => back = IF store[s] = Unset THEN "auto" ELSE store[s]
                         /\ ~IsAddr(s) => back = ReadValue(store, s)
    BY DEF ReplayKeeps
  <2>1. Unset \notin Accepted[s] /\ store[s] \in Accepted[s] \cup {Unset}
    BY SettingsConstants DEF SettingsConstants, Stored
  <2>2. CASE IsAddr(s)
    <3>1. "auto" \in Accepted[s]
      BY <2>2, SettingsConstants DEF SettingsConstants
    <3>2. QED
      BY <2>1, <2>2, <3>1 DEF Encoded, ExportValue, ReadValue
  <2>3. CASE ~IsAddr(s)
    <3>1. Default[s] \in Accepted[s]
      BY <2>3, SettingsConstants DEF SettingsConstants
    <3>2. QED
      BY <2>1, <2>3, <3>1 DEF Encoded, ExportValue, ReadValue
  <2>4. QED
    BY <2>2, <2>3
<1>3. QED
  BY <1>1, <1>2, StoredKept, PTL DEF ShellSpec

-----------------------------------------------------------------------------
(* Text and its bytes. *)

Said == DOMAIN Width \cup Settings \cup {"ok"}
Char == [of : Said, at : Nat, width : 1..4]
Text == Seq(Char)

(* The bytes of the first i characters. *)
Upto(t, i) == Bytes(SubSeq(t, 1, i))

Sums(F, t) ==
  /\ F[0] = 0
  /\ \A i \in 0..Len(t) : F[i] \in Nat
  /\ \A i \in 1..Len(t) : F[i] = F[i - 1] + t[i].width
  /\ Bytes(t) = F[Len(t)]

LEMMA Summing ==
  ASSUME NEW t \in Text
  PROVE  \E F : Sums(F, t)
<1> DEFINE N == Len(t)
           g == [q \in (1..N) \X Nat |-> q[2] + t[q[1]].width]
           Body(a) == [s \in SUBSET (DOMAIN t) |->
                         IF s = {} THEN 0 ELSE a[s \ {Max(s)}] + t[Max(s)].width]
           iter == CHOOSE a : a = Body(a)
           F == [i \in 0..N |-> iter[1..i]]
<1>1. N \in Nat /\ DOMAIN t = 1..N /\ \A i \in 1..N : t[i].width \in 1..4
  <2>1. t \in Seq(Char)
    BY DEF Text
  <2>2. \A c \in Char : c.width \in 1..4
    BY DEF Char
  <2>3. N \in Nat /\ DOMAIN t = 1..N /\ \A i \in 1..N : t[i] \in Char
    BY <2>1
  <2>4. QED
    BY <2>2, <2>3
<1>2. g \in [(1..N) \X Nat -> Nat]
  <2>1. ASSUME NEW q \in (1..N) \X Nat PROVE q[2] + t[q[1]].width \in Nat
    BY <1>1
  <2> HIDE DEF N
  <2>2. QED
    BY <2>1
<1>3. PICK it : IsFold(it, N, Nat, 0, g)
  <2> HIDE DEF N, g
  <2>1. QED
    BY <1>1, <1>2, Folding
<1>4. it = Body(it)
  <2>1. ASSUME NEW s \in SUBSET (1..N)
        PROVE  it[s] = IF s = {} THEN 0 ELSE it[s \ {Max(s)}] + t[Max(s)].width
    <3>1. CASE s = {}
      BY <1>3, <3>1 DEF IsFold
    <3>2. CASE s # {}
      <4>1. it[s] = g[<<Max(s), it[s \ {Max(s)}]>>]
        BY <1>3, <3>2 DEF IsFold
      <4>2. Max(s) \in 1..N
        <5> HIDE DEF N
        <5>1. Max(s) \in s
          BY <1>1, <3>2, Greatest
        <5>2. QED
          BY <5>1
      <4>3. it[s \ {Max(s)}] \in Nat
        <5> HIDE DEF N, g
        <5>1. it \in [SUBSET (1..N) -> Nat] /\ s \ {Max(s)} \in SUBSET (1..N)
          BY <1>3 DEF IsFold
        <5>2. QED
          BY <5>1
      <4>4. QED
        BY <3>2, <4>1, <4>2, <4>3
    <3>3. QED
      BY <3>1, <3>2
  <2>2. it = [s \in SUBSET (1..N) |-> it[s]]
    BY <1>3 DEF IsFold
  <2> HIDE DEF N, g
  <2>3. QED
    BY <1>1, <2>1, <2>2
<1>5. iter = Body(iter)
  <2> HIDE DEF Body
  <2>1. QED
    BY <1>4
<1>6. Bytes(t) = iter[DOMAIN t]
  BY DEF Bytes, FoldLeft, MapThenFoldSet
<1> HIDE DEF iter
<1>7. iter[{}] = 0
  BY <1>5
<1>8. ASSUME NEW i \in 1..N PROVE iter[1..i] = iter[1..i - 1] + t[i].width
  <2>1. Max(1..i) = i /\ 1..i \in SUBSET (DOMAIN t) /\ (1..i) \ {i} = 1..i - 1
    <3>1. Max(1..i) = i
      BY <1>1, MaxUpTo
    <3>2. QED
      BY <1>1, <3>1
  <2>2. 1..i # {}
    <3>1. i \in 1..i
      BY <1>1
    <3>2. QED
      BY <3>1
  <2>3. iter[1..i] = iter[(1..i) \ {Max(1..i)}] + t[Max(1..i)].width
    BY <1>5, <2>1, <2>2
  <2>4. QED
    BY <2>1, <2>3
<1>9. F[0] = 0
  BY <1>7
<1>10. ASSUME NEW i \in 1..N PROVE F[i] = F[i - 1] + t[i].width
  <2>1. i \in 0..N /\ i - 1 \in 0..N
    BY <1>1
  <2>2. QED
    BY <1>8, <2>1
<1>11. Bytes(t) = F[N]
  BY <1>1, <1>6
<1> HIDE DEF F
<1>12. \A i \in 0..N : F[i] \in Nat
  <2> DEFINE S == {i \in 0..N : F[i] \in Nat}
  <2>1. 0 \in S
    BY <1>1, <1>9
  <2>2. ASSUME NEW i \in 0..N - 1, i \in S PROVE i + 1 \in S
    <3>1. i + 1 \in 1..N /\ (i + 1) - 1 = i
      BY <1>1
    <3>2. F[i + 1] = F[i] + t[i + 1].width
      BY <1>10, <3>1
    <3>3. QED
      BY <1>1, <2>2, <3>1, <3>2
  <2> HIDE DEF S
  <2>3. 0..N \subseteq S
    BY <1>1, <2>1, <2>2, InductTo
  <2>4. QED
    BY <2>3 DEF S
<1>13. QED
  BY <1>9, <1>10, <1>11, <1>12 DEF Sums

(* The characters of a text. *)
LEMMA Characters ==
  ASSUME NEW t \in Text
  PROVE  /\ Len(t) \in Nat /\ DOMAIN t = 1..Len(t)
         /\ \A i \in 1..Len(t) : t[i] \in Char /\ t[i].width \in 1..4
<1>1. t \in Seq(Char)
  BY DEF Text
<1>2. \A c \in Char : c.width \in 1..4
  BY DEF Char
<1>3. Len(t) \in Nat /\ DOMAIN t = 1..Len(t) /\ \A i \in 1..Len(t) : t[i] \in Char
  BY <1>1
<1>4. QED
  BY <1>2, <1>3

(* A part of a text. *)
LEMMA Part ==
  ASSUME NEW t \in Text, NEW m \in 1..Len(t) + 1, NEW n \in 0..Len(t), m <= n + 1
  PROVE  /\ SubSeq(t, m, n) \in Text /\ Len(SubSeq(t, m, n)) = n - m + 1
         /\ \A i \in 1..n - m + 1 : SubSeq(t, m, n)[i] = t[m + i - 1]
<1>1. Len(t) \in Nat /\ \A i \in 1..Len(t) : t[i] \in Char
  BY Characters
<1>2. m \in Int /\ n \in Int /\ \A i \in m..n : t[i] \in Char
  BY <1>1
<1>3. /\ SubSeq(t, m, n) \in Seq(Char)
      /\ Len(SubSeq(t, m, n)) = IF m <= n THEN n - m + 1 ELSE 0
      /\ \A i \in 1..n - m + 1 : SubSeq(t, m, n)[i] = t[m + i - 1]
  BY <1>2, SubSeqProperties
<1>4. Len(SubSeq(t, m, n)) = n - m + 1
  BY <1>1, <1>3
<1>5. QED
  BY <1>3, <1>4 DEF Text

(* Texts that begin alike have the same bytes there. *)
LEMMA SumsAlike ==
  ASSUME NEW t \in Text, NEW u \in Text, NEW n \in 0..Len(t), n <= Len(u),
         \A i \in 1..n : t[i] = u[i], NEW F, NEW G, Sums(F, t), Sums(G, u)
  PROVE  F[n] = G[n]
<1>1. Len(t) \in Nat /\ Len(u) \in Nat
  BY Characters
<1>2. F[0] = G[0]
  BY DEF Sums
<1>3. AgreeNext(F, G, n)
  <2>1. ASSUME NEW i \in 1..n, F[i - 1] = G[i - 1] PROVE F[i] = G[i]
    <3>1. i \in 1..Len(t) /\ i \in 1..Len(u)
      BY <1>1
    <3>2. F[i] = F[i - 1] + t[i].width /\ G[i] = G[i - 1] + u[i].width
      BY <3>1 DEF Sums
    <3>3. QED
      BY <2>1, <3>2
  <2>2. QED
    BY <2>1 DEF AgreeNext
<1>4. AgreeTo(F, G, n)
  BY <1>1, <1>2, <1>3, SameRecursion
<1>5. QED
  BY <1>1, <1>4 DEF AgreeTo

(* The bytes of the first characters, one by one. *)
LEMMA Bytewise ==
  ASSUME NEW t \in Text
  PROVE  /\ Upto(t, 0) = 0 /\ Bytes(t) = Upto(t, Len(t)) /\ Bytes(t) \in Nat
         /\ \A i \in 0..Len(t) : Upto(t, i) \in Nat
         /\ \A i \in 1..Len(t) : Upto(t, i) = Upto(t, i - 1) + t[i].width
<1>1. PICK F : Sums(F, t)
  BY Summing
<1>2. Len(t) \in Nat
  BY Characters
<1>3. ASSUME NEW n \in 0..Len(t) PROVE Upto(t, n) = F[n]
  <2> DEFINE u == SubSeq(t, 1, n)
  <2>1. u \in Text /\ Len(u) = n /\ \A i \in 1..n : u[i] = t[i]
    <3>1. 1 \in 1..Len(t) + 1 /\ 1 <= n + 1 /\ n - 1 + 1 = n
      BY <1>2
    <3>2. u \in Text /\ Len(u) = n - 1 + 1 /\ \A i \in 1..n - 1 + 1 : u[i] = t[1 + i - 1]
      BY <3>1, Part
    <3>3. \A i \in 1..n : 1 + i - 1 = i
      BY <1>2
    <3>4. QED
      BY <3>1, <3>2, <3>3
  <2> HIDE DEF u
  <2>2. PICK G : Sums(G, u)
    BY <2>1, Summing
  <2>3. F[n] = G[n]
    BY <1>1, <1>2, <2>1, <2>2, SumsAlike
  <2>4. Bytes(u) = G[n]
    BY <2>1, <2>2 DEF Sums
  <2>5. QED
    BY <2>3, <2>4 DEF Upto, u
<1>4. Upto(t, 0) = 0 /\ \A i \in 0..Len(t) : Upto(t, i) \in Nat
  <2>1. 0 \in 0..Len(t)
    BY <1>2
  <2>2. QED
    BY <1>1, <1>3, <2>1 DEF Sums
<1>5. Bytes(t) = Upto(t, Len(t))
  <2>1. Len(t) \in 0..Len(t)
    BY <1>2
  <2>2. QED
    BY <1>1, <1>3, <2>1 DEF Sums
<1>6. ASSUME NEW i \in 1..Len(t) PROVE Upto(t, i) = Upto(t, i - 1) + t[i].width
  <2>1. i \in 0..Len(t) /\ i - 1 \in 0..Len(t)
    BY <1>2
  <2>2. QED
    BY <1>1, <1>3, <2>1 DEF Sums
<1>7. Len(t) \in 0..Len(t)
  BY <1>2
<1>8. QED
  BY <1>4, <1>5, <1>6, <1>7

(* Later characters end later. *)
LEMMA Growing ==
  ASSUME NEW t \in Text, NEW i \in 0..Len(t), NEW j \in i..Len(t)
  PROVE  Upto(t, i) + (j - i) <= Upto(t, j)
<1> DEFINE S == {n \in 0..j - i : Upto(t, i) + n <= Upto(t, i + n)}
<1>1. Len(t) \in Nat /\ j - i \in Nat /\ i \in Nat
  BY Characters
<1>2. \A n \in 0..Len(t) : Upto(t, n) \in Nat
  BY Bytewise
<1>3. 0 \in S
  BY <1>1, <1>2
<1>4. ASSUME NEW n \in 0..(j - i) - 1, n \in S PROVE n + 1 \in S
  <2>1. i + n + 1 \in 1..Len(t) /\ (i + n + 1) - 1 = i + n /\ n + 1 \in 0..j - i
        /\ i + n \in 0..Len(t) /\ i + (n + 1) = i + n + 1
    BY <1>1
  <2>2. Upto(t, i + n + 1) = Upto(t, i + n) + t[i + n + 1].width
    BY <2>1, Bytewise
  <2>3. t[i + n + 1].width \in 1..4
    BY <2>1, Characters
  <2>4. Upto(t, i) + n <= Upto(t, i + n) /\ Upto(t, i) \in Nat /\ Upto(t, i + n) \in Nat
    BY <1>2, <1>4, <2>1
  <2>5. QED
    BY <2>1, <2>2, <2>3, <2>4
<1> HIDE DEF S
<1>5. 0..j - i \subseteq S
  BY <1>1, <1>3, <1>4, InductTo
<1>6. j - i \in S /\ i + (j - i) = j
  BY <1>1, <1>5
<1>7. QED
  BY <1>6 DEF S

(* The bytes of a concatenation. *)
LEMMA Joined ==
  ASSUME NEW t \in Text, NEW p \in Text
  PROVE  /\ t \o p \in Text /\ Len(t \o p) = Len(t) + Len(p)
         /\ Bytes(t \o p) = Bytes(t) + Bytes(p)
         /\ \A i \in 0..Len(t) : Upto(t \o p, i) = Upto(t, i)
         /\ \A i \in 0..Len(p) : Upto(t \o p, Len(t) + i) = Bytes(t) + Upto(p, i)
<1> DEFINE u == t \o p
<1>1. /\ u \in Text /\ Len(u) = Len(t) + Len(p)
      /\ \A i \in 1..Len(t) : u[i] = t[i]
      /\ \A i \in 1..Len(p) : u[Len(t) + i] = p[i]
  <2>1. t \in Seq(Char) /\ p \in Seq(Char)
    BY DEF Text
  <2>2. QED
    BY <2>1, ConcatProps DEF Text
<1> HIDE DEF u
<1>2. Len(t) \in Nat /\ Len(p) \in Nat
  BY Characters
<1>3. ASSUME NEW i \in 0..Len(t) PROVE Upto(u, i) = Upto(t, i)
  <2> DEFINE S == {n \in 0..Len(t) : Upto(u, n) = Upto(t, n)}
  <2>1. 0 \in S
    <3>1. Upto(u, 0) = 0 /\ Upto(t, 0) = 0
      BY <1>1, Bytewise
    <3>2. QED
      BY <1>2, <3>1
  <2>2. ASSUME NEW n \in 0..Len(t) - 1, n \in S PROVE n + 1 \in S
    <3>1. n + 1 \in 1..Len(t) /\ n + 1 \in 1..Len(u) /\ (n + 1) - 1 = n /\ n + 1 \in 0..Len(t)
      BY <1>1, <1>2
    <3>2. Upto(t, n + 1) = Upto(t, (n + 1) - 1) + t[n + 1].width
      BY <3>1, Bytewise
    <3>3. Upto(u, n + 1) = Upto(u, (n + 1) - 1) + u[n + 1].width
      BY <1>1, <3>1, Bytewise
    <3>4. QED
      BY <1>1, <2>2, <3>1, <3>2, <3>3
  <2> HIDE DEF S
  <2>3. 0..Len(t) \subseteq S
    BY <1>2, <2>1, <2>2, InductTo
  <2>4. QED
    BY <2>3 DEF S
<1>4. Bytes(t) = Upto(t, Len(t)) /\ Bytes(t) \in Nat
  BY Bytewise
<1>5. ASSUME NEW i \in 0..Len(p) PROVE Upto(u, Len(t) + i) = Bytes(t) + Upto(p, i)
  <2> DEFINE S == {n \in 0..Len(p) : Upto(u, Len(t) + n) = Bytes(t) + Upto(p, n)}
  <2>1. 0 \in S
    <3>1. Len(t) \in 0..Len(t) /\ Len(t) + 0 = Len(t) /\ 0 \in 0..Len(p)
      BY <1>2
    <3>2. Upto(u, Len(t)) = Bytes(t) /\ Upto(p, 0) = 0
      BY <1>3, <1>4, <3>1, Bytewise
    <3>3. Bytes(t) + 0 = Bytes(t)
      BY <1>4
    <3>4. QED
      BY <3>1, <3>2, <3>3
  <2>2. ASSUME NEW n \in 0..Len(p) - 1, n \in S PROVE n + 1 \in S
    <3>1. /\ n + 1 \in 1..Len(p) /\ (n + 1) - 1 = n /\ n + 1 \in 0..Len(p) /\ n \in 0..Len(p)
          /\ Len(t) + (n + 1) \in 1..Len(u) /\ (Len(t) + (n + 1)) - 1 = Len(t) + n
      BY <1>1, <1>2
    <3>2. Upto(p, n + 1) = Upto(p, n) + p[n + 1].width
      BY <3>1, Bytewise
    <3>3. Upto(u, Len(t) + (n + 1)) = Upto(u, Len(t) + n) + u[Len(t) + (n + 1)].width
      BY <1>1, <3>1, Bytewise
    <3>4. u[Len(t) + (n + 1)] = p[n + 1]
      BY <1>1, <3>1
    <3>5. Upto(u, Len(t) + n) = Bytes(t) + Upto(p, n)
      BY <2>2
    <3>6. p[n + 1].width \in 1..4 /\ Upto(p, n) \in Nat
      BY <3>1, Characters, Bytewise
    <3>7. Upto(u, Len(t) + (n + 1)) = Bytes(t) + Upto(p, n + 1)
      BY <1>4, <3>2, <3>3, <3>4, <3>5, <3>6
    <3>8. QED
      BY <3>1, <3>7
  <2> HIDE DEF S
  <2>3. 0..Len(p) \subseteq S
    BY <1>2, <2>1, <2>2, InductTo
  <2>4. QED
    BY <2>3 DEF S
<1>6. Bytes(u) = Bytes(t) + Bytes(p)
  <2>1. Len(p) \in 0..Len(p)
    BY <1>2
  <2>2. Upto(u, Len(u)) = Bytes(t) + Upto(p, Len(p))
    BY <1>1, <1>5, <2>1
  <2>3. Bytes(u) = Upto(u, Len(u)) /\ Bytes(p) = Upto(p, Len(p))
    BY <1>1, Bytewise
  <2>4. QED
    BY <2>2, <2>3
<1>7. QED
  BY <1>1, <1>3, <1>5, <1>6 DEF u

-----------------------------------------------------------------------------
(* Slices. *)

LEMMA Smallest ==
  ASSUME NEW n \in Nat, NEW S \in SUBSET (1..n), S # {}
  PROVE  Min(S) \in S /\ \A y \in S : Min(S) <= y
<1>1. S \in SUBSET Nat
  OBVIOUS
<1>2. \E x \in S : \A y \in S : x <= y
  BY <1>1, Least
<1>3. QED
  BY <1>2 DEF Min

LEMMA Pair ==
  ASSUME NEW m \in Int, NEW n \in Int
  PROVE  /\ Max({m, n}) = IF m <= n THEN n ELSE m
         /\ Min({m, n}) = IF m <= n THEN m ELSE n
<1>1. \A x \in {m, n} : x = m \/ x = n
  OBVIOUS
<1>2. Max({m, n}) \in {m, n} /\ m <= Max({m, n}) /\ n <= Max({m, n})
  <2>1. \E x \in {m, n} : \A y \in {m, n} : x >= y
    OBVIOUS
  <2>2. Max({m, n}) \in {m, n} /\ \A y \in {m, n} : Max({m, n}) >= y
    BY <2>1 DEF Max
  <2>3. QED
    BY <2>2
<1>3. Min({m, n}) \in {m, n} /\ Min({m, n}) <= m /\ Min({m, n}) <= n
  <2>1. \E x \in {m, n} : \A y \in {m, n} : x <= y
    OBVIOUS
  <2>2. Min({m, n}) \in {m, n} /\ \A y \in {m, n} : Min({m, n}) <= y
    BY <2>1 DEF Min
  <2>3. QED
    BY <2>2
<1>4. Max({m, n}) = IF m <= n THEN n ELSE m
  BY <1>2
<1>5. QED
  BY <1>3, <1>4

(* The characters between two bytes. *)
Inside(t, lo, hi) == {i \in 1..Len(t) : lo <= Upto(t, i - 1) /\ Upto(t, i) <= hi}

(* They are consecutive. *)
IsSlice(t, lo, hi, a, b) ==
  /\ a \in 1..Len(t) + 1 /\ b \in 0..Len(t) /\ a <= b + 1
  /\ Inside(t, lo, hi) = a..b
  /\ Slice(t, lo, hi) = SubSeq(t, a, b)
  /\ b < a => a = 1 /\ b = 0

LEMMA SliceIs ==
  ASSUME NEW t \in Text, NEW lo \in Int, NEW hi \in Int
  PROVE  \E a, b : IsSlice(t, lo, hi, a, b)
<1> DEFINE I == Inside(t, lo, hi)
           a == Min(I)
           b == Max(I)
<1>1. Len(t) \in Nat /\ DOMAIN t = 1..Len(t)
  BY Characters
<1>2. \A i \in 0..Len(t) : Upto(t, i) \in Nat
  BY Bytewise
<1>3. I = {i \in DOMAIN t : /\ Bytes(SubSeq(t, 1, i - 1)) >= lo
                            /\ Bytes(SubSeq(t, 1, i)) <= hi}
  <2>1. ASSUME NEW i \in 1..Len(t)
        PROVE  (lo <= Upto(t, i - 1)) = (Bytes(SubSeq(t, 1, i - 1)) >= lo)
    BY DEF Upto
  <2>2. QED
    BY <1>1, <2>1 DEF Inside, Upto
<1>4. Slice(t, lo, hi) = IF I = {} THEN <<>> ELSE SubSeq(t, Min(I), Max(I))
  <2> HIDE DEF I
  <2>1. QED
    BY <1>3 DEF Slice
<1>5. I \in SUBSET (1..Len(t))
  BY DEF Inside
<1>6. CASE I = {}
  <2>1. 1..0 = {} /\ SubSeq(t, 1, 0) = <<>>
    BY SubSeqEmpty
  <2>2. IsSlice(t, lo, hi, 1, 0)
    <3>1. 1 \in 1..Len(t) + 1 /\ 0 \in 0..Len(t) /\ 1 <= 0 + 1
      BY <1>1
    <3>2. QED
      BY <1>4, <1>6, <2>1, <3>1 DEF IsSlice
  <2>3. QED
    BY <2>2
<1>7. CASE I # {}
  <2> HIDE DEF I
  <2>1. /\ a \in I /\ b \in I /\ \A y \in I : a <= y /\ y <= b
    BY <1>1, <1>5, <1>7, Smallest, Greatest
  <2> HIDE DEF a, b
  <2>2. a \in 1..Len(t) /\ b \in 1..Len(t) /\ a <= b
    BY <1>5, <2>1
  <2>3. I \subseteq a..b
    BY <1>1, <1>5, <2>1, <2>2
  <2>4. ASSUME NEW i \in a..b PROVE i \in I
    <3>1. i \in 1..Len(t) /\ i - 1 \in 0..Len(t) /\ a - 1 \in 0..Len(t) /\ i - 1 \in a - 1..Len(t)
          /\ i \in 0..Len(t) /\ b \in i..Len(t) /\ b \in 0..Len(t) /\ b - i \in Nat
          /\ (i - 1) - (a - 1) \in Nat
      BY <1>1, <2>2
    <3>2. Upto(t, a - 1) + ((i - 1) - (a - 1)) <= Upto(t, i - 1)
      BY <3>1, Growing
    <3>3. Upto(t, i) + (b - i) <= Upto(t, b)
      BY <3>1, Growing
    <3>4. lo <= Upto(t, a - 1) /\ Upto(t, b) <= hi
      BY <2>1 DEF I, Inside
    <3>5. Upto(t, a - 1) \in Nat /\ Upto(t, i - 1) \in Nat /\ Upto(t, i) \in Nat /\ Upto(t, b) \in Nat
      BY <1>2, <3>1
    <3>6. lo <= Upto(t, i - 1) /\ Upto(t, i) <= hi
      BY <3>1, <3>2, <3>3, <3>4, <3>5
    <3>7. QED
      BY <3>1, <3>6 DEF I, Inside
  <2>5. I = a..b
    BY <2>3, <2>4
  <2>6. IsSlice(t, lo, hi, a, b)
    <3>1. a \in 1..Len(t) + 1 /\ b \in 0..Len(t) /\ a <= b + 1 /\ ~(b < a)
      BY <1>1, <2>2
    <3>2. Slice(t, lo, hi) = SubSeq(t, a, b)
      BY <1>4, <1>7 DEF a, b
    <3>3. Inside(t, lo, hi) = a..b
      BY <2>5 DEF I
    <3>4. QED
      BY <3>1, <3>2, <3>3 DEF IsSlice
  <2>7. QED
    BY <2>6
<1>8. QED
  BY <1>6, <1>7

(* The bytes of a part. *)
LEMMA PartBytes ==
  ASSUME NEW t \in Text, NEW a \in 1..Len(t) + 1, NEW b \in 0..Len(t), a <= b + 1
  PROVE  /\ SubSeq(t, 1, a - 1) \o SubSeq(t, a, b) = SubSeq(t, 1, b)
         /\ Bytes(SubSeq(t, a, b)) = Upto(t, b) - Upto(t, a - 1)
<1>1. t \in Seq(Char) /\ Len(t) \in Nat
  BY Characters DEF Text
<1>2. SubSeq(t, 1, a - 1) \o SubSeq(t, a, b) = SubSeq(t, 1, b)
  <2>1. 1 \in 1..Len(t) + 1 /\ a - 1 \in 1 - 1..Len(t) /\ b \in a - 1..Len(t) /\ (a - 1) + 1 = a
    BY <1>1
  <2>2. SubSeq(t, 1, a - 1) \o SubSeq(t, (a - 1) + 1, b) = SubSeq(t, 1, b)
    BY <1>1, <2>1, ConcatAdjacentSubSeq
  <2>3. QED
    BY <2>1, <2>2
<1>3. SubSeq(t, 1, a - 1) \in Text /\ SubSeq(t, a, b) \in Text
  <2>1. 1 \in 1..Len(t) + 1 /\ a - 1 \in 0..Len(t) /\ 1 <= (a - 1) + 1
    BY <1>1
  <2>2. QED
    BY <2>1, Part
<1>4. Upto(t, b) = Upto(t, a - 1) + Bytes(SubSeq(t, a, b))
  <2> DEFINE before == SubSeq(t, 1, a - 1)
             part == SubSeq(t, a, b)
  <2>1. before \in Text /\ part \in Text /\ before \o part = SubSeq(t, 1, b)
    BY <1>2, <1>3
  <2> HIDE DEF before, part
  <2>2. Bytes(before \o part) = Bytes(before) + Bytes(part)
    BY <2>1, Joined
  <2>3. Bytes(SubSeq(t, 1, b)) = Bytes(before) + Bytes(part)
    BY <2>1, <2>2
  <2>4. QED
    BY <2>3 DEF Upto, before, part
<1>5. Upto(t, a - 1) \in Nat /\ Bytes(SubSeq(t, a, b)) \in Nat
  <2>1. a - 1 \in 0..Len(t)
    BY <1>1
  <2>2. QED
    BY <1>3, <2>1, Bytewise
<1>6. QED
  BY <1>2, <1>4, <1>5

(* A slice has no more bytes than there are between its ends. *)
LEMMA SliceBounded ==
  ASSUME NEW t \in Text, NEW s \in Int, NEW c \in Nat
  PROVE  /\ Slice(t, s, s + c) \in Text
         /\ Bytes(Slice(t, s, s + c)) \in Nat
         /\ Bytes(Slice(t, s, s + c)) <= c
         /\ Bytes(Slice(t, s, s + c)) = 0 \/ Bytes(Slice(t, s, s + c)) <= Bytes(t) - s
<1>1. PICK a, b : IsSlice(t, s, s + c, a, b)
  <2>1. s + c \in Int
    OBVIOUS
  <2>2. QED
    BY <2>1, SliceIs
<1>2. Len(t) \in Nat /\ a \in 1..Len(t) + 1 /\ b \in 0..Len(t) /\ a <= b + 1
  BY <1>1, Characters DEF IsSlice
<1>3. Slice(t, s, s + c) = SubSeq(t, a, b) /\ SubSeq(t, a, b) \in Text
  BY <1>1, <1>2, Part DEF IsSlice
<1>4. Bytes(SubSeq(t, a, b)) = Upto(t, b) - Upto(t, a - 1)
  BY <1>2, PartBytes
<1>5. Upto(t, b) \in Nat /\ Upto(t, a - 1) \in Nat /\ Bytes(t) \in Nat /\ Bytes(SubSeq(t, a, b)) \in Nat
  <2>1. a - 1 \in 0..Len(t)
    BY <1>2
  <2>2. QED
    BY <1>2, <1>3, <2>1, Bytewise
<1>6. CASE b < a
  <2>1. a - 1 = b
    BY <1>2, <1>6
  <2>2. Bytes(SubSeq(t, a, b)) = 0
    BY <1>4, <1>5, <2>1
  <2>3. 0 <= c
    OBVIOUS
  <2>4. QED
    BY <1>3, <1>5, <2>2, <2>3, Zenon
<1>7. CASE ~(b < a)
  <2>1. a \in a..b /\ b \in a..b
    BY <1>2, <1>7
  <2>2. s <= Upto(t, a - 1) /\ Upto(t, b) <= s + c
    BY <1>1, <2>1 DEF IsSlice, Inside
  <2>3. Upto(t, b) + (Len(t) - b) <= Bytes(t)
    <3>1. Len(t) \in b..Len(t)
      BY <1>2
    <3>2. Upto(t, b) + (Len(t) - b) <= Upto(t, Len(t)) /\ Bytes(t) = Upto(t, Len(t))
      BY <1>2, <3>1, Growing, Bytewise
    <3>3. QED
      BY <3>2
  <2>4. Upto(t, b) <= Bytes(t)
    <3>1. Len(t) - b \in Nat
      BY <1>2
    <3>2. QED
      BY <1>5, <2>3, <3>1
  <2> DEFINE z == Bytes(SubSeq(t, a, b))
  <2> HIDE DEF z
  <2>5. z \in Nat /\ z = Upto(t, b) - Upto(t, a - 1)
    BY <1>4, <1>5 DEF z
  <2>6. z <= c /\ z <= Bytes(t) - s
    BY <1>5, <2>2, <2>4, <2>5
  <2>7. QED
    BY <1>3, <2>5, <2>6, Zenon DEF z
<1>8. QED
  BY <1>6, <1>7

(* From lo to hi in p is from s to e in p after t. *)
SameBytes(t, p, s, e, lo, hi) ==
  \A i \in 1..Len(p) :
    i \in Inside(p, lo, hi) <=> s <= Bytes(t) + Upto(p, i - 1) /\ Bytes(t) + Upto(p, i) <= e

(* The slice of a concatenation. *)
LEMMA SliceJoined ==
  ASSUME NEW t \in Text, NEW p \in Text, NEW s \in Int, NEW e \in Int, NEW lo \in Int, NEW hi \in Int,
         SameBytes(t, p, s, e, lo, hi)
  PROVE  Slice(t \o p, s, e) = Slice(t, s, e) \o Slice(p, lo, hi)
<1> DEFINE u == t \o p
           n == Len(t)
<1>1. /\ n \in Nat /\ Len(p) \in Nat /\ t \in Seq(Char) /\ p \in Seq(Char)
      /\ u \in Text /\ Len(u) = n + Len(p)
  BY Characters, Joined DEF Text
<1>2. PICK a, b : IsSlice(t, s, e, a, b)
  BY SliceIs
<1>3. PICK c, d : IsSlice(p, lo, hi, c, d)
  BY SliceIs
<1>4. PICK x, y : IsSlice(u, s, e, x, y)
  <2> HIDE DEF u
  <2>1. QED
    BY <1>1, SliceIs
<1>5. ASSUME NEW i \in 1..n PROVE i \in x..y <=> i \in a..b
  <2>1. i \in 0..n /\ i - 1 \in 0..n /\ i \in 1..Len(u)
    BY <1>1
  <2>2. Upto(u, i) = Upto(t, i) /\ Upto(u, i - 1) = Upto(t, i - 1)
    BY <2>1, Joined
  <2>3. i \in Inside(u, s, e) <=> i \in Inside(t, s, e)
    BY <2>1, <2>2 DEF Inside
  <2>4. QED
    BY <1>2, <1>4, <2>3 DEF IsSlice
<1>6. ASSUME NEW i \in 1..Len(p) PROVE n + i \in x..y <=> i \in c..d
  <2>1. i \in 0..Len(p) /\ i - 1 \in 0..Len(p) /\ n + i \in 1..Len(u) /\ (n + i) - 1 = n + (i - 1)
    BY <1>1
  <2>2. Upto(u, n + i) = Bytes(t) + Upto(p, i) /\ Upto(u, (n + i) - 1) = Bytes(t) + Upto(p, i - 1)
    BY <2>1, Joined
  <2>3. n + i \in Inside(u, s, e) <=> i \in Inside(p, lo, hi)
    BY <2>1, <2>2 DEF Inside, SameBytes
  <2>4. QED
    BY <1>3, <1>4, <2>3 DEF IsSlice
<1>7. /\ a \in 1..n + 1 /\ b \in 0..n /\ a <= b + 1 /\ (b < a => a = 1 /\ b = 0)
      /\ c \in 1..Len(p) + 1 /\ d \in 0..Len(p) /\ c <= d + 1 /\ (d < c => c = 1 /\ d = 0)
      /\ x \in 1..n + Len(p) + 1 /\ y \in 0..n + Len(p) /\ x <= y + 1 /\ (y < x => x = 1 /\ y = 0)
  <2> HIDE DEF u
  <2>1. QED
    BY <1>1, <1>2, <1>3, <1>4 DEF IsSlice
<1>8. /\ Slice(t, s, e) = SubSeq(t, a, b) /\ Slice(p, lo, hi) = SubSeq(p, c, d)
      /\ Slice(u, s, e) = SubSeq(u, x, y)
  BY <1>2, <1>3, <1>4 DEF IsSlice
<1>9. SubSeq(t, a, b) \in Text /\ SubSeq(p, c, d) \in Text
  BY <1>7, Part
<1>10. CASE d < c
  <2>1. SubSeq(p, c, d) = <<>>
    BY <1>7, <1>10, SubSeqEmpty
  <2>2. SubSeq(u, x, y) = SubSeq(t, a, b)
    <3>1. CASE b < a
      <4>1. y < x
        <5>1. SUFFICES ASSUME x <= y PROVE FALSE
          BY <1>1, <1>7
        <5>2. x \in x..y
          BY <1>7, <5>1
        <5>3. CASE x <= n
          <6>1. x \in 1..n
            BY <1>1, <1>7, <5>3
          <6>2. x \in a..b
            BY <1>5, <5>2, <6>1
          <6>3. QED
            BY <1>7, <3>1, <6>2
        <5>4. CASE ~(x <= n)
          <6>1. x - n \in 1..Len(p) /\ n + (x - n) = x
            BY <1>1, <1>7, <5>4, <5>1
          <6>2. x - n \in c..d
            BY <1>6, <5>2, <6>1
          <6>3. QED
            BY <1>7, <1>10, <6>2
        <5>5. QED
          BY <5>3, <5>4
      <4>2. SubSeq(u, x, y) = <<>> /\ SubSeq(t, a, b) = <<>>
        BY <1>7, <3>1, <4>1, SubSeqEmpty
      <4>3. QED
        BY <4>2
    <3>2. CASE ~(b < a)
      <4>1. a \in 1..n /\ b \in 1..n /\ a \in a..b /\ b \in a..b
        BY <1>1, <1>7, <3>2
      <4>2. a \in x..y /\ b \in x..y
        BY <1>5, <4>1
      <4>3. x = a
        <5>1. x \in 1..n /\ x \in x..y
          BY <1>1, <1>7, <4>1, <4>2
        <5>2. x \in a..b
          BY <1>5, <5>1
        <5>3. QED
          BY <1>7, <4>1, <4>2, <5>2
      <4>4. y = b
        <5>1. y \in x..y
          BY <1>7, <4>2
        <5>2. y <= n
          <6>1. SUFFICES ASSUME ~(y <= n) PROVE FALSE
            OBVIOUS
          <6>2. y - n \in 1..Len(p) /\ n + (y - n) = y
            BY <1>1, <1>7, <6>1
          <6>3. y - n \in c..d
            BY <1>6, <5>1, <6>2
          <6>4. QED
            BY <1>7, <1>10, <6>3
        <5>3. y \in 1..n
          BY <1>1, <1>7, <4>2, <4>1, <5>2
        <5>4. y \in a..b
          BY <1>5, <5>1, <5>3
        <5>5. QED
          BY <1>7, <4>1, <4>2, <5>4
      <4>5. SubSeq(u, a, b) = SubSeq(t, a, b)
        BY <1>1, <4>1, SubSeqOfConcat1
      <4>6. QED
        BY <4>3, <4>4, <4>5
    <3>3. QED
      BY <3>1, <3>2
  <2>3. SubSeq(t, a, b) \o <<>> = SubSeq(t, a, b)
    BY <1>9, ConcatEmptySeq DEF Text
  <2>4. QED
    BY <1>8, <2>1, <2>2, <2>3
<1>11. CASE ~(d < c)
  <2>1. c \in 1..Len(p) /\ d \in 1..Len(p) /\ c \in c..d /\ d \in c..d
    BY <1>1, <1>7, <1>11
  <2>2. n + c \in x..y /\ n + d \in x..y
    BY <1>6, <2>1
  <2>3. y = n + d
    <3>1. y \in x..y /\ y - n \in 1..Len(p) /\ n + (y - n) = y
      BY <1>1, <1>7, <2>1, <2>2
    <3>2. y - n \in c..d
      BY <1>6, <3>1
    <3>3. y - n <= d /\ n + d <= y
      BY <1>1, <1>7, <2>1, <2>2, <3>1, <3>2
    <3>4. y \in Int /\ n \in Int /\ d \in Int
      BY <1>1, <1>7
    <3> HIDE DEF n
    <3>5. QED
      BY <3>3, <3>4
  <2>4. SubSeq(u, n + c, n + d) = SubSeq(p, c, d)
    <3>1. n + c \in n + 1..n + Len(p) /\ n + d \in n + 1..n + Len(p) /\ (n + c) - n = c /\ (n + d) - n = d
      BY <1>1, <2>1
    <3>2. SubSeq(u, n + c, n + d) = SubSeq(p, (n + c) - n, (n + d) - n)
      BY <1>1, <3>1, SubSeqOfConcat2
    <3>3. QED
      BY <3>1, <3>2
  <2>5. CASE b < a
    <3>1. x = n + c
      <4>1. x \in x..y
        BY <1>7, <2>2
      <4>2. ~(x <= n)
        <5>1. SUFFICES ASSUME x <= n PROVE FALSE
          OBVIOUS
        <5>2. x \in 1..n
          BY <1>1, <1>7, <5>1
        <5>3. x \in a..b
          BY <1>5, <4>1, <5>2
        <5>4. QED
          BY <1>7, <2>5, <5>3
      <4>3. x - n \in 1..Len(p) /\ n + (x - n) = x
        BY <1>1, <1>7, <2>1, <2>2, <4>2
      <4>4. x - n \in c..d
        BY <1>6, <4>1, <4>3
      <4>5. c <= x - n /\ x <= n + c
        BY <1>1, <1>7, <2>1, <2>2, <4>3, <4>4
      <4>6. x \in Int /\ n \in Int /\ c \in Int
        BY <1>1, <1>7
      <4> HIDE DEF n
      <4>7. QED
        BY <4>5, <4>6
    <3>2. SubSeq(t, a, b) = <<>>
      BY <1>7, <2>5, SubSeqEmpty
    <3>3. <<>> \o SubSeq(p, c, d) = SubSeq(p, c, d)
      BY <1>9, ConcatEmptySeq DEF Text
    <3>4. QED
      BY <1>8, <2>3, <2>4, <3>1, <3>2, <3>3
  <2>6. CASE ~(b < a)
    <3>1. a \in 1..n /\ b \in 1..n /\ a \in a..b /\ b \in a..b
      BY <1>1, <1>7, <2>6
    <3>2. a \in x..y
      BY <1>5, <3>1
    <3>3. n \in x..y /\ n \in 1..n /\ n + 1 \in x..y
      BY <1>1, <1>7, <2>1, <2>2, <3>1, <3>2
    <3>4. b = n
      <4>1. n \in a..b
        BY <1>5, <3>3
      <4>2. QED
        BY <1>7, <3>1, <4>1
    <3>5. c = 1
      <4>1. 1 \in 1..Len(p)
        BY <1>1, <2>1
      <4>2. 1 \in c..d
        BY <1>6, <3>3, <4>1
      <4>3. QED
        BY <1>7, <2>1, <4>2
    <3>6. x = a
      <4>1. x \in x..y /\ x \in 1..n
        BY <1>1, <1>7, <3>1, <3>2
      <4>2. x \in a..b
        BY <1>5, <4>1
      <4>3. QED
        BY <1>7, <3>1, <3>2, <4>2
    <3>7. SubSeq(u, a, n) = SubSeq(t, a, n)
      BY <1>1, <3>1, <3>3, SubSeqOfConcat1
    <3>8. SubSeq(u, a, n) \o SubSeq(u, n + 1, n + d) = SubSeq(u, a, n + d)
      <4>1. /\ u \in Seq(Char) /\ a \in 1..Len(u) + 1 /\ n \in a - 1..Len(u) /\ n + d \in n..Len(u)
        BY <1>1, <2>1, <3>1 DEF Text
      <4> HIDE DEF u
      <4>2. QED
        BY <4>1, ConcatAdjacentSubSeq
    <3>9. QED
      <4>1. /\ Slice(u, s, e) = SubSeq(u, a, n + d)
            /\ Slice(t, s, e) = SubSeq(t, a, n) /\ SubSeq(t, a, n) = SubSeq(u, a, n)
            /\ Slice(p, lo, hi) = SubSeq(u, n + 1, n + d)
        <5> HIDE DEF u, n
        <5>1. QED
          BY <1>8, <2>3, <2>4, <3>4, <3>5, <3>6, <3>7
      <4> HIDE DEF u, n
      <4>2. Slice(u, s, e) = Slice(t, s, e) \o Slice(p, lo, hi)
        BY <3>8, <4>1
      <4>3. QED
        BY <4>2 DEF u
  <2>7. QED
    BY <2>5, <2>6
<1>12. QED
  BY <1>10, <1>11

-----------------------------------------------------------------------------
(* Windows. *)

(* A window of a whole text, from byte s on. *)
Taken(t, s) ==
  [skip |-> s, total |-> Bytes(t), captured |-> Bytes(Slice(t, s, s + RespCap)),
   out |-> Slice(t, s, s + RespCap)]

LEMMA ClampIs ==
  ASSUME NEW n \in Int, NEW p \in Text
  PROVE  Clamp(n, p) = IF n <= 0 THEN 0 ELSE IF n <= Bytes(p) THEN n ELSE Bytes(p)
<1>1. Bytes(p) \in Nat /\ Bytes(p) \in Int
  <2>1. Bytes(p) \in Nat
    BY Bytewise
  <2>2. QED
    BY <2>1
<1>2. Min({n, Bytes(p)}) = IF n <= Bytes(p) THEN n ELSE Bytes(p)
  BY <1>1, Pair, Zenon
<1> DEFINE low == Min({n, Bytes(p)})
<1>3. low \in Int
  BY <1>1, <1>2
<1> HIDE DEF low
<1>4. Max({0, low}) = IF 0 <= low THEN low ELSE 0
  BY <1>3, Pair
<1>5. Clamp(n, p) = Max({0, low})
  BY DEF Clamp, low
<1>6. low = IF n <= Bytes(p) THEN n ELSE Bytes(p)
  BY <1>2 DEF low
<1>7. QED
  BY <1>1, <1>4, <1>5, <1>6

(* A piece fed to the window of a text makes the window of both. *)
LEMMA FeedIs ==
  ASSUME NEW t \in Text, NEW p \in Text, NEW s \in Nat
  PROVE  Feed(Taken(t, s), p) = Taken(t \o p, s)
<1> DEFINE B == Bytes(t)
           P == Bytes(p)
           c == RespCap
           got == Bytes(Slice(t, s, s + c))
           lo == Clamp(s - B, p)
           hi == Clamp(s + c - B, p)
           room == Min({hi, lo + c - got})
           seg == Slice(p, lo, room)
<1>1. c \in Nat /\ B \in Nat /\ P \in Nat
  BY ShellConstants, Bytewise DEF ShellConstants
<1>2. /\ Slice(t, s, s + c) \in Text /\ got \in Nat /\ got <= c
      /\ got = 0 \/ got <= B - s
  <2>1. s \in Int
    OBVIOUS
  <2>2. QED
    BY <1>1, <2>1, SliceBounded, Zenon
<1>3. /\ lo = IF s - B <= 0 THEN 0 ELSE IF s - B <= P THEN s - B ELSE P
      /\ hi = IF s + c - B <= 0 THEN 0 ELSE IF s + c - B <= P THEN s + c - B ELSE P
  BY <1>1, ClampIs
<1>4. lo \in Int /\ hi \in Int /\ lo + c - got \in Int
  <2> HIDE DEF B, P, c, got, lo, hi
  <2>1. QED
    BY <1>1, <1>2, <1>3
<1>5. room = hi
  <2>1. room = IF hi <= lo + c - got THEN hi ELSE lo + c - got
    <3> HIDE DEF hi, lo, c, got
    <3>1. QED
      BY <1>4, Pair
  <2> HIDE DEF B, P, c, got, lo, hi, room
  <2>2. hi <= lo + c - got
    BY <1>1, <1>2, <1>3
  <2>3. QED
    BY <2>1, <2>2
<1>6. ASSUME NEW i \in 1..Len(p)
      PROVE  i \in Inside(p, lo, hi) <=> s <= B + Upto(p, i - 1) /\ B + Upto(p, i) <= s + c
  <2> DEFINE x == Upto(p, i - 1)
             y == Upto(p, i)
  <2>1. Len(p) \in Nat /\ i - 1 \in 0..Len(p) /\ i \in 0..Len(p) /\ Len(p) \in i..Len(p)
        /\ Len(p) \in 0..Len(p)
    BY Characters
  <2>2. x \in Nat /\ y \in Nat /\ P = Upto(p, Len(p))
    BY <2>1, Bytewise
  <2>3. x < y
    <3>1. y = x + p[i].width /\ p[i].width \in 1..4
      BY Bytewise, Characters
    <3> HIDE DEF x, y
    <3>2. QED
      BY <2>2, <3>1
  <2>4. y <= P
    <3>1. y + (Len(p) - i) <= Upto(p, Len(p)) /\ Len(p) - i \in Nat
      BY <2>1, Growing
    <3> HIDE DEF x, y, P
    <3>2. QED
      BY <1>1, <2>2, <3>1
  <2>5. (i \in Inside(p, lo, hi)) = (lo <= x /\ y <= hi)
    BY DEF Inside
  <2> HIDE DEF B, P, c, lo, hi, x, y
  <2>6. (lo <= x /\ y <= hi) <=> (s <= B + x /\ B + y <= s + c)
    BY <1>1, <1>3, <2>2, <2>3, <2>4
  <2>7. QED
    BY <2>5, <2>6 DEF x, y
<1>7. Slice(t \o p, s, s + c) = Slice(t, s, s + c) \o seg
  <2>1. s \in Int /\ s + c \in Int
    BY <1>1
  <2>2. Slice(t \o p, s, s + c) = Slice(t, s, s + c) \o Slice(p, lo, hi)
    <3> DEFINE e == s + c
    <3> HIDE DEF lo, hi, c
    <3>1. SameBytes(t, p, s, e, lo, hi)
      BY <1>6 DEF SameBytes
    <3>2. e \in Int
      BY <2>1
    <3> HIDE DEF e
    <3>3. Slice(t \o p, s, e) = Slice(t, s, e) \o Slice(p, lo, hi)
      BY <1>4, <2>1, <3>1, <3>2, SliceJoined
    <3>4. QED
      BY <3>3 DEF e
  <2>3. QED
    BY <1>5, <2>2
<1>8. seg \in Text
  <2>1. PICK a, b : IsSlice(p, lo, hi, a, b)
    BY <1>4, SliceIs
  <2>2. SubSeq(p, a, b) \in Text
    BY <2>1, Part DEF IsSlice
  <2>3. Slice(p, lo, hi) = SubSeq(p, a, b)
    BY <2>1 DEF IsSlice
  <2>4. QED
    BY <1>5, <2>2, <2>3
<1>9. /\ Bytes(Slice(t, s, s + c) \o seg) = got + Bytes(seg)
      /\ Bytes(t \o p) = B + P
  <2> HIDE DEF seg
  <2>1. QED
    BY <1>2, <1>8, Joined
<1>10. Feed(Taken(t, s), p) =
         [Taken(t, s) EXCEPT !.total = B + P, !.captured = got + Bytes(seg),
                             !.out = Slice(t, s, s + c) \o seg]
  <2>1. /\ Taken(t, s).skip = s /\ Taken(t, s).total = B
        /\ Taken(t, s).captured = got /\ Taken(t, s).out = Slice(t, s, s + c)
    BY DEF Taken
  <2> DEFINE w == Taken(t, s)
  <2> HIDE DEF w
  <2>2. Feed(w, p) = LET l == Clamp(w.skip - w.total, p)
                         h == Clamp(w.skip + RespCap - w.total, p)
                     IN  Taking(w, p, l, Min({h, l + RespCap - w.captured}))
    BY DEF Feed
  <2>3. Feed(w, p) = Taking(w, p, lo, room)
    BY <2>1, <2>2 DEF w
  <2>4. Taking(w, p, lo, room) = [w EXCEPT !.total = w.total + P, !.captured = w.captured + Bytes(seg),
                                           !.out = w.out \o seg]
    <3> HIDE DEF lo, room
    <3>1. QED
      BY DEF Taking
  <2>5. QED
    <3> HIDE DEF lo, room, seg, got, P, B
    <3>1. QED
      BY <2>1, <2>3, <2>4 DEF w
<1>11. QED
  <2> DEFINE sl == Slice(t, s, s + c) \o seg
             n == B + P
             k == got + Bytes(seg)
  <2>1. Feed(Taken(t, s), p) = [skip |-> s, total |-> n, captured |-> k, out |-> sl]
    <3>1. Feed(Taken(t, s), p) = [Taken(t, s) EXCEPT !.total = n, !.captured = k, !.out = sl]
      BY <1>10
    <3> HIDE DEF n, k, sl
    <3>2. QED
      BY <3>1 DEF Taken
  <2>2. Taken(t \o p, s) = [skip |-> s, total |-> n, captured |-> k, out |-> sl]
    <3>1. Bytes(t \o p) = n /\ Slice(t \o p, s, s + RespCap) = sl /\ Bytes(sl) = k
      BY <1>7, <1>9
    <3> HIDE DEF n, k, sl
    <3>2. QED
      BY <3>1 DEF Taken
  <2>3. QED
    BY <2>1, <2>2

Windows == [skip : Nat, total : Nat, captured : Nat, out : Text]

LEMMA FeedTyped ==
  ASSUME NEW w \in Windows, NEW p \in Text
  PROVE  Feed(w, p) \in Windows
<1> DEFINE lo == Clamp(w.skip - w.total, p)
           hi == Clamp(w.skip + RespCap - w.total, p)
           room == Min({hi, lo + RespCap - w.captured})
           seg == Slice(p, lo, room)
<1>1. /\ w.skip \in Nat /\ w.total \in Nat /\ w.captured \in Nat /\ w.out \in Text
      /\ RespCap \in Nat /\ Bytes(p) \in Nat
  BY ShellConstants, Bytewise DEF Windows, ShellConstants
<1>2. lo \in Int /\ hi \in Int
  <2>1. w.skip - w.total \in Int /\ w.skip + RespCap - w.total \in Int
    BY <1>1
  <2>2. QED
    BY <1>1, <2>1, ClampIs
<1>3. room \in Int
  <2> DEFINE r == lo + RespCap - w.captured
  <2>1. r \in Int
    <3> HIDE DEF lo
    <3>1. QED
      BY <1>1, <1>2
  <2> HIDE DEF r, hi
  <2>2. Min({hi, r}) = IF hi <= r THEN hi ELSE r
    BY <1>2, <2>1, Pair
  <2>3. QED
    BY <1>2, <2>1, <2>2 DEF r
<1>4. seg \in Text
  <2> HIDE DEF lo, room
  <2>1. PICK a, b : IsSlice(p, lo, room, a, b)
    BY <1>2, <1>3, SliceIs
  <2>2. SubSeq(p, a, b) \in Text
    BY <2>1, Part DEF IsSlice
  <2>3. QED
    BY <2>1, <2>2 DEF IsSlice
<1>5. Bytes(seg) \in Nat /\ w.out \o seg \in Text
  <2> HIDE DEF seg
  <2>1. QED
    BY <1>1, <1>4, Bytewise, Joined
<1>6. Feed(w, p) = Taking(w, p, lo, room)
  BY DEF Feed
<1> HIDE DEF lo, room
<1>7. Feed(w, p) = [w EXCEPT !.total = w.total + Bytes(p), !.captured = w.captured + Bytes(seg),
                             !.out = w.out \o seg]
  BY <1>6 DEF Taking
<1>8. QED
  <2> HIDE DEF seg
  <2>1. w.total + Bytes(p) \in Nat /\ w.captured + Bytes(seg) \in Nat
    BY <1>1, <1>5
  <2>2. QED
    BY <1>5, <1>7, <2>1 DEF Windows

(* What a window captures of the pieces is what it would of their text.    *)
LEMMA CaptureIs ==
  ASSUME NEW p \in Seq(Text), NEW s \in Nat
  PROVE  FlattenSeq(p) \in Text /\ Capture(p, s) = Taken(FlattenSeq(p), s)
<1> DEFINE N == Len(p)
           g == [q \in (1..N) \X Windows |-> Feed(q[2], p[q[1]])]
           Body(a) == [x \in SUBSET (DOMAIN p) |->
                         IF x = {} THEN Window(s) ELSE Feed(a[x \ {Max(x)}], p[Max(x)])]
           iter == CHOOSE a : a = Body(a)
<1>1. N \in Nat /\ DOMAIN p = 1..N /\ \A i \in 1..N : p[i] \in Text
  OBVIOUS
<1>2. Window(s) \in Windows
  BY DEF Window, Windows, Text
<1>3. g \in [(1..N) \X Windows -> Windows]
  <2>1. ASSUME NEW q \in (1..N) \X Windows PROVE Feed(q[2], p[q[1]]) \in Windows
    BY <1>1, FeedTyped
  <2> HIDE DEF N
  <2>2. QED
    BY <2>1
<1>4. PICK it : IsFold(it, N, Windows, Window(s), g)
  <2> HIDE DEF N, g
  <2>1. QED
    BY <1>1, <1>2, <1>3, Folding
<1>5. it = Body(it)
  <2>1. ASSUME NEW x \in SUBSET (1..N)
        PROVE  it[x] = IF x = {} THEN Window(s) ELSE Feed(it[x \ {Max(x)}], p[Max(x)])
    <3>1. CASE x = {}
      BY <1>4, <3>1 DEF IsFold
    <3>2. CASE x # {}
      <4>1. it[x] = g[<<Max(x), it[x \ {Max(x)}]>>]
        BY <1>4, <3>2 DEF IsFold
      <4>2. Max(x) \in 1..N
        <5> HIDE DEF N
        <5>1. Max(x) \in x
          BY <1>1, <3>2, Greatest
        <5>2. QED
          BY <5>1
      <4>3. it[x \ {Max(x)}] \in Windows
        <5> HIDE DEF N, g
        <5>1. it \in [SUBSET (1..N) -> Windows] /\ x \ {Max(x)} \in SUBSET (1..N)
          BY <1>4 DEF IsFold
        <5>2. QED
          BY <5>1
      <4>4. QED
        BY <3>2, <4>1, <4>2, <4>3
    <3>3. QED
      BY <3>1, <3>2
  <2>2. it = [x \in SUBSET (1..N) |-> it[x]]
    BY <1>4 DEF IsFold
  <2> HIDE DEF N, g
  <2>3. QED
    BY <1>1, <2>1, <2>2
<1>6. iter = Body(iter)
  <2> HIDE DEF Body
  <2>1. QED
    BY <1>5
<1>7. Capture(p, s) = iter[DOMAIN p]
  BY DEF Capture, FoldLeft, MapThenFoldSet
<1> HIDE DEF iter
<1>8. iter[{}] = Window(s)
  BY <1>6
<1>9. ASSUME NEW i \in 1..N PROVE iter[1..i] = Feed(iter[1..i - 1], p[i])
  <2>1. Max(1..i) = i /\ 1..i \in SUBSET (DOMAIN p) /\ (1..i) \ {i} = 1..i - 1
    <3>1. Max(1..i) = i
      BY <1>1, MaxUpTo
    <3>2. QED
      BY <1>1, <3>1
  <2>2. 1..i # {}
    <3>1. i \in 1..i
      BY <1>1
    <3>2. QED
      BY <3>1
  <2>3. iter[1..i] = Feed(iter[(1..i) \ {Max(1..i)}], p[Max(1..i)])
    BY <1>6, <2>1, <2>2
  <2>4. QED
    BY <2>1, <2>3
<1>10. PICK F : Flattens(F, p, Char)
  <2>1. p \in Seq(Seq(Char))
    BY DEF Text
  <2>2. QED
    BY <2>1, Flattening
<1>11. /\ \A i \in 0..N : F[i] \in Text
       /\ F[0] = <<>> /\ FlattenSeq(p) = F[N]
       /\ \A i \in 1..N : F[i] = F[i - 1] \o p[i]
  BY <1>10 DEF Flattens, Text
<1> DEFINE S == {i \in 0..N : iter[1..i] = Taken(F[i], s)}
<1>12. 0 \in S
  <2>1. 1..0 = {} /\ <<>> \in Text
    BY DEF Text
  <2>2. Bytes(<<>>) = 0
    <3>1. Len(<<>>) = 0 /\ Bytes(<<>>) = Upto(<<>>, Len(<<>>)) /\ Upto(<<>>, 0) = 0
      BY <2>1, Bytewise
    <3>2. QED
      BY <3>1
  <2>3. Slice(<<>>, s, s + RespCap) = <<>>
    BY DEF Slice
  <2>4. Taken(<<>>, s) = Window(s)
    BY <2>2, <2>3 DEF Taken, Window
  <2>5. QED
    BY <1>1, <1>8, <1>11, <2>1, <2>4
<1>13. ASSUME NEW i \in 0..N - 1, i \in S PROVE i + 1 \in S
  <2>1. i + 1 \in 1..N /\ (i + 1) - 1 = i /\ i \in 0..N /\ i + 1 \in 0..N
    BY <1>1
  <2>2. iter[1..i + 1] = Feed(iter[1..i], p[i + 1])
    BY <1>9, <2>1
  <2>3. Feed(Taken(F[i], s), p[i + 1]) = Taken(F[i] \o p[i + 1], s)
    BY <1>1, <1>11, <2>1, FeedIs
  <2>4. F[i + 1] = F[i] \o p[i + 1]
    BY <1>11, <2>1
  <2>5. QED
    BY <1>13, <2>1, <2>2, <2>3, <2>4
<1> HIDE DEF S
<1>14. 0..N \subseteq S
  <2> HIDE DEF N
  <2>1. QED
    BY <1>1, <1>12, <1>13, InductTo
<1>15. N \in S /\ N \in 0..N
  BY <1>1, <1>14
<1>16. QED
  BY <1>1, <1>7, <1>11, <1>15 DEF S

(* A window that begins between two characters takes whole ones, and there *)
(* is more exactly if it has not reached the end.                          *)
LEMMA PageEnds ==
  ASSUME NEW t \in Text, NEW k \in 0..Len(t)
  PROVE  LET w == Taken(t, Upto(t, k))
         IN  \E j \in k..Len(t) :
               /\ SubSeq(t, 1, k) \o w.out = SubSeq(t, 1, j)
               /\ Upto(t, k) + w.captured = Upto(t, j)
               /\ More(w) <=> j < Len(t)
<1> DEFINE s == Upto(t, k)
           c == RespCap
           w == Taken(t, s)
<1>1. Len(t) \in Nat /\ c \in Nat /\ \A i \in 0..Len(t) : Upto(t, i) \in Nat
  BY Characters, Bytewise, ShellConstants DEF ShellConstants
<1>2. s \in Nat /\ s \in Int /\ s + c \in Int
  <2>1. s \in Nat
    BY <1>1
  <2> HIDE DEF s
  <2>2. QED
    BY <1>1, <2>1
<1>3. w.out = Slice(t, s, s + c) /\ w.captured = Bytes(w.out) /\ w.skip = s /\ w.total = Bytes(t)
  BY DEF Taken
<1>4. PICK j \in k..Len(t) : w.out = SubSeq(t, k + 1, j)
  <2>1. PICK a, b : IsSlice(t, s, s + c, a, b)
    BY <1>2, SliceIs
  <2>2. CASE b < a
    <3>1. a = 1 /\ b = 0 /\ w.out = SubSeq(t, 1, 0)
      BY <1>3, <2>1, <2>2 DEF IsSlice
    <3>2. k \in Int /\ k < k + 1 /\ k + 1 \in Int
      BY <1>1
    <3>3. SubSeq(t, 1, 0) = <<>> /\ SubSeq(t, k + 1, k) = <<>>
      BY <3>2, SubSeqEmpty
    <3>4. k \in k..Len(t) /\ w.out = SubSeq(t, k + 1, k)
      BY <1>1, <3>1, <3>3
    <3>5. QED
      BY <3>4
  <2>3. CASE ~(b < a)
    <3>1. /\ a \in 1..Len(t) /\ b \in 1..Len(t) /\ a <= b
          /\ Inside(t, s, s + c) = a..b /\ w.out = SubSeq(t, a, b)
      BY <1>1, <1>3, <2>1, <2>3 DEF IsSlice
    <3>2. a \in a..b /\ b \in a..b
      BY <3>1
    <3>3. s <= Upto(t, a - 1) /\ Upto(t, b) <= s + c
      BY <3>1, <3>2 DEF Inside
    <3>4. k <= a - 1
      <4>1. SUFFICES ASSUME a - 1 < k PROVE FALSE
        BY <1>1, <3>1
      <4>2. a - 1 \in 0..Len(t) /\ k \in a - 1..Len(t) /\ k - (a - 1) > 0 /\ k - (a - 1) \in Nat
        BY <1>1, <3>1, <4>1
      <4>3. Upto(t, a - 1) + (k - (a - 1)) <= s
        BY <4>2, Growing
      <4>4. Upto(t, a - 1) \in Nat
        BY <1>1, <4>2
      <4> HIDE DEF s
      <4>5. QED
        BY <1>2, <3>3, <4>2, <4>3, <4>4
    <3>5. a <= k + 1
      <4>1. k + 1 \in 1..Len(t) /\ (k + 1) - 1 = k /\ k + 1 \in 0..Len(t) /\ b \in k + 1..Len(t)
            /\ b \in 0..Len(t) /\ b - (k + 1) \in Nat
        BY <1>1, <3>1, <3>4
      <4>2. Upto(t, k + 1) + (b - (k + 1)) <= Upto(t, b)
        BY <4>1, Growing
      <4>3. Upto(t, k + 1) \in Nat /\ Upto(t, b) \in Nat
        BY <1>1, <4>1
      <4>4. s <= Upto(t, (k + 1) - 1)
        BY <1>2, <4>1
      <4>5. Upto(t, k + 1) <= s + c
        <5> HIDE DEF s
        <5>1. QED
          BY <1>2, <3>3, <4>1, <4>2, <4>3
      <4>6. k + 1 \in a..b
        BY <3>1, <4>1, <4>4, <4>5 DEF Inside
      <4>7. QED
        BY <4>6
    <3>6. a = k + 1 /\ b \in k..Len(t)
      BY <1>1, <3>1, <3>4, <3>5
    <3>7. QED
      BY <3>1, <3>6
  <2>4. QED
    BY <2>2, <2>3
<1>5. /\ k + 1 \in 1..Len(t) + 1 /\ j \in 0..Len(t) /\ k + 1 <= j + 1 /\ (k + 1) - 1 = k
  BY <1>1
<1>6. SubSeq(t, 1, k) \o w.out = SubSeq(t, 1, j) /\ Bytes(w.out) = Upto(t, j) - s
  <2>1. /\ SubSeq(t, 1, (k + 1) - 1) \o SubSeq(t, k + 1, j) = SubSeq(t, 1, j)
        /\ Bytes(SubSeq(t, k + 1, j)) = Upto(t, j) - Upto(t, (k + 1) - 1)
    BY <1>5, PartBytes
  <2> HIDE DEF w
  <2>2. QED
    BY <1>4, <1>5, <2>1
<1>7. Upto(t, j) \in Nat
  BY <1>1, <1>5
<1>8. s + w.captured = Upto(t, j)
  <2> HIDE DEF s, w
  <2>1. QED
    BY <1>2, <1>3, <1>6, <1>7
<1>9. More(w) <=> j < Len(t)
  <2>1. More(w) <=> Upto(t, j) < Upto(t, Len(t))
    <3>1. Bytes(t) = Upto(t, Len(t))
      BY Bytewise
    <3>2. More(w) = (w.skip + w.captured < w.total)
      BY DEF More
    <3> HIDE DEF s, w
    <3>3. QED
      BY <1>3, <1>8, <3>1, <3>2
  <2>2. Len(t) \in j..Len(t) /\ Len(t) - j \in Nat /\ Len(t) \in 0..Len(t)
    BY <1>1, <1>5
  <2>3. Upto(t, j) + (Len(t) - j) <= Upto(t, Len(t)) /\ Upto(t, Len(t)) \in Nat
    BY <1>1, <1>5, <2>2, Growing
  <2>4. j < Len(t) => Upto(t, j) < Upto(t, Len(t))
    BY <1>1, <1>5, <1>7, <2>2, <2>3
  <2>5. ~(j < Len(t)) => j = Len(t)
    BY <1>1, <1>5
  <2>6. QED
    BY <1>7, <2>1, <2>4, <2>5
<1>10. QED
  BY <1>6, <1>8, <1>9

-----------------------------------------------------------------------------
(* What the handlers write is text. *)

LEMMA ValueText ==
  ASSUME NEW v \in DOMAIN Width
  PROVE  Chars(v) \in Text
<1>1. Width[v] \in Seq(1..4)
  BY ShellConstants DEF ShellConstants
<1>2. /\ Len(Width[v]) \in Nat /\ DOMAIN Width[v] = 1..Len(Width[v])
      /\ \A i \in 1..Len(Width[v]) : Width[v][i] \in 1..4
  BY <1>1
<1>3. \A i \in 1..Len(Width[v]) : [of |-> v, at |-> i, width |-> Width[v][i]] \in Char
  BY <1>2 DEF Char, Said
<1>4. Chars(v) = [i \in 1..Len(Width[v]) |-> [of |-> v, at |-> i, width |-> Width[v][i]]]
  BY <1>2 DEF Chars
<1>5. QED
  BY <1>2, <1>3, <1>4 DEF Text

LEMMA LiteralText ==
  ASSUME NEW s \in Settings \cup {"ok"}, NEW at \in {0, 1}
  PROVE  Literal(s, at) \in Text
<1>1. [of |-> s, at |-> at, width |-> 1] \in Char
  BY DEF Char, Said
<1>2. QED
  BY <1>1 DEF Literal, Text

LEMMA LineText ==
  ASSUME NEW st, Stored(st), NEW s \in Settings, NEW export
  PROVE  SettingLine(st, s, export) \in Seq(Text)
<1>1. st[s] \in Accepted[s] \cup {Unset} /\ Accepted[s] \cup {Uid} \subseteq DOMAIN Width
  BY SettingsConstants DEF Stored, SettingsConstants
<1>2. IF IsAddr(s) THEN "auto" \in Accepted[s] ELSE Default[s] \in Accepted[s]
  BY SettingsConstants DEF SettingsConstants
<1>3. ReadValue(st, s) \in DOMAIN Width
  BY <1>1, <1>2 DEF ReadValue
<1>4. ExportValue(st, s) \in DOMAIN Width
  BY <1>1, <1>2, <1>3 DEF ExportValue
<1> DEFINE v == IF export THEN ExportValue(st, s) ELSE ReadValue(st, s)
<1>5. Chars(v) \in Text
  BY <1>3, <1>4, ValueText
<1>6. Literal(s, 0) \in Text /\ Literal(s, 1) \in Text
  BY LiteralText
<1>7. SettingLine(st, s, export) = <<Literal(s, 0), Chars(v), Literal(s, 1)>>
  BY DEF SettingLine
<1> HIDE DEF v
<1>8. QED
  BY <1>5, <1>6, <1>7

LEMMA DumpText ==
  ASSUME NEW st, Stored(st), NEW export
  PROVE  Dump(st, export) \in Seq(Text)
<1> DEFINE p == [i \in DOMAIN Table |-> SettingLine(st, Table[i], export)]
<1>1. Len(Table) \in Nat /\ DOMAIN Table = 1..Len(Table) /\ \A i \in 1..Len(Table) : Table[i] \in Settings
  BY ShellConstants DEF ShellConstants, Settings, ToSet
<1>2. \A i \in 1..Len(Table) : SettingLine(st, Table[i], export) \in Seq(Text)
  BY <1>1, LineText
<1>3. p \in Seq(Seq(Text)) /\ Len(p) = Len(Table)
  BY <1>1, <1>2
<1> HIDE DEF p
<1>4. PICK F : Flattens(F, p, Text)
  BY <1>3, Flattening
<1>5. FlattenSeq(p) \in Seq(Text)
  <2>1. Len(p) \in 0..Len(p)
    BY <1>1, <1>3
  <2>2. QED
    BY <1>4, <2>1 DEF Flattens
<1>6. QED
  BY <1>5 DEF Dump, p

LEMMA OutputText ==
  ASSUME NEW line, NEW st, Stored(st)
  PROVE  Output(line, st) \in Seq(Text)
<1>1. Dump(st, TRUE) \in Seq(Text) /\ Dump(st, FALSE) \in Seq(Text)
  BY DumpText
<1>2. line.name \in Settings => SettingLine(st, line.name, FALSE) \in Seq(Text)
  BY LineText
<1>3. <<Literal("ok", 0)>> \in Seq(Text)
  <2>1. Literal("ok", 0) \in Text
    BY LiteralText
  <2>2. QED
    BY <2>1
<1>4. QED
  BY <1>1, <1>2, <1>3 DEF Output

(* A command that changes the store says only that it did. *)
LEMMA OutcomeOutput ==
  ASSUME NEW line, NEW st, NEW o \in Outcomes(line, st)
  PROVE  Output(line, o.store) = Output(line, st)
<1> DEFINE cmd == Last(line.path)
<1>1. CASE cmd \in {"set", "wipe"}
  BY <1>1 DEF Output
<1>2. CASE cmd \notin {"set", "wipe"}
  <2>1. o.store = st
    BY <1>2 DEF Outcomes, Outcome
  <2>2. QED
    BY <2>1
<1>3. QED
  BY <1>1, <1>2

-----------------------------------------------------------------------------
(* The replies: what was sent begins the text, up to where the window      *)
(* begins.                                                                 *)

Answer == FlattenSeq(Output(stream.line, store))

Paged ==
  \E k \in 0..Len(Answer) :
    /\ stream.sent = SubSeq(Answer, 1, k)
    /\ stream.skip = Upto(Answer, k)
    /\ stream.window = Taken(Answer, stream.skip)

StreamFields == {"pc", "line", "skip", "sent", "window", "result", "reboot"}

WholeInv ==
  /\ usb.result = "ok" => usb.whole
  /\ DOMAIN stream = StreamFields
  /\ stream.pc = "push" /\ ~touched => Paged
  /\ stream.pc = "done" /\ stream.line.path # <<>> /\ ~touched => stream.sent = Answer

(* The first page of an output. *)
LEMMA FirstPage ==
  ASSUME NEW line, NEW st, Stored(st)
  PROVE  LET t == FlattenSeq(Output(line, st))
             w == Capture(Output(line, st), 0)
         IN /\ t \in Text /\ 0 \in 0..Len(t) /\ SubSeq(t, 1, 0) = <<>> /\ Upto(t, 0) = 0
            /\ ~More(w) => w.out = t
<1> DEFINE t == FlattenSeq(Output(line, st))
           w == Capture(Output(line, st), 0)
<1>1. t \in Text /\ w = Taken(t, 0)
  BY OutputText, CaptureIs
<1> HIDE DEF t, w
<1>2. Len(t) \in Nat /\ 0 \in 0..Len(t)
  BY <1>1, Characters
<1>3. SubSeq(t, 1, 0) = <<>>
  BY SubSeqEmpty
<1>4. Upto(t, 0) = 0
  BY <1>1, Bytewise
<1>5. PICK j \in 0..Len(t) : /\ SubSeq(t, 1, 0) \o w.out = SubSeq(t, 1, j)
                             /\ More(w) <=> j < Len(t)
  BY <1>1, <1>2, <1>4, PageEnds
<1>6. ASSUME ~More(w) PROVE w.out = t
  <2>1. j = Len(t)
    BY <1>2, <1>5, <1>6
  <2>2. t \in Seq(Char)
    BY <1>1 DEF Text
  <2>3. SubSeq(t, 1, Len(t)) = t
    BY <2>2
  <2>4. w.out \in Seq(Char)
    <3>1. PICK a, b : IsSlice(t, 0, 0 + RespCap, a, b)
      BY <1>1, SliceIs, ShellConstants DEF ShellConstants
    <3>2. SubSeq(t, a, b) \in Text
      BY <1>1, <3>1, Part DEF IsSlice
    <3>3. QED
      BY <1>1, <3>1, <3>2 DEF IsSlice, Taken, Text
  <2>5. <<>> \o w.out = w.out
    BY <2>4
  <2>6. QED
    BY <1>3, <1>5, <2>1, <2>3, <2>5
<1>7. QED
  BY <1>1, <1>2, <1>3, <1>4, <1>6 DEF t, w

(* A page that begins where what was sent ends. *)
LEMMA PageKeeps ==
  ASSUME NEW line, NEW skip, NEW sent, Stored(store),
         NEW k \in 0..Len(FlattenSeq(Output(line, store))),
         sent = SubSeq(FlattenSeq(Output(line, store)), 1, k),
         skip = Upto(FlattenSeq(Output(line, store)), k), Page(line, skip, sent)
  PROVE  Paged' /\ stream'.pc = "push" /\ DOMAIN stream' = StreamFields
<1> DEFINE t == FlattenSeq(Output(line, store))
<1>1. PICK o \in Outcomes(line, store) :
        /\ store' = o.store
        /\ stream' = [pc |-> "push", line |-> line, skip |-> skip, sent |-> sent,
                      window |-> Capture(Output(line, store), skip),
                      result |-> o.result, reboot |-> o.reboot]
  BY Zenon DEF Page
<1>2. stream'.line = line /\ stream'.skip = skip /\ stream'.sent = sent
      /\ stream'.window = Capture(Output(line, store), skip) /\ stream'.pc = "push"
      /\ DOMAIN stream' = StreamFields
  BY <1>1 DEF StreamFields
<1>3. Output(line, store') = Output(line, store)
  BY <1>1, OutcomeOutput
<1>4. Answer' = t
  BY <1>2, <1>3 DEF Answer
<1>5. t \in Text
  BY OutputText, FirstPage
<1>6. skip \in Nat
  <2> HIDE DEF t
  <2>1. QED
    BY <1>5, Bytewise DEF t
<1>7. Capture(Output(line, store), skip) = Taken(t, skip)
  BY <1>6, OutputText, CaptureIs
<1>8. QED
  BY <1>2, <1>4, <1>7 DEF Paged

LEMMA WholeInit == ShellInit => WholeInv
<1> SUFFICES ASSUME ShellInit PROVE WholeInv
  OBVIOUS
<1>1. usb.result = "none"
  BY DEF ShellInit, Quiet
<1>2. stream.pc = "idle" /\ DOMAIN stream = StreamFields
  BY DEF ShellInit, Silent, StreamFields
<1>3. QED
  BY <1>1, <1>2 DEF WholeInv

LEMMA CommandWhole ==
  ASSUME WholeInv, Stored(store), NEW l \in Lines, Command(l)
  PROVE  WholeInv'
<1> USE DEF WholeInv
<1>1. stream' = stream /\ (~touched' => ~touched /\ store' = store)
  BY DEF Command
<1>2. ~touched' /\ Paged => Paged'
  BY <1>1 DEF Paged, Answer
<1>3. ~touched' => Answer' = Answer
  BY <1>1 DEF Answer
<1>4. usb'.result = "ok" => usb'.whole
  <2>1. CASE ~Known(l)
    <3>1. usb' = [Quiet EXCEPT !.pc = "answer", !.result = Refusal(l)]
      BY <2>1 DEF Command
    <3>2. QED
      BY <3>1 DEF Quiet
  <2>2. CASE Known(l)
    <3> DEFINE w == Capture(Output(l, store), 0)
               t == FlattenSeq(Output(l, store))
    <3>1. PICK o \in Outcomes(l, store) :
            usb' = [Quiet EXCEPT !.pc = "answer", !.reboot = o.reboot,
                      !.result = IF More(w) /\ o.result = "ok" THEN "truncated" ELSE o.result,
                      !.whole = w.out = t]
      BY <2>2, Zenon DEF Command
    <3>2. ~More(w) => w.out = t
      BY FirstPage
    <3> HIDE DEF w, t
    <3>3. /\ usb'.result = IF More(w) /\ o.result = "ok" THEN "truncated" ELSE o.result
          /\ usb'.whole = (w.out = t)
      BY <3>1 DEF Quiet
    <3>4. QED
      BY <3>2, <3>3
  <2>3. QED
    BY <2>1, <2>2
<1>5. QED
  BY <1>1, <1>2, <1>3, <1>4

LEMMA PushedWhole ==
  ASSUME WholeInv, Stored(store), Pushed
  PROVE  WholeInv'
<1> DEFINE sent == stream.sent \o stream.window.out
           t == Answer
<1>1. stream.pc = "push" /\ usb' = usb /\ touched' = touched
  BY DEF Pushed
<1>2. CASE touched
  <2>1. CASE More(stream.window)
    <3>1. Page(stream.line, stream.skip + stream.window.captured, sent)
      BY <1>1, <2>1 DEF Pushed
    <3>2. DOMAIN stream' = StreamFields
      BY <3>1 DEF Page, StreamFields
    <3>3. QED
      BY <1>1, <1>2, <3>2 DEF WholeInv
  <2>2. CASE ~More(stream.window)
    <3>1. stream' = [stream EXCEPT !.pc = "done", !.sent = sent]
      BY <1>1, <2>2 DEF Pushed
    <3>2. DOMAIN stream' = DOMAIN stream
      BY <3>1
    <3>3. QED
      BY <1>1, <1>2, <3>2 DEF WholeInv
  <2>3. QED
    BY <2>1, <2>2
<1>3. CASE ~touched
  <2>1. t \in Text
    BY FirstPage DEF Answer
  <2>2. PICK k \in 0..Len(t) :
          /\ stream.sent = SubSeq(t, 1, k) /\ stream.skip = Upto(t, k)
          /\ stream.window = Taken(t, stream.skip)
    BY <1>1, <1>3 DEF WholeInv, Paged
  <2> HIDE DEF t
  <2>3. PICK j \in k..Len(t) :
          /\ SubSeq(t, 1, k) \o stream.window.out = SubSeq(t, 1, j)
          /\ Upto(t, k) + stream.window.captured = Upto(t, j)
          /\ More(stream.window) <=> j < Len(t)
    BY <2>1, <2>2, PageEnds
  <2>4. Len(t) \in Nat /\ j \in 0..Len(t)
    BY <2>1, Characters
  <2>5. sent = SubSeq(t, 1, j) /\ stream.skip + stream.window.captured = Upto(t, j)
    BY <2>2, <2>3
  <2>6. CASE More(stream.window)
    <3>1. Page(stream.line, stream.skip + stream.window.captured, sent)
      BY <1>1, <2>6 DEF Pushed
    <3>2. t = FlattenSeq(Output(stream.line, store))
      BY DEF t, Answer
    <3>3. Paged' /\ stream'.pc = "push" /\ DOMAIN stream' = StreamFields
      <4> HIDE DEF sent
      <4>1. QED
        BY <2>4, <2>5, <3>1, <3>2, PageKeeps
    <3>4. QED
      BY <1>1, <3>3 DEF WholeInv
  <2>7. CASE ~More(stream.window)
    <3>1. store' = store /\ stream' = [stream EXCEPT !.pc = "done", !.sent = sent]
      BY <1>1, <2>7 DEF Pushed
    <3>2. DOMAIN stream = StreamFields
      BY DEF WholeInv
    <3>3. /\ DOMAIN stream' = StreamFields /\ stream'.pc = "done" /\ stream'.sent = sent
          /\ stream'.line = stream.line
      BY <3>1, <3>2 DEF StreamFields
    <3>4. j = Len(t)
      BY <2>3, <2>4, <2>7
    <3>5. t \in Seq(Char)
      BY <2>1 DEF Text
    <3>6. sent = t
      BY <2>5, <3>4, <3>5
    <3>7. Answer' = t
      BY <3>1, <3>3 DEF Answer, t
    <3>8. QED
      BY <1>1, <3>3, <3>6, <3>7 DEF WholeInv
  <2>8. QED
    BY <2>6, <2>7
<1>4. QED
  BY <1>2, <1>3

LEMMA StreamLineWhole ==
  ASSUME WholeInv, Stored(store), NEW l \in Lines, StreamLine(l)
  PROVE  WholeInv'
<1>1. usb' = usb
  BY DEF StreamLine
<1>2. CASE Known(l)
  <2>1. Page(l, 0, <<>>)
    BY <1>2 DEF StreamLine
  <2>2. Paged' /\ stream'.pc = "push" /\ DOMAIN stream' = StreamFields
    <3> DEFINE t == FlattenSeq(Output(l, store))
    <3>1. 0 \in 0..Len(t) /\ SubSeq(t, 1, 0) = <<>> /\ Upto(t, 0) = 0
      BY FirstPage
    <3>2. QED
      BY <2>1, <3>1, PageKeeps
  <2>3. QED
    BY <1>1, <2>2 DEF WholeInv
<1>3. CASE ~Known(l)
  <2>1. stream' = [Silent EXCEPT !.pc = "done", !.result = Refusal(l)]
    BY <1>3 DEF StreamLine
  <2>2. DOMAIN stream' = StreamFields /\ stream'.pc = "done" /\ stream'.line.path = <<>>
    BY <2>1 DEF Silent, StreamFields
  <2>3. QED
    BY <1>1, <2>2 DEF WholeInv
<1>4. QED
  BY <1>2, <1>3

LEMMA WholeKept == WholeInv /\ Stored(store) /\ [ShellNext]_shellVars => WholeInv'
<1> SUFFICES ASSUME WholeInv, Stored(store), [ShellNext]_shellVars PROVE WholeInv'
  OBVIOUS
<1>1. ASSUME NEW l \in Lines, Command(l) PROVE WholeInv'
  BY <1>1, CommandWhole
<1>2. ASSUME NEW l \in Lines, StreamLine(l) PROVE WholeInv'
  BY <1>2, StreamLineWhole
<1>3. ASSUME UNCHANGED <<store, stream, touched>>, usb'.result = "ok" => usb'.whole
      PROVE  WholeInv'
  <2>1. Answer' = Answer
    BY <1>3 DEF Answer
  <2>2. Paged' = Paged
    BY <1>3, <2>1 DEF Paged
  <2>3. QED
    BY <1>3, <2>1, <2>2 DEF WholeInv
<1>4. ASSUME NEW p, NEW n, Complete(p, n) PROVE WholeInv'
  <2>1. usb'.result = "none"
    BY <1>4 DEF Complete, Quiet
  <2>2. QED
    BY <1>3, <1>4, <2>1 DEF Complete
<1>5. CASE Answered
  <2>1. usb' = Quiet \/ usb' = [usb EXCEPT !.pc = "flush"]
    BY <1>5 DEF Answered
  <2>2. usb'.result = "ok" => usb'.whole
    <3>1. CASE usb' = Quiet
      BY <3>1 DEF Quiet
    <3>2. CASE usb' = [usb EXCEPT !.pc = "flush"]
      BY <3>2 DEF WholeInv
    <3>3. QED
      BY <2>1, <3>1, <3>2
  <2>3. QED
    BY <1>3, <1>5, <2>2 DEF Answered
<1>6. CASE Pushed
  BY <1>6, PushedWhole
<1>7. CASE StreamOver
  BY <1>7 DEF StreamOver, Silent, WholeInv, StreamFields
<1>8. CASE ShellReset
  BY <1>8 DEF ShellReset, Silent, Quiet, WholeInv, StreamFields
<1>9. CASE UNCHANGED shellVars
  BY <1>3, <1>9 DEF shellVars, WholeInv
<1>10. QED
  BY <1>1, <1>2, <1>4, <1>5, <1>6, <1>7, <1>8, <1>9 DEF ShellNext

(* An answer that says it is whole is: the console's, only if its one      *)
(* window held all of the output; and a paged reply, if nobody changed the *)
(* store meanwhile, is the text of the handler to the last character, none *)
(* lost and none twice, for every width of the window that no character    *)
(* exceeds (Window::feed, more, captured; run_line_with, stream_line).     *)
THEOREM AnswersAreWhole == ShellSpec => []WholeIfSo
<1>1. ShellInit => Stored(store) /\ WholeInv
  BY VirginStored, WholeInit DEF ShellInit
<1>2. (Stored(store) /\ WholeInv) /\ [ShellNext]_shellVars => (Stored(store) /\ WholeInv)'
  BY StoredKept, WholeKept
<1>3. Stored(store) /\ WholeInv => WholeIfSo
  BY DEF WholeInv, WholeIfSo, Answer
<1>4. QED
  BY <1>1, <1>2, <1>3, PTL DEF ShellSpec
=============================================================================
