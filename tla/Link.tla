-------------------------------- MODULE Link --------------------------------
(***************************************************************************)
(* A transmission from send to result (radio/net/mod.rs, afa.rs, ack.rs):  *)
(* tries, backoffs, the ACK window, the duty governor, and listen before   *)
(* talk with its agility, against a peer that takes frames or not and      *)
(* answers late or not at all.                                             *)
(*                                                                         *)
(* A device is under the duty governor or in AFA mode; beside its sends it *)
(* acknowledges, serves bulk frames and pairs.  Between two awaits nothing *)
(* else runs, so the governor is asked and the frame goes out in one step. *)
(***************************************************************************)
EXTENDS Duty, FiniteSets

CONSTANTS
  Toa,        (* the airtime of a frame                                   *)
  AckToa,     (* and of an ACK                                            *)
  Droppable,  (* the sends whose futures may be dropped: "try", "scan"    *)
  MaxReps,    (* the tries a caller may ask for                           *)
  AckWindow,  (* ACK_WINDOW                                               *)
  Channels,   (* AFA_N                                                    *)
  OffTime,    (* AFA_OFFTIME                                              *)
  MaxSends,   (* model bound: sends                                       *)
  MaxTime     (* model bound: the clock                                   *)

ASSUME LinkConstants ==
  /\ {Toa, AckToa} \subseteq 1..Cap
  /\ Droppable \subseteq {"try", "scan"}
  /\ {MaxReps, AckWindow, Channels} \subseteq Nat \ {0}
  /\ {OffTime, MaxSends, MaxTime} \subseteq Nat

VARIABLES
  access,   (* access                                                     *)
  cur,      (* afa.cur                                                    *)
  age,      (* afa.last_tx: the time since, up to OffTime                 *)
  job,      (* the send in progress                                       *)
  counter,  (* the TX counter                                             *)
  sends,    (* sends started: the message of each is its number           *)
  result,   (* how the last one ended                                     *)
  last,     (* at the peer: the last counter accepted                     *)
  taken,    (* at the peer: the messages accepted                         *)
  acks,     (* the ACKs on their way: the counters acknowledged           *)
  clock,    (* the clock                                                  *)
  since,    (* history: the time since a moment of choice                 *)
  air,      (* history: the airtime put on air since, under the governor  *)
  quiet,    (* history: the time since the governor granted airtime       *)
  refused   (* history: the airtime it refused at this instant            *)

afa == <<access, cur, age>>
ours == <<job, counter, sends, result>>
peer == <<last, taken, acks>>
history == <<since, air, quiet, refused>>
vars == <<governor, afa, ours, peer, clock, history>>

Ch == 0..(Channels - 1)

(* `pc` is where the send is, `kind` where its tries begin; `counter` is   *)
(* its frame's, `reps` the tries left, `left` the time left of the window, *)
(* `step` the channels of this try that were passed over.                  *)
NoJob == [pc |-> "idle", kind |-> "try", confirmed |-> FALSE, counter |-> 0,
          reps |-> 0, left |-> 0, step |-> 0]

Busy == job.pc # "idle"

-----------------------------------------------------------------------------
(* What goes on air. *)

(* The governor is asked for airtime; a granted frame goes out, or the     *)
(* radio fails.                                                            *)
Metered(toa, goes) ==
  /\ TryTx(toa)
  /\ quiet' = IF Grants(toa) THEN 0 ELSE quiet
  /\ refused' = IF Grants(toa) THEN refused ELSE toa
  /\ air' = IF Grants(toa) /\ goes /\ access = "duty" THEN air + toa ELSE air
  /\ UNCHANGED since

(* A frame that is not counted. *)
Uncounted(toa, goes) ==
  /\ air' = IF access = "duty" /\ goes THEN air + toa ELSE air
  /\ UNCHANGED <<governor, since, quiet, refused>>

(* The peer misses the frame, or takes it, if its counter is new, and      *)
(* answers it, now or later; a repetition of the latest is answered again. *)
Heard ==
  \/ UNCHANGED peer
  \/ /\ job.counter >= last
     /\ last' = job.counter
     /\ taken' = IF job.counter > last THEN taken \cup {sends} ELSE taken
     /\ \/ UNCHANGED acks
        \/ job.confirmed /\ acks' = acks \cup {job.counter}

-----------------------------------------------------------------------------
(* send *)

Start(kind) ==
  /\ ~Busy /\ sends < MaxSends
  /\ \E reps \in 1..MaxReps, confirmed \in BOOLEAN :
       job' = [NoJob EXCEPT !.pc = kind, !.kind = kind, !.confirmed = confirmed,
                            !.counter = counter, !.reps = IF confirmed THEN reps ELSE 1]
  /\ sends' = sends + 1 /\ result' = "not delivered"
  /\ UNCHANGED <<governor, afa, peer, clock, history>>

(* send spends its counter at once. *)
Send == Start("try") /\ counter' = counter + 1

(* afa_send spends its counter at its end. *)
Spent == counter' = IF job.kind = "scan" THEN counter + 1 ELSE counter

Ended == job' = [NoJob EXCEPT !.confirmed = job.confirmed] /\ Spent

End(outcome) == Ended /\ result' = outcome

(* A frame went out: an unconfirmed one is delivered, a confirmed one      *)
(* opens the window.                                                       *)
Sent ==
  IF job.confirmed
  THEN job' = [job EXCEPT !.pc = "window", !.left = AckWindow] /\ UNCHANGED <<counter, result>>
  ELSE End("delivered")

(* One try: the governor, then the radio. *)
Try ==
  /\ job.pc = "try"
  /\ \E goes \in BOOLEAN :
       /\ Metered(Toa, goes)
       /\ \/ ~Grants(Toa) /\ End("duty limited") /\ UNCHANGED peer
          \/ Grants(Toa) /\ ~goes /\ End("error") /\ UNCHANGED peer
          \/ Grants(Toa) /\ goes /\ Sent /\ Heard
  /\ UNCHANGED <<afa, sends, clock>>

(* Any ACK of the peer resolves the wait. *)
ResolvesAny(c) == TRUE

(* AckWait: only the ACK of this counter resolves the wait; other frames   *)
(* are passed over.                                                        *)
Resolves(c) == c = job.counter

AckArrives ==
  /\ job.pc = "window"
  /\ \E c \in acks :
       /\ acks' = acks \ {c}
       /\ IF Resolves(c) THEN End("delivered") ELSE UNCHANGED <<job, counter, result>>
  /\ UNCHANGED <<governor, afa, sends, last, taken, clock, history>>

(* Back off and try again, or give up with what the last try left in       *)
(* `result`.                                                               *)
Again ==
  IF job.reps > 1
  THEN /\ job' = [job EXCEPT !.pc = job.kind, !.reps = @ - 1, !.step = 0, !.left = 0]
       /\ UNCHANGED counter
  ELSE Ended

(* The window ends, by its deadline or with a radio that fails. *)
WindowEnds ==
  /\ job.pc = "window"
  /\ Again
  /\ UNCHANGED <<governor, afa, sends, result, peer, clock, history>>

(* The future of a send is dropped while it waits: what it had spent is    *)
(* spent, and no more.                                                     *)
Dropped ==
  /\ Busy /\ job.kind \in Droppable
  /\ job' = [NoJob EXCEPT !.confirmed = job.confirmed] /\ result' = "none"
  /\ UNCHANGED <<governor, afa, counter, sends, peer, clock, history>>

-----------------------------------------------------------------------------
(* afa_send *)

AfaSend == access = "afa" /\ Start("scan") /\ UNCHANGED counter

Candidate == (cur + job.step) % Channels

(* The next channel of the set: it is in its off-time, cannot be tuned or  *)
(* is busy, and is passed over; or it takes the frame, or the radio fails. *)
Scan ==
  /\ job.pc = "scan" /\ job.step < Channels
  /\ \/ /\ job' = [job EXCEPT !.step = @ + 1]
        /\ UNCHANGED <<cur, age, counter, result, peer>>
     \/ /\ age[Candidate] >= OffTime
        /\ cur' = Candidate /\ age' = [age EXCEPT ![Candidate] = 0]
        /\ Sent /\ Heard
     \/ age[Candidate] >= OffTime /\ End("error") /\ Heard /\ UNCHANGED <<cur, age>>
  /\ UNCHANGED <<access, sends, governor, clock, history>>

ScanFails ==
  /\ job.pc = "scan" /\ job.step = Channels
  /\ Again
  /\ result' = "duty limited"
  /\ UNCHANGED <<governor, afa, sends, peer, clock, history>>

(* enable_afa, disable_afa. *)
EnableAfa ==
  /\ ~Busy
  /\ access' = "afa" /\ cur' \in Ch /\ age' = [c \in Ch |-> OffTime]
  /\ UNCHANGED <<governor, ours, peer, clock, history>>

(* The airtime that counts is that of a stay in duty mode. *)
DisableAfa ==
  /\ ~Busy /\ access = "afa"
  /\ access' = "duty" /\ since' = 0 /\ air' = 0
  /\ UNCHANGED <<governor, cur, age, ours, peer, clock, quiet, refused>>

-----------------------------------------------------------------------------
(* What else the device sends, and the rest. *)

(* send_ack: counted in duty mode only. *)
CountedAck(toa, goes) == IF access = "duty" THEN Metered(toa, goes) ELSE Uncounted(toa, goes)

SendAck ==
  /\ ~Busy
  /\ \E goes \in BOOLEAN : CountedAck(AckToa, goes)
  /\ UNCHANGED <<afa, ours, peer, clock>>

(* tx_frame and tx_pair: counted in every mode. *)
SendFrame ==
  /\ ~Busy
  /\ \E goes \in BOOLEAN : Metered(Toa, goes)
  /\ UNCHANGED <<afa, ours, peer, clock>>

(* set_band: each band's policy starts with a full bucket. *)
SetBand ==
  /\ ~Busy
  /\ band' \in Bands /\ NewGovernor
  /\ since' = 0 /\ air' = 0 /\ refused' = 0
  /\ UNCHANGED <<afa, ours, peer, clock, quiet>>

(* The moment the airtime is counted from. *)
Mark ==
  /\ since' = 0 /\ air' = 0
  /\ UNCHANGED <<governor, afa, ours, peer, clock, quiet, refused>>

Tick ==
  /\ clock < MaxTime /\ clock' = clock + 1
  /\ idle' = idle + 1 /\ since' = since + 1 /\ quiet' = quiet + 1 /\ refused' = 0
  /\ age' = [c \in Ch |-> Lesser(age[c] + 1, OffTime)]
  /\ job.pc = "window" => job.left > 0
  /\ job' = IF job.pc = "window" THEN [job EXCEPT !.left = @ - 1] ELSE job
  /\ UNCHANGED <<band, budget, residue, access, cur, counter, sends, result, peer, air>>

-----------------------------------------------------------------------------

Init ==
  /\ DutyInit
  /\ access = "duty" /\ cur = 0 /\ age = [c \in Ch |-> OffTime]
  /\ job = NoJob /\ counter = 1 /\ sends = 0 /\ result = "none"
  /\ last = 0 /\ taken = {} /\ acks = {}
  /\ clock = 0 /\ since = 0 /\ air = 0 /\ quiet = 0 /\ refused = 0

Sends == Send \/ Try \/ AckArrives \/ WindowEnds \/ Dropped

Afa == AfaSend \/ Scan \/ ScanFails \/ EnableAfa \/ DisableAfa

Next == Sends \/ Afa \/ SendAck \/ SendFrame \/ SetBand \/ Mark \/ Tick

Spec == Init /\ [][Next]_vars

(* In whatever time a device puts no more airtime on air than its bucket   *)
(* holds and the refill of that time, and what is refused for it is short  *)
(* of one unit: sends, retries, ACKs, bulk frames and pairing together     *)
(* (DutyGovernor, try_tx and its callers).  The time starts anew with      *)
(* set_band, whose governor starts full.                                   *)
AirtimeBounded == 1000 * air <= 1000 * Cap + 999 + since * Permil[band]

(* Airtime is refused only to a device that has been granted some within   *)
(* the time in which it would be earned, however often it tried meanwhile  *)
(* (refill_ms, its residue).                                               *)
NotStarved == refused > 0 /\ quiet < Limit => quiet * Permil[band] < 1000 * refused

(* A confirmed send reported as delivered was taken by the peer: no late   *)
(* ACK of an earlier send, and no other frame, is mistaken for its own     *)
(* (await_ack, AckWait).                                                   *)
DeliveredMeansTaken ==
  ~Busy /\ result = "delivered" /\ job.confirmed => sends \in taken
=============================================================================
