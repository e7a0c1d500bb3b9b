------------------------------ MODULE Console ------------------------------
(***************************************************************************)
(* The USB console (src/console.rs): producers, the TX queue, the writer,  *)
(* the RX router, and the manager that builds and drops the UART as USB    *)
(* comes and goes.                                                         *)
(*                                                                         *)
(* Between two awaits a task runs alone, so an action is what a task does  *)
(* from one await to the next.  A message is the number of frames it makes *)
(* on the wire.  A producer that found the queue full while the console    *)
(* was up is parked on it: it does not look at the console again.          *)
(***************************************************************************)
EXTENDS Integers, Sequences, FiniteSets

CONSTANTS
  TxDepth,     (* TX_DEPTH                                                *)
  ShellDepth,  (* the depth of SHELL_RX                                   *)
  MgmtDepth,   (* the depth of MGMT_RX                                    *)
  MaxFrames,   (* model bound: the frames of a message                    *)
  MaxItems,    (* model bound: messages made                              *)
  MaxRequests, (* model bound: requests of the host                       *)
  MaxPlugs     (* model bound: changes of the USB line                    *)

ASSUME ConsoleConstants ==
  /\ {TxDepth, ShellDepth, MgmtDepth, MaxFrames} \subseteq Nat \ {0}
  /\ {MaxItems, MaxRequests, MaxPlugs} \subseteq Nat

VARIABLES
  usb,       (* VBUS_SENSE is high                                        *)
  mgr,       (* where the manager is                                      *)
  up,        (* CONSOLE_UP                                                *)
  txq,       (* TX_CHANNEL                                                *)
  parked,    (* producers waiting for room: the frames they hold, or 0    *)
  dropped,   (* DROPPED                                                   *)
  wr,        (* the writer                                                *)
  rx,        (* SHELL_RX and MGMT_RX: requests waiting                    *)
  recent,    (* a frame of the host came less than 2 s ago                *)
  made,      (* history: messages                                         *)
  told,      (* history: messages delivered, or reported as dropped       *)
  leaked,    (* history: counts taken for a marker that was cut off       *)
  requests, plugs (* counters of the bounds                               *)

history == <<made, told, leaked>>
line == <<usb, plugs>>
input == <<rx, recent, requests>>
consoleVars == <<line, mgr, up, txq, parked, dropped, wr, input, history>>

(* The tasks that wait for room: the shell and the application, which      *)
(* answer the host, and any task that reports events.                      *)
Services == {"shell", "mgmt"}
Producers == Services \cup {"task"}

Depth(p) == IF p = "shell" THEN ShellDepth ELSE MgmtDepth

(* What the writer is doing: nothing built, the Hello of a session, idle,  *)
(* the marker of dropped messages, the frames of a message, the drain.     *)
(* `marker` is the count taken for the marker, `left` the frames to write, *)
(* `tc` the transmit-complete flag.                                        *)
WriterAt(pc, marker, left) == [pc |-> pc, marker |-> marker, left |-> left, tc |-> FALSE]
NoWriter == WriterAt("none", 0, 0)

(* OnCancelDrop: a message is in the writer's hands, and not yet written.  *)
Armed == wr.pc \in {"marker", "item"}

-----------------------------------------------------------------------------
(* Producers. *)

Room == Len(txq) < TxDepth

TryEnqueue(m) ==
  IF Room THEN txq' = Append(txq, m) /\ UNCHANGED dropped
          ELSE dropped' = dropped + 1 /\ UNCHANGED txq

(* enqueue: the console is looked at once; if it is up, wait for room.     *)
Enqueue(p, m) ==
  /\ made < MaxItems /\ made' = made + 1
  /\ parked[p] = 0
  /\ IF up /\ ~Room
     THEN parked' = [parked EXCEPT ![p] = m] /\ UNCHANGED <<txq, dropped>>
     ELSE TryEnqueue(m) /\ UNCHANGED parked

(* A parked producer finds room. *)
Unpark(p) ==
  /\ parked[p] > 0 /\ Room
  /\ txq' = Append(txq, parked[p])
  /\ parked' = [parked EXCEPT ![p] = 0]
  /\ UNCHANGED <<line, mgr, up, dropped, wr, input, history>>

(* A log line or a print: dropped when there is no room. *)
Log ==
  /\ made < MaxItems /\ made' = made + 1
  /\ TryEnqueue(1)
  /\ UNCHANGED <<line, mgr, up, parked, wr, input, told, leaked>>

(* An event, an uplink, a sample: a task's message, of one frame. *)
Event ==
  /\ Enqueue("task", 1)
  /\ UNCHANGED <<line, mgr, up, wr, input, told, leaked>>

(* A service takes a request and answers: a shell response may be several  *)
(* frames, a management chunk is one.                                      *)
Respond(p) ==
  /\ rx[p] > 0
  /\ rx' = [rx EXCEPT ![p] = @ - 1]
  /\ \E m \in 1..(IF p = "shell" THEN MaxFrames ELSE 1) : Enqueue(p, m)
  /\ UNCHANGED <<line, mgr, up, wr, recent, requests, told, leaked>>

-----------------------------------------------------------------------------
(* The writer and the router, while the UART exists. *)

Built == mgr \in {"up", "closing"}

Hello ==
  /\ wr.pc = "hello"
  /\ wr' = WriterAt("idle", 0, 0)
  /\ UNCHANGED <<line, mgr, up, txq, parked, dropped, input, history>>

(* The next message is taken, and with it the count of those dropped.      *)
Take ==
  /\ wr.pc = "idle" /\ txq # <<>>
  /\ txq' = Tail(txq)
  /\ wr' = WriterAt(IF dropped > 0 THEN "marker" ELSE "item", dropped, Head(txq))
  /\ dropped' = 0
  /\ UNCHANGED <<line, mgr, up, parked, input, history>>

SendMarker ==
  /\ wr.pc = "marker"
  /\ told' = told + wr.marker
  /\ wr' = WriterAt("item", 0, wr.left)
  /\ UNCHANGED <<line, mgr, up, txq, parked, dropped, input, made, leaked>>

(* One frame is written; after the last one the message is delivered, and  *)
(* the writer waits for the drain.  The status sweep of the RX ring may    *)
(* clear transmit-complete before the writer sees it.                      *)
SendFrame ==
  /\ wr.pc = "item"
  /\ IF wr.left > 1
     THEN wr' = [wr EXCEPT !.left = @ - 1] /\ UNCHANGED told
     ELSE /\ \E tc \in BOOLEAN : wr' = [WriterAt("flush", 0, 0) EXCEPT !.tc = tc]
          /\ told' = told + 1
  /\ UNCHANGED <<line, mgr, up, txq, parked, dropped, input, made, leaked>>

(* A drain that waits for transmit-complete alone. *)
DrainedOnFlag == wr.tc

(* flush_bounded: the flag, or 50 ms. *)
Drained == TRUE

Flush ==
  /\ wr.pc = "flush" /\ Drained
  /\ wr' = WriterAt("idle", 0, 0)
  /\ UNCHANGED <<line, mgr, up, txq, parked, dropped, input, history>>

(* A frame of the host: queued for its service, or dropped if that queue   *)
(* is full.  Any frame counts as talk of the host.                         *)
RouteFrame(p) ==
  /\ Built /\ requests < MaxRequests
  /\ requests' = requests + 1
  /\ recent' = TRUE
  /\ rx' = IF rx[p] < Depth(p) THEN [rx EXCEPT ![p] = @ + 1] ELSE rx
  /\ UNCHANGED <<line, mgr, up, txq, parked, dropped, wr, history>>

(* Two seconds without a frame of the host. *)
FallQuiet ==
  /\ recent /\ recent' = FALSE
  /\ UNCHANGED <<line, mgr, up, txq, parked, dropped, wr, rx, requests, history>>

-----------------------------------------------------------------------------
(* The manager. *)

(* The line is plugged, pulled out, or bounces. *)
Toggle ==
  /\ plugs < MaxPlugs /\ plugs' = plugs + 1
  /\ usb' = ~usb
  /\ UNCHANGED <<mgr, up, txq, parked, dropped, wr, input, history>>

(* The head of the manager's loop: it goes into the wait only if USB is    *)
(* not there.                                                              *)
Top == IF usb THEN "debounce" ELSE "down"

(* Every wake without USB, by an edge or after 500 ms, empties the queue.  *)
Drain == txq' = <<>> /\ dropped' = dropped + Len(txq)

WakeDown ==
  /\ mgr = "down"
  /\ Drain
  /\ mgr' = Top
  /\ UNCHANGED <<line, up, parked, wr, input, history>>

(* 50 ms later the UART is built, if USB is still there. *)
Build ==
  /\ mgr = "debounce" /\ usb
  /\ mgr' = "up" /\ up' = TRUE
  /\ wr' = WriterAt("hello", 0, 0)
  /\ UNCHANGED <<line, txq, parked, dropped, input, history>>

BuildFails ==
  /\ mgr = "debounce" /\ usb
  /\ mgr' = "retry"
  /\ UNCHANGED <<line, up, txq, parked, dropped, wr, input, history>>

(* USB was only a bounce, or half a second has passed since a failed build.*)
Again ==
  /\ (mgr = "debounce" /\ ~usb) \/ mgr = "retry"
  /\ mgr' = Top
  /\ UNCHANGED <<line, up, txq, parked, dropped, wr, input, history>>

(* Unplugged: once seen low, the line is not looked at again. *)
SeeLow ==
  /\ mgr = "up" /\ ~usb
  /\ mgr' = "closing"
  /\ UNCHANGED <<line, up, txq, parked, dropped, wr, input, history>>

(* Cancelling the writer without counting the message it holds. *)
CancelledSilently == 0

(* The guard counts the message held; a marker not yet written, with the   *)
(* count it carries, is gone.                                              *)
Cancelled == IF Armed THEN 1 ELSE 0

(* 50 ms later writer and router are dropped where they are. *)
Close ==
  /\ mgr = "closing"
  /\ up' = FALSE
  /\ dropped' = dropped + Cancelled
  /\ leaked' = leaked + wr.marker
  /\ wr' = NoWriter
  /\ mgr' = Top
  /\ UNCHANGED <<line, txq, parked, input, made, told>>

-----------------------------------------------------------------------------

ConsoleInit ==
  /\ usb \in BOOLEAN /\ plugs = 0
  /\ mgr = Top /\ up = FALSE
  /\ txq = <<>> /\ parked = [p \in Producers |-> 0] /\ dropped = 0
  /\ wr = NoWriter
  /\ rx = [p \in Services |-> 0] /\ recent = FALSE /\ requests = 0
  /\ made = 0 /\ told = 0 /\ leaked = 0

WriterStep == Hello \/ Take \/ SendMarker \/ SendFrame \/ Flush
ManagerStep == WakeDown \/ Build \/ BuildFails \/ Again \/ SeeLow \/ Close
ProducerStep == Log \/ Event \/ \E p \in Services : Respond(p)

ConsoleNext ==
  \/ ProducerStep \/ \E p \in Producers : Unpark(p)
  \/ WriterStep \/ \E p \in Services : RouteFrame(p)
  \/ FallQuiet \/ Toggle \/ ManagerStep

(* Timers and tasks run; a build succeeds if it is tried again and again;  *)
(* a waiting producer that finds room again and again gets it.             *)
ConsoleFairness ==
  /\ WF_consoleVars(ManagerStep) /\ SF_consoleVars(Build) /\ WF_consoleVars(WriterStep)
  /\ \A p \in Producers : SF_consoleVars(Unpark(p))
  /\ \A p \in Services : WF_consoleVars(Respond(p))
  /\ WF_consoleVars(FallQuiet)

Waiting == {p \in Producers : parked[p] > 0}

(* Every message made is delivered, is still in the queue, in a parked     *)
(* producer or in the writer, or is in the count of dropped messages, told *)
(* to the host or to be told; the exception is a count whose marker was    *)
(* cut off by an unplug (writer_loop, OnCancelDrop, bump_dropped).         *)
DropsAccounted ==
  made = told + Len(txq) + Cardinality(Waiting) + (IF Armed THEN 1 ELSE 0)
         + dropped + wr.marker + leaked

(* A producer that waits for room gets on, whatever happens to USB and to  *)
(* the transmit-complete flag (enqueue, manager, flush_bounded).           *)
ParkedFreed == \A p \in Producers : parked[p] > 0 ~> parked[p] = 0

=============================================================================
