------------------------------ MODULE Spirit1 ------------------------------
(***************************************************************************)
(* The radio driver and the chip it drives (radio/device.rs, radio/spi.rs).*)
(*                                                                         *)
(* Between two SPI transfers the chip goes on by itself: it ends a         *)
(* transmission, finds the channel busy, receives, discards.  It returns   *)
(* to READY after each and latches an event; an event that is not masked   *)
(* holds nIRQ low until the status is read.  In READY nothing happens, so  *)
(* the transfers that prepare an operation are one step.                   *)
(*                                                                         *)
(* Calls are numbered, and a frame bears the number of the call in which   *)
(* it was loaded or arrived.                                               *)
(***************************************************************************)
EXTENDS Naturals, FiniteSets

CONSTANTS
  Window,    (* the time an operation may wait                            *)
  MaxCalls   (* model bound: operations                                   *)

ASSUME Spirit1Constants == Window \in Nat \ {0} /\ MaxCalls \in Nat

VARIABLES
  chip,   (* MC_STATE                                                     *)
  mask,   (* IRQ_MASK                                                     *)
  irq,    (* IRQ_STATUS: the events latched                               *)
  fifo,   (* what a read of the RX FIFO finds first: a frame, Garbage, or *)
          (* Empty                                                        *)
  loaded, (* the frame in the TX FIFO                                     *)
  csma,   (* PROTOCOL1.CSMA_ON                                            *)
  smps,   (* PM_CONFIG1: the mode the regulator is set for                *)
  aired,  (* history: the frames that went out whole                      *)
  pc,     (* where the driver is                                          *)
  left,   (* the time left to the deadline                                *)
  call,   (* the number of the current operation, or the last             *)
  result  (* how it ended                                                 *)

spirit == <<chip, irq, fifo, aired>>
regs == <<mask, loaded, csma, smps>>
driver == <<pc, left, call, result>>
vars == <<spirit, regs, driver>>

Empty == 0
Garbage == MaxCalls + 1

TxEvents == {"TX_DATA_SENT", "MAX_BO_CCA_REACH", "TX_FIFO_ERROR"}
RxEvents == {"RX_DATA_READY", "RX_DATA_DISC", "CRC_ERROR", "RX_FIFO_ERROR"}

(* nIRQ is low. *)
Asserted == irq \cap mask # {}

NoResult == [op |-> "none", outcome |-> "none", frame |-> Empty]

-----------------------------------------------------------------------------
(* The chip. *)

Ends(event) == chip' = "READY" /\ irq' = irq \cup {event}

Transmits ==
  /\ chip = "TX"
  /\ \/ Ends("TX_DATA_SENT") /\ aired' = aired \cup {loaded}
     \/ csma /\ Ends("MAX_BO_CCA_REACH") /\ UNCHANGED aired
     \/ Ends("TX_FIFO_ERROR") /\ UNCHANGED aired
  /\ UNCHANGED <<fifo, regs, driver>>

(* Bytes go behind those in the FIFO. *)
Fill(bytes) == fifo' = IF fifo = Empty THEN bytes ELSE fifo

(* With the regulator set for transmission nothing is demodulated.  A      *)
(* frame takes time to arrive.                                             *)
Receives ==
  /\ chip = "RX" /\ smps = "RX"
  /\ \/ Ends("RX_DATA_READY") /\ Fill(call)
     \/ \E event \in RxEvents \ {"RX_DATA_READY"} : Ends(event) /\ Fill(Garbage)
  /\ \/ pc # "rx_wait" /\ UNCHANGED left
     \/ pc = "rx_wait" /\ left > 0 /\ left' = left - 1
  /\ UNCHANGED <<aired, regs, pc, call, result>>

-----------------------------------------------------------------------------
(* The driver. *)

Call(where) == /\ pc = "idle" /\ call < MaxCalls
               /\ call' = call + 1 /\ pc' = where /\ left' = Window /\ UNCHANGED result

Return(op, outcome, frame) ==
  /\ pc' = "idle" /\ result' = [op |-> op, outcome |-> outcome, frame |-> frame]
  /\ UNCHANGED <<left, call>>

(* The status is left as it is. *)
NotCleared == irq

(* irq_status: reading clears. *)
Cleared == {}

(* The FIFO is left as it is. *)
NotFlushed == fifo

(* CMD_FLUSHRXFIFO *)
Flushed == Empty

(* tx: to READY from wherever the chip is, prepare, clear, strobe.         *)
Tx ==
  /\ Call("tx_wait")
  /\ csma' \in BOOLEAN
  /\ mask' = TxEvents /\ smps' = "TX" /\ loaded' = call'
  /\ irq' = Cleared /\ chip' = "TX"
  /\ UNCHANGED <<fifo, aired>>

TxOutcome ==
  IF "TX_DATA_SENT" \in irq THEN "ok"
  ELSE IF "MAX_BO_CCA_REACH" \in irq THEN "busy"
  ELSE IF "TX_FIFO_ERROR" \in irq THEN "fifo" ELSE "timeout"

TxWakes ==
  /\ pc = "tx_wait" /\ Asserted
  /\ Return("tx", TxOutcome, Empty)
  /\ irq' = Cleared /\ csma' = FALSE
  /\ fifo' = IF TxOutcome = "fifo" THEN Flushed ELSE fifo
  /\ UNCHANGED <<chip, aired, mask, loaded, smps>>

(* rx: to READY, prepare, clear, strobe. *)
Rx ==
  /\ Call("rx_wait")
  /\ smps' = "RX" /\ fifo' = Flushed /\ mask' = RxEvents
  /\ irq' = Cleared /\ chip' = "RX"
  /\ UNCHANGED <<aired, loaded, csma>>

RxWakes ==
  /\ pc = "rx_wait" /\ Asserted
  /\ pc' = IF "RX_DATA_READY" \in irq THEN "rx_read"
           ELSE IF irq \cap {"CRC_ERROR", "RX_FIFO_ERROR"} # {} THEN "rx_error"
           ELSE "rx_again"
  /\ irq' = Cleared
  /\ UNCHANGED <<chip, fifo, aired, regs, left, call, result>>

(* A frame that is too long for the caller is flushed. *)
RxReads ==
  /\ pc = "rx_read"
  /\ \/ Return("rx", "ok", fifo) /\ UNCHANGED fifo
     \/ Return("rx", "too_long", Empty) /\ fifo' = Flushed
  /\ chip' = "READY"
  /\ UNCHANGED <<irq, aired, regs>>

RxFails ==
  /\ pc = "rx_error"
  /\ Return("rx", "error", Empty) /\ fifo' = Flushed /\ chip' = "READY"
  /\ UNCHANGED <<irq, aired, regs>>

(* The wait starts anew with every discarded frame. *)
LeftAnew == Window

(* The deadline is absolute. *)
LeftThen == left

(* A discarded frame: back to RX. *)
RxAgain ==
  /\ pc = "rx_again"
  /\ fifo' = Flushed /\ chip' = "RX" /\ pc' = "rx_wait" /\ left' = LeftThen
  /\ UNCHANGED <<irq, aired, regs, call, result>>

(* rssi_sample: RX for a while, with the mask of the operation before.     *)
Sample ==
  /\ Call("sample")
  /\ smps' = "RX" /\ fifo' = Flushed /\ chip' = "RX"
  /\ UNCHANGED <<irq, aired, mask, loaded, csma>>

Sampled ==
  /\ pc = "sample" /\ left = 0
  /\ Return("sample", "ok", Empty) /\ chip' = "READY"
  /\ UNCHANGED <<irq, fifo, aired, regs>>

(* The events stay routed to nIRQ. *)
MaskKept == mask

MaskNone == {}

(* to_sleep: the events are masked and cleared first, then the chip goes   *)
(* to SLEEP, through READY if it is busy.                                  *)
Sleep ==
  /\ Call("sleep") /\ mask' = MaskNone /\ irq' = Cleared
  /\ UNCHANGED <<chip, fifo, aired, loaded, csma, smps>>

Slept ==
  /\ pc = "sleep" /\ Return("sleep", "ok", Empty) /\ chip' = "SLEEP"
  /\ UNCHANGED <<irq, fifo, aired, regs>>

-----------------------------------------------------------------------------
(* Time, and callers that lose interest. *)

Tick ==
  /\ pc \in {"tx_wait", "rx_wait", "sample"} /\ left > 0 /\ left' = left - 1
  /\ UNCHANGED <<spirit, regs, pc, call, result>>

(* The timer wins the select only while nIRQ is high. *)
Expires ==
  /\ left = 0 /\ ~Asserted
  /\ \/ pc = "tx_wait" /\ pc' = "tx_abort"
     \/ pc = "rx_wait" /\ pc' = "rx_abort"
  /\ UNCHANGED <<spirit, regs, left, call, result>>

(* SABORT, which may come too late. *)
Aborts ==
  /\ \/ pc = "tx_abort" /\ Return("tx", "timeout", Empty) /\ csma' = FALSE
     \/ pc = "rx_abort" /\ Return("rx", "timeout", Empty) /\ UNCHANGED csma
  /\ chip' = "READY"
  /\ UNCHANGED <<irq, fifo, aired, mask, loaded, smps>>

(* The caller drops the future: the chip goes on. *)
Dropped ==
  /\ pc \in {"tx_wait", "rx_wait", "sample"}
  /\ Return("dropped", "none", Empty)
  /\ UNCHANGED <<spirit, regs>>

-----------------------------------------------------------------------------
(* After exit_shutdown and config::apply. *)
Init ==
  /\ chip = "READY" /\ mask = {} /\ irq = {} /\ fifo = Empty /\ loaded = Empty
  /\ csma = FALSE /\ smps = "TX" /\ aired = {}
  /\ pc = "idle" /\ left = 0 /\ call = 0 /\ result = NoResult

Chip == Transmits \/ Receives

Driver ==
  \/ TxWakes \/ RxWakes \/ RxReads \/ RxFails \/ RxAgain
  \/ Sampled \/ Slept \/ Tick \/ Expires \/ Aborts

Next == Chip \/ Driver \/ Tx \/ Rx \/ Sample \/ Sleep \/ Dropped

Spec == Init /\ [][Next]_vars

(* The executor polls a woken task, and time passes. *)
FairSpec == Spec /\ WF_vars(Driver)

(* A receive returns a frame that arrived while it listened, never what an *)
(* earlier operation left in the FIFO or the status (rx).                  *)
RxFresh == result.op = "rx" /\ result.outcome = "ok" /\ pc = "idle" => result.frame = call

(* A transmission reported as sent went out, and one reported as refused   *)
(* did not, whatever an earlier one left behind (tx).                      *)
TxTruth ==
  pc = "idle" /\ result.op = "tx" =>
    /\ result.outcome = "ok" => call \in aired
    /\ result.outcome \in {"busy", "fifo"} => call \notin aired

(* What a call reports happened in that call: no event, FIFO content or    *)
(* length that an operation timed out or dropped left behind is told for   *)
(* the next one (rx, tx).                                                  *)
ResultsTrue == RxFresh /\ TxTruth

(* A radio put to sleep sleeps and leaves nIRQ high, so that the MCU can   *)
(* stop (to_sleep).                                                        *)
NoVeto == pc = "idle" /\ result.op = "sleep" => chip = "SLEEP" /\ ~Asserted

(* Every operation ends, however many frames are discarded meanwhile (the  *)
(* absolute deadline of rx).                                               *)
CallsEnd == pc # "idle" ~> pc = "idle"
=============================================================================
