----------------------------- MODULE EventPath -----------------------------
(***************************************************************************)
(* How an event crosses the readout board, drs/src/daq_board_top.vhd in    *)
(* its MTB trigger mode: a packet on the trigger link first starts the DRS *)
(* (as soon as the channel mask is in) and later, when the event count is  *)
(* in, queues the event; the packet formatter takes the events out of the  *)
(* queue one by one and the samples out of the DRS FIFO.  Nothing but the  *)
(* order ties the samples to the event.  The soft reset sequencer and the  *)
(* software registers act on all of it.                                    *)
(*                                                                         *)
(* Every step is one edge of `clock` for all the parts at once.  The link  *)
(* receiver (mt_rx.vhd), the DRS (Drs) and the formatter (Daq) are reduced *)
(* to what the others see of them: when they are busy and how long, and    *)
(* the samples of one readout are one entry of the DRS FIFO, which is the  *)
(* number of the event they belong to.                                     *)
(***************************************************************************)
EXTENDS SoftReset, Sequences

CONSTANTS
  MAX_EVENTS,          (* bound: packets on the trigger link                  *)
  QUEUE_DEPTH,         (* DEPTH of the event queue (32)                       *)
  BODY_CLKS,           (* clocks from the channel mask to the event count     *)
  WAIT_CLKS,           (* clocks the receiver waits after a packet            *)
  READ_CLKS,           (* set: clocks of a DRS readout                        *)
  SEND_CLKS,           (* set: clocks of a packet beyond waiting for samples  *)
  PAYLOAD_TIMEOUT_MAX, (* clocks the formatter waits for samples (2^16-1)     *)
  MAX_WRITES,          (* bound: register writes                              *)
  Writes,              (* of "enable", "disable", "soft_reset", "fragment_en",*)
                       (* "fragment_dis"                                      *)
  CAREFUL              (* does software write only while the board is quiet?  *)

ASSUME EventPathAssumption ==
  /\ {MAX_EVENTS, WAIT_CLKS, PAYLOAD_TIMEOUT_MAX, MAX_WRITES} \subseteq Nat
  /\ QUEUE_DEPTH \in Nat \ {0}
  /\ BODY_CLKS \in Nat /\ BODY_CLKS >= 3     (* the latches settle in between *)
  /\ READ_CLKS \subseteq 0..(PAYLOAD_TIMEOUT_MAX - 4)  (* the timeout is longer *)
  /\ SEND_CLKS \subseteq Nat
  /\ Writes \subseteq {"enable", "disable", "soft_reset", "fragment_en", "fragment_dis"}
  /\ CAREFUL \in BOOLEAN

VARIABLES
  (* the receiver of the trigger link *)
  mt_state, mt_cnt, mt_event_cnt, mt_fragment,
  mt_mask_valid, mt_fifo_wr_req,
  (* start of the readout *)
  start_readout, drs_busy_latch,
  drs_trigger, drs_state, drs_cnt, drs_event,
  drs_fifo,
  (* the event queue and the way out of it *)
  event_queue, event_queue_rd_en, event_queue_request,
  read_pipe, event_queue_dout, xfifo,
  fifo_reset,                  (* event_queue_reset and drs_fifo_reset        *)
  (* the formatter *)
  daq_state, daq_cnt, daq_event, daq_acknowledge,
  (* registers *)
  trigger_enable, ready_to_trigger, daq_fragment_en,
  writes,                      (* register writes done, bounds the model      *)
  (* history: events queued, events sent, and what each packet was filled with *)
  queued, sent, wrong_data

linkVars  == <<mt_state, mt_cnt, mt_event_cnt, mt_fragment, mt_mask_valid, mt_fifo_wr_req>>
drsVars   == <<start_readout, drs_busy_latch, drs_trigger, drs_state, drs_cnt, drs_event,
               drs_fifo>>
queueVars == <<event_queue, event_queue_rd_en, event_queue_request, read_pipe,
               event_queue_dout, xfifo, fifo_reset>>
daqVars   == <<daq_state, daq_cnt, daq_event, daq_acknowledge>>
regVars   == <<trigger_enable, ready_to_trigger, daq_fragment_en, writes>>
history   == <<queued, sent, wrong_data>>
vars      == <<linkVars, drsVars, queueVars, daqVars, regVars, history, softResetVars>>

-----------------------------------------------------------------------------

(* An entry of the event queue; NoEvent is what the registers hold when none *)
(* is on its way.                                                            *)
Event(num, fragment, busy) == [num |-> num, fragment |-> fragment, busy |-> busy]
NoEvent == Event(0, FALSE, FALSE)

drs_busy  == drs_state # "RUNNING"
daq_ready == daq_state = "IDLE"
daq_busy  == daq_state \in {"PAYLOAD", "SEND"}

(* A packet with samples.                                                    *)
HasData(event) == ~event.fragment /\ ~event.busy

-----------------------------------------------------------------------------
(* The trigger link.  `arrives` is the start bit of a packet, `fragment` its *)
(* second bit inverted.                                                      *)

NextCount(n) == IF mt_cnt = n THEN 0 ELSE mt_cnt + 1

Link(arrives, fragment) ==
  /\ mt_mask_valid'  = (mt_state = "MASK")
  /\ mt_fifo_wr_req' = /\ mt_state = "EVENTCNT" /\ mt_cnt = BODY_CLKS
                       /\ mt_fragment => daq_fragment_en
  /\ CASE mt_state = "IDLE" ->
            IF arrives
            THEN /\ mt_state' = "MASK" /\ mt_fragment' = fragment
                 /\ mt_event_cnt' = mt_event_cnt + 1 /\ UNCHANGED mt_cnt
            ELSE UNCHANGED <<mt_state, mt_fragment, mt_event_cnt, mt_cnt>>
       [] mt_state = "MASK" ->
            mt_state' = "EVENTCNT" /\ UNCHANGED <<mt_fragment, mt_event_cnt, mt_cnt>>
       [] mt_state = "EVENTCNT" ->
            /\ mt_state' = IF mt_cnt = BODY_CLKS THEN "WAIT" ELSE "EVENTCNT"
            /\ mt_cnt' = NextCount(BODY_CLKS)
            /\ UNCHANGED <<mt_fragment, mt_event_cnt>>
       [] mt_state = "WAIT" ->
            /\ mt_state' = IF mt_cnt = WAIT_CLKS THEN "IDLE" ELSE "WAIT"
            /\ mt_cnt' = NextCount(WAIT_CLKS)
            /\ UNCHANGED <<mt_fragment, mt_event_cnt>>

-----------------------------------------------------------------------------
(* The DRS.                                                                  *)

StartReadout ==
  /\ start_readout'  = mt_mask_valid
  /\ drs_busy_latch' = IF start_readout THEN drs_busy ELSE drs_busy_latch

(* A fragment packet has an empty mask.                                      *)
DrsTrigger ==
  drs_trigger' = (start_readout /\ ready_to_trigger /\ ~mt_fragment /\ ~drs_busy)

(* Samples of which a part was cleared away count as nobody's; a clear does  *)
(* not hurt a readout that has not written yet.                              *)
DrsReadout ==
  \/ /\ drs_state = "RUNNING" /\ drs_trigger
     /\ drs_state' = "READOUT" /\ drs_cnt' \in READ_CLKS
     /\ drs_event' = mt_event_cnt
  \/ /\ drs_state = "RUNNING" /\ ~drs_trigger
     /\ UNCHANGED <<drs_state, drs_cnt, drs_event>>
  \/ /\ drs_state = "READOUT"
     /\ drs_state' = IF drs_cnt = 0 THEN "RUNNING" ELSE "READOUT"
     /\ drs_cnt' = IF drs_cnt = 0 THEN 0 ELSE drs_cnt - 1
     /\ drs_event' \in IF fifo_reset THEN {0, drs_event} ELSE {drs_event}

-----------------------------------------------------------------------------
(* The event queue.                                                          *)

(* Mutant: the busy bit of the moment the event count is in.                 *)
NewEventBusyLate == Event(mt_event_cnt, mt_fragment, drs_busy)
NewEvent         == Event(mt_event_cnt, mt_fragment, drs_busy_latch)

event_queue_wr_en == trigger_enable /\ mt_fifo_wr_req /\ ready_to_trigger

Popped == event_queue_rd_en /\ event_queue # <<>>

(* A synchronous FIFO with a read latency of two clocks; a write to the full *)
(* queue is lost.                                                            *)
EventQueue ==
  LET rest == IF Popped THEN Tail(event_queue) ELSE event_queue
  IN IF fifo_reset
     THEN /\ event_queue' = <<>>
          /\ read_pipe' = NoEvent /\ event_queue_dout' = NoEvent
          /\ UNCHANGED queued
     ELSE /\ read_pipe' = IF Popped THEN Head(event_queue) ELSE NoEvent
          /\ event_queue_dout' = read_pipe
          /\ IF event_queue_wr_en /\ Len(event_queue) < QUEUE_DEPTH
             THEN event_queue' = Append(rest, NewEvent) /\ queued' = queued \cup {NewEvent.num}
             ELSE event_queue' = rest /\ UNCHANGED queued

(* One event at a time; the mutant asks for another one before the last one  *)
(* is acknowledged.                                                          *)
MayAskEarly == daq_ready /\ event_queue # <<>>
MayAsk      == daq_ready /\ event_queue # <<>> /\ ~event_queue_request

(* Mutant: the acknowledge is missed.                                        *)
NotAcknowledged == FALSE
Acknowledged    == daq_acknowledge

AskForEvent ==
  /\ event_queue_rd_en' = MayAsk
  /\ event_queue_request' = (MayAsk \/ (event_queue_request /\ ~Acknowledged))
  /\ xfifo' = event_queue_dout

-----------------------------------------------------------------------------
(* The formatter.                                                            *)

Accepts == /\ daq_ready /\ xfifo # NoEvent
           /\ IF xfifo.fragment THEN daq_fragment_en ELSE ready_to_trigger

(* The samples at the head of the FIFO go into the packet, whatever event    *)
(* they belong to.  A packet that gets none is filled with made up words.    *)
TakesSamples == daq_state = "PAYLOAD" /\ drs_fifo # <<>> /\ ~fifo_reset
TimesOut     == daq_state = "PAYLOAD" /\ ~TakesSamples /\ daq_cnt = PAYLOAD_TIMEOUT_MAX

Formatter ==
  /\ daq_acknowledge' = Accepts
  /\ daq_event' = IF Accepts THEN xfifo ELSE daq_event
  /\ CASE daq_state = "IDLE" ->
            IF Accepts /\ HasData(xfifo) THEN daq_state' = "PAYLOAD" /\ daq_cnt' = 0
            ELSE IF Accepts THEN daq_state' = "SEND" /\ daq_cnt' \in SEND_CLKS
            ELSE UNCHANGED <<daq_state, daq_cnt>>
       [] daq_state = "PAYLOAD" ->
            IF TakesSamples \/ TimesOut
            THEN daq_state' = "SEND" /\ daq_cnt' \in SEND_CLKS
            ELSE daq_cnt' = daq_cnt + 1 /\ UNCHANGED daq_state
       [] daq_state = "SEND" ->
            /\ daq_state' = IF daq_cnt = 0 THEN "WAIT" ELSE "SEND"
            /\ daq_cnt' = IF daq_cnt = 0 THEN 0 ELSE daq_cnt - 1
       [] daq_state = "WAIT" ->
            daq_state' = "IDLE" /\ UNCHANGED daq_cnt
  /\ sent' = IF daq_state = "WAIT" THEN sent \cup {daq_event.num} ELSE sent
  /\ wrong_data' = \/ wrong_data \/ TimesOut
                   \/ TakesSamples /\ Head(drs_fifo) # daq_event.num

(* Both FIFOs are cleared a clock after the sequencer says so.               *)
DrsFifo ==
  /\ fifo_reset' = soft_reset_buf
  /\ drs_fifo' =
       LET rest == IF TakesSamples THEN Tail(drs_fifo) ELSE drs_fifo
       IN IF fifo_reset THEN <<>>
          ELSE IF drs_state = "READOUT" /\ drs_cnt = 0 THEN Append(rest, drs_event)
          ELSE rest

-----------------------------------------------------------------------------
(* Software.                                                                 *)

(* Nothing is on its way anywhere.                                           *)
Drained ==
  /\ mt_state = "IDLE" /\ ~mt_mask_valid /\ ~mt_fifo_wr_req
  /\ ~start_readout /\ ~drs_trigger /\ drs_state = "RUNNING"
  /\ event_queue = <<>> /\ ~event_queue_request
  /\ daq_state = "IDLE" /\ ~daq_acknowledge
  /\ soft_rst_state = "IDLE"

Quiet(write) ==
  /\ Drained
  /\ write = "soft_reset" => ~trigger_enable /\ ~ready_to_trigger

NoWrite == "none"

Registers(write) ==
  /\ write # NoWrite => writes < MAX_WRITES /\ (CAREFUL => Quiet(write))
  /\ writes' = IF write = NoWrite THEN writes ELSE writes + 1
  /\ trigger_enable'  = (write = "enable" \/ (trigger_enable /\ write # "disable"))
  /\ daq_fragment_en' = (write = "fragment_en" \/ (daq_fragment_en /\ write # "fragment_dis"))
  /\ ready_to_trigger' = (trigger_enable /\ soft_reset_done)

-----------------------------------------------------------------------------

(* One edge of the clock.                                                    *)
Tick(arrives, fragment, write, dma_idle) ==
  /\ arrives => ready_to_trigger /\ mt_state = "IDLE" /\ mt_event_cnt < MAX_EVENTS
  /\ fragment => arrives
  /\ Registers(write)
  /\ Link(arrives, fragment)
  /\ StartReadout /\ DrsTrigger /\ DrsReadout
  /\ EventQueue /\ AskForEvent
  /\ Formatter /\ DrsFifo
  /\ SoftResetEdge([soft_reset |-> write = "soft_reset", drs_busy |-> drs_busy,
                    daq_busy |-> daq_busy, dma_idle |-> dma_idle])

(* The board is configured, the DRS is running and triggers are off.         *)
Init ==
  /\ mt_state = "IDLE" /\ mt_cnt = 0 /\ mt_event_cnt = 0 /\ mt_fragment = FALSE
  /\ mt_mask_valid = FALSE /\ mt_fifo_wr_req = FALSE
  /\ start_readout = FALSE /\ drs_busy_latch = FALSE
  /\ drs_trigger = FALSE /\ drs_state = "RUNNING" /\ drs_cnt = 0 /\ drs_event = 0
  /\ drs_fifo = <<>>
  /\ event_queue = <<>> /\ event_queue_rd_en = FALSE /\ event_queue_request = FALSE
  /\ read_pipe = NoEvent /\ event_queue_dout = NoEvent /\ xfifo = NoEvent
  /\ fifo_reset = FALSE
  /\ daq_state = "IDLE" /\ daq_cnt = 0 /\ daq_event = NoEvent /\ daq_acknowledge = FALSE
  /\ trigger_enable = FALSE /\ ready_to_trigger = FALSE /\ daq_fragment_en = FALSE
  /\ writes = 0
  /\ queued = {} /\ sent = {} /\ wrong_data = FALSE
  /\ SoftResetInit

Next ==
  \E arrives, fragment, dma_idle \in BOOLEAN, write \in Writes \cup {NoWrite} :
    Tick(arrives, fragment, write, dma_idle)

(* The clock is free running.                                                *)
Spec == Init /\ [][Next]_vars /\ WF_vars(Next)

-----------------------------------------------------------------------------
(* Properties.                                                               *)

Events == [num : 0..MAX_EVENTS, fragment : BOOLEAN, busy : BOOLEAN]

(* Every register stays within its range: the queue in its depth, the        *)
(* counters of the sequencer in their width.                                 *)
TypeOK ==
  /\ SoftResetTypeOK
  /\ mt_state \in {"IDLE", "MASK", "EVENTCNT", "WAIT"} /\ mt_cnt \in Nat
  /\ mt_event_cnt \in 0..MAX_EVENTS
  /\ {mt_fragment, mt_mask_valid, mt_fifo_wr_req, start_readout, drs_busy_latch,
      drs_trigger, event_queue_rd_en, event_queue_request, fifo_reset, daq_acknowledge,
      trigger_enable, ready_to_trigger, daq_fragment_en, wrong_data} \subseteq BOOLEAN
  /\ drs_state \in {"RUNNING", "READOUT"} /\ drs_cnt \in Nat
  /\ drs_event \in 0..MAX_EVENTS /\ drs_fifo \in Seq(0..MAX_EVENTS)
  /\ event_queue \in Seq(Events) /\ Len(event_queue) <= QUEUE_DEPTH
  /\ {read_pipe, event_queue_dout, xfifo, daq_event} \subseteq Events
  /\ daq_state \in {"IDLE", "PAYLOAD", "SEND", "WAIT"} /\ daq_cnt \in Nat
  /\ writes \in 0..MAX_WRITES
  /\ queued \subseteq 1..MAX_EVENTS /\ sent \subseteq 0..MAX_EVENTS

(* A packet with samples has the samples of its own event, and never waits   *)
(* for samples in vain: the busy bit queued with an event tells exactly      *)
(* whether the DRS read it out, although two processes decide that when the  *)
(* mask arrives and the event is queued many clocks later.                   *)
OwnSamples == ~wrong_data

(* No samples are left in the DRS FIFO when nothing is on its way: they      *)
(* would go into the next packet.                                            *)
NoLeftover == Drained => drs_fifo = <<>>

(* Between the queue and the formatter there is one event at most, and       *)
(* exactly while a request is open: none is overwritten on its way, and no   *)
(* request waits for an event that is gone.                                  *)
OneOnItsWay ==
  LET B(b) == IF b THEN 1 ELSE 0
  IN B(event_queue_rd_en) + B(read_pipe # NoEvent) + B(event_queue_dout # NoEvent)
       + B(xfifo # NoEvent) + B(daq_acknowledge) = B(event_queue_request)

(* Every event that was queued is sent.                                      *)
EveryEventSent == \A num \in 1..MAX_EVENTS : num \in queued ~> num \in sent

(* A soft reset finishes, whether or not the DMA controller is ever idle.    *)
SoftResetFinishes == soft_rst_state # "IDLE" ~> soft_rst_state = "IDLE"

(* What the comment at the queue's read side promises: when the formatter is *)
(* ready it is given an event from the queue.                                *)
QueueIsRead == event_queue # <<>> ~> event_queue_rd_en \/ event_queue = <<>>

=============================================================================
