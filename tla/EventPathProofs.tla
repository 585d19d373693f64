-------------------------- MODULE EventPathProofs --------------------------
(***************************************************************************)
(* The event path for every value of the constants: its registers keep     *)
(* their ranges, and, when software writes only to a quiet board, there is *)
(* never more than one event between the queue and the formatter and every *)
(* packet gets the samples of its own event, unless the queue overflows.   *)
(***************************************************************************)
EXTENDS EventPath, TLAPS

-----------------------------------------------------------------------------
(* Types.                                                                   *)

(* A packet on the link has counted up the event count, so that an event that *)
(* is queued has a number and differs from NoEvent.                           *)
LinkInv ==
  /\ mt_state # "IDLE" => mt_event_cnt # 0
  /\ mt_fifo_wr_req => mt_state = "WAIT"

SoftResetTypes == SoftResetTypeOK

LinkTypes ==
  /\ mt_state \in {"IDLE", "MASK", "EVENTCNT", "WAIT"} /\ mt_cnt \in Nat
  /\ mt_event_cnt \in 0..MAX_EVENTS
  /\ mt_fragment \in BOOLEAN /\ mt_mask_valid \in BOOLEAN /\ mt_fifo_wr_req \in BOOLEAN

DrsTypes ==
  /\ start_readout \in BOOLEAN /\ drs_busy_latch \in BOOLEAN /\ drs_trigger \in BOOLEAN
  /\ drs_state \in {"RUNNING", "READOUT"} /\ drs_cnt \in Nat
  /\ drs_event \in 0..MAX_EVENTS /\ drs_fifo \in Seq(0..MAX_EVENTS)

QueueTypes ==
  /\ event_queue_rd_en \in BOOLEAN /\ event_queue_request \in BOOLEAN
  /\ fifo_reset \in BOOLEAN
  /\ event_queue \in Seq(Events) /\ Len(event_queue) <= QUEUE_DEPTH
  /\ read_pipe \in Events /\ event_queue_dout \in Events /\ xfifo \in Events
  /\ queued \subseteq 1..MAX_EVENTS

FormatterTypes ==
  /\ daq_state \in {"IDLE", "PAYLOAD", "SEND", "WAIT"} /\ daq_cnt \in Nat
  /\ daq_event \in Events /\ daq_acknowledge \in BOOLEAN
  /\ sent \subseteq 0..MAX_EVENTS /\ wrong_data \in BOOLEAN

RegisterTypes ==
  /\ trigger_enable \in BOOLEAN /\ ready_to_trigger \in BOOLEAN
  /\ daq_fragment_en \in BOOLEAN /\ writes \in 0..MAX_WRITES

TypeInv == /\ SoftResetTypes /\ LinkTypes /\ DrsTypes /\ QueueTypes /\ FormatterTypes
           /\ RegisterTypes /\ LinkInv

(* The parts are the type invariant of the model.                            *)
LEMMA TypeParts == TypeInv => TypeOK
  BY DEF TypeInv, TypeOK, SoftResetTypes, LinkTypes, DrsTypes, QueueTypes, FormatterTypes,
         RegisterTypes

(* NoEvent is one of the values of the registers the events go through.      *)
LEMMA NoEventIsOne == NoEvent \in Events
  BY EventPathAssumption DEF NoEvent, Event, Events

LEMMA ConstantTypes ==
  /\ MAX_EVENTS \in Nat /\ WAIT_CLKS \in Nat /\ PAYLOAD_TIMEOUT_MAX \in Nat
  /\ MAX_WRITES \in Nat /\ QUEUE_DEPTH \in Nat /\ QUEUE_DEPTH >= 1 /\ BODY_CLKS \in Nat
  /\ READ_CLKS \subseteq Nat /\ SEND_CLKS \subseteq Nat
<1>1. /\ MAX_EVENTS \in Nat /\ WAIT_CLKS \in Nat /\ PAYLOAD_TIMEOUT_MAX \in Nat
      /\ MAX_WRITES \in Nat /\ QUEUE_DEPTH \in Nat \ {0} /\ BODY_CLKS \in Nat
      /\ SEND_CLKS \subseteq Nat /\ READ_CLKS \subseteq 0..(PAYLOAD_TIMEOUT_MAX - 4)
  BY EventPathAssumption
<1> QED BY <1>1

-----------------------------------------------------------------------------
(* An edge of the clock keeps each part.                                     *)

LEMMA SoftResetStep ==
  ASSUME SoftResetTypes, NEW in, SoftResetEdge(in)
  PROVE  SoftResetTypes'
<1> USE SoftResetAssumption DEF SoftResetTypes, SoftResetTypeOK
<1>1. ASSUME Watchdog
      PROVE  /\ watchdog_cnt' \in 0..WATCHDOG_CNT_MAX /\ watchdog_timeout' \in BOOLEAN
             /\ soft_rst_state_last' = soft_rst_state
  <2>1. watchdog_cnt' \in 0..WATCHDOG_CNT_MAX /\ soft_rst_state_last' = soft_rst_state
    BY <1>1 DEF Watchdog
  <2>2. watchdog_timeout' \in BOOLEAN
    BY <1>1, Zenon DEF Watchdog
  <2> QED BY <2>1, <2>2
<1>2. Watchdog
  BY DEF SoftResetEdge, SoftResetIdle, WaitIdle, CountStates, Advance
<1>3. soft_rst_state' \in SoftResetStates
  BY DEF SoftResetEdge, SoftResetIdle, WaitIdle, CountStates, Advance, SoftResetStates
<1>4. soft_reset_done' \in BOOLEAN /\ soft_reset_buf' \in BOOLEAN
  <2>1. ASSUME NEW from, NEW go, NEW to, Advance(from, go, to)
        PROVE  soft_reset_done' \in BOOLEAN /\ soft_reset_buf' \in BOOLEAN
    BY <2>1, Zenon DEF Advance
  <2> QED BY <2>1 DEF SoftResetEdge, SoftResetIdle, WaitIdle, CountStates
<1>5. soft_reset_flush_cnt' \in 0..FLUSH_CNT_MAX
  <2>1. CountDown(soft_reset_flush_cnt) \in 0..FLUSH_CNT_MAX
    BY DEF CountDown
  <2>2. CASE SoftResetIdle(in)
    BY <2>2 DEF SoftResetIdle
  <2>3. CASE WaitIdle(in)
    BY <2>3 DEF WaitIdle
  <2>4. CASE CountStates(in)
    <3>1. \/ soft_reset_flush_cnt' = CountDown(soft_reset_flush_cnt)
          \/ soft_reset_flush_cnt' = soft_reset_flush_cnt
          \/ soft_reset_flush_cnt' = FLUSH_CNT_MAX
      BY <2>4 DEF CountStates
    <3>2. FLUSH_CNT_MAX \in 0..FLUSH_CNT_MAX
      OBVIOUS
    <3> QED BY <3>1, <3>2, <2>1
  <2> QED BY <2>2, <2>3, <2>4 DEF SoftResetEdge
<1> QED BY <1>1, <1>2, <1>3, <1>4, <1>5

LEMMA LinkStep ==
  ASSUME TypeInv, NEW arrives \in BOOLEAN, NEW fragment \in BOOLEAN,
         Link(arrives, fragment), arrives => mt_event_cnt < MAX_EVENTS
  PROVE  LinkTypes' /\ LinkInv'
<1> USE ConstantTypes DEF TypeInv, LinkTypes, LinkInv
<1>1. mt_mask_valid' \in BOOLEAN /\ mt_fifo_wr_req' \in BOOLEAN
  <2>1. mt_mask_valid' = (mt_state = "MASK")
    BY DEF Link
  <2>2. mt_fifo_wr_req' = (/\ mt_state = "EVENTCNT" /\ mt_cnt = BODY_CLKS
                           /\ mt_fragment => daq_fragment_en)
    BY DEF Link
  <2> QED BY <2>1, <2>2, Zenon
<1>2. /\ mt_state' \in {"IDLE", "MASK", "EVENTCNT", "WAIT"} /\ mt_cnt' \in Nat
      /\ mt_event_cnt' \in 0..MAX_EVENTS /\ mt_fragment' \in BOOLEAN
      /\ mt_state' # "IDLE" => mt_event_cnt' # 0
  <2>1. CASE mt_state = "IDLE"
    BY <2>1 DEF Link
  <2>2. CASE mt_state = "MASK"
    BY <2>2 DEF Link
  <2>3. CASE mt_state = "EVENTCNT"
    BY <2>3 DEF Link, NextCount
  <2>4. CASE mt_state = "WAIT"
    BY <2>4 DEF Link, NextCount
  <2> QED BY <2>1, <2>2, <2>3, <2>4
<1>3. mt_fifo_wr_req' => mt_state' = "WAIT"
  BY DEF Link
<1> QED BY <1>1, <1>2, <1>3

LEMMA DrsStep ==
  ASSUME TypeInv, StartReadout, DrsTrigger, DrsReadout, DrsFifo
  PROVE  DrsTypes'
<1> USE ConstantTypes DEF TypeInv, DrsTypes, LinkTypes, RegisterTypes
<1>1. start_readout' \in BOOLEAN /\ drs_busy_latch' \in BOOLEAN /\ drs_trigger' \in BOOLEAN
  BY Zenon DEF StartReadout, DrsTrigger, drs_busy
<1>2. drs_state' \in {"RUNNING", "READOUT"} /\ drs_cnt' \in Nat /\ drs_event' \in 0..MAX_EVENTS
  <2>1. CASE drs_state = "RUNNING"
    BY <2>1 DEF DrsReadout
  <2>2. CASE drs_state = "READOUT"
    BY <2>2 DEF DrsReadout
  <2> QED BY <2>1, <2>2
<1>3. drs_fifo' \in Seq(0..MAX_EVENTS)
  <2> DEFINE rest == IF TakesSamples THEN Tail(drs_fifo) ELSE drs_fifo
  <2>1. rest \in Seq(0..MAX_EVENTS)
    <3>1. TakesSamples => drs_fifo # <<>>
      BY DEF TakesSamples
    <3>2. drs_fifo # <<>> => Tail(drs_fifo) \in Seq(0..MAX_EVENTS)
      OBVIOUS
    <3> QED BY <3>1, <3>2
  <2>2. drs_fifo' = <<>> \/ drs_fifo' = Append(rest, drs_event) \/ drs_fifo' = rest
    BY DEF DrsFifo
  <2> HIDE DEF rest
  <2>3. <<>> \in Seq(0..MAX_EVENTS) /\ Append(rest, drs_event) \in Seq(0..MAX_EVENTS)
    BY <2>1
  <2> QED BY <2>1, <2>2, <2>3
<1> QED BY <1>1, <1>2, <1>3

LEMMA NewEventType ==
  TypeInv => NewEvent \in Events /\ (event_queue_wr_en => NewEvent.num \in 1..MAX_EVENTS)
  BY ConstantTypes DEF TypeInv, LinkTypes, DrsTypes, LinkInv, NewEvent, Event, Events,
     event_queue_wr_en

LEMMA QueueStep ==
  ASSUME TypeInv, EventQueue, AskForEvent, DrsFifo
  PROVE  QueueTypes'
<1> USE ConstantTypes DEF TypeInv, QueueTypes, LinkTypes, RegisterTypes, SoftResetTypes,
        SoftResetTypeOK
<1>1. event_queue_rd_en' \in BOOLEAN /\ event_queue_request' \in BOOLEAN
      /\ fifo_reset' \in BOOLEAN /\ xfifo' \in Events
  BY DEF AskForEvent, MayAsk, Acknowledged, DrsFifo, daq_ready
<1>2. NewEvent \in Events /\ (event_queue_wr_en => NewEvent.num \in 1..MAX_EVENTS)
  BY NewEventType
<1>3. event_queue # <<>> => Tail(event_queue) \in Seq(Events) /\ Head(event_queue) \in Events
                            /\ Len(Tail(event_queue)) <= Len(event_queue)
  OBVIOUS
<1>4. read_pipe' \in Events /\ event_queue_dout' \in Events
  BY <1>3, NoEventIsOne DEF EventQueue, Popped
<1>5. event_queue' \in Seq(Events) /\ Len(event_queue') <= QUEUE_DEPTH
  <2> DEFINE rest == IF Popped THEN Tail(event_queue) ELSE event_queue
  <2>1. rest \in Seq(Events) /\ Len(rest) <= Len(event_queue) /\ Len(event_queue) \in Nat
    BY <1>3 DEF Popped
  <2>2. Append(rest, NewEvent) \in Seq(Events) /\ Len(Append(rest, NewEvent)) = Len(rest) + 1
    BY <1>2, <2>1
  <2>3. CASE fifo_reset
    BY <2>3 DEF EventQueue
  <2>4. CASE ~fifo_reset /\ event_queue_wr_en /\ Len(event_queue) < QUEUE_DEPTH
    <3>1. event_queue' = Append(rest, NewEvent)
      BY <2>4 DEF EventQueue
    <3> HIDE DEF rest
    <3> QED BY <3>1, <2>1, <2>2, <2>4
  <2>5. CASE ~fifo_reset /\ ~(event_queue_wr_en /\ Len(event_queue) < QUEUE_DEPTH)
    <3>1. event_queue' = rest
      BY <2>5 DEF EventQueue
    <3> HIDE DEF rest
    <3> QED BY <3>1, <2>1
  <2> QED BY <2>3, <2>4, <2>5
<1>6. queued' \subseteq 1..MAX_EVENTS
  BY <1>2 DEF EventQueue
<1> QED BY <1>1, <1>4, <1>5, <1>6

LEMMA FormatterStep ==
  ASSUME TypeInv, Formatter
  PROVE  FormatterTypes'
<1> USE ConstantTypes DEF TypeInv, FormatterTypes, QueueTypes, RegisterTypes
<1>1. daq_acknowledge' \in BOOLEAN /\ daq_event' \in Events
  BY DEF Formatter, Accepts, daq_ready
<1>2. daq_state' \in {"IDLE", "PAYLOAD", "SEND", "WAIT"} /\ daq_cnt' \in Nat
  <2>1. CASE daq_state = "IDLE"
    BY <2>1 DEF Formatter
  <2>2. CASE daq_state = "PAYLOAD"
    BY <2>2 DEF Formatter
  <2>3. CASE daq_state = "SEND"
    BY <2>3 DEF Formatter
  <2>4. CASE daq_state = "WAIT"
    BY <2>4 DEF Formatter
  <2> QED BY <2>1, <2>2, <2>3, <2>4
<1>3. sent' \subseteq 0..MAX_EVENTS
  <2>1. daq_event.num \in 0..MAX_EVENTS
    BY DEF Events
  <2> QED BY <2>1 DEF Formatter
<1>4. wrong_data' \in BOOLEAN
  BY DEF Formatter, TimesOut, TakesSamples
<1> QED BY <1>1, <1>2, <1>3, <1>4

LEMMA RegisterStep ==
  ASSUME TypeInv, NEW write, Registers(write)
  PROVE  RegisterTypes'
  BY EventPathAssumption DEF TypeInv, RegisterTypes, SoftResetTypes, SoftResetTypeOK, Registers,
     NoWrite

LEMMA TypeInit == Init => TypeInv
<1> SUFFICES ASSUME Init PROVE TypeInv
  OBVIOUS
<1>1. SoftResetTypes
  <2>1. SoftResetInit
    BY DEF Init
  <2>2. /\ {soft_rst_state, soft_rst_state_last} \subseteq SoftResetStates
        /\ soft_reset_flush_cnt \in 0..FLUSH_CNT_MAX /\ watchdog_cnt \in 0..WATCHDOG_CNT_MAX
    BY <2>1, SoftResetAssumption DEF SoftResetInit, SoftResetStates
  <2>3. /\ watchdog_timeout \in BOOLEAN /\ soft_reset_done \in BOOLEAN
        /\ soft_reset_buf \in BOOLEAN
    BY <2>1, Zenon DEF SoftResetInit
  <2> QED BY <2>2, <2>3 DEF SoftResetTypes, SoftResetTypeOK
<1>2. LinkTypes /\ LinkInv /\ RegisterTypes
  <2>1. /\ mt_state = "IDLE" /\ mt_cnt \in Nat /\ mt_event_cnt \in 0..MAX_EVENTS
        /\ writes \in 0..MAX_WRITES
    BY ConstantTypes DEF Init
  <2>2. /\ mt_fragment \in BOOLEAN /\ mt_mask_valid \in BOOLEAN /\ mt_fifo_wr_req \in BOOLEAN
        /\ trigger_enable \in BOOLEAN /\ ready_to_trigger \in BOOLEAN
        /\ daq_fragment_en \in BOOLEAN /\ ~mt_fifo_wr_req
    BY Zenon DEF Init
  <2> QED BY <2>1, <2>2, Zenon DEF LinkTypes, LinkInv, RegisterTypes
<1>3. DrsTypes
  <2>1. /\ drs_state \in {"RUNNING", "READOUT"} /\ drs_cnt \in Nat
        /\ drs_event \in 0..MAX_EVENTS /\ drs_fifo \in Seq(0..MAX_EVENTS)
    BY ConstantTypes DEF Init
  <2>2. start_readout \in BOOLEAN /\ drs_busy_latch \in BOOLEAN /\ drs_trigger \in BOOLEAN
    BY Zenon DEF Init
  <2> QED BY <2>1, <2>2 DEF DrsTypes
<1>4. QueueTypes /\ FormatterTypes
  <2>1. /\ event_queue \in Seq(Events) /\ Len(event_queue) <= QUEUE_DEPTH
        /\ daq_state \in {"IDLE", "PAYLOAD", "SEND", "WAIT"} /\ daq_cnt \in Nat
        /\ queued \subseteq 1..MAX_EVENTS /\ sent \subseteq 0..MAX_EVENTS
    BY ConstantTypes DEF Init
  <2>2. /\ event_queue_rd_en \in BOOLEAN /\ event_queue_request \in BOOLEAN
        /\ fifo_reset \in BOOLEAN /\ wrong_data \in BOOLEAN /\ daq_acknowledge \in BOOLEAN
        /\ read_pipe \in Events /\ event_queue_dout \in Events /\ xfifo \in Events
        /\ daq_event \in Events
    BY NoEventIsOne, Zenon DEF Init
  <2> QED BY <2>1, <2>2 DEF QueueTypes, FormatterTypes
<1> QED BY <1>1, <1>2, <1>3, <1>4 DEF TypeInv

LEMMA TypeStep == TypeInv /\ [Next]_vars => TypeInv'
<1> SUFFICES ASSUME TypeInv, [Next]_vars PROVE TypeInv'
  OBVIOUS
<1>1. CASE Next
  <2>1. PICK arrives \in BOOLEAN, fragment \in BOOLEAN, dma_idle \in BOOLEAN,
             write \in Writes \cup {NoWrite} : Tick(arrives, fragment, write, dma_idle)
    BY <1>1 DEF Next
  <2>2. SoftResetTypes'
    BY <2>1, SoftResetStep DEF Tick, TypeInv
  <2>3. LinkTypes' /\ LinkInv'
    BY <2>1, LinkStep DEF Tick
  <2>4. DrsTypes' /\ QueueTypes' /\ FormatterTypes'
    BY <2>1, DrsStep, QueueStep, FormatterStep DEF Tick
  <2>5. RegisterTypes'
    BY <2>1, RegisterStep DEF Tick
  <2> QED BY <2>2, <2>3, <2>4, <2>5 DEF TypeInv
<1>2. CASE UNCHANGED vars
  BY <1>2 DEF vars, linkVars, drsVars, queueVars, daqVars, regVars, history, softResetVars,
     TypeInv, SoftResetTypes, SoftResetTypeOK, LinkTypes, DrsTypes, QueueTypes,
     FormatterTypes, RegisterTypes, LinkInv
<1> QED BY <1>1, <1>2

(* Every register keeps its range and the event queue its depth, whatever    *)
(* arrives on the link and whatever software writes at whatever clock.       *)
THEOREM TypeCorrect == Spec => []TypeOK
  BY TypeInit, TypeStep, TypeParts, PTL DEF Spec

-----------------------------------------------------------------------------
(* One event on its way.                                                     *)

(* Every event between the queue and the formatter is a real one and, if it  *)
(* is a fragment, fragments are enabled.                                     *)
Wanted(event) == event.num # 0 /\ (event.fragment => daq_fragment_en)

EventsWanted ==
  /\ \A i \in 1..Len(event_queue) : Wanted(event_queue[i])
  /\ read_pipe # NoEvent => Wanted(read_pipe)
  /\ event_queue_dout # NoEvent => Wanted(event_queue_dout)
  /\ xfifo # NoEvent => Wanted(xfifo)
  /\ mt_fifo_wr_req => (mt_fragment => daq_fragment_en)

(* The places between the queue and the acknowledge, at most one of which is *)
(* taken.                                                                    *)
AtMostOne(a, b, c, d, e) ==
  /\ a => ~b /\ ~c /\ ~d /\ ~e
  /\ b => ~c /\ ~d /\ ~e
  /\ c => ~d /\ ~e
  /\ d => ~e

InPipe ==
  \/ event_queue_rd_en \/ read_pipe # NoEvent \/ event_queue_dout # NoEvent
  \/ xfifo # NoEvent

OneInPipe ==
  /\ event_queue_request <=> (InPipe \/ daq_acknowledge)
  /\ AtMostOne(event_queue_rd_en, read_pipe # NoEvent, event_queue_dout # NoEvent,
               xfifo # NoEvent, daq_acknowledge)
  /\ event_queue_rd_en => event_queue # <<>>
  /\ InPipe => daq_state = "IDLE"

(* Events are queued and read only while triggers are enabled, and the       *)
(* sequencer leaves IDLE only when they are not.                             *)
Enabled ==
  /\ event_queue # <<>> \/ event_queue_request => trigger_enable /\ ready_to_trigger
  /\ trigger_enable => soft_reset_done
  /\ soft_rst_state # "IDLE" =>
       /\ ~trigger_enable /\ ~ready_to_trigger
       /\ mt_state = "IDLE" /\ ~mt_fifo_wr_req
  /\ soft_reset_buf => soft_rst_state # "IDLE"
  /\ fifo_reset => event_queue = <<>> /\ ~event_queue_request

PathInv == EventsWanted /\ OneInPipe /\ Enabled

(* What a careful write leaves alone.                                        *)
LEMMA CarefulWrite ==
  ASSUME CAREFUL = TRUE, NEW write, Registers(write)
  PROVE  /\ ~Drained => /\ write = NoWrite
                        /\ trigger_enable' <=> trigger_enable
                        /\ daq_fragment_en' <=> daq_fragment_en
         /\ write = "soft_reset" => Drained /\ ~trigger_enable /\ ~trigger_enable'
                                    /\ ~ready_to_trigger
         /\ ready_to_trigger' <=> trigger_enable /\ soft_reset_done
<1>1. write # NoWrite => Quiet(write)
  BY DEF Registers
<1>2. /\ trigger_enable' <=> write = "enable" \/ (trigger_enable /\ write # "disable")
      /\ daq_fragment_en' <=> write = "fragment_en"
                              \/ (daq_fragment_en /\ write # "fragment_dis")
      /\ ready_to_trigger' <=> trigger_enable /\ soft_reset_done
  BY Zenon DEF Registers
<1>3. NoWrite \notin {"enable", "disable", "soft_reset", "fragment_en", "fragment_dis"}
  BY DEF NoWrite
<1> QED BY <1>1, <1>2, <1>3 DEF Quiet

(* What an edge does to the queue and to the registers behind it.            *)
LEMMA QueueEffect ==
  ASSUME TypeInv, EventQueue
  PROVE  /\ event_queue' # <<>> => event_queue # <<>> \/ event_queue_wr_en
         /\ fifo_reset => /\ event_queue' = <<>>
                          /\ read_pipe' = NoEvent /\ event_queue_dout' = NoEvent
         /\ ~fifo_reset => /\ read_pipe' = IF Popped THEN Head(event_queue) ELSE NoEvent
                           /\ event_queue_dout' = read_pipe
         /\ ~fifo_reset /\ ~Popped /\ event_queue # <<>> => event_queue' # <<>>
         /\ \A i \in 1..Len(event_queue') :
              \/ \E j \in 1..Len(event_queue) : event_queue'[i] = event_queue[j]
              \/ event_queue_wr_en /\ event_queue'[i] = NewEvent
<1> DEFINE rest == IF Popped THEN Tail(event_queue) ELSE event_queue
<1>1. event_queue \in Seq(Events)
  BY DEF TypeInv, QueueTypes
<1>2. Popped => event_queue # <<>>
  BY DEF Popped
<1>3. /\ rest \in Seq(Events) /\ (event_queue = <<>> => rest = <<>>)
      /\ \A i \in 1..Len(rest) : \E j \in 1..Len(event_queue) : rest[i] = event_queue[j]
  <2>1. CASE Popped
    <3>1. /\ Tail(event_queue) \in Seq(Events) /\ Len(Tail(event_queue)) = Len(event_queue) - 1
          /\ \A i \in 1..Len(Tail(event_queue)) : Tail(event_queue)[i] = event_queue[i + 1]
      BY <1>1, <1>2, <2>1
    <3>2. \A i \in 1..Len(Tail(event_queue)) :
            i + 1 \in 1..Len(event_queue)
      BY <1>1, <3>1
    <3> QED BY <3>1, <3>2, <1>2, <2>1
  <2>2. CASE ~Popped
    BY <2>2, <1>1
  <2> QED BY <2>1, <2>2
<1>4. /\ event_queue' = <<>> \/ event_queue' = rest
         \/ (event_queue_wr_en /\ event_queue' = Append(rest, NewEvent))
      /\ ~fifo_reset => event_queue' # <<>> \/ event_queue' = rest
  <2>1. ~fifo_reset => event_queue' = rest
                       \/ (event_queue_wr_en /\ event_queue' = Append(rest, NewEvent))
    BY DEF EventQueue
  <2>2. Append(rest, NewEvent) # <<>>
    <3> HIDE DEF rest
    <3>1. Len(Append(rest, NewEvent)) = Len(rest) + 1 /\ Len(rest) \in Nat
      BY <1>3, NewEventType
    <3> QED BY <3>1
  <2>3. fifo_reset => event_queue' = <<>>
    BY DEF EventQueue
  <2> HIDE DEF rest
  <2> QED BY <2>1, <2>2, <2>3
<1>5. event_queue' # <<>> => event_queue # <<>> \/ event_queue_wr_en
  <2> HIDE DEF rest
  <2> QED BY <1>3, <1>4
<1>6. ~fifo_reset /\ ~Popped /\ event_queue # <<>> => event_queue' # <<>>
  BY <1>4
<1>7. \A i \in 1..Len(event_queue') :
        \/ \E j \in 1..Len(event_queue) : event_queue'[i] = event_queue[j]
        \/ event_queue_wr_en /\ event_queue'[i] = NewEvent
  <2> HIDE DEF rest
  <2>1. CASE event_queue' = <<>>
    BY <2>1
  <2>2. CASE event_queue' = rest
    BY <2>2, <1>3
  <2>3. CASE event_queue_wr_en /\ event_queue' = Append(rest, NewEvent)
    <3>1. Len(event_queue') = Len(rest) + 1 /\ Len(rest) \in Nat
      BY <2>3, <1>3
    <3>2. TAKE i \in 1..Len(event_queue')
    <3>3. CASE i = Len(rest) + 1
      BY <2>3, <1>3, <3>3
    <3>4. CASE i \in 1..Len(rest)
      <4>1. event_queue'[i] = rest[i]
        BY <2>3, <1>3, <3>4
      <4> QED BY <4>1, <3>4, <1>3
    <3> QED BY <3>1, <3>3, <3>4
  <2> QED BY <1>4, <2>1, <2>2, <2>3
<1> QED BY <1>5, <1>6, <1>7 DEF EventQueue

(* What an edge does to the request.                                         *)
LEMMA RequestEffect ==
  ASSUME AskForEvent
  PROVE  /\ event_queue_rd_en' <=> MayAsk
         /\ event_queue_request' <=> MayAsk \/ (event_queue_request /\ ~daq_acknowledge)
         /\ xfifo' = event_queue_dout
  BY Zenon DEF AskForEvent, Acknowledged

(* The buffers are cleared in FLUSH only.                                    *)
LEMMA ClearEffect ==
  ASSUME NEW in, SoftResetEdge(in), soft_reset_buf'
  PROVE  soft_rst_state = "FLUSH" /\ soft_rst_state' \in {"FLUSH", "HALT"}
<1>1. ASSUME NEW from, NEW go, NEW to, Advance(from, go, to)
      PROVE  from = "FLUSH" /\ soft_rst_state = from /\ soft_rst_state' \in {from, to}
  BY <1>1, Zenon DEF Advance
<1>2. CASE SoftResetIdle(in)
  BY <1>2, Zenon DEF SoftResetIdle
<1>3. CASE WaitIdle(in)
  <2>1. PICK from \in {"AUTO_RESET", "WAIT_DRS", "WAIT_DAQ", "WAIT_DMA"} :
          \E go, to : Advance(from, go, to)
    BY <1>3, Zenon DEF WaitIdle
  <2> QED BY <1>1, <2>1
<1>4. CASE CountStates(in)
  <2> DEFINE next == [RST_POINTER |-> "FLUSH", FLUSH |-> "HALT", HALT |-> "IDLE"]
  <2>1. PICK s \in DOMAIN next : \E go : Advance(s, go, next[s])
    BY <1>4, Zenon DEF CountStates
  <2>2. s = "FLUSH" /\ soft_rst_state = s /\ soft_rst_state' \in {s, next[s]}
    BY <1>1, <2>1, Zenon
  <2> QED BY <2>2
<1> QED BY <1>2, <1>3, <1>4 DEF SoftResetEdge

(* Events are asked for, queued and kept only while triggers are enabled.    *)
LEMMA EnabledStep ==
  ASSUME CAREFUL = TRUE, TypeInv, PathInv,
         NEW arrives \in BOOLEAN, NEW fragment \in BOOLEAN, NEW dma_idle \in BOOLEAN,
         NEW write, Tick(arrives, fragment, write, dma_idle)
  PROVE  Enabled'
<1>1. /\ EventQueue /\ AskForEvent /\ Registers(write) /\ DrsFifo
      /\ Link(arrives, fragment) /\ (arrives => ready_to_trigger)
      /\ SoftResetEdge([soft_reset |-> write = "soft_reset", drs_busy |-> drs_busy,
                        daq_busy |-> daq_busy, dma_idle |-> dma_idle])
  BY DEF Tick
<1>2. Enabled
  BY DEF PathInv
<1>3. event_queue # <<>> \/ event_queue_request \/ mt_fifo_wr_req => ~Drained
  BY DEF Drained
<1>4. event_queue' # <<>> \/ event_queue_request' =>
        event_queue # <<>> \/ event_queue_request \/ event_queue_wr_en
  BY <1>1, QueueEffect, RequestEffect DEF MayAsk
<1>5. event_queue_wr_en => trigger_enable /\ mt_fifo_wr_req /\ ready_to_trigger
  BY DEF event_queue_wr_en
<1>6. event_queue' # <<>> \/ event_queue_request' => trigger_enable' /\ ready_to_trigger'
  BY <1>1, <1>2, <1>3, <1>4, <1>5, CarefulWrite DEF Enabled
<1>7. /\ soft_rst_state = "IDLE" =>
           /\ soft_reset_done' = TRUE
           /\ soft_rst_state' # "IDLE" => write = "soft_reset"
      /\ soft_rst_state # "IDLE" => ~Drained
      /\ soft_reset_buf' => soft_rst_state = "FLUSH" /\ soft_rst_state' \in {"FLUSH", "HALT"}
  <2>1. soft_rst_state = "IDLE" => soft_reset_done' = TRUE
    BY <1>1 DEF SoftResetEdge, SoftResetIdle, WaitIdle, CountStates, Advance
  <2>2. soft_rst_state = "IDLE" /\ soft_rst_state' # "IDLE" => write = "soft_reset"
    BY <1>1 DEF SoftResetEdge, SoftResetIdle, WaitIdle, CountStates, Advance
  <2>3. soft_reset_buf' => soft_rst_state = "FLUSH" /\ soft_rst_state' \in {"FLUSH", "HALT"}
    BY <1>1, ClearEffect
  <2> QED BY <2>1, <2>2, <2>3 DEF Drained
<1>8. trigger_enable' => soft_reset_done'
  BY <1>1, <1>2, <1>7, CarefulWrite DEF Enabled
<1>9. soft_rst_state' # "IDLE" =>
        /\ ~trigger_enable' /\ ~ready_to_trigger'
        /\ mt_state' = "IDLE" /\ ~mt_fifo_wr_req'
  <2> SUFFICES ASSUME soft_rst_state' # "IDLE"
               PROVE  /\ ~trigger_enable' /\ ~ready_to_trigger'
                      /\ mt_state' = "IDLE" /\ ~mt_fifo_wr_req'
    OBVIOUS
  <2>1. ~trigger_enable /\ ~ready_to_trigger /\ ~trigger_enable' /\ mt_state = "IDLE"
    BY <1>1, <1>2, <1>7, CarefulWrite DEF Enabled, Drained
  <2>2. mt_state' = "IDLE"
    BY <1>1, <2>1 DEF Link
  <2>3. ~mt_fifo_wr_req'
    BY <1>1, <2>1, Zenon DEF Link
  <2>4. ~ready_to_trigger'
    BY <1>1, <2>1, CarefulWrite
  <2> QED BY <2>1, <2>2, <2>3, <2>4
<1>10. soft_reset_buf' => soft_rst_state' # "IDLE"
  BY <1>7
<1>11. fifo_reset' => event_queue' = <<>> /\ ~event_queue_request'
  <2>1. fifo_reset' <=> soft_reset_buf
    BY <1>1, Zenon DEF DrsFifo
  <2> QED BY <2>1, <1>2, <1>4, <1>5 DEF Enabled
<1> QED BY <1>6, <1>8, <1>9, <1>10, <1>11 DEF Enabled

(* The events in the queue and behind it stay wanted.                        *)
LEMMA WantedStep ==
  ASSUME CAREFUL = TRUE, TypeInv, PathInv,
         NEW arrives \in BOOLEAN, NEW fragment \in BOOLEAN, NEW dma_idle \in BOOLEAN,
         NEW write, Tick(arrives, fragment, write, dma_idle)
  PROVE  EventsWanted'
<1>1. /\ EventQueue /\ AskForEvent /\ Registers(write) /\ Link(arrives, fragment)
  BY DEF Tick
<1>2. EventsWanted /\ OneInPipe /\ LinkInv /\ event_queue \in Seq(Events)
  BY DEF PathInv, TypeInv, QueueTypes
<1>3. ASSUME event_queue # <<>> \/ event_queue_request \/ mt_state # "IDLE"
      PROVE  daq_fragment_en => daq_fragment_en'
  BY <1>1, <1>3, CarefulWrite DEF Drained
<1>4. ASSUME NEW event, Wanted(event),
             event_queue # <<>> \/ event_queue_request \/ mt_state # "IDLE"
      PROVE  event.num # 0 /\ (event.fragment => daq_fragment_en')
  BY <1>3, <1>4 DEF Wanted
<1>5. event_queue_wr_en => mt_state # "IDLE" /\ Wanted(NewEvent)
  BY <1>2 DEF event_queue_wr_en, LinkInv, EventsWanted, Wanted, NewEvent, Event
<1>6. ASSUME NEW i \in 1..Len(event_queue')
      PROVE  event_queue'[i].num # 0 /\ (event_queue'[i].fragment => daq_fragment_en')
  <2>1. CASE event_queue_wr_en /\ event_queue'[i] = NewEvent
    BY <2>1, <1>4, <1>5
  <2>2. CASE \E j \in 1..Len(event_queue) : event_queue'[i] = event_queue[j]
    <3>1. PICK j \in 1..Len(event_queue) : event_queue'[i] = event_queue[j]
      BY <2>2
    <3>2. event_queue # <<>> /\ Wanted(event_queue[j])
      BY <1>2, <3>1 DEF EventsWanted
    <3> QED BY <3>1, <3>2, <1>4
  <2> QED BY <1>1, <1>6, <2>1, <2>2, QueueEffect
<1>7. read_pipe' # NoEvent => read_pipe'.num # 0 /\ (read_pipe'.fragment => daq_fragment_en')
  <2>1. read_pipe' # NoEvent => event_queue # <<>> /\ read_pipe' = event_queue[1]
    BY <1>1, <1>2, QueueEffect DEF Popped
  <2>2. event_queue # <<>> => Wanted(event_queue[1])
    BY <1>2 DEF EventsWanted
  <2> QED BY <2>1, <2>2, <1>4
<1>8. event_queue_dout' # NoEvent =>
        event_queue_dout'.num # 0 /\ (event_queue_dout'.fragment => daq_fragment_en')
  <2>1. event_queue_dout' # NoEvent =>
          /\ event_queue_dout' = read_pipe /\ Wanted(read_pipe) /\ event_queue_request
    BY <1>1, <1>2, QueueEffect DEF EventsWanted, OneInPipe, InPipe
  <2> QED BY <2>1, <1>4
<1>9. xfifo' # NoEvent => xfifo'.num # 0 /\ (xfifo'.fragment => daq_fragment_en')
  <2>1. xfifo' # NoEvent =>
          /\ xfifo' = event_queue_dout /\ Wanted(event_queue_dout) /\ event_queue_request
    BY <1>1, <1>2, RequestEffect DEF EventsWanted, OneInPipe, InPipe
  <2> QED BY <2>1, <1>4
<1>10. mt_fifo_wr_req' => (mt_fragment' => daq_fragment_en')
  <2>1. mt_fifo_wr_req' => mt_state = "EVENTCNT" /\ (mt_fragment => daq_fragment_en)
    BY <1>1, Zenon DEF Link
  <2>2. mt_state = "EVENTCNT" => mt_fragment' = mt_fragment
    BY <1>1 DEF Link
  <2> QED BY <2>1, <2>2, <1>3
<1> QED BY <1>6, <1>7, <1>8, <1>9, <1>10 DEF EventsWanted, Wanted

(* The stages an event goes through, one after the other.                    *)
LEMMA PipeStep ==
  ASSUME CAREFUL = TRUE, TypeInv, PathInv,
         NEW arrives \in BOOLEAN, NEW fragment \in BOOLEAN, NEW dma_idle \in BOOLEAN,
         NEW write, Tick(arrives, fragment, write, dma_idle)
  PROVE  OneInPipe'
<1>1. EventQueue /\ AskForEvent /\ Formatter
  BY DEF Tick
<1>2. EventsWanted /\ OneInPipe /\ Enabled /\ event_queue \in Seq(Events)
  BY DEF PathInv, TypeInv, QueueTypes
<1>3. /\ daq_acknowledge' <=> Accepts
      /\ daq_state = "IDLE" /\ ~Accepts => daq_state' = "IDLE"
      /\ Accepts => daq_state = "IDLE" /\ xfifo # NoEvent
  <2>1. daq_acknowledge' <=> Accepts
    BY <1>1, Zenon DEF Formatter
  <2>2. daq_state = "IDLE" /\ ~Accepts => daq_state' = "IDLE"
    BY <1>1 DEF Formatter
  <2> QED BY <2>1, <2>2 DEF Accepts, daq_ready
<1>4. xfifo # NoEvent => Accepts
  BY <1>2 DEF Accepts, daq_ready, OneInPipe, InPipe, EventsWanted, Wanted, Enabled
<1>5. CASE ~event_queue_request
  <2>1. /\ ~event_queue_rd_en /\ read_pipe = NoEvent /\ event_queue_dout = NoEvent
        /\ xfifo = NoEvent /\ ~daq_acknowledge
    BY <1>2, <1>5 DEF OneInPipe, InPipe
  <2>2. /\ read_pipe' = NoEvent /\ event_queue_dout' = NoEvent /\ xfifo' = NoEvent
        /\ ~daq_acknowledge'
    BY <1>1, <1>3, <2>1, QueueEffect, RequestEffect DEF Popped
  <2>3. (event_queue_rd_en' <=> MayAsk) /\ (event_queue_request' <=> MayAsk)
    BY <1>1, <1>5, RequestEffect
  <2>4. MayAsk => event_queue' # <<>> /\ daq_state' = "IDLE"
    BY <1>1, <1>2, <1>3, <2>1, QueueEffect DEF MayAsk, daq_ready, Enabled, Popped
  <2> QED BY <2>2, <2>3, <2>4 DEF OneInPipe, InPipe, AtMostOne
<1>6. CASE event_queue_request
  <2>1. ~fifo_reset /\ ~MayAsk
    BY <1>2, <1>6 DEF Enabled, MayAsk
  <2>2. /\ ~event_queue_rd_en' /\ (event_queue_request' <=> ~daq_acknowledge)
        /\ xfifo' = event_queue_dout /\ event_queue_dout' = read_pipe
        /\ read_pipe' = IF Popped THEN Head(event_queue) ELSE NoEvent
    BY <1>1, <1>6, <2>1, QueueEffect, RequestEffect
  <2>3. Popped <=> event_queue_rd_en
    BY <1>2 DEF Popped, OneInPipe
  <2>4. event_queue_rd_en => Head(event_queue) # NoEvent
    <3>1. event_queue # <<>> => Wanted(Head(event_queue))
      BY <1>2 DEF EventsWanted
    <3> QED BY <3>1, <1>2 DEF OneInPipe, Wanted, NoEvent, Event
  <2>5. /\ event_queue_rd_en \/ read_pipe # NoEvent \/ event_queue_dout # NoEvent
           \/ xfifo # NoEvent \/ daq_acknowledge
        /\ AtMostOne(event_queue_rd_en, read_pipe # NoEvent, event_queue_dout # NoEvent,
                     xfifo # NoEvent, daq_acknowledge)
        /\ InPipe => daq_state = "IDLE"
    BY <1>2, <1>6 DEF OneInPipe, InPipe
  <2>6. (read_pipe' # NoEvent <=> event_queue_rd_en)
        /\ (event_queue_dout' # NoEvent <=> read_pipe # NoEvent)
        /\ (xfifo' # NoEvent <=> event_queue_dout # NoEvent)
        /\ (daq_acknowledge' <=> xfifo # NoEvent)
    BY <1>3, <1>4, <2>2, <2>3, <2>4
  <2>7. InPipe' => daq_state' = "IDLE"
    BY <1>3, <2>2, <2>5, <2>6 DEF InPipe, AtMostOne
  <2> QED BY <2>2, <2>5, <2>6, <2>7 DEF OneInPipe, InPipe, AtMostOne
<1> QED BY <1>5, <1>6

LEMMA PathInvOne == PathInv => OneOnItsWay
<1> SUFFICES ASSUME PathInv PROVE OneOnItsWay
  OBVIOUS
<1>2. OneInPipe
  BY DEF PathInv
<1>3. CASE ~event_queue_request
  BY <1>2, <1>3 DEF OneInPipe, InPipe, AtMostOne, OneOnItsWay
<1>4. CASE event_queue_request /\ event_queue_rd_en
  BY <1>2, <1>4 DEF OneInPipe, InPipe, AtMostOne, OneOnItsWay
<1>5. CASE event_queue_request /\ read_pipe # NoEvent
  BY <1>2, <1>5 DEF OneInPipe, InPipe, AtMostOne, OneOnItsWay
<1>6. CASE event_queue_request /\ event_queue_dout # NoEvent
  BY <1>2, <1>6 DEF OneInPipe, InPipe, AtMostOne, OneOnItsWay
<1>7. CASE event_queue_request /\ xfifo # NoEvent
  BY <1>2, <1>7 DEF OneInPipe, InPipe, AtMostOne, OneOnItsWay
<1>8. CASE event_queue_request /\ daq_acknowledge
  BY <1>2, <1>8 DEF OneInPipe, InPipe, AtMostOne, OneOnItsWay
<1> QED BY <1>2, <1>3, <1>4, <1>5, <1>6, <1>7, <1>8 DEF OneInPipe, InPipe

(* The invariant holds initially and after every edge.                       *)
LEMMA PathInit == Init => TypeInv /\ PathInv
<1> SUFFICES ASSUME Init PROVE TypeInv /\ PathInv
  OBVIOUS
<1>1. EventsWanted
  BY DEF Init, EventsWanted
<1>2. OneInPipe
  BY Zenon DEF Init, OneInPipe, InPipe, AtMostOne
<1>3. Enabled
  BY Zenon DEF Init, SoftResetInit, Enabled
<1> QED BY <1>1, <1>2, <1>3, TypeInit DEF PathInv

LEMMA PathStep == CAREFUL = TRUE /\ TypeInv /\ PathInv /\ [Next]_vars => TypeInv' /\ PathInv'
<1> SUFFICES ASSUME CAREFUL = TRUE, TypeInv, PathInv, [Next]_vars PROVE TypeInv' /\ PathInv'
  OBVIOUS
<1>1. CASE Next
  <2>1. PICK arrives \in BOOLEAN, fragment \in BOOLEAN, dma_idle \in BOOLEAN,
             write \in Writes \cup {NoWrite} : Tick(arrives, fragment, write, dma_idle)
    BY <1>1 DEF Next
  <2> QED BY <2>1, EnabledStep, WantedStep, PipeStep, TypeStep DEF PathInv
<1>2. CASE UNCHANGED vars
  BY <1>2, TypeStep DEF vars, linkVars, drsVars, queueVars, daqVars, regVars, history,
     softResetVars, PathInv, EventsWanted, Wanted, OneInPipe, InPipe, AtMostOne, Enabled
<1> QED BY <1>1, <1>2

(* When software writes to a quiet board only, no event is overwritten or    *)
(* dropped between the queue and the formatter, and every open request has   *)
(* its event: for every depth of the queue and every duration of a packet.   *)
THEOREM OneOnItsWayCorrect == CAREFUL = TRUE => (Spec => []OneOnItsWay)
<1> SUFFICES ASSUME CAREFUL = TRUE PROVE Spec => []OneOnItsWay
  OBVIOUS
<1>1. TypeInv /\ PathInv /\ [Next]_vars => TypeInv' /\ PathInv'
  BY PathStep
<1> QED BY <1>1, PathInit, PathInvOne, PTL DEF Spec

-----------------------------------------------------------------------------
(* The samples and the events they belong to.                                *)

(* An event is not lost at the queue.                                        *)
NeverFull == event_queue_wr_en => Len(event_queue) < QUEUE_DEPTH

(* Where the receiver is in a packet, and what has left it.                  *)
LinkPhase ==
  /\ mt_state \in {"IDLE", "MASK"} => mt_cnt = 0
  /\ mt_mask_valid <=> mt_state = "EVENTCNT" /\ mt_cnt = 0
  /\ start_readout <=> mt_state = "EVENTCNT" /\ mt_cnt = 1
  /\ drs_trigger => mt_state = "EVENTCNT" /\ mt_cnt = 2 /\ drs_state = "RUNNING"
  /\ mt_state = "EVENTCNT" \/ mt_fifo_wr_req => (trigger_enable <=> ready_to_trigger)

(* A soft reset, and the clear that follows it, find a board at rest.        *)
AtRest ==
  /\ mt_state = "IDLE" /\ ~mt_fifo_wr_req /\ ~trigger_enable /\ ~ready_to_trigger
  /\ ~drs_trigger /\ drs_state = "RUNNING" /\ drs_fifo = <<>>
  /\ daq_state = "IDLE"

Silence == soft_rst_state # "IDLE" \/ fifo_reset => AtRest

(* The number of the last event that the link has handed over: the one that  *)
(* is coming in is not counted yet.                                          *)
Incoming == mt_state \in {"MASK", "EVENTCNT"} \/ mt_fifo_wr_req
Closed   == IF Incoming THEN mt_event_cnt - 1 ELSE mt_event_cnt

(* Events are queued, and leave the queue, in the order of their numbers.    *)
EventOrder ==
  /\ \A i, j \in 1..Len(event_queue) : i < j => event_queue[i].num < event_queue[j].num
  /\ \A i \in 1..Len(event_queue) :
       /\ event_queue[i].num <= Closed
       /\ read_pipe.num < event_queue[i].num /\ event_queue_dout.num < event_queue[i].num
       /\ xfifo.num < event_queue[i].num
       /\ daq_state = "PAYLOAD" => daq_event.num < event_queue[i].num
  /\ read_pipe.num <= Closed /\ event_queue_dout.num <= Closed /\ xfifo.num <= Closed
  /\ daq_state = "PAYLOAD" => daq_event.num \in 1..Closed

(* So do the samples.                                                        *)
SampleOrder ==
  /\ \A i, j \in 1..Len(drs_fifo) : i < j => drs_fifo[i] < drs_fifo[j]
  /\ \A i \in 1..Len(drs_fifo) :
       /\ drs_fifo[i] # 0
       /\ drs_state = "READOUT" => drs_fifo[i] < drs_event
       /\ drs_trigger => drs_fifo[i] < mt_event_cnt
  /\ drs_state = "READOUT" => drs_event # 0

(* The event on the link for which the DRS was started, and which goes into  *)
(* the queue as one with samples.                                            *)
LinkOwes ==
  /\ trigger_enable /\ ~mt_fragment /\ ~drs_busy_latch
  /\ (mt_state = "EVENTCNT" /\ mt_cnt >= 2) \/ mt_fifo_wr_req

(* Event num is on its way and waits for samples; samples of num are there.  *)
Owes(num) ==
  \/ \E i \in 1..Len(event_queue) : HasData(event_queue[i]) /\ event_queue[i].num = num
  \/ HasData(read_pipe) /\ read_pipe.num = num
  \/ HasData(event_queue_dout) /\ event_queue_dout.num = num
  \/ HasData(xfifo) /\ xfifo.num = num
  \/ daq_state = "PAYLOAD" /\ daq_event.num = num
  \/ LinkOwes /\ mt_event_cnt = num

HasSamples(num) ==
  \/ \E i \in 1..Len(drs_fifo) : drs_fifo[i] = num
  \/ drs_state = "READOUT" /\ drs_event = num
  \/ drs_trigger /\ mt_event_cnt = num

Matched == \A num \in 1..MAX_EVENTS : HasSamples(num) <=> Owes(num)

(* The formatter waits for its samples no longer than the DRS reads.         *)
InTime ==
  /\ drs_state = "READOUT" => drs_cnt <= PAYLOAD_TIMEOUT_MAX - 4
  /\ daq_state = "PAYLOAD" /\ drs_state = "READOUT" /\ drs_event = daq_event.num =>
       daq_cnt + drs_cnt < PAYLOAD_TIMEOUT_MAX


SampleInv == /\ LinkPhase /\ Silence /\ EventOrder /\ SampleOrder /\ Matched /\ InTime
             /\ OwnSamples

(* A register whose event has the number 0 is empty.                         *)
LEMMA EmptyIsZero == NoEvent.num = 0
  BY DEF NoEvent, Event

(* The elements of a sequence over S are in S.                               *)
LEMMA ElementTypes ==
  ASSUME NEW S, NEW s \in Seq(S)
  PROVE  \A i \in 1..Len(s) : s[i] \in S
  OBVIOUS

(* Numbers of events are naturals.                                           *)
LEMMA NumTypes ==
  ASSUME TypeInv
  PROVE  /\ \A i \in 1..Len(event_queue) : event_queue[i].num \in 0..MAX_EVENTS
         /\ read_pipe.num \in 0..MAX_EVENTS /\ event_queue_dout.num \in 0..MAX_EVENTS
         /\ xfifo.num \in 0..MAX_EVENTS /\ daq_event.num \in 0..MAX_EVENTS
         /\ mt_event_cnt \in 0..MAX_EVENTS /\ drs_event \in 0..MAX_EVENTS
         /\ \A i \in 1..Len(drs_fifo) : drs_fifo[i] \in 0..MAX_EVENTS
         /\ Len(event_queue) \in Nat /\ Len(drs_fifo) \in Nat /\ MAX_EVENTS \in Nat
         /\ drs_cnt \in Nat /\ daq_cnt \in Nat /\ mt_cnt \in Nat
<1>1. /\ event_queue \in Seq(Events) /\ read_pipe \in Events /\ event_queue_dout \in Events
      /\ xfifo \in Events /\ daq_event \in Events /\ drs_fifo \in Seq(0..MAX_EVENTS)
      /\ mt_event_cnt \in 0..MAX_EVENTS /\ drs_event \in 0..MAX_EVENTS
      /\ drs_cnt \in Nat /\ daq_cnt \in Nat /\ mt_cnt \in Nat
  BY DEF TypeInv, QueueTypes, FormatterTypes, DrsTypes, LinkTypes
<1>2. \A event \in Events : event.num \in 0..MAX_EVENTS
  BY DEF Events
<1>3. \A i \in 1..Len(event_queue) : event_queue[i] \in Events
  BY <1>1
<1>4. \A i \in 1..Len(drs_fifo) : drs_fifo[i] \in 0..MAX_EVENTS
  <2>1. drs_fifo \in Seq(0..MAX_EVENTS)
    BY <1>1
  <2> QED BY <2>1, ElementTypes
<1>5. Len(event_queue) \in Nat /\ Len(drs_fifo) \in Nat
  BY <1>1
<1>6. \A i \in 1..Len(event_queue) : event_queue[i].num \in 0..MAX_EVENTS
  BY <1>2, <1>3
<1>7. /\ read_pipe.num \in 0..MAX_EVENTS /\ event_queue_dout.num \in 0..MAX_EVENTS
      /\ xfifo.num \in 0..MAX_EVENTS /\ daq_event.num \in 0..MAX_EVENTS
  BY <1>1, <1>2
<1> HIDE <1>2, <1>3
<1> QED BY <1>1, <1>4, <1>5, <1>6, <1>7, ConstantTypes, Zenon

(* What an edge does to the receiver: nothing but a start bit brings it out  *)
(* of IDLE, and the count of closed events never goes back.                  *)
LEMMA LinkEffect ==
  ASSUME TypeInv, LinkPhase, NEW arrives \in BOOLEAN, NEW fragment \in BOOLEAN,
         Link(arrives, fragment)
  PROVE  /\ mt_mask_valid' <=> mt_state = "MASK"
         /\ mt_fifo_wr_req' <=> /\ mt_state = "EVENTCNT" /\ mt_cnt = BODY_CLKS
                                /\ mt_fragment => daq_fragment_en
         /\ mt_state' \in {"IDLE", "MASK"} => mt_cnt' = 0
         /\ mt_state = "MASK" => mt_state' = "EVENTCNT" /\ mt_cnt' = 0
         /\ mt_state = "EVENTCNT" /\ mt_cnt # BODY_CLKS =>
              mt_state' = "EVENTCNT" /\ mt_cnt' = mt_cnt + 1
         /\ mt_state = "EVENTCNT" /\ mt_cnt = BODY_CLKS => mt_state' = "WAIT"
         /\ mt_state # "IDLE" => mt_event_cnt' = mt_event_cnt /\ (mt_fragment' <=> mt_fragment)
         /\ mt_state' = "EVENTCNT" => mt_state \in {"MASK", "EVENTCNT"}
         /\ mt_state = "IDLE" /\ ~arrives => mt_state' = "IDLE"
         /\ mt_state = "IDLE" => mt_state' \in {"IDLE", "MASK"}
<1> USE DEF TypeInv, LinkTypes
<1>1. mt_mask_valid' <=> mt_state = "MASK"
  BY Zenon DEF Link
<1>2. mt_fifo_wr_req' <=> /\ mt_state = "EVENTCNT" /\ mt_cnt = BODY_CLKS
                          /\ mt_fragment => daq_fragment_en
  BY Zenon DEF Link
<1>3. CASE mt_state = "IDLE"
  BY <1>1, <1>2, <1>3 DEF Link, LinkPhase
<1>4. CASE mt_state = "MASK"
  BY <1>1, <1>2, <1>4 DEF Link, LinkPhase
<1>5. CASE mt_state = "EVENTCNT"
  BY <1>1, <1>2, <1>5 DEF Link, NextCount
<1>6. CASE mt_state = "WAIT"
  BY <1>1, <1>2, <1>6 DEF Link, NextCount
<1> QED BY <1>3, <1>4, <1>5, <1>6

LEMMA ClosedStep ==
  ASSUME TypeInv, LinkPhase, NEW arrives \in BOOLEAN, NEW fragment \in BOOLEAN,
         Link(arrives, fragment)
  PROVE  /\ Closed \in Int /\ Closed' \in Int /\ Closed <= Closed'
         /\ mt_fifo_wr_req => Closed' = mt_event_cnt /\ Closed = mt_event_cnt - 1
         /\ Closed <= mt_event_cnt
<1>1. mt_event_cnt \in Nat /\ mt_state \in {"IDLE", "MASK", "EVENTCNT", "WAIT"}
      /\ (mt_fifo_wr_req => mt_state = "WAIT")
  BY ConstantTypes DEF TypeInv, LinkTypes, LinkInv
<1>2. mt_fifo_wr_req' => mt_state = "EVENTCNT"
  BY LinkEffect
<1>3. CASE mt_state = "IDLE"
  BY <1>1, <1>2, <1>3 DEF Link, Closed, Incoming
<1>4. CASE mt_state = "MASK"
  BY <1>1, <1>2, <1>4 DEF Link, Closed, Incoming
<1>5. CASE mt_state = "EVENTCNT"
  BY <1>1, <1>2, <1>5 DEF Link, Closed, Incoming
<1>6. CASE mt_state = "WAIT"
  BY <1>1, <1>2, <1>6 DEF Link, Closed, Incoming
<1> QED BY <1>1, <1>3, <1>4, <1>5, <1>6

(* What an edge does to the signals that start the DRS.                      *)
LEMMA StartEffect ==
  ASSUME StartReadout, DrsTrigger
  PROVE  /\ start_readout' <=> mt_mask_valid
         /\ start_readout => (drs_busy_latch' <=> drs_busy)
         /\ ~start_readout => (drs_busy_latch' <=> drs_busy_latch)
         /\ drs_trigger' <=> start_readout /\ ready_to_trigger /\ ~mt_fragment /\ ~drs_busy
<1>1. (start_readout' <=> mt_mask_valid)
      /\ (drs_trigger' <=> start_readout /\ ready_to_trigger /\ ~mt_fragment /\ ~drs_busy)
  BY Zenon DEF StartReadout, DrsTrigger
<1>2. start_readout => (drs_busy_latch' <=> drs_busy)
  BY Zenon DEF StartReadout
<1>3. ~start_readout => (drs_busy_latch' <=> drs_busy_latch)
  BY Zenon DEF StartReadout
<1> QED BY <1>1, <1>2, <1>3

(* The readout starts in the clock after the mask's, the latch is set in the *)
(* same clock, and the triggers stay enabled, or not, until the event count. *)
LEMMA LinkPhaseStep ==
  ASSUME CAREFUL = TRUE, TypeInv, PathInv, SampleInv,
         NEW arrives \in BOOLEAN, NEW fragment \in BOOLEAN, NEW dma_idle \in BOOLEAN,
         NEW write, Tick(arrives, fragment, write, dma_idle)
  PROVE  LinkPhase'
<1>1. /\ Link(arrives, fragment) /\ StartReadout /\ DrsTrigger /\ DrsReadout /\ Registers(write)
  BY DEF Tick
<1>2. LinkPhase /\ Enabled /\ BODY_CLKS \in Nat /\ BODY_CLKS >= 3
  BY EventPathAssumption DEF SampleInv, PathInv
<1>3. mt_state' \in {"IDLE", "MASK"} => mt_cnt' = 0
  BY <1>1, <1>2, LinkEffect
<1>4. mt_mask_valid' <=> mt_state' = "EVENTCNT" /\ mt_cnt' = 0
  BY <1>1, <1>2, LinkEffect, NumTypes
<1>5. start_readout' <=> mt_state' = "EVENTCNT" /\ mt_cnt' = 1
  BY <1>1, <1>2, LinkEffect, StartEffect, NumTypes DEF LinkPhase
<1>6. drs_trigger' => mt_state' = "EVENTCNT" /\ mt_cnt' = 2 /\ drs_state' = "RUNNING"
  <2> SUFFICES ASSUME drs_trigger'
               PROVE  mt_state' = "EVENTCNT" /\ mt_cnt' = 2 /\ drs_state' = "RUNNING"
    OBVIOUS
  <2>1. start_readout /\ drs_state = "RUNNING" /\ mt_state = "EVENTCNT" /\ mt_cnt = 1
    BY <1>1, <1>2, StartEffect DEF drs_busy, LinkPhase
  <2>2. ~drs_trigger
    BY <2>1, <1>2 DEF LinkPhase
  <2>3. drs_state' = "RUNNING"
    BY <1>1, <2>1, <2>2 DEF DrsReadout
  <2> QED BY <1>1, <1>2, <2>1, <2>3, LinkEffect
<1>7. mt_state' = "EVENTCNT" \/ mt_fifo_wr_req' => (trigger_enable' <=> ready_to_trigger')
  <2>1. mt_state' = "EVENTCNT" \/ mt_fifo_wr_req' => mt_state # "IDLE"
    BY <1>1, <1>2, LinkEffect
  <2>2. mt_state # "IDLE" => ~Drained
    BY DEF Drained
  <2> QED BY <1>1, <1>2, <2>1, <2>2, CarefulWrite DEF Enabled
<1> QED BY <1>3, <1>4, <1>5, <1>6, <1>7 DEF LinkPhase

(* Nothing waits in a drained board.                                         *)
LEMMA DrainedEmpty ==
  ASSUME TypeInv, PathInv, SampleInv, Drained
  PROVE  drs_fifo = <<>>
<1> SUFFICES ASSUME drs_fifo # <<>> PROVE FALSE
  OBVIOUS
<1>1. drs_fifo[1] \in 1..MAX_EVENTS /\ 1 \in 1..Len(drs_fifo)
  <2>1. drs_fifo \in Seq(0..MAX_EVENTS)
    BY DEF TypeInv, DrsTypes
  <2>2. 1 \in 1..Len(drs_fifo)
    BY <2>1
  <2>3. drs_fifo[1] # 0
    BY <2>2 DEF SampleInv, SampleOrder
  <2> QED BY <2>2, <2>3, NumTypes
<1>2. Owes(drs_fifo[1])
  <2>1. HasSamples(drs_fifo[1])
    BY <1>1 DEF HasSamples
  <2> QED BY <1>1, <2>1 DEF SampleInv, Matched
<1>3. /\ read_pipe.num = 0 /\ event_queue_dout.num = 0 /\ xfifo.num = 0
  BY EmptyIsZero DEF Drained, PathInv, OneInPipe, InPipe
<1>4. /\ \A i \in 1..Len(event_queue) : FALSE
      /\ daq_state # "PAYLOAD" /\ ~LinkOwes
  BY DEF Drained, LinkOwes
<1> QED BY <1>1, <1>2, <1>3, <1>4 DEF Owes

(* A board at rest stays at rest while triggers are off.                     *)
LEMMA RestStays ==
  ASSUME TypeInv, PathInv, LinkPhase, CAREFUL = TRUE, AtRest,
         NEW arrives \in BOOLEAN, NEW fragment \in BOOLEAN, NEW dma_idle \in BOOLEAN,
         NEW write, Tick(arrives, fragment, write, dma_idle), ~trigger_enable'
  PROVE  AtRest'
<1>1. /\ Link(arrives, fragment) /\ StartReadout /\ DrsTrigger /\ DrsReadout /\ Registers(write)
      /\ Formatter /\ DrsFifo /\ (arrives => ready_to_trigger)
  BY DEF Tick
<1>2. mt_state' = "IDLE" /\ ~mt_fifo_wr_req'
  BY <1>1, LinkEffect DEF AtRest
<1>3. ~start_readout /\ ~drs_trigger' /\ drs_state' = "RUNNING"
  BY <1>1, StartEffect DEF LinkPhase, AtRest, DrsReadout
<1>4. ~ready_to_trigger'
  BY <1>1, CarefulWrite DEF AtRest
<1>5. daq_state' = "IDLE"
  <2>1. xfifo = NoEvent
    BY DEF AtRest, PathInv, Enabled, OneInPipe, InPipe
  <2> QED BY <1>1, <2>1 DEF Formatter, Accepts, AtRest
<1>6. drs_fifo' = <<>>
  BY <1>1 DEF DrsFifo, TakesSamples, AtRest
<1> QED BY <1>2, <1>3, <1>4, <1>5, <1>6 DEF AtRest

LEMMA SilenceStep ==
  ASSUME CAREFUL = TRUE, TypeInv, PathInv, SampleInv,
         NEW arrives \in BOOLEAN, NEW fragment \in BOOLEAN, NEW dma_idle \in BOOLEAN,
         NEW write, Tick(arrives, fragment, write, dma_idle)
  PROVE  Silence'
<1> SUFFICES ASSUME soft_rst_state' # "IDLE" \/ fifo_reset' PROVE AtRest'
  BY DEF Silence
<1>1. /\ Registers(write) /\ DrsFifo
      /\ SoftResetEdge([soft_reset |-> write = "soft_reset", drs_busy |-> drs_busy,
                        daq_busy |-> daq_busy, dma_idle |-> dma_idle])
  BY DEF Tick
<1>2. Enabled /\ Silence /\ LinkPhase
  BY DEF PathInv, SampleInv
<1>3. CASE soft_rst_state # "IDLE"
  <2>1. ~Drained /\ AtRest
    BY <1>2, <1>3 DEF Drained, Silence
  <2>2. ~trigger_enable'
    BY <1>1, <2>1, CarefulWrite DEF AtRest
  <2> QED BY <1>2, <2>1, <2>2, RestStays
<1>4. CASE soft_rst_state = "IDLE"
  <2>1. fifo_reset' <=> soft_reset_buf
    BY <1>1, Zenon DEF DrsFifo
  <2>2. soft_rst_state' # "IDLE"
    BY <1>2, <1>4, <2>1 DEF Enabled
  <2>3. write = "soft_reset"
    BY <1>1, <1>4, <2>2 DEF SoftResetEdge, SoftResetIdle, WaitIdle, CountStates, Advance
  <2>4. Drained /\ ~trigger_enable /\ ~trigger_enable' /\ ~ready_to_trigger
    BY <1>1, <2>3, CarefulWrite
  <2>5. AtRest
    BY <2>4, DrainedEmpty DEF AtRest, Drained
  <2> QED BY <1>2, <2>4, <2>5, RestStays
<1> QED BY <1>3, <1>4

(* What an edge does to the queue, element by element: `drop` of them leave  *)
(* at the head.                                                              *)
LEMMA QueueShape ==
  ASSUME TypeInv, PathInv, Silence, NeverFull, EventQueue,
         NEW drop, drop = IF Popped THEN 1 ELSE 0
  PROVE  /\ drop \in Nat /\ (Popped => event_queue # <<>>)
         /\ \A i \in 1..Len(event_queue') :
              \/ i + drop \in 1..Len(event_queue) /\ event_queue'[i] = event_queue[i + drop]
              \/ event_queue_wr_en /\ i = Len(event_queue') /\ event_queue'[i] = NewEvent
         /\ \A j \in 1..Len(event_queue) :
              \/ Popped /\ j = 1
              \/ j - drop \in 1..Len(event_queue') /\ event_queue'[j - drop] = event_queue[j]
         /\ event_queue_wr_en => /\ Len(event_queue') \in 1..Len(event_queue')
                                 /\ event_queue'[Len(event_queue')] = NewEvent
         /\ Len(event_queue') \in Nat
<1> DEFINE rest == IF Popped THEN Tail(event_queue) ELSE event_queue
<1>1. event_queue \in Seq(Events) /\ Len(event_queue) \in Nat /\ NewEvent \in Events
  BY NewEventType DEF TypeInv, QueueTypes
<1>2. Popped => event_queue # <<>>
  BY DEF Popped
<1>3. /\ rest \in Seq(Events) /\ Len(rest) = Len(event_queue) - drop /\ Len(rest) \in Nat
      /\ \A i \in 1..Len(rest) : rest[i] = event_queue[i + drop]
  <2>1. CASE Popped
    BY <1>1, <1>2, <2>1
  <2>2. CASE ~Popped
    BY <1>1, <2>2
  <2> QED BY <2>1, <2>2
<1>4. event_queue' = IF event_queue_wr_en THEN Append(rest, NewEvent) ELSE rest
  <2>1. CASE fifo_reset
    <3>1. AtRest /\ event_queue = <<>>
      BY <2>1 DEF Silence, PathInv, Enabled
    <3>2. ~event_queue_wr_en /\ ~Popped
      BY <3>1 DEF AtRest, event_queue_wr_en, Popped
    <3> QED BY <2>1, <3>1, <3>2 DEF EventQueue
  <2>2. CASE ~fifo_reset
    BY <2>2 DEF EventQueue, NeverFull
  <2> QED BY <2>1, <2>2
<1>5. drop \in Nat /\ (Popped => drop = 1) /\ (~Popped => drop = 0)
  OBVIOUS
<1> HIDE DEF rest
<1>6. CASE ~event_queue_wr_en
  BY <1>1, <1>2, <1>3, <1>4, <1>5, <1>6
<1>7. CASE event_queue_wr_en
  <2>1. /\ Len(event_queue') = Len(rest) + 1
        /\ event_queue'[Len(rest) + 1] = NewEvent
        /\ \A i \in 1..Len(rest) : event_queue'[i] = rest[i]
    BY <1>1, <1>3, <1>4, <1>7
  <2> QED BY <1>1, <1>2, <1>3, <1>5, <1>7, <2>1
<1> QED BY <1>6, <1>7

(* The same for the samples.                                                 *)
LEMMA FifoShape ==
  ASSUME TypeInv, PathInv, Silence, DrsFifo,
         NEW drop, drop = IF TakesSamples THEN 1 ELSE 0
  PROVE  /\ drop \in Nat /\ (TakesSamples => drs_fifo # <<>>)
         /\ \A i \in 1..Len(drs_fifo') :
              \/ i + drop \in 1..Len(drs_fifo) /\ drs_fifo'[i] = drs_fifo[i + drop]
              \/ /\ drs_state = "READOUT" /\ drs_cnt = 0
                 /\ i = Len(drs_fifo') /\ drs_fifo'[i] = drs_event
         /\ \A j \in 1..Len(drs_fifo) :
              \/ TakesSamples /\ j = 1
              \/ j - drop \in 1..Len(drs_fifo') /\ drs_fifo'[j - drop] = drs_fifo[j]
         /\ drs_state = "READOUT" /\ drs_cnt = 0 =>
              Len(drs_fifo') \in 1..Len(drs_fifo') /\ drs_fifo'[Len(drs_fifo')] = drs_event
         /\ Len(drs_fifo') \in Nat
<1> DEFINE rest == IF TakesSamples THEN Tail(drs_fifo) ELSE drs_fifo
<1>1. drs_fifo \in Seq(0..MAX_EVENTS) /\ Len(drs_fifo) \in Nat /\ drs_event \in 0..MAX_EVENTS
  BY DEF TypeInv, DrsTypes
<1>2. TakesSamples => drs_fifo # <<>>
  BY DEF TakesSamples
<1>3. /\ rest \in Seq(0..MAX_EVENTS) /\ Len(rest) = Len(drs_fifo) - drop /\ Len(rest) \in Nat
      /\ \A i \in 1..Len(rest) : rest[i] = drs_fifo[i + drop]
  <2>1. CASE TakesSamples
    BY <1>1, <1>2, <2>1
  <2>2. CASE ~TakesSamples
    BY <1>1, <2>2
  <2> QED BY <2>1, <2>2
<1>4. drs_fifo' = IF drs_state = "READOUT" /\ drs_cnt = 0 THEN Append(rest, drs_event) ELSE rest
  <2>1. CASE fifo_reset
    BY <2>1 DEF Silence, AtRest, DrsFifo, TakesSamples
  <2>2. CASE ~fifo_reset
    BY <2>2 DEF DrsFifo
  <2> QED BY <2>1, <2>2
<1>5. drop \in Nat /\ (TakesSamples => drop = 1) /\ (~TakesSamples => drop = 0)
  OBVIOUS
<1> HIDE DEF rest
<1>6. CASE ~(drs_state = "READOUT" /\ drs_cnt = 0)
  BY <1>1, <1>2, <1>3, <1>4, <1>5, <1>6
<1>7. CASE drs_state = "READOUT" /\ drs_cnt = 0
  <2>1. /\ Len(drs_fifo') = Len(rest) + 1
        /\ drs_fifo'[Len(rest) + 1] = drs_event
        /\ \A i \in 1..Len(rest) : drs_fifo'[i] = rest[i]
    BY <1>1, <1>3, <1>4, <1>7
  <2> QED BY <1>1, <1>2, <1>3, <1>5, <1>7, <2>1
<1> QED BY <1>6, <1>7

(* What an edge does to the registers between the queue and the formatter,   *)
(* for the numbers of the events.                                            *)
LEMMA PipeEffect ==
  ASSUME TypeInv, PathInv, Silence, EventQueue, AskForEvent
  PROVE  /\ read_pipe' = IF Popped THEN event_queue[1] ELSE NoEvent
         /\ event_queue_dout' = read_pipe /\ xfifo' = event_queue_dout
<1>1. CASE fifo_reset
  <2>1. /\ event_queue = <<>> /\ read_pipe = NoEvent /\ event_queue_dout = NoEvent
    BY <1>1 DEF PathInv, Enabled, OneInPipe, InPipe
  <2> QED BY <1>1, <2>1, QueueEffect, RequestEffect DEF Popped
<1>2. CASE ~fifo_reset
  BY <1>2, QueueEffect, RequestEffect
<1> QED BY <1>1, <1>2

(* An event is accepted as soon as it is there.                              *)
LEMMA AcceptEffect ==
  ASSUME TypeInv, PathInv, Formatter
  PROVE  /\ Accepts <=> xfifo # NoEvent
         /\ Accepts => daq_state = "IDLE" /\ daq_event' = xfifo
         /\ Accepts /\ HasData(xfifo) => daq_state' = "PAYLOAD" /\ daq_cnt' = 0
         /\ ~Accepts => daq_event' = daq_event
         /\ daq_state' = "PAYLOAD" =>
              \/ Accepts /\ HasData(xfifo) /\ daq_cnt' = 0
              \/ /\ daq_state = "PAYLOAD" /\ ~TakesSamples /\ ~TimesOut
                 /\ daq_cnt' = daq_cnt + 1
         /\ daq_state = "PAYLOAD" /\ ~TakesSamples /\ ~TimesOut => daq_state' = "PAYLOAD"
<1>1. EventsWanted /\ OneInPipe /\ Enabled
  BY DEF PathInv
<1>2. Accepts <=> xfifo # NoEvent
  BY <1>1 DEF Accepts, daq_ready, OneInPipe, InPipe, EventsWanted, Wanted, Enabled
<1>3. Accepts => daq_state = "IDLE"
  BY DEF Accepts, daq_ready
<1>4. (Accepts => daq_event' = xfifo) /\ (~Accepts => daq_event' = daq_event)
  BY DEF Formatter
<1>5. CASE daq_state = "IDLE"
  BY <1>2, <1>4, <1>5 DEF Formatter
<1>6. CASE daq_state = "PAYLOAD"
  BY <1>2, <1>3, <1>4, <1>6 DEF Formatter
<1>7. CASE daq_state \in {"SEND", "WAIT"}
  BY <1>2, <1>3, <1>4, <1>7 DEF Formatter
<1>8. daq_state \in {"IDLE", "PAYLOAD", "SEND", "WAIT"}
  BY DEF TypeInv, FormatterTypes
<1> QED BY <1>5, <1>6, <1>7, <1>8

(* What an edge does to the DRS.                                             *)
LEMMA ReadoutEffect ==
  ASSUME TypeInv, LinkPhase, Silence, DrsReadout
  PROVE  /\ drs_trigger => drs_state = "RUNNING" /\ drs_state' = "READOUT"
                           /\ drs_event' = mt_event_cnt
         /\ drs_state = "RUNNING" /\ ~drs_trigger => drs_state' = "RUNNING"
         /\ drs_state = "READOUT" => drs_event' = drs_event
         /\ drs_state = "READOUT" /\ drs_cnt = 0 => drs_state' = "RUNNING"
         /\ drs_state = "READOUT" /\ drs_cnt # 0 =>
              drs_state' = "READOUT" /\ drs_cnt' = drs_cnt - 1
         /\ drs_state' = "READOUT" => drs_trigger \/ (drs_state = "READOUT" /\ drs_cnt # 0)
         /\ drs_trigger => drs_cnt' \in 0..(PAYLOAD_TIMEOUT_MAX - 4)
<1>1. drs_state \in {"RUNNING", "READOUT"} /\ (drs_trigger => drs_state = "RUNNING")
  BY DEF TypeInv, DrsTypes, LinkPhase
<1>2. drs_state = "READOUT" => ~fifo_reset
  BY DEF Silence, AtRest
<1>3. READ_CLKS \subseteq 0..(PAYLOAD_TIMEOUT_MAX - 4)
  BY EventPathAssumption
<1>4. CASE drs_state = "RUNNING"
  BY <1>1, <1>3, <1>4 DEF DrsReadout
<1>5. CASE drs_state = "READOUT"
  BY <1>1, <1>2, <1>5 DEF DrsReadout
<1> QED BY <1>1, <1>4, <1>5

(* The event being formatted is older than everything else on its way, so    *)
(* its samples are at the head of the FIFO, or the only ones and still being *)
(* read.                                                                     *)
LEMMA OldestFirst ==
  ASSUME TypeInv, PathInv, SampleInv, daq_state = "PAYLOAD"
  PROVE  /\ daq_event.num \in 1..MAX_EVENTS
         /\ \A num \in 1..MAX_EVENTS : HasSamples(num) => daq_event.num <= num
         /\ drs_fifo # <<>> => drs_fifo[1] = daq_event.num
         /\ drs_fifo = <<>> => drs_state = "READOUT" /\ drs_event = daq_event.num
<1>1. /\ EventOrder /\ SampleOrder /\ Matched /\ LinkPhase /\ LinkInv
  BY DEF SampleInv, TypeInv
<1>2. daq_event.num \in 1..MAX_EVENTS /\ daq_event.num <= Closed
  BY <1>1, NumTypes DEF EventOrder, Closed
<1>3. Incoming => daq_event.num < mt_event_cnt
  BY <1>2, NumTypes DEF Closed
<1>4. ~InPipe
  BY DEF PathInv, OneInPipe
<1>5. \A num \in 1..MAX_EVENTS : Owes(num) => daq_event.num <= num
  <2> SUFFICES ASSUME NEW num \in 1..MAX_EVENTS, Owes(num) PROVE daq_event.num <= num
    OBVIOUS
  <2>1. CASE \E i \in 1..Len(event_queue) : HasData(event_queue[i]) /\ event_queue[i].num = num
    BY <2>1, <1>1, NumTypes DEF EventOrder
  <2>2. CASE LinkOwes /\ mt_event_cnt = num
    BY <2>2, <1>3, NumTypes DEF LinkOwes, Incoming
  <2>3. CASE daq_event.num = num
    BY <2>3, NumTypes
  <2>4. read_pipe.num = 0 /\ event_queue_dout.num = 0 /\ xfifo.num = 0
    BY <1>4, EmptyIsZero DEF InPipe
  <2> QED BY <2>1, <2>2, <2>3, <2>4 DEF Owes
<1>6. \A num \in 1..MAX_EVENTS : HasSamples(num) => daq_event.num <= num
  BY <1>1, <1>5 DEF Matched
<1>7. HasSamples(daq_event.num)
  BY <1>1, <1>2 DEF Matched, Owes
<1>8. ~(drs_trigger /\ mt_event_cnt = daq_event.num)
  BY <1>1, <1>3, NumTypes DEF LinkPhase, Incoming
<1>9. drs_fifo # <<>> => drs_fifo[1] = daq_event.num
  <2> SUFFICES ASSUME drs_fifo # <<>> PROVE drs_fifo[1] = daq_event.num
    OBVIOUS
  <2>1. 1 \in 1..Len(drs_fifo)
    <3>1. drs_fifo \in Seq(0..MAX_EVENTS)
      BY DEF TypeInv, DrsTypes
    <3> QED BY <3>1
  <2>2. drs_fifo[1] \in 1..MAX_EVENTS
    BY <1>1, <2>1, NumTypes DEF SampleOrder
  <2>3. daq_event.num <= drs_fifo[1]
    BY <1>6, <2>1, <2>2 DEF HasSamples
  <2>4. drs_fifo[1] <= daq_event.num
    BY <1>1, <1>7, <1>8, <2>1, NumTypes DEF HasSamples, SampleOrder
  <2> QED BY <2>2, <2>3, <2>4, NumTypes
<1>10. drs_fifo = <<>> => drs_state = "READOUT" /\ drs_event = daq_event.num
  BY <1>7, <1>8, NumTypes DEF HasSamples
<1> QED BY <1>2, <1>6, <1>9, <1>10

(* The samples the formatter takes are its event's, and it never gives up.   *)
LEMMA TakesItsOwn ==
  ASSUME TypeInv, PathInv, SampleInv
  PROVE  /\ TakesSamples => Head(drs_fifo) = daq_event.num
         /\ ~TimesOut
<1>1. TakesSamples => Head(drs_fifo) = daq_event.num
  BY OldestFirst DEF TakesSamples
<1>2. ~TimesOut
  <2> SUFFICES ASSUME TimesOut PROVE FALSE
    OBVIOUS
  <2>1. daq_state = "PAYLOAD" /\ ~TakesSamples /\ daq_cnt = PAYLOAD_TIMEOUT_MAX
    BY DEF TimesOut
  <2>2. ~fifo_reset
    BY <2>1 DEF SampleInv, Silence, AtRest
  <2>3. drs_fifo = <<>>
    BY <2>1, <2>2 DEF TakesSamples
  <2>4. drs_state = "READOUT" /\ drs_event = daq_event.num
    BY <2>1, <2>3, OldestFirst
  <2> QED BY <2>1, <2>4, NumTypes, ConstantTypes DEF SampleInv, InTime
<1> QED BY <1>1, <1>2

LEMMA OwnSamplesStep ==
  ASSUME TypeInv, PathInv, SampleInv, Formatter
  PROVE  OwnSamples'
<1>1. ~wrong_data /\ ~TimesOut /\ (TakesSamples => Head(drs_fifo) = daq_event.num)
  BY TakesItsOwn DEF SampleInv, OwnSamples
<1>2. wrong_data' <=> wrong_data \/ TimesOut \/ (TakesSamples /\ Head(drs_fifo) # daq_event.num)
  BY Zenon DEF Formatter
<1> QED BY <1>1, <1>2 DEF OwnSamples

LEMMA InTimeStep ==
  ASSUME TypeInv, PathInv, SampleInv, Formatter, DrsReadout
  PROVE  InTime'
<1>1. LinkPhase /\ Silence /\ InTime /\ PAYLOAD_TIMEOUT_MAX \in Nat
  BY ConstantTypes DEF SampleInv
<1>2. drs_state' = "READOUT" => drs_cnt' \in 0..(PAYLOAD_TIMEOUT_MAX - 4)
  BY <1>1, ReadoutEffect, NumTypes DEF InTime
<1>3. daq_state' = "PAYLOAD" /\ drs_state' = "READOUT" /\ drs_event' = daq_event'.num =>
        daq_cnt' + drs_cnt' < PAYLOAD_TIMEOUT_MAX
  <2> SUFFICES ASSUME daq_state' = "PAYLOAD", drs_state' = "READOUT",
                      drs_event' = daq_event'.num
               PROVE  daq_cnt' + drs_cnt' < PAYLOAD_TIMEOUT_MAX
    OBVIOUS
  <2>1. CASE Accepts
    <3>1. daq_cnt' = 0
      BY <2>1, AcceptEffect
    <3> QED BY <3>1, <1>1, <1>2
  <2>2. CASE ~Accepts
    <3>1. daq_state = "PAYLOAD" /\ daq_cnt' = daq_cnt + 1 /\ daq_event' = daq_event
      BY <2>2, AcceptEffect
    <3>2. ~drs_trigger
      <4>1. drs_trigger => Incoming /\ drs_event' = mt_event_cnt
        BY <1>1, ReadoutEffect DEF LinkPhase, Incoming
      <4>2. daq_event.num <= Closed
        BY <3>1, NumTypes DEF SampleInv, EventOrder, Closed
      <4> QED BY <3>1, <4>1, <4>2, NumTypes DEF Closed
    <3>3. drs_state = "READOUT" /\ drs_cnt' = drs_cnt - 1 /\ drs_event' = drs_event
      BY <1>1, <3>2, ReadoutEffect
    <3>4. daq_cnt + drs_cnt < PAYLOAD_TIMEOUT_MAX
      BY <1>1, <3>1, <3>3 DEF InTime
    <3> QED BY <1>1, <3>1, <3>3, <3>4, NumTypes
  <2> QED BY <2>1, <2>2
<1> QED BY <1>1, <1>2, <1>3 DEF InTime

(* The order of the events survives an edge.                                 *)
LEMMA EventOrderStep ==
  ASSUME TypeInv, PathInv, SampleInv, NeverFull,
         NEW arrives \in BOOLEAN, NEW fragment \in BOOLEAN, Link(arrives, fragment),
         EventQueue, AskForEvent, Formatter
  PROVE  EventOrder'
<1> DEFINE drop == IF Popped THEN 1 ELSE 0
<1>1. /\ EventOrder /\ Silence /\ LinkPhase /\ LinkInv
  BY DEF SampleInv, TypeInv
<1>2. /\ drop \in Nat /\ (Popped => event_queue # <<>>)
      /\ \A i \in 1..Len(event_queue') :
           \/ i + drop \in 1..Len(event_queue) /\ event_queue'[i] = event_queue[i + drop]
           \/ event_queue_wr_en /\ i = Len(event_queue') /\ event_queue'[i] = NewEvent
      /\ Len(event_queue') \in Nat
  BY <1>1, QueueShape
<1>3. /\ Closed \in Int /\ Closed' \in Int /\ Closed <= Closed'
      /\ event_queue_wr_en => NewEvent.num = Closed' /\ NewEvent.num = Closed + 1
                              /\ NewEvent.num # 0
  <2>1. NewEvent.num = mt_event_cnt
    BY DEF NewEvent, Event
  <2>2. event_queue_wr_en => mt_fifo_wr_req /\ mt_event_cnt # 0
    BY <1>1 DEF event_queue_wr_en, LinkInv
  <2> QED BY <1>1, <2>1, <2>2, ClosedStep, NumTypes
<1>4. /\ read_pipe' = IF Popped THEN event_queue[1] ELSE NoEvent
      /\ event_queue_dout' = read_pipe /\ xfifo' = event_queue_dout
  BY <1>1, PipeEffect
<1>5. daq_state' = "PAYLOAD" =>
        \/ daq_event' = xfifo /\ xfifo # NoEvent
        \/ daq_event' = daq_event /\ daq_state = "PAYLOAD"
  BY AcceptEffect
<1>6. \A i \in 1..Len(event_queue) : event_queue[i].num # 0
  BY DEF PathInv, EventsWanted, Wanted
<1>7. 0 <= Closed
  BY <1>1, NumTypes DEF Closed, Incoming, LinkInv
<1>8. xfifo # NoEvent => xfifo.num # 0
  BY DEF PathInv, EventsWanted, Wanted
<1> HIDE DEF drop
<1>9. \A i, j \in 1..Len(event_queue') : i < j => event_queue'[i].num < event_queue'[j].num
  <2> SUFFICES ASSUME NEW i \in 1..Len(event_queue'), NEW j \in 1..Len(event_queue'), i < j
               PROVE  event_queue'[i].num < event_queue'[j].num
    OBVIOUS
  <2>1. i + drop \in 1..Len(event_queue) /\ event_queue'[i] = event_queue[i + drop]
    BY <1>2
  <2>2. CASE j + drop \in 1..Len(event_queue) /\ event_queue'[j] = event_queue[j + drop]
    BY <1>1, <1>2, <2>1, <2>2 DEF EventOrder
  <2>3. CASE event_queue_wr_en /\ event_queue'[j] = NewEvent
    <3>1. event_queue[i + drop].num <= Closed /\ event_queue[i + drop].num \in Int
      BY <1>1, <2>1, NumTypes DEF EventOrder
    <3> QED BY <1>3, <2>1, <2>3, <3>1
  <2> QED BY <1>2, <2>2, <2>3
<1>10. \A i \in 1..Len(event_queue') : event_queue'[i].num <= Closed'
  <2> SUFFICES ASSUME NEW i \in 1..Len(event_queue') PROVE event_queue'[i].num <= Closed'
    OBVIOUS
  <2>1. CASE i + drop \in 1..Len(event_queue) /\ event_queue'[i] = event_queue[i + drop]
    <3>1. event_queue[i + drop].num <= Closed /\ event_queue[i + drop].num \in Int
      BY <1>1, <2>1, NumTypes DEF EventOrder
    <3> QED BY <1>3, <2>1, <3>1
  <2> QED BY <1>2, <1>3, <2>1
<1>11. \A num \in Int :
         (num <= Closed /\ \A i \in 1..Len(event_queue) : num < event_queue[i].num)
           => \A i \in 1..Len(event_queue') : num < event_queue'[i].num
  <2> SUFFICES ASSUME NEW num \in Int, num <= Closed,
                      \A i \in 1..Len(event_queue) : num < event_queue[i].num,
                      NEW i \in 1..Len(event_queue')
               PROVE  num < event_queue'[i].num
    OBVIOUS
  <2>1. CASE i + drop \in 1..Len(event_queue) /\ event_queue'[i] = event_queue[i + drop]
    BY <2>1
  <2>2. CASE event_queue_wr_en /\ event_queue'[i] = NewEvent
    BY <1>3, <2>2
  <2> QED BY <1>2, <2>1, <2>2
<1>12. \A i \in 1..Len(event_queue') : read_pipe'.num < event_queue'[i].num
  <2>1. CASE Popped
    <3> SUFFICES ASSUME NEW i \in 1..Len(event_queue')
                 PROVE  event_queue[1].num < event_queue'[i].num
      BY <1>4, <2>1
    <3>1. drop = 1 /\ 1 \in 1..Len(event_queue)
      BY <1>2, <2>1, NumTypes DEF drop, TypeInv, QueueTypes
    <3>2. event_queue[1].num <= Closed /\ event_queue[1].num \in Int
      BY <1>1, <3>1, NumTypes DEF EventOrder
    <3>3. CASE i + drop \in 1..Len(event_queue) /\ event_queue'[i] = event_queue[i + drop]
      BY <1>1, <3>1, <3>3 DEF EventOrder
    <3> QED BY <1>2, <1>3, <3>2, <3>3
  <2>2. CASE ~Popped
    <3>1. read_pipe'.num = 0
      BY <1>4, <2>2, EmptyIsZero
    <3>2. \A i \in 1..Len(event_queue) : 0 < event_queue[i].num
      BY <1>6, NumTypes
    <3> QED BY <1>7, <1>11, <3>1, <3>2
  <2> QED BY <2>1, <2>2
<1>13. \A i \in 1..Len(event_queue') :
         event_queue_dout'.num < event_queue'[i].num /\ xfifo'.num < event_queue'[i].num
  <2>1. /\ read_pipe.num \in Int /\ event_queue_dout.num \in Int
        /\ read_pipe.num <= Closed /\ event_queue_dout.num <= Closed
        /\ \A i \in 1..Len(event_queue) :
             read_pipe.num < event_queue[i].num /\ event_queue_dout.num < event_queue[i].num
    BY <1>1, NumTypes DEF EventOrder
  <2> QED BY <1>4, <1>11, <2>1
<1>14. daq_state' = "PAYLOAD" =>
         /\ daq_event'.num \in 1..Closed'
         /\ \A i \in 1..Len(event_queue') : daq_event'.num < event_queue'[i].num
  <2> SUFFICES ASSUME daq_state' = "PAYLOAD"
               PROVE  /\ daq_event'.num \in 1..Closed'
                      /\ \A i \in 1..Len(event_queue') : daq_event'.num < event_queue'[i].num
    OBVIOUS
  <2>1. /\ daq_event'.num \in 1..Closed
        /\ \A i \in 1..Len(event_queue) : daq_event'.num < event_queue[i].num
    BY <1>1, <1>3, <1>5, <1>8, NumTypes DEF EventOrder
  <2> QED BY <1>3, <1>11, <2>1
<1>15. read_pipe'.num <= Closed' /\ event_queue_dout'.num <= Closed' /\ xfifo'.num <= Closed'
  <2>1. read_pipe.num <= Closed' /\ event_queue_dout.num <= Closed'
    BY <1>1, <1>3, NumTypes DEF EventOrder
  <2>2. CASE Popped
    <3>1. 1 \in 1..Len(event_queue)
      BY <1>2, <2>2 DEF TypeInv, QueueTypes
    <3>2. event_queue[1].num <= Closed /\ event_queue[1].num \in Int
      BY <1>1, <3>1, NumTypes DEF EventOrder
    <3> QED BY <1>3, <1>4, <2>1, <2>2, <3>2
  <2>3. CASE ~Popped
    BY <1>3, <1>4, <1>7, <2>1, <2>3, EmptyIsZero
  <2> QED BY <2>2, <2>3
<1> QED BY <1>9, <1>10, <1>12, <1>13, <1>14, <1>15 DEF EventOrder

(* The order of the samples does.                                            *)
LEMMA SampleOrderStep ==
  ASSUME TypeInv, PathInv, SampleInv, LinkPhase',
         NEW arrives \in BOOLEAN, NEW fragment \in BOOLEAN, Link(arrives, fragment),
         StartReadout, DrsTrigger, DrsReadout, DrsFifo
  PROVE  SampleOrder'
<1> DEFINE drop == IF TakesSamples THEN 1 ELSE 0
<1>1. /\ EventOrder /\ SampleOrder /\ Silence /\ LinkPhase /\ Matched
      /\ LinkInv
  BY DEF SampleInv, TypeInv
<1>2. /\ drop \in Nat
      /\ \A i \in 1..Len(drs_fifo') :
           \/ i + drop \in 1..Len(drs_fifo) /\ drs_fifo'[i] = drs_fifo[i + drop]
           \/ /\ drs_state = "READOUT" /\ drs_cnt = 0
              /\ i = Len(drs_fifo') /\ drs_fifo'[i] = drs_event
      /\ Len(drs_fifo') \in Nat
  BY <1>1, FifoShape
<1> HIDE DEF drop
<1>3. \A i, j \in 1..Len(drs_fifo') : i < j => drs_fifo'[i] < drs_fifo'[j]
  <2> SUFFICES ASSUME NEW i \in 1..Len(drs_fifo'), NEW j \in 1..Len(drs_fifo'), i < j
               PROVE  drs_fifo'[i] < drs_fifo'[j]
    OBVIOUS
  <2>1. i + drop \in 1..Len(drs_fifo) /\ drs_fifo'[i] = drs_fifo[i + drop]
    BY <1>2
  <2>2. CASE j + drop \in 1..Len(drs_fifo) /\ drs_fifo'[j] = drs_fifo[j + drop]
    BY <1>1, <1>2, <2>1, <2>2 DEF SampleOrder
  <2>3. CASE drs_state = "READOUT" /\ drs_fifo'[j] = drs_event
    BY <1>1, <2>1, <2>3 DEF SampleOrder
  <2> QED BY <1>2, <2>2, <2>3
<1>4. \A i \in 1..Len(drs_fifo') : drs_fifo'[i] # 0
  BY <1>1, <1>2 DEF SampleOrder
<1>5. drs_state' = "READOUT" =>
        drs_event' # 0 /\ \A i \in 1..Len(drs_fifo') : drs_fifo'[i] < drs_event'
  <2> SUFFICES ASSUME drs_state' = "READOUT"
               PROVE  drs_event' # 0 /\ \A i \in 1..Len(drs_fifo') : drs_fifo'[i] < drs_event'
    OBVIOUS
  <2>1. \A i \in 1..Len(drs_fifo') :
          i + drop \in 1..Len(drs_fifo) /\ drs_fifo'[i] = drs_fifo[i + drop]
    BY <1>1, <1>2, ReadoutEffect DEF LinkPhase
  <2>2. CASE drs_trigger
    <3>1. drs_event' = mt_event_cnt /\ mt_state = "EVENTCNT"
      BY <1>1, <2>2, ReadoutEffect DEF LinkPhase
    <3> QED BY <1>1, <2>1, <2>2, <3>1 DEF SampleOrder, LinkInv
  <2>3. CASE drs_state = "READOUT" /\ drs_cnt # 0
    <3>1. drs_event' = drs_event
      BY <1>1, <2>3, ReadoutEffect
    <3> QED BY <1>1, <2>1, <2>3, <3>1 DEF SampleOrder
  <2> QED BY <1>1, <2>2, <2>3, ReadoutEffect
<1>6. ASSUME drs_trigger', NEW i \in 1..Len(drs_fifo')
      PROVE  drs_fifo'[i] < mt_event_cnt'
  <2>1. start_readout /\ mt_state = "EVENTCNT" /\ mt_cnt = 1
    BY <1>1, <1>6, StartEffect DEF LinkPhase
  <2>2. mt_event_cnt' = mt_event_cnt /\ Closed = mt_event_cnt - 1 /\ ~LinkOwes
    <3>1. ~mt_fifo_wr_req
      BY <1>1, <2>1 DEF LinkInv
    <3> QED BY <1>1, <2>1, <3>1, LinkEffect DEF Closed, Incoming, LinkOwes
  <2>3. \A num \in 1..MAX_EVENTS : Owes(num) => num <= Closed
    BY <1>1, <2>2 DEF Owes, EventOrder
  <2>4. drs_fifo'[i] \in 1..MAX_EVENTS /\ HasSamples(drs_fifo'[i])
    <3>1. CASE i + drop \in 1..Len(drs_fifo) /\ drs_fifo'[i] = drs_fifo[i + drop]
      <4>1. drs_fifo[i + drop] # 0 /\ drs_fifo[i + drop] \in 0..MAX_EVENTS
        BY <1>1, <3>1, NumTypes DEF SampleOrder
      <4>2. HasSamples(drs_fifo[i + drop])
        BY <3>1 DEF HasSamples
      <4> QED BY <3>1, <4>1, <4>2
    <3>2. CASE drs_state = "READOUT" /\ drs_fifo'[i] = drs_event
      BY <1>1, <3>2, NumTypes DEF SampleOrder, HasSamples
    <3> QED BY <1>2, <3>1, <3>2
  <2> QED BY <1>1, <2>2, <2>3, <2>4, NumTypes DEF Matched
<1> QED BY <1>3, <1>4, <1>5, <1>6 DEF SampleOrder

(* An event on the link that is owed samples stays so until it is queued;    *)
(* one becomes so in the clock in which the DRS is started.                  *)
LEMMA LinkOwesStep ==
  ASSUME CAREFUL = TRUE, TypeInv, PathInv, SampleInv,
         NEW arrives \in BOOLEAN, NEW fragment \in BOOLEAN, NEW dma_idle \in BOOLEAN,
         NEW write, Tick(arrives, fragment, write, dma_idle)
  PROVE  /\ LinkOwes' <=> (LinkOwes /\ ~mt_fifo_wr_req) \/ drs_trigger'
         /\ LinkOwes /\ mt_fifo_wr_req <=> event_queue_wr_en /\ HasData(NewEvent)
         /\ LinkOwes \/ drs_trigger' => mt_event_cnt' = mt_event_cnt
<1>1. /\ Link(arrives, fragment) /\ StartReadout /\ DrsTrigger /\ Registers(write)
  BY DEF Tick
<1>2. LinkPhase /\ LinkInv /\ BODY_CLKS \in Nat /\ BODY_CLKS >= 3 /\ mt_cnt \in Nat
      /\ mt_state \in {"IDLE", "MASK", "EVENTCNT", "WAIT"}
  BY EventPathAssumption DEF SampleInv, TypeInv, LinkTypes
<1>3. mt_state # "IDLE" => (trigger_enable' <=> trigger_enable)
  BY <1>1, CarefulWrite DEF Drained
<1>4. LinkOwes /\ mt_fifo_wr_req <=> event_queue_wr_en /\ HasData(NewEvent)
  <2>1. HasData(NewEvent) <=> ~mt_fragment /\ ~drs_busy_latch
    BY DEF HasData, NewEvent, Event
  <2> QED BY <2>1, <1>2 DEF LinkOwes, event_queue_wr_en, LinkPhase
<1>5. drs_trigger' <=> /\ mt_state = "EVENTCNT" /\ mt_cnt = 1
                       /\ trigger_enable /\ ~mt_fragment /\ ~drs_busy
  BY <1>1, <1>2, StartEffect DEF LinkPhase
<1>6. CASE mt_state \in {"IDLE", "MASK", "WAIT"}
  <2>1. ~mt_fifo_wr_req' /\ ~drs_trigger' /\ (LinkOwes => mt_fifo_wr_req)
    BY <1>1, <1>2, <1>5, <1>6, LinkEffect DEF LinkOwes
  <2>2. ~(mt_state' = "EVENTCNT" /\ mt_cnt' >= 2)
    BY <1>1, <1>2, <1>6, LinkEffect
  <2>3. mt_fifo_wr_req => mt_event_cnt' = mt_event_cnt
    BY <1>1, <1>2, LinkEffect DEF LinkInv
  <2> QED BY <2>1, <2>2, <2>3, <1>4 DEF LinkOwes
<1>7. CASE mt_state = "EVENTCNT"
  <2>1. /\ ~mt_fifo_wr_req /\ mt_event_cnt' = mt_event_cnt /\ (mt_fragment' <=> mt_fragment)
        /\ (trigger_enable' <=> trigger_enable)
    BY <1>1, <1>2, <1>3, <1>7, LinkEffect DEF LinkInv
  <2>2. CASE mt_cnt = 0
    <3>1. mt_cnt' = 1 /\ ~mt_fifo_wr_req' /\ ~drs_trigger' /\ ~LinkOwes
      BY <1>1, <1>2, <1>5, <1>7, <2>1, <2>2, LinkEffect DEF LinkOwes
    <3> QED BY <2>1, <3>1, <1>4 DEF LinkOwes
  <2>3. CASE mt_cnt = 1
    <3>1. /\ mt_state' = "EVENTCNT" /\ mt_cnt' = 2 /\ ~mt_fifo_wr_req' /\ ~LinkOwes
          /\ (drs_busy_latch' <=> drs_busy)
      BY <1>1, <1>2, <1>7, <2>1, <2>3, LinkEffect, StartEffect DEF LinkOwes, LinkPhase
    <3> QED BY <1>4, <1>5, <1>7, <2>1, <2>3, <3>1 DEF LinkOwes
  <2>4. CASE mt_cnt >= 2
    <3>1. ~start_readout /\ ~drs_trigger' /\ (drs_busy_latch' <=> drs_busy_latch)
      BY <1>1, <1>2, <1>5, <2>4, StartEffect DEF LinkPhase
    <3>2. ~mt_fragment => (mt_state' = "EVENTCNT" /\ mt_cnt' >= 2) \/ mt_fifo_wr_req'
      BY <1>1, <1>2, <1>7, <2>4, LinkEffect
    <3> QED BY <1>4, <1>7, <2>1, <2>4, <3>1, <3>2 DEF LinkOwes
  <2> QED BY <1>2, <2>2, <2>3, <2>4
<1> QED BY <1>2, <1>6, <1>7

(* Samples come with the DRS trigger and go when the formatter takes them.   *)
LEMMA SamplesStep ==
  ASSUME TypeInv, PathInv, SampleInv, LinkPhase', drs_trigger' => mt_event_cnt' = mt_event_cnt,
         DrsReadout, DrsFifo, NEW num \in 1..MAX_EVENTS
  PROVE  HasSamples(num)' <=> \/ HasSamples(num) /\ ~(TakesSamples /\ num = daq_event.num)
                              \/ drs_trigger' /\ mt_event_cnt = num
<1> DEFINE drop == IF TakesSamples THEN 1 ELSE 0
<1>1. SampleOrder /\ Silence /\ LinkPhase
  BY DEF SampleInv
<1>2. /\ drop \in Nat /\ (TakesSamples => drs_fifo # <<>>)
      /\ \A i \in 1..Len(drs_fifo') :
           \/ i + drop \in 1..Len(drs_fifo) /\ drs_fifo'[i] = drs_fifo[i + drop]
           \/ /\ drs_state = "READOUT" /\ drs_cnt = 0
              /\ i = Len(drs_fifo') /\ drs_fifo'[i] = drs_event
      /\ \A j \in 1..Len(drs_fifo) :
           \/ TakesSamples /\ j = 1
           \/ j - drop \in 1..Len(drs_fifo') /\ drs_fifo'[j - drop] = drs_fifo[j]
      /\ drs_state = "READOUT" /\ drs_cnt = 0 =>
           Len(drs_fifo') \in 1..Len(drs_fifo') /\ drs_fifo'[Len(drs_fifo')] = drs_event
      /\ (TakesSamples => drop = 1)
  BY <1>1, FifoShape
<1> HIDE DEF drop
<1>3. TakesSamples => /\ 1 \in 1..Len(drs_fifo) /\ drs_fifo[1] = daq_event.num
                      /\ \A i \in 1..Len(drs_fifo) : i # 1 => daq_event.num < drs_fifo[i]
                      /\ drs_state = "READOUT" => daq_event.num < drs_event
                      /\ drs_trigger => daq_event.num < mt_event_cnt
  <2> SUFFICES ASSUME TakesSamples
               PROVE  /\ 1 \in 1..Len(drs_fifo) /\ drs_fifo[1] = daq_event.num
                      /\ \A i \in 1..Len(drs_fifo) : i # 1 => daq_event.num < drs_fifo[i]
                      /\ drs_state = "READOUT" => daq_event.num < drs_event
                      /\ drs_trigger => daq_event.num < mt_event_cnt
    OBVIOUS
  <2>1. 1 \in 1..Len(drs_fifo)
    <3>1. drs_fifo \in Seq(0..MAX_EVENTS)
      BY DEF TypeInv, DrsTypes
    <3> QED BY <1>2, <3>1
  <2>2. drs_fifo[1] = daq_event.num
    BY <1>2, OldestFirst DEF TakesSamples
  <2> QED BY <1>1, <2>1, <2>2 DEF SampleOrder
<1>4. drs_trigger => drs_state = "RUNNING"
  BY <1>1 DEF LinkPhase
<1>5. ASSUME HasSamples(num)'
      PROVE  \/ HasSamples(num) /\ ~(TakesSamples /\ num = daq_event.num)
             \/ drs_trigger' /\ mt_event_cnt = num
  <2>1. ASSUME NEW i \in 1..Len(drs_fifo'), drs_fifo'[i] = num
        PROVE  HasSamples(num) /\ ~(TakesSamples /\ num = daq_event.num)
    <3>1. CASE i + drop \in 1..Len(drs_fifo) /\ drs_fifo'[i] = drs_fifo[i + drop]
      <4>1. TakesSamples => i + drop # 1
        BY <1>2
      <4>2. drs_fifo[i + drop] = num
        BY <2>1, <3>1
      <4>3. HasSamples(num)
        BY <3>1, <4>2 DEF HasSamples
      <4>4. TakesSamples => daq_event.num < num
        BY <1>3, <3>1, <4>1, <4>2
      <4> QED BY <4>3, <4>4, NumTypes
    <3>2. CASE drs_state = "READOUT" /\ drs_event = num
      BY <1>3, <3>2, NumTypes DEF HasSamples
    <3> QED BY <1>2, <2>1, <3>1, <3>2
  <2>2. ASSUME drs_state' = "READOUT", drs_event' = num
        PROVE  HasSamples(num) /\ ~(TakesSamples /\ num = daq_event.num)
    <3>1. CASE drs_trigger
      <4>1. mt_event_cnt = num
        BY <1>1, <2>2, <3>1, ReadoutEffect
      <4> QED BY <1>3, <3>1, <4>1, NumTypes DEF HasSamples
    <3>2. CASE drs_state = "READOUT"
      <4>1. drs_event = num
        BY <1>1, <2>2, <3>2, ReadoutEffect
      <4> QED BY <1>3, <3>2, <4>1, NumTypes DEF HasSamples
    <3> QED BY <1>1, <2>2, <3>1, <3>2, ReadoutEffect
  <2> QED BY <1>5, <2>1, <2>2 DEF HasSamples
<1>6. ASSUME HasSamples(num), ~(TakesSamples /\ num = daq_event.num)
      PROVE  HasSamples(num)'
  <2>1. ASSUME NEW j \in 1..Len(drs_fifo), drs_fifo[j] = num
        PROVE  HasSamples(num)'
    <3>1. ~(TakesSamples /\ j = 1)
      BY <1>3, <1>6, <2>1
    <3> QED BY <1>2, <2>1, <3>1 DEF HasSamples
  <2>2. CASE drs_state = "READOUT" /\ drs_event = num
    <3>1. CASE drs_cnt = 0
      BY <1>2, <2>2, <3>1 DEF HasSamples
    <3>2. CASE drs_cnt # 0
      BY <1>1, <2>2, <3>2, ReadoutEffect DEF HasSamples
    <3> QED BY <3>1, <3>2
  <2>3. CASE drs_trigger /\ mt_event_cnt = num
    BY <1>1, <2>3, ReadoutEffect DEF HasSamples
  <2> QED BY <1>6, <2>1, <2>2, <2>3 DEF HasSamples
<1>7. drs_trigger' /\ mt_event_cnt = num => HasSamples(num)'
  BY DEF HasSamples
<1> QED BY <1>5, <1>6, <1>7

(* The debts of samples come and go in the same clocks.                      *)
LEMMA DebtsStep ==
  ASSUME CAREFUL = TRUE, TypeInv, PathInv, SampleInv, NeverFull,
         NEW arrives \in BOOLEAN, NEW fragment \in BOOLEAN, NEW dma_idle \in BOOLEAN,
         NEW write, Tick(arrives, fragment, write, dma_idle), NEW num \in 1..MAX_EVENTS
  PROVE  Owes(num)' <=> \/ Owes(num) /\ ~(TakesSamples /\ num = daq_event.num)
                        \/ drs_trigger' /\ mt_event_cnt = num
<1> DEFINE drop == IF Popped THEN 1 ELSE 0
<1>1. EventQueue /\ AskForEvent /\ Formatter /\ Link(arrives, fragment)
  BY DEF Tick
<1>2. EventOrder /\ Silence /\ LinkPhase
  BY DEF SampleInv
<1>3. /\ drop \in Nat /\ (Popped => event_queue # <<>>)
      /\ \A i \in 1..Len(event_queue') :
           \/ i + drop \in 1..Len(event_queue) /\ event_queue'[i] = event_queue[i + drop]
           \/ event_queue_wr_en /\ i = Len(event_queue') /\ event_queue'[i] = NewEvent
      /\ \A j \in 1..Len(event_queue) :
           \/ Popped /\ j = 1
           \/ j - drop \in 1..Len(event_queue') /\ event_queue'[j - drop] = event_queue[j]
      /\ event_queue_wr_en => /\ Len(event_queue') \in 1..Len(event_queue')
                              /\ event_queue'[Len(event_queue')] = NewEvent
  BY <1>1, <1>2, QueueShape
<1> HIDE DEF drop
<1>4. /\ read_pipe' = IF Popped THEN event_queue[1] ELSE NoEvent
      /\ event_queue_dout' = read_pipe /\ xfifo' = event_queue_dout
  BY <1>1, <1>2, PipeEffect
<1>5. /\ LinkOwes' <=> (LinkOwes /\ ~mt_fifo_wr_req) \/ drs_trigger'
      /\ LinkOwes /\ mt_fifo_wr_req <=> event_queue_wr_en /\ HasData(NewEvent)
      /\ LinkOwes \/ drs_trigger' => mt_event_cnt' = mt_event_cnt
  BY LinkOwesStep
<1>6. NewEvent.num = mt_event_cnt /\ NoEvent.num = 0 /\ num # 0
  BY NumTypes DEF NewEvent, NoEvent, Event
<1>7. ~TimesOut
  BY TakesItsOwn
<1>8. Popped => 1 \in 1..Len(event_queue)
  <2>1. event_queue \in Seq(Events)
    BY DEF TypeInv, QueueTypes
  <2> QED BY <1>3, <2>1
<1>9. TakesSamples => /\ daq_state = "PAYLOAD" /\ read_pipe.num = 0 /\ event_queue_dout.num = 0
                      /\ xfifo.num = 0 /\ daq_event.num <= Closed
                      /\ \A i \in 1..Len(event_queue) : daq_event.num < event_queue[i].num
                      /\ LinkOwes => daq_event.num < mt_event_cnt
  <2> SUFFICES ASSUME TakesSamples
               PROVE  /\ daq_state = "PAYLOAD" /\ read_pipe.num = 0
                      /\ event_queue_dout.num = 0 /\ xfifo.num = 0 /\ daq_event.num <= Closed
                      /\ \A i \in 1..Len(event_queue) : daq_event.num < event_queue[i].num
                      /\ LinkOwes => daq_event.num < mt_event_cnt
    OBVIOUS
  <2>1. daq_state = "PAYLOAD" /\ ~InPipe
    BY DEF TakesSamples, PathInv, OneInPipe
  <2>2. read_pipe.num = 0 /\ event_queue_dout.num = 0 /\ xfifo.num = 0
    BY <1>6, <2>1 DEF InPipe
  <2>3. daq_event.num <= Closed
        /\ \A i \in 1..Len(event_queue) : daq_event.num < event_queue[i].num
    BY <1>2, <2>1, NumTypes DEF EventOrder, Closed
  <2>4. LinkOwes => daq_event.num < mt_event_cnt
    BY <2>3, NumTypes DEF LinkOwes, Closed, Incoming
  <2> QED BY <2>1, <2>2, <2>3, <2>4
<1>10. ASSUME Owes(num)'
       PROVE  \/ Owes(num) /\ ~(TakesSamples /\ num = daq_event.num)
              \/ drs_trigger' /\ mt_event_cnt = num
  <2>1. ASSUME NEW i \in 1..Len(event_queue'), HasData(event_queue'[i]),
               event_queue'[i].num = num
        PROVE  Owes(num) /\ ~(TakesSamples /\ num = daq_event.num)
    <3>1. CASE i + drop \in 1..Len(event_queue) /\ event_queue'[i] = event_queue[i + drop]
      <4>1. HasData(event_queue[i + drop]) /\ event_queue[i + drop].num = num
        BY <2>1, <3>1
      <4> QED BY <1>9, <3>1, <4>1, NumTypes DEF Owes
    <3>2. CASE event_queue_wr_en /\ event_queue'[i] = NewEvent
      <4>1. LinkOwes /\ mt_event_cnt = num
        BY <1>5, <1>6, <2>1, <3>2
      <4> QED BY <1>9, <4>1, NumTypes DEF Owes
    <3> QED BY <1>3, <2>1, <3>1, <3>2
  <2>2. CASE HasData(read_pipe') /\ read_pipe'.num = num
    <3>1. Popped /\ HasData(event_queue[1]) /\ event_queue[1].num = num
      BY <1>4, <1>6, <2>2
    <3> QED BY <1>8, <1>9, <3>1, NumTypes DEF Owes
  <2>3. CASE HasData(event_queue_dout') /\ event_queue_dout'.num = num
    <3>1. HasData(read_pipe) /\ read_pipe.num = num
      BY <1>4, <2>3
    <3> QED BY <1>6, <1>9, <3>1 DEF Owes
  <2>4. CASE HasData(xfifo') /\ xfifo'.num = num
    <3>1. HasData(event_queue_dout) /\ event_queue_dout.num = num
      BY <1>4, <2>4
    <3> QED BY <1>6, <1>9, <3>1 DEF Owes
  <2>5. CASE daq_state' = "PAYLOAD" /\ daq_event'.num = num
    <3>1. CASE Accepts
      <4>1. HasData(xfifo) /\ xfifo.num = num
        BY <1>1, <2>5, <3>1, AcceptEffect
      <4> QED BY <1>6, <1>9, <4>1 DEF Owes
    <3>2. CASE ~Accepts
      <4>1. daq_state = "PAYLOAD" /\ ~TakesSamples /\ daq_event.num = num
        BY <1>1, <2>5, <3>2, AcceptEffect
      <4> QED BY <4>1 DEF Owes
    <3> QED BY <3>1, <3>2
  <2>6. CASE LinkOwes' /\ mt_event_cnt' = num
    <3>1. CASE drs_trigger'
      BY <1>5, <2>6, <3>1
    <3>2. CASE LinkOwes
      <4>1. mt_event_cnt = num
        BY <1>5, <2>6, <3>2
      <4> QED BY <1>9, <3>2, <4>1, NumTypes DEF Owes
    <3> QED BY <1>5, <2>6, <3>1, <3>2
  <2> QED BY <1>10, <2>1, <2>2, <2>3, <2>4, <2>5, <2>6 DEF Owes
<1>11. ASSUME Owes(num), ~(TakesSamples /\ num = daq_event.num)
       PROVE  Owes(num)'
  <2>1. ASSUME NEW j \in 1..Len(event_queue), HasData(event_queue[j]), event_queue[j].num = num
        PROVE  Owes(num)'
    <3>1. CASE Popped /\ j = 1
      BY <1>4, <2>1, <3>1 DEF Owes
    <3>2. CASE j - drop \in 1..Len(event_queue') /\ event_queue'[j - drop] = event_queue[j]
      <4>1. HasData(event_queue'[j - drop]) /\ event_queue'[j - drop].num = num
        BY <2>1, <3>2
      <4> QED BY <3>2, <4>1 DEF Owes
    <3> QED BY <1>3, <2>1, <3>1, <3>2
  <2>2. CASE HasData(read_pipe) /\ read_pipe.num = num
    <3>1. HasData(event_queue_dout') /\ event_queue_dout'.num = num
      BY <1>4, <2>2
    <3> QED BY <3>1 DEF Owes
  <2>3. CASE HasData(event_queue_dout) /\ event_queue_dout.num = num
    <3>1. HasData(xfifo') /\ xfifo'.num = num
      BY <1>4, <2>3
    <3> QED BY <3>1 DEF Owes
  <2>4. CASE HasData(xfifo) /\ xfifo.num = num
    <3>1. xfifo # NoEvent
      BY <1>6, <2>4
    <3>2. daq_state' = "PAYLOAD" /\ daq_event'.num = num
      BY <1>1, <2>4, <3>1, AcceptEffect
    <3> QED BY <3>2 DEF Owes
  <2>5. CASE daq_state = "PAYLOAD" /\ daq_event.num = num
    <3>1. ~TakesSamples
      BY <1>11, <2>5
    <3>2. daq_state' = "PAYLOAD" /\ daq_event' = daq_event
      BY <1>1, <1>7, <2>5, <3>1, AcceptEffect
    <3> QED BY <2>5, <3>2 DEF Owes
  <2>6. CASE LinkOwes /\ mt_event_cnt = num
    <3>1. CASE mt_fifo_wr_req
      <4>1. event_queue_wr_en /\ HasData(NewEvent) /\ NewEvent.num = num
        BY <1>5, <1>6, <2>6, <3>1
      <4>2. HasData(event_queue'[Len(event_queue')]) /\ event_queue'[Len(event_queue')].num = num
            /\ Len(event_queue') \in 1..Len(event_queue')
        BY <1>3, <4>1
      <4> QED BY <4>2 DEF Owes
    <3>2. CASE ~mt_fifo_wr_req
      BY <1>5, <2>6, <3>2 DEF Owes
    <3> QED BY <3>1, <3>2
  <2> QED BY <1>11, <2>1, <2>2, <2>3, <2>4, <2>5, <2>6 DEF Owes
<1>12. drs_trigger' /\ mt_event_cnt = num => Owes(num)'
  BY <1>5 DEF Owes
<1> QED BY <1>10, <1>11, <1>12

LEMMA MatchedStep ==
  ASSUME CAREFUL = TRUE, TypeInv, PathInv, SampleInv, NeverFull, LinkPhase',
         NEW arrives \in BOOLEAN, NEW fragment \in BOOLEAN, NEW dma_idle \in BOOLEAN,
         NEW write, Tick(arrives, fragment, write, dma_idle)
  PROVE  Matched'
<1>1. DrsReadout /\ DrsFifo
  BY DEF Tick
<1>2. drs_trigger' => mt_event_cnt' = mt_event_cnt
  BY LinkOwesStep
<1>3. ASSUME NEW num \in 1..MAX_EVENTS
      PROVE  HasSamples(num)' <=> Owes(num)'
  <2>1. HasSamples(num) <=> Owes(num)
    BY DEF SampleInv, Matched
  <2> QED BY <1>1, <1>2, <2>1, SamplesStep, DebtsStep
<1> QED BY <1>3 DEF Matched

LEMMA SampleInit == Init => SampleInv
<1> SUFFICES ASSUME Init PROVE SampleInv
  OBVIOUS
<1>1. LinkPhase /\ Silence
  <2>1. mt_cnt = 0 /\ mt_state = "IDLE" /\ soft_rst_state = "IDLE" /\ ~fifo_reset
        /\ ~mt_mask_valid /\ ~start_readout /\ ~drs_trigger /\ ~mt_fifo_wr_req
    BY Zenon DEF Init, SoftResetInit
  <2> QED BY <2>1 DEF LinkPhase, Silence
<1>2. /\ event_queue = <<>> /\ drs_fifo = <<>> /\ mt_event_cnt = 0 /\ mt_state = "IDLE"
      /\ ~mt_fifo_wr_req /\ drs_state = "RUNNING" /\ ~drs_trigger /\ daq_state = "IDLE"
      /\ read_pipe = NoEvent /\ event_queue_dout = NoEvent /\ xfifo = NoEvent
      /\ ~wrong_data
  BY Zenon DEF Init
<1>3. EventOrder /\ SampleOrder /\ InTime
  BY <1>2, EmptyIsZero DEF EventOrder, SampleOrder, InTime, Closed, Incoming
<1>4. Matched
  <2> SUFFICES ASSUME NEW num \in 1..MAX_EVENTS PROVE ~HasSamples(num) /\ ~Owes(num)
    BY DEF Matched
  <2>1. ~HasSamples(num)
    BY <1>2 DEF HasSamples
  <2>2. num # 0
    BY ConstantTypes
  <2> QED BY <1>2, <2>1, <2>2, EmptyIsZero DEF Owes, LinkOwes
<1> QED BY <1>1, <1>2, <1>3, <1>4 DEF SampleInv, OwnSamples

(* The samples invariant is inductive while the queue has room.              *)
LEMMA SampleStep ==
  CAREFUL = TRUE /\ TypeInv /\ PathInv /\ SampleInv /\ NeverFull /\ [Next]_vars => SampleInv'
<1> SUFFICES ASSUME CAREFUL = TRUE, TypeInv, PathInv, SampleInv, NeverFull, [Next]_vars
             PROVE  SampleInv'
  OBVIOUS
<1>1. CASE Next
  <2>1. PICK arrives \in BOOLEAN, fragment \in BOOLEAN, dma_idle \in BOOLEAN,
             write \in Writes \cup {NoWrite} : Tick(arrives, fragment, write, dma_idle)
    BY <1>1 DEF Next
  <2>2. /\ Link(arrives, fragment) /\ StartReadout /\ DrsTrigger /\ DrsReadout
        /\ EventQueue /\ AskForEvent /\ Formatter /\ DrsFifo
    BY <2>1 DEF Tick
  <2>3. LinkPhase' /\ Silence'
    BY <2>1, LinkPhaseStep, SilenceStep
  <2>4. EventOrder' /\ SampleOrder'
    BY <2>2, <2>3, EventOrderStep, SampleOrderStep
  <2>5. Matched'
    BY <2>1, <2>3, MatchedStep
  <2>6. InTime' /\ OwnSamples'
    BY <2>2, InTimeStep, OwnSamplesStep
  <2> QED BY <2>3, <2>4, <2>5, <2>6 DEF SampleInv
<1>2. CASE UNCHANGED vars
  <2>1. LinkPhase' /\ Silence'
    BY <1>2 DEF vars, linkVars, drsVars, queueVars, daqVars, regVars, softResetVars,
       SampleInv, LinkPhase, Silence, AtRest
  <2>2. EventOrder' /\ SampleOrder'
    BY <1>2 DEF vars, linkVars, drsVars, queueVars, daqVars, SampleInv, EventOrder,
       SampleOrder, Closed, Incoming
  <2>3. Matched'
    BY <1>2 DEF vars, linkVars, drsVars, queueVars, daqVars, regVars, SampleInv, Matched,
       HasSamples, Owes, LinkOwes
  <2>4. InTime' /\ OwnSamples'
    BY <1>2 DEF vars, drsVars, daqVars, history, SampleInv, InTime, OwnSamples
  <2> QED BY <2>1, <2>2, <2>3, <2>4 DEF SampleInv
<1> QED BY <1>1, <1>2

(* Every event in the queue has come in completely.                          *)
AllClosed == Len(event_queue) <= Closed

LEMMA AllClosedStep ==
  ASSUME TypeInv, AllClosed, NEW arrives \in BOOLEAN, NEW fragment \in BOOLEAN,
         Link(arrives, fragment), EventQueue
  PROVE  AllClosed'
<1>1. /\ mt_event_cnt \in Nat /\ mt_state \in {"IDLE", "MASK", "EVENTCNT", "WAIT"}
      /\ (mt_fifo_wr_req => mt_state = "WAIT") /\ Len(event_queue) \in Nat
  BY NumTypes, ConstantTypes DEF TypeInv, LinkTypes, LinkInv
<1>2. mt_fifo_wr_req' => mt_state = "EVENTCNT"
  BY Zenon DEF Link
<1>3. /\ Closed \in Int /\ Closed' \in Int /\ Closed <= Closed'
      /\ mt_fifo_wr_req => Closed' = Closed + 1
  <2>1. CASE mt_state = "IDLE"
    BY <1>1, <1>2, <2>1 DEF Link, Closed, Incoming
  <2>2. CASE mt_state = "MASK"
    BY <1>1, <1>2, <2>2 DEF Link, Closed, Incoming
  <2>3. CASE mt_state = "EVENTCNT"
    BY <1>1, <1>2, <2>3 DEF Link, Closed, Incoming
  <2>4. CASE mt_state = "WAIT"
    BY <1>1, <1>2, <2>4 DEF Link, Closed, Incoming
  <2> QED BY <1>1, <2>1, <2>2, <2>3, <2>4
<1>4. /\ Len(event_queue') \in Nat
      /\ Len(event_queue') <= Len(event_queue) \/ (/\ event_queue_wr_en
                                                  /\ Len(event_queue') <= Len(event_queue) + 1)
  <2> DEFINE rest == IF Popped THEN Tail(event_queue) ELSE event_queue
  <2>1. event_queue \in Seq(Events) /\ (Popped => event_queue # <<>>)
    BY DEF TypeInv, QueueTypes, Popped
  <2>2. rest \in Seq(Events) /\ Len(rest) \in Nat /\ Len(rest) <= Len(event_queue)
    BY <2>1
  <2>3. \/ event_queue' = <<>> \/ event_queue' = rest
        \/ event_queue_wr_en /\ event_queue' = Append(rest, NewEvent)
    BY DEF EventQueue
  <2> HIDE DEF rest
  <2>4. Len(Append(rest, NewEvent)) = Len(rest) + 1
    BY <2>2, NewEventType
  <2> QED BY <1>1, <2>2, <2>3, <2>4
<1> QED BY <1>1, <1>3, <1>4 DEF AllClosed, event_queue_wr_en

(* A queue as deep as the events of a run loses none, so that the condition  *)
(* of the two theorems below is met, at any speed of the formatter and       *)
(* whatever software writes.                                                 *)
THEOREM RoomForAll == MAX_EVENTS <= QUEUE_DEPTH => (Spec => []NeverFull)
<1> SUFFICES ASSUME MAX_EVENTS <= QUEUE_DEPTH PROVE Spec => []NeverFull
  OBVIOUS
<1>1. Init => TypeInv /\ AllClosed
  BY TypeInit DEF Init, AllClosed, Closed, Incoming
<1>2. TypeInv /\ AllClosed /\ [Next]_vars => TypeInv' /\ AllClosed'
  <2> SUFFICES ASSUME TypeInv, AllClosed, [Next]_vars PROVE AllClosed'
    BY TypeStep
  <2>1. CASE Next
    BY <2>1, AllClosedStep DEF Next, Tick
  <2>2. CASE UNCHANGED vars
    BY <2>2 DEF vars, linkVars, queueVars, AllClosed, Closed, Incoming
  <2> QED BY <2>1, <2>2
<1>3. TypeInv /\ AllClosed => NeverFull
  BY NumTypes, ConstantTypes DEF AllClosed, NeverFull, Closed, Incoming, event_queue_wr_en
<1> QED BY <1>1, <1>2, <1>3, PTL DEF Spec

(* Every packet that should carry samples carries those of its own event,    *)
(* and the formatter never waits for samples in vain: as long as software    *)
(* writes to a quiet board only and no event is lost at the full queue, for  *)
(* every length of a packet, a readout or a transmission.                    *)
THEOREM OwnSamplesCorrect == CAREFUL = TRUE => (Spec /\ []NeverFull => []OwnSamples)
<1> SUFFICES ASSUME CAREFUL = TRUE PROVE Spec /\ []NeverFull => []OwnSamples
  OBVIOUS
<1>1. Init => TypeInv /\ PathInv /\ SampleInv
  BY PathInit, SampleInit
<1>2. TypeInv /\ PathInv /\ SampleInv /\ NeverFull /\ [Next]_vars =>
        TypeInv' /\ PathInv' /\ SampleInv'
  BY PathStep, SampleStep
<1>3. SampleInv => OwnSamples
  BY DEF SampleInv
<1> QED BY <1>1, <1>2, <1>3, PTL DEF Spec

(* Under the same conditions no samples are left over when the board is      *)
(* drained, which would go into the next packet.                             *)
THEOREM NoLeftoverCorrect == CAREFUL = TRUE => (Spec /\ []NeverFull => []NoLeftover)
<1> SUFFICES ASSUME CAREFUL = TRUE PROVE Spec /\ []NeverFull => []NoLeftover
  OBVIOUS
<1>1. Init => TypeInv /\ PathInv /\ SampleInv
  BY PathInit, SampleInit
<1>2. TypeInv /\ PathInv /\ SampleInv /\ NeverFull /\ [Next]_vars =>
        TypeInv' /\ PathInv' /\ SampleInv'
  BY PathStep, SampleStep
<1>3. TypeInv /\ PathInv /\ SampleInv => NoLeftover
  BY DrainedEmpty DEF NoLeftover
<1> QED BY <1>1, <1>2, <1>3, PTL DEF Spec

=============================================================================
