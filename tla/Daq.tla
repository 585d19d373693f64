-------------------------------- MODULE Daq --------------------------------
(***************************************************************************)
(* The packet formatter of the readout board, drs/src/daq.vhd: one FSM     *)
(* that turns an accepted trigger into a packet of 16 bit words on the way *)
(* to the DMA FIFO, together with the registers that pipeline the packet   *)
(* size and the two CRC engines that run beside it.                        *)
(*                                                                         *)
(* Every action is one edge of `clock`.  Its parameter `rst` is the value  *)
(* of the port `reset` at that edge: the FSM process evaluates its case    *)
(* first and only then overrides `state`, so a reset edge still updates    *)
(* every other register.  Word contents are abstracted: a CRC register is  *)
(* the number of words accumulated in it, and of the words sent only       *)
(* their number, the channel headers and the LEN field are kept.           *)
(***************************************************************************)
EXTENDS Integers, FiniteSets, Sequences

CONSTANTS
  Channels,             (* the channels of the board (0..8)                   *)
  Masks,                (* the readout masks software or the MTB asks for     *)
  Rois,                 (* values of the roi_size register software may set   *)
  DebugRoi,             (* roi_size of the injected debug packet (1023)       *)
  PAD,                  (* g_PACKET_PAD, words of one DMA burst (32)          *)
  PAYLOAD_TIMEOUT_MAX,  (* clocks without DRS data before giving up (2^16-1)  *)
  CNT_MOD,              (* state_word_cnt wraps here (11 bits: 2048)          *)
  RESETS                (* values the reset port may take: {FALSE} or BOOLEAN *)

ASSUME DaqAssumption ==
  /\ Channels \subseteq Nat /\ IsFiniteSet(Channels)
  /\ Masks \subseteq SUBSET Channels
  /\ Rois \subseteq Nat /\ DebugRoi \in Nat
  /\ PAD \in Nat \ {0}
  /\ PAYLOAD_TIMEOUT_MAX \in Nat
  /\ CNT_MOD \in Nat
  /\ CNT_MOD > PAD /\ CNT_MOD > 3
  /\ \A r \in Rois \cup {DebugRoi} : r + 1 < CNT_MOD
  /\ RESETS \subseteq BOOLEAN

VARIABLES
  state,                    (* state of the packet formatter                 *)
  state_word_cnt,           (* word counter of the multi-word states         *)
  channel_cnt, channel_id,  (* channels already sent, channel being sent     *)
  payload_timeout_counter, packet_timed_out,
  drs_rden,                 (* read enable of the DRS FIFO                   *)
  ack,                      (* acknowledge to the event queue                *)
  dav,                      (* data valid: a word is on data_o               *)
  evt,                      (* the latched copies of the trigger parameters  *)
  payload_size, packet_length, packet_padding,       (* the size pipeline    *)
  packet_crc, packet_crc_rst, channel_crc, channel_crc_rst,
  (* history of the current packet, read by the properties only              *)
  sent,                     (* words sent since the packet was accepted      *)
  len_field,                (* the LEN word that was sent                    *)
  headers,                  (* channel headers sent, in order                *)
  dirty,                    (* accepted with a leftover state_word_cnt       *)
  overrun                   (* the timeout expired on a channel's last word  *)

fsmVars  == <<state, state_word_cnt, channel_cnt, channel_id,
              payload_timeout_counter, packet_timed_out, drs_rden, ack, dav>>
sizeVars == <<payload_size, packet_length, packet_padding>>
crcVars  == <<packet_crc, packet_crc_rst, channel_crc, channel_crc_rst>>
history  == <<sent, len_field, headers, dirty, overrun>>
vars     == <<fsmVars, evt, sizeVars, crcVars, history>>

-----------------------------------------------------------------------------
(* Words of the multi-word fields, and of everything but the payload.        *)

HousekeepingWords == 2
EventCntWords     == 2
TimestampWords    == 3
CrcWords          == 2
OverheadWords     == 22

States == {"IDLE", "HEAD", "STATUS", "LENGTH", "ROI", "DNA", "RSVD0",
           "HOUSEKEEPING", "HASH", "ID", "CHMASK", "EVENT_CNT", "DTAP",
           "DRS_TEMP", "TIMESTAMP", "CH_HEADER", "PAYLOAD", "CALC_CH_CRC",
           "CH_CRC", "STOP_CELL", "CALC_CRC32", "CRC32", "TAIL", "PAD", "WAIT"}

(* The lowest channel of `s`, 0 when there is none.                          *)
Lowest(s) == IF s = {} THEN 0 ELSE CHOOSE c \in s : \A d \in s : c <= d

get_first_channel(mask) == Lowest(mask)

(* Mutant: the walk starts over instead of going on after `ch`.              *)
NextChannelRestarts(ch, mask) == Lowest({c \in mask : c # ch})

get_next_channel(ch, mask) == Lowest({c \in mask : c > ch})

(* Mutant: a channel counted as roi_size samples, not roi_size + 1.          *)
PayloadSizeWithoutPlusOne(e) ==
  IF e.fragment \/ e.dropped THEN 0
  ELSE Cardinality(e.mask) * (1 + e.roi_size + CrcWords)

get_payload_size(e) ==
  IF e.fragment \/ e.dropped THEN 0
  ELSE Cardinality(e.mask) * (1 + 1 + e.roi_size + CrcWords)

get_packet_size(size) == OverheadWords + size

(* Mutant: the padding of a packet one word shorter.                         *)
PaddingOffByOne(size) == (PAD - ((size - 1) % PAD)) % PAD

get_packet_padding(size) == IF (size % PAD) = 0 THEN 0 ELSE PAD - (size % PAD)

(* busy_o and ready_o, the two combinational outputs others look at.         *)
busy  == state \notin {"IDLE", "WAIT"}
ready == state = "IDLE"

(* What trigger_i, fragment_i, drs_busy_i and the inject bit may ask for.    *)
Requests ==
  [fragment : BOOLEAN, dropped : BOOLEAN, debug : {FALSE},
   roi_size : Rois, mask : Masks]
  \cup
  [fragment : {FALSE}, dropped : {FALSE}, debug : {TRUE},
   roi_size : {DebugRoi}, mask : {Channels}]

NumChannels == Cardinality(evt.mask)
NoPayload   == evt.fragment \/ evt.dropped

-----------------------------------------------------------------------------
(* The processes that run at every clock beside the packet formatter.        *)

SizeRegisters ==
  /\ payload_size'   = get_payload_size(evt)
  /\ packet_length'  = get_packet_size(payload_size)
  /\ packet_padding' = get_packet_padding(packet_length)

(* Mutant: the reset of the CRC register does not reach it.                  *)
AccumulateWithoutReset(crc, crc_rst, enable) == IF enable THEN crc + 1 ELSE crc

Accumulate(crc, crc_rst, enable) ==
  IF crc_rst THEN 0 ELSE IF enable THEN crc + 1 ELSE crc

CrcRegisters ==
  /\ packet_crc_rst'  = (state \in {"IDLE", "TAIL"})
  /\ packet_crc'      = Accumulate(packet_crc, packet_crc_rst,
                                   dav /\ state \notin {"TAIL", "CRC32"})
  /\ channel_crc_rst' = (state = "IDLE" \/ (state = "CH_CRC" /\ state_word_cnt = 0))
  /\ channel_crc'     = Accumulate(channel_crc, channel_crc_rst,
                          \/ state = "CALC_CH_CRC"
                          \/ state = "PAYLOAD" /\ dav /\ state_word_cnt > 0)

(* What an edge at which no trigger is latched leaves alone, and does.       *)
Beside ==
  /\ SizeRegisters
  /\ CrcRegisters
  /\ UNCHANGED <<evt, dirty>>

Goto(rst, s) == state' = IF rst THEN "IDLE" ELSE s

(* Put a word on data_o, or leave it idle.                                   *)
Send   == dav' = TRUE  /\ sent' = sent + 1
Silent == dav' = FALSE /\ UNCHANGED sent

KeepChannel == UNCHANGED <<channel_cnt, channel_id>>
KeepTimeout == UNCHANGED <<payload_timeout_counter, packet_timed_out>>
KeepFields  == UNCHANGED <<len_field, headers, overrun>>

(* Mutant: every multi-word state sends one word more.                       *)
CountOneMore(rst, words, to) ==
  IF state_word_cnt = words
  THEN Goto(rst, to) /\ state_word_cnt' = 0
  ELSE Goto(rst, state) /\ state_word_cnt' = (state_word_cnt + 1) % CNT_MOD

(* One pass of a state that sends `words` words and then moves to `to`.      *)
CountWords(rst, words, to) ==
  IF state_word_cnt = words - 1
  THEN Goto(rst, to) /\ state_word_cnt' = 0
  ELSE Goto(rst, state) /\ state_word_cnt' = (state_word_cnt + 1) % CNT_MOD

-----------------------------------------------------------------------------
(* IDLE_state: the channel and timeout registers are cleared at every edge.  *)

IdleRegisters ==
  /\ state = "IDLE"
  /\ channel_cnt' = 0 /\ channel_id' = 0
  /\ packet_timed_out' = FALSE /\ payload_timeout_counter' = 0
  /\ dav' = FALSE /\ drs_rden' = FALSE
  /\ UNCHANGED state_word_cnt
  /\ SizeRegisters /\ CrcRegisters

Wait ==
  /\ IdleRegisters
  /\ ack' = FALSE
  /\ UNCHANGED <<state, evt, history>>

(* A trigger, a fragment or a debug packet is accepted: acknowledge it and   *)
(* latch its parameters.                                                     *)
Accept(rst, req) ==
  /\ IdleRegisters
  /\ ack' = TRUE
  /\ Goto(rst, "HEAD")
  /\ evt' = req
  /\ sent' = 0 /\ headers' = <<>> /\ len_field' = 0
  /\ dirty' = (state_word_cnt # 0) /\ overrun' = FALSE

(* The states that send one word and go on to the next.                      *)
NextState ==
  [HEAD   |-> "STATUS", STATUS |-> "LENGTH", LENGTH |-> "ROI", ROI |-> "DNA",
   DNA    |-> "RSVD0",  RSVD0  |-> "HOUSEKEEPING",
   HASH   |-> "ID",     ID     |-> "CHMASK", CHMASK |-> "EVENT_CNT",
   DTAP   |-> "DRS_TEMP", DRS_TEMP |-> "TIMESTAMP",
   STOP_CELL |-> "CALC_CRC32", TAIL |-> "PAD"]

SingleWord(rst) ==
  /\ state \in DOMAIN NextState
  /\ Goto(rst, NextState[state])
  /\ channel_id' = IF state = "CHMASK" THEN get_first_channel(evt.mask) ELSE channel_id
  /\ len_field' = IF state = "LENGTH" THEN packet_length ELSE len_field
  /\ Send /\ ack' = FALSE /\ drs_rden' = FALSE
  /\ Beside /\ KeepTimeout
  /\ UNCHANGED <<state_word_cnt, channel_cnt, headers, overrun>>

(* The states that send several words.                                       *)
MultiWord(rst) ==
  /\ \/ state = "HOUSEKEEPING" /\ CountWords(rst, HousekeepingWords, "HASH")
     \/ state = "EVENT_CNT"    /\ CountWords(rst, EventCntWords, "DTAP")
     \/ state = "TIMESTAMP"    /\ CountWords(rst, TimestampWords,
                                     IF NoPayload THEN "CRC32" ELSE "CH_HEADER")
     \/ state = "CH_CRC"       /\ CountWords(rst, CrcWords,
                                     IF channel_cnt = NumChannels
                                     THEN "STOP_CELL" ELSE "CH_HEADER")
     \/ state = "CRC32"        /\ CountWords(rst, CrcWords, "TAIL")
     \/ state = "PAD"          /\ CountWords(rst, packet_padding, "WAIT")
     \/ state = "WAIT"         /\ CountWords(rst, PAD, "IDLE")
  /\ Send /\ ack' = FALSE /\ drs_rden' = FALSE
  /\ Beside /\ KeepChannel /\ KeepTimeout /\ KeepFields

(* The extra clocks that let the last word reach a CRC register.             *)
CalcCrc(rst) ==
  /\ \/ state = "CALC_CH_CRC" /\ Goto(rst, "CH_CRC")
     \/ state = "CALC_CRC32"  /\ Goto(rst, "CRC32")
  /\ Silent /\ ack' = FALSE /\ drs_rden' = FALSE
  /\ Beside /\ KeepChannel /\ KeepTimeout /\ KeepFields
  /\ UNCHANGED state_word_cnt

ChHeader(rst) ==
  /\ state = "CH_HEADER"
  /\ Goto(rst, IF NumChannels = 0 THEN "CRC32" ELSE "PAYLOAD")
  /\ state_word_cnt' = 0
  /\ drs_rden' = (NumChannels # 0)
  /\ headers' = Append(headers, channel_id)
  /\ Send /\ ack' = FALSE
  /\ Beside /\ KeepChannel /\ KeepTimeout
  /\ UNCHANGED <<len_field, overrun>>

-----------------------------------------------------------------------------
(* PAYLOAD_state.  `drs_valid` is the valid flag of the DRS FIFO.            *)

(* Mutant: the timeout is noted but no words are made up after it.           *)
WordIgnoresTimeout(drs_valid) == evt.debug \/ drs_valid

(* A word is taken at this clock: from the FIFO, or made up by the debug     *)
(* packet or after a timeout.                                                *)
Word(drs_valid) == packet_timed_out \/ evt.debug \/ drs_valid

(* Mutant: the counter is compared with one more than its range holds.       *)
TimeoutOneLater == payload_timeout_counter = PAYLOAD_TIMEOUT_MAX + 1

TimeoutExpires == payload_timeout_counter = PAYLOAD_TIMEOUT_MAX

PayloadStep(drs_valid) ==
  /\ state = "PAYLOAD"
  /\ IF Word(drs_valid) THEN Send ELSE Silent
  /\ ack' = FALSE
  /\ Beside
  /\ UNCHANGED <<len_field, headers>>

(* The timeout branch comes first in the code: at this edge a word is still  *)
(* counted, but the end of the channel is not looked at.                     *)
PayloadTimeout(rst, drs_valid) ==
  /\ PayloadStep(drs_valid)
  /\ TimeoutExpires
  /\ Goto(rst, "PAYLOAD")
  /\ payload_timeout_counter' = 0 /\ packet_timed_out' = TRUE
  /\ state_word_cnt' = IF Word(drs_valid) THEN (state_word_cnt + 1) % CNT_MOD
                                          ELSE state_word_cnt
  /\ drs_rden' = TRUE
  /\ overrun' = (overrun \/ (Word(drs_valid) /\ state_word_cnt = evt.roi_size))
  /\ KeepChannel

PayloadWord(rst, drs_valid) ==
  /\ PayloadStep(drs_valid)
  /\ ~TimeoutExpires
  /\ Word(drs_valid) /\ state_word_cnt # evt.roi_size
  /\ Goto(rst, "PAYLOAD")
  /\ payload_timeout_counter' = 0
  /\ state_word_cnt' = (state_word_cnt + 1) % CNT_MOD
  /\ drs_rden' = TRUE
  /\ KeepChannel
  /\ UNCHANGED <<packet_timed_out, overrun>>

PayloadLast(rst, drs_valid) ==
  /\ PayloadStep(drs_valid)
  /\ ~TimeoutExpires
  /\ Word(drs_valid) /\ state_word_cnt = evt.roi_size
  /\ Goto(rst, "CALC_CH_CRC")
  /\ payload_timeout_counter' = 0
  /\ state_word_cnt' = 0
  /\ channel_cnt' = channel_cnt + 1
  /\ channel_id' = get_next_channel(channel_id, evt.mask)
  /\ drs_rden' = FALSE
  /\ UNCHANGED <<packet_timed_out, overrun>>

PayloadStall(rst) ==
  /\ PayloadStep(FALSE)
  /\ ~TimeoutExpires
  /\ ~Word(FALSE)
  /\ Goto(rst, "PAYLOAD")
  /\ payload_timeout_counter' = payload_timeout_counter + 1
  /\ drs_rden' = TRUE
  /\ KeepChannel
  /\ UNCHANGED <<state_word_cnt, packet_timed_out, overrun>>

-----------------------------------------------------------------------------

NoRequest == [fragment |-> FALSE, dropped |-> FALSE, debug |-> FALSE,
              roi_size |-> 0, mask |-> {}]

(* The power-up values of the registers.                                     *)
Init ==
  /\ state = "IDLE" /\ state_word_cnt = 0
  /\ channel_cnt = 0 /\ channel_id = 0
  /\ payload_timeout_counter = 0 /\ packet_timed_out = FALSE
  /\ drs_rden = FALSE /\ ack = FALSE /\ dav = FALSE
  /\ evt = NoRequest
  /\ payload_size = 0 /\ packet_length = 0 /\ packet_padding = 0
  /\ packet_crc = 0 /\ packet_crc_rst = TRUE
  /\ channel_crc = 0 /\ channel_crc_rst = TRUE
  /\ sent = 0 /\ len_field = 0 /\ headers = <<>>
  /\ dirty = FALSE /\ overrun = FALSE

Next ==
  \/ Wait
  \/ \E rst \in RESETS :
       \/ \E req \in Requests : Accept(rst, req)
       \/ SingleWord(rst)
       \/ MultiWord(rst)
       \/ CalcCrc(rst)
       \/ ChHeader(rst)
       \/ \E drs_valid \in BOOLEAN :
            \/ PayloadTimeout(rst, drs_valid)
            \/ PayloadWord(rst, drs_valid)
            \/ PayloadLast(rst, drs_valid)
       \/ PayloadStall(rst)

(* `clock` is free running: an edge always comes.                            *)
Spec == Init /\ [][Next]_vars /\ WF_vars(Next)

-----------------------------------------------------------------------------
(* Properties.                                                               *)

(* Every register stays within the range its declaration gives it.           *)
FsmType ==
  /\ state \in States
  /\ state_word_cnt \in 0..(CNT_MOD - 1)
  /\ channel_cnt \in Nat /\ channel_id \in Nat
  /\ payload_timeout_counter \in 0..PAYLOAD_TIMEOUT_MAX
  /\ packet_timed_out \in BOOLEAN
  /\ drs_rden \in BOOLEAN /\ ack \in BOOLEAN /\ dav \in BOOLEAN
EventType == evt \in Requests \cup {NoRequest}
SizeType  == payload_size \in Nat /\ packet_length \in Nat /\ packet_padding \in 0..PAD
CrcType   == /\ packet_crc \in Nat /\ packet_crc_rst \in BOOLEAN
             /\ channel_crc \in Nat /\ channel_crc_rst \in BOOLEAN
HistoryType ==
  /\ sent \in Nat /\ len_field \in Nat /\ headers \in Seq(Nat)
  /\ dirty \in BOOLEAN /\ overrun \in BOOLEAN

TypeOK == FsmType /\ EventType /\ SizeType /\ CrcType /\ HistoryType

(* Neither of the two ways in which the word count of a packet is known to   *)
(* go wrong applies to the current packet.                                   *)
Intact == ~dirty /\ ~overrun

(* The LEN word, computed two clocks before it is sent and long before the   *)
(* payload exists, is the number of 16 bit words from HEAD to TAIL for a     *)
(* packet with payload; a fragment or dropped packet is one word shorter     *)
(* than its LEN, because it jumps from TIMESTAMP over STOP_CELL to CRC32.    *)
PacketLength ==
  state = "TAIL" /\ Intact =>
    sent + 1 = IF NoPayload THEN len_field - 1 ELSE len_field

(* At STOP_CELL exactly the channels of the mask have been sent, once each,  *)
(* in ascending order: the termination test counts channels while the walk   *)
(* follows the bits of the mask, and the two agree.                          *)
ChannelOrder ==
  state = "STOP_CELL" =>
    /\ {headers[i] : i \in 1..Len(headers)} = evt.mask
    /\ \A i, j \in 1..Len(headers) : i < j => headers[i] < headers[j]

(* In a packet with payload the CRC that starts to be sent covers every word *)
(* before it and no word of an earlier packet; the channel CRC covers the    *)
(* channel's roi_size + 1 samples and neither its header nor another channel.*)
CrcCoverage ==
  /\ state = "CRC32" /\ state_word_cnt = 0 /\ ~NoPayload /\ NumChannels # 0 =>
        packet_crc = sent
  /\ state = "CH_CRC" /\ state_word_cnt = 0 /\ ~overrun =>
        channel_crc = evt.roi_size + 1

(* What the packet format in src/README.md says of every packet's CRC32,     *)
(* "Packet CRC (excluding Trailer)".  A packet without payload, and one with *)
(* an empty mask, goes to CRC32 without the clock of CALC_CRC32: its CRC     *)
(* misses the word before it: as an INVARIANT of MCDaq.cfg it is violated.   *)
CrcCoversPacket == state = "CRC32" /\ state_word_cnt = 0 => packet_crc = sent

(* The words sent with busy low are one whole DMA burst of their own: a      *)
(* packet with payload enters WAIT on a burst boundary.  The DMA controller  *)
(* switches buffers on such a burst and reads bursts of PAD words only.      *)
IdleBurstAligned ==
  state = "WAIT" /\ Intact /\ ~NoPayload => sent % PAD = state_word_cnt

(* What the comment on get_packet_padding says of every packet: the padded   *)
(* packet is a multiple of g_PACKET_PAD words.  A packet without payload     *)
(* breaks it: its padding is computed for a STOP_CELL word it does not send. *)
PadsToBurst == state = "WAIT" /\ Intact => sent % PAD = state_word_cnt

(* What the formatter's neighbours see of it: the phase of the packet and    *)
(* the words of the gap, from the state and its word counter.                *)
Phase ==
  CASE state = "IDLE" -> "ready"
    [] state = "WAIT" -> "gap"
    [] state \in {"CH_HEADER", "PAYLOAD", "CALC_CH_CRC", "CH_CRC"} -> "payload"
    [] state \in {"STOP_CELL", "CALC_CRC32", "CRC32", "TAIL", "PAD"} -> "trailer"
    [] OTHER -> "header"

Interface == INSTANCE Formatter
             WITH Events <- Requests, NoEvent <- NoRequest, GAP <- PAD,
                  phase <- Phase, event <- evt,
                  gap <- IF state = "WAIT" THEN state_word_cnt ELSE 0

(* The formatter keeps its promises to the event queue and to the DMA        *)
(* controller: one acknowledge per event, its parameters fixed until its     *)
(* packet is out, every packet ends whatever the DRS FIFO delivers, and a    *)
(* gap of one whole burst follows it.                                        *)
ImplementsFormatter == Interface!Spec

(* Whatever the DRS does (no data at all included) and whenever the register *)
(* reset is pulsed, the formatter comes back to IDLE and can accept again.   *)
ComesBackToIdle == []<>(state = "IDLE")

=============================================================================
