----------------------------- MODULE DaqProofs -----------------------------
(***************************************************************************)
(* Theorems about the packet formatter, for every set of channels and      *)
(* masks, every roi_size and every burst size that DaqAssumption admits.   *)
(***************************************************************************)
EXTENDS Daq, NatSets

-----------------------------------------------------------------------------
(* Arithmetic and the helper functions.                                      *)

(* A counter below its modulus is not changed by the wrap.                   *)
LEMMA ModSmall == ASSUME NEW m \in Nat \ {0}, NEW x \in 0..(m - 1)
                  PROVE  x % m = x
  BY SMT

(* A remainder is below its modulus.                                         *)
LEMMA ModRange == ASSUME NEW m \in Nat \ {0}, NEW x \in Int
                  PROVE  x % m \in 0..(m - 1)
  BY SMT

(* The priority encoder of get_first_channel and get_next_channel returns a  *)
(* channel of the mask, 0 for an empty one.                                  *)
LEMMA LowestType == ASSUME NEW s \in SUBSET Nat
                    PROVE  /\ Lowest(s) \in Nat
                           /\ s # {} => /\ Lowest(s) \in s
                                        /\ \A d \in s : Lowest(s) <= d
<1>1. CASE s = {}
  BY <1>1 DEF Lowest
<1>2. CASE s # {}
  <2>1. \E x \in s : \A y \in s : x <= y
    BY <1>2, LeastElement
  <2>2. Lowest(s) \in s /\ \A d \in s : Lowest(s) <= d
    BY <1>2, <2>1 DEF Lowest
  <2> QED BY <2>2
<1> QED BY <1>1, <1>2

(* What may be latched as the parameters of a packet.                        *)
Latched == Requests \cup {NoRequest}

LEMMA LatchedFields ==
  ASSUME NEW e \in Latched
  PROVE  /\ e.fragment \in BOOLEAN /\ e.dropped \in BOOLEAN /\ e.debug \in BOOLEAN
         /\ e.roi_size \in Nat
         /\ e.mask \in SUBSET Nat /\ IsFiniteSet(e.mask)
         /\ Cardinality(e.mask) \in Nat
<1>1. /\ e.fragment \in BOOLEAN /\ e.dropped \in BOOLEAN /\ e.debug \in BOOLEAN
      /\ e.roi_size \in Nat
      /\ e.mask \in SUBSET Channels
  <2>1. CASE e \in [fragment : BOOLEAN, dropped : BOOLEAN, debug : {FALSE},
                    roi_size : Rois, mask : Masks]
    BY <2>1, DaqAssumption
  <2>2. CASE e \in [fragment : {FALSE}, dropped : {FALSE}, debug : {TRUE},
                    roi_size : {DebugRoi}, mask : {Channels}]
    BY <2>2, DaqAssumption
  <2>3. CASE e = NoRequest
    BY <2>3 DEF NoRequest
  <2> QED BY <2>1, <2>2, <2>3 DEF Latched, Requests
<1>2. IsFiniteSet(e.mask)
  BY <1>1, DaqAssumption, FS_Subset
<1>3. e.mask \in SUBSET Nat
  BY <1>1, DaqAssumption
<1> QED BY <1>1, <1>2, <1>3, FS_CardinalityType

(* The word counter has room for the samples of a channel: their number is   *)
(* below its modulus.                                                        *)
LEMMA RoiFits == ASSUME NEW e \in Requests \cup {NoRequest}
                 PROVE  e.roi_size + 1 < CNT_MOD
<1>1. CASE e \in [fragment : BOOLEAN, dropped : BOOLEAN, debug : {FALSE},
                  roi_size : Rois, mask : Masks]
  BY <1>1, DaqAssumption
<1>2. CASE e \in [fragment : {FALSE}, dropped : {FALSE}, debug : {TRUE},
                  roi_size : {DebugRoi}, mask : {Channels}]
  BY <1>2, DaqAssumption
<1>3. CASE e = NoRequest
  BY <1>3, DaqAssumption DEF NoRequest
<1> QED BY <1>1, <1>2, <1>3 DEF Requests

(* The size pipeline computes natural numbers.                               *)
LEMMA PayloadSizeType ==
  ASSUME NEW e \in Latched
  PROVE  get_payload_size(e) \in Nat
<1>1. Cardinality(e.mask) \in Nat /\ e.roi_size \in Nat
  BY LatchedFields
<1>2. \A a, b \in Nat : a * b \in Nat
  OBVIOUS
<1>3. 1 + 1 + e.roi_size + CrcWords \in Nat
  BY <1>1 DEF CrcWords
<1> QED BY <1>1, <1>2, <1>3 DEF get_payload_size

LEMMA PaddingType ==
  ASSUME NEW size \in Nat
  PROVE  get_packet_padding(size) \in 0..PAD
<1>1. PAD \in Nat \ {0}
  BY DaqAssumption
<1>2. size % PAD \in 0..(PAD - 1)
  BY <1>1, ModRange
<1> QED BY <1>1, <1>2 DEF get_packet_padding

-----------------------------------------------------------------------------
(* Type correctness.                                                         *)

LEMMA SizeRegistersType ==
  ASSUME TypeOK, SizeRegisters
  PROVE  SizeType'
<1>1. get_payload_size(evt) \in Nat
  BY PayloadSizeType DEF TypeOK, EventType, Latched
<1>2. get_packet_size(payload_size) \in Nat
  BY DEF TypeOK, SizeType, get_packet_size, OverheadWords
<1>3. get_packet_padding(packet_length) \in 0..PAD
  BY PaddingType DEF TypeOK, SizeType
<1> QED BY <1>1, <1>2, <1>3 DEF SizeRegisters, SizeType

LEMMA CrcRegistersType ==
  ASSUME TypeOK, CrcRegisters
  PROVE  CrcType'
<1>1. packet_crc_rst' \in BOOLEAN /\ channel_crc_rst' \in BOOLEAN
  BY DEF CrcRegisters
<1>2. packet_crc' \in Nat /\ channel_crc' \in Nat
  BY DEF TypeOK, CrcType, CrcRegisters, Accumulate
<1> QED BY <1>1, <1>2 DEF CrcType

(* What every edge but those of IDLE_state keeps well typed.                 *)
LEMMA BesideType ==
  ASSUME TypeOK, Beside
  PROVE  EventType' /\ SizeType' /\ CrcType' /\ dirty' \in BOOLEAN
<1>1. SizeType' /\ CrcType'
  BY SizeRegistersType, CrcRegistersType DEF Beside
<1>2. EventType' /\ dirty' \in BOOLEAN
  BY DEF Beside, TypeOK, EventType, HistoryType, Requests, NoRequest
<1> QED BY <1>1, <1>2

(* The counter of the multi-word states stays within its range.              *)
LEMMA WrapType ==
  ASSUME TypeOK
  PROVE  (state_word_cnt + 1) % CNT_MOD \in 0..(CNT_MOD - 1)
<1>1. state_word_cnt + 1 \in Int /\ CNT_MOD \in Nat \ {0}
  BY DaqAssumption DEF TypeOK, FsmType
<1> QED BY <1>1, ModRange

LEMMA CountWordsType ==
  ASSUME TypeOK, NEW rst \in BOOLEAN, NEW words, NEW to \in States,
         CountWords(rst, words, to)
  PROVE  state' \in States /\ state_word_cnt' \in 0..(CNT_MOD - 1)
<1>1. state' \in States
  BY DEF TypeOK, FsmType, CountWords, Goto, States
<1>2. 0 \in 0..(CNT_MOD - 1)
  BY DaqAssumption
<1>3. state_word_cnt' \in 0..(CNT_MOD - 1)
  BY <1>2, WrapType DEF CountWords
<1> QED BY <1>1, <1>3

LEMMA TypeInit == Init => TypeOK
<1> SUFFICES ASSUME Init PROVE TypeOK
  OBVIOUS
<1>1. FsmType
  <2>1. state_word_cnt \in 0..(CNT_MOD - 1)
        /\ payload_timeout_counter \in 0..PAYLOAD_TIMEOUT_MAX
    BY DaqAssumption DEF Init
  <2> QED BY <2>1 DEF Init, FsmType, States
<1>2. EventType
  BY DEF Init, EventType
<1>3. SizeType
  BY DaqAssumption DEF Init, SizeType
<1>4. CrcType
  BY DEF Init, CrcType
<1>5. HistoryType
  <2>1. headers \in Seq(Nat)
    BY DEF Init
  <2> QED BY <2>1 DEF Init, HistoryType
<1> QED BY <1>1, <1>2, <1>3, <1>4, <1>5 DEF TypeOK

(* The types after an edge of PAYLOAD_state, from those of the registers the *)
(* four cases treat differently.                                             *)
LEMMA PayloadStepType ==
  ASSUME TypeOK, NEW drs_valid \in BOOLEAN, PayloadStep(drs_valid),
         state' \in States, state_word_cnt' \in 0..(CNT_MOD - 1),
         channel_cnt' \in Nat, channel_id' \in Nat,
         payload_timeout_counter' \in 0..PAYLOAD_TIMEOUT_MAX,
         packet_timed_out' \in BOOLEAN, drs_rden' \in BOOLEAN, overrun' \in BOOLEAN
  PROVE  TypeOK'
<1>1. EventType' /\ SizeType' /\ CrcType' /\ dirty' \in BOOLEAN
  BY BesideType DEF PayloadStep
<1>2. dav' \in BOOLEAN /\ ack' \in BOOLEAN /\ sent' \in Nat
  <2>1. /\ dav' \in BOOLEAN /\ ack' \in BOOLEAN
        /\ sent' = sent + 1 \/ sent' = sent
    BY Zenon DEF PayloadStep, Send, Silent
  <2>2. sent' \in Nat
    BY <2>1 DEF TypeOK, HistoryType
  <2> QED BY <2>1, <2>2
<1>3. FsmType'
  BY <1>2 DEF FsmType
<1>4. HistoryType'
  BY <1>1, <1>2 DEF PayloadStep, TypeOK, HistoryType
<1> QED BY <1>1, <1>3, <1>4 DEF TypeOK

LEMMA TypeNext == TypeOK /\ [Next]_vars => TypeOK'
<1> SUFFICES ASSUME TypeOK, [Next]_vars PROVE TypeOK'
  OBVIOUS
<1>0. /\ 0 \in 0..(CNT_MOD - 1)
      /\ 0 \in 0..PAYLOAD_TIMEOUT_MAX
      /\ (state_word_cnt + 1) % CNT_MOD \in 0..(CNT_MOD - 1)
  BY WrapType, DaqAssumption
<1>1. CASE UNCHANGED vars
  BY <1>1 DEF TypeOK, FsmType, EventType, SizeType, CrcType, HistoryType,
              Requests, NoRequest, vars, fsmVars, sizeVars, crcVars, history
<1>2. CASE Wait
  <2>1. SizeType' /\ CrcType'
    BY <1>2, SizeRegistersType, CrcRegistersType DEF Wait, IdleRegisters
  <2>2. FsmType'
    BY <1>2, <1>0 DEF Wait, IdleRegisters, TypeOK, FsmType
  <2>3. EventType' /\ HistoryType'
    BY <1>2 DEF Wait, TypeOK, EventType, HistoryType, history, Requests, NoRequest
  <2> QED BY <2>1, <2>2, <2>3 DEF TypeOK
<1>3. ASSUME NEW rst \in RESETS, NEW req \in Requests, Accept(rst, req)
      PROVE  TypeOK'
  <2>1. SizeType' /\ CrcType'
    BY <1>3, SizeRegistersType, CrcRegistersType DEF Accept, IdleRegisters
  <2>2. FsmType'
    BY <1>3, <1>0 DEF Accept, Goto, IdleRegisters, TypeOK, FsmType, States
  <2>3. EventType'
    BY <1>3 DEF Accept, EventType
  <2>4. HistoryType'
    <3>1. headers' \in Seq(Nat)
      BY <1>3 DEF Accept
    <3> QED BY <1>3, <3>1 DEF Accept, HistoryType
  <2> QED BY <2>1, <2>2, <2>3, <2>4 DEF TypeOK
<1>4. ASSUME NEW rst \in RESETS, SingleWord(rst)
      PROVE  TypeOK'
  <2>1. EventType' /\ SizeType' /\ CrcType' /\ dirty' \in BOOLEAN
    BY <1>4, BesideType DEF SingleWord
  <2>2. get_first_channel(evt.mask) \in Nat
    BY LatchedFields, LowestType DEF TypeOK, EventType, Latched, get_first_channel
  <2>3. state' \in States
    BY <1>4 DEF SingleWord, NextState, Goto, States
  <2>4. FsmType'
    BY <1>4, <2>2, <2>3 DEF SingleWord, Send, KeepTimeout, TypeOK, FsmType
  <2>5. HistoryType'
    BY <1>4, <2>1 DEF SingleWord, Send, TypeOK, HistoryType, SizeType
  <2> QED BY <2>1, <2>4, <2>5 DEF TypeOK
<1>5. ASSUME NEW rst \in RESETS, MultiWord(rst)
      PROVE  TypeOK'
  <2>1. EventType' /\ SizeType' /\ CrcType' /\ dirty' \in BOOLEAN
    BY <1>5, BesideType DEF MultiWord
  <2>2. rst \in BOOLEAN
    BY DaqAssumption
  <2>3. state' \in States /\ state_word_cnt' \in 0..(CNT_MOD - 1)
    BY <1>5, <2>2, CountWordsType DEF MultiWord, States
  <2>4. FsmType'
    BY <1>5, <2>3 DEF MultiWord, Send, KeepChannel, KeepTimeout, TypeOK, FsmType
  <2>5. HistoryType'
    BY <1>5, <2>1 DEF MultiWord, Send, KeepFields, TypeOK, HistoryType
  <2> QED BY <2>1, <2>4, <2>5 DEF TypeOK
<1>6. ASSUME NEW rst \in RESETS, CalcCrc(rst)
      PROVE  TypeOK'
  <2>1. EventType' /\ SizeType' /\ CrcType' /\ dirty' \in BOOLEAN
    BY <1>6, BesideType DEF CalcCrc
  <2>2. FsmType'
    BY <1>6 DEF CalcCrc, Goto, Silent, KeepChannel, KeepTimeout, TypeOK, FsmType, States
  <2>3. HistoryType'
    BY <1>6, <2>1 DEF CalcCrc, Silent, KeepFields, TypeOK, HistoryType
  <2> QED BY <2>1, <2>2, <2>3 DEF TypeOK
<1>7. ASSUME NEW rst \in RESETS, ChHeader(rst)
      PROVE  TypeOK'
  <2>1. EventType' /\ SizeType' /\ CrcType' /\ dirty' \in BOOLEAN
    BY <1>7, BesideType DEF ChHeader
  <2>2. FsmType'
    BY <1>7, <1>0 DEF ChHeader, Goto, Send, KeepChannel, KeepTimeout, TypeOK, FsmType,
                      States
  <2>3. headers' \in Seq(Nat)
    BY <1>7 DEF ChHeader, TypeOK, FsmType, HistoryType
  <2>4. HistoryType'
    BY <1>7, <2>1, <2>3 DEF ChHeader, Send, TypeOK, HistoryType
  <2> QED BY <2>1, <2>2, <2>4 DEF TypeOK
<1>8. ASSUME NEW rst \in RESETS, NEW drs_valid \in BOOLEAN,
             PayloadTimeout(rst, drs_valid)
      PROVE  TypeOK'
  <2>1. /\ PayloadStep(drs_valid)
        /\ state' \in States /\ state_word_cnt' \in 0..(CNT_MOD - 1)
        /\ channel_cnt' \in Nat /\ channel_id' \in Nat
        /\ payload_timeout_counter' \in 0..PAYLOAD_TIMEOUT_MAX
    BY <1>8, <1>0 DEF PayloadTimeout, Goto, KeepChannel, TypeOK, FsmType, States
  <2>2. packet_timed_out' \in BOOLEAN /\ drs_rden' \in BOOLEAN /\ overrun' \in BOOLEAN
    BY <1>8 DEF PayloadTimeout
  <2> QED BY <2>1, <2>2, PayloadStepType
<1>9. ASSUME NEW rst \in RESETS, NEW drs_valid \in BOOLEAN,
             PayloadWord(rst, drs_valid)
      PROVE  TypeOK'
  <2>1. /\ PayloadStep(drs_valid)
        /\ state' \in States /\ state_word_cnt' \in 0..(CNT_MOD - 1)
        /\ channel_cnt' \in Nat /\ channel_id' \in Nat
        /\ payload_timeout_counter' \in 0..PAYLOAD_TIMEOUT_MAX
    BY <1>9, <1>0 DEF PayloadWord, Goto, KeepChannel, TypeOK, FsmType, States
  <2>2. packet_timed_out' \in BOOLEAN /\ drs_rden' \in BOOLEAN /\ overrun' \in BOOLEAN
    BY <1>9 DEF PayloadWord, TypeOK, FsmType, HistoryType
  <2> QED BY <2>1, <2>2, PayloadStepType
<1>10. ASSUME NEW rst \in RESETS, NEW drs_valid \in BOOLEAN,
              PayloadLast(rst, drs_valid)
       PROVE  TypeOK'
  <2>1. {c \in evt.mask : c > channel_id} \in SUBSET Nat
    BY LatchedFields DEF TypeOK, EventType, Latched
  <2>2. get_next_channel(channel_id, evt.mask) \in Nat
    BY <2>1, LowestType DEF get_next_channel
  <2>3. /\ PayloadStep(drs_valid)
        /\ state' \in States /\ state_word_cnt' \in 0..(CNT_MOD - 1)
        /\ channel_cnt' \in Nat /\ channel_id' \in Nat
        /\ payload_timeout_counter' \in 0..PAYLOAD_TIMEOUT_MAX
    BY <1>10, <1>0, <2>2 DEF PayloadLast, Goto, TypeOK, FsmType, States
  <2>4. packet_timed_out' \in BOOLEAN /\ drs_rden' \in BOOLEAN /\ overrun' \in BOOLEAN
    BY <1>10 DEF PayloadLast, TypeOK, FsmType, HistoryType
  <2> QED BY <2>3, <2>4, PayloadStepType
<1>11. ASSUME NEW rst \in RESETS, PayloadStall(rst)
       PROVE  TypeOK'
  <2>1. payload_timeout_counter' \in 0..PAYLOAD_TIMEOUT_MAX
    BY <1>11, DaqAssumption DEF PayloadStall, TimeoutExpires, TypeOK, FsmType
  <2>2. /\ PayloadStep(FALSE)
        /\ state' \in States /\ state_word_cnt' \in 0..(CNT_MOD - 1)
        /\ channel_cnt' \in Nat /\ channel_id' \in Nat
    BY <1>11 DEF PayloadStall, Goto, KeepChannel, TypeOK, FsmType, States
  <2>3. packet_timed_out' \in BOOLEAN /\ drs_rden' \in BOOLEAN /\ overrun' \in BOOLEAN
    BY <1>11 DEF PayloadStall, TypeOK, FsmType, HistoryType
  <2> QED BY <2>1, <2>2, <2>3, PayloadStepType
<1> QED BY <1>1, <1>2, <1>3, <1>4, <1>5, <1>6, <1>7, <1>8, <1>9, <1>10, <1>11
           DEF Next

(* Every register of daq.vhd stays within its declared range, whatever the   *)
(* requests, the DRS data and the resets.                                    *)
THEOREM TypeCorrect == Spec => []TypeOK
  BY TypeInit, TypeNext, PTL DEF Spec


-----------------------------------------------------------------------------
(* The length of a packet.  PacketLength speaks of one state; its proof has  *)
(* to know at every state how many words have been sent and how far the size *)
(* pipeline has come.                                                        *)

(* Words sent when a state of the packet's head is entered.                  *)
SentBefore ==
  [HEAD |-> 0, STATUS |-> 1, LENGTH |-> 2, ROI |-> 3, DNA |-> 4, RSVD0 |-> 5,
   HOUSEKEEPING |-> 6, HASH |-> 8, ID |-> 9, CHMASK |-> 10, EVENT_CNT |-> 11,
   DTAP |-> 13, DRS_TEMP |-> 14, TIMESTAMP |-> 15]

(* Words of a channel, and of the channels already counted.                  *)
ChannelWords == evt.roi_size + 4
Counted      == channel_cnt * ChannelWords

(* Words sent when CRC32 is entered.                                         *)
SentBeforeCrc == IF NoPayload THEN 18 ELSE 19 + get_payload_size(evt)

HeadInv ==
  state \in DOMAIN SentBefore =>
    /\ channel_cnt = 0
    /\ sent = SentBefore[state] + state_word_cnt
    /\ state \notin {"HOUSEKEEPING", "EVENT_CNT", "TIMESTAMP"} => state_word_cnt = 0
    /\ state \in {"HOUSEKEEPING", "EVENT_CNT"} => state_word_cnt < 2
    /\ state = "TIMESTAMP" => state_word_cnt < 3

ChannelInv ==
  /\ state \in {"CH_HEADER", "PAYLOAD", "CALC_CH_CRC", "CH_CRC"} => ~NoPayload
  /\ state \in {"PAYLOAD", "CALC_CH_CRC", "CH_CRC"} => NumChannels # 0
  /\ state = "CH_HEADER" /\ NumChannels = 0 => channel_cnt = 0
  /\ state = "CH_HEADER"   => state_word_cnt = 0 /\ sent = 18 + Counted
  /\ state = "PAYLOAD"     => /\ state_word_cnt <= evt.roi_size
                              /\ sent = 19 + Counted + state_word_cnt
  /\ state = "CALC_CH_CRC" => state_word_cnt = 0 /\ sent = 16 + Counted
  /\ state = "CH_CRC"      => state_word_cnt < 2 /\ sent = 16 + Counted + state_word_cnt

TailInv ==
  /\ state \in {"STOP_CELL", "CALC_CRC32"} => ~NoPayload /\ state_word_cnt = 0
  /\ state = "STOP_CELL"  => sent + 1 = SentBeforeCrc
  /\ state = "CALC_CRC32" => sent = SentBeforeCrc
  /\ state = "CRC32"      => state_word_cnt < 2 /\ sent = SentBeforeCrc + state_word_cnt
  /\ state = "TAIL"       => state_word_cnt = 0 /\ sent = SentBeforeCrc + 2

SentInv == Intact => HeadInv /\ ChannelInv /\ TailInv

SizeInv ==
  /\ state \notin {"IDLE", "HEAD"} => payload_size = get_payload_size(evt)
  /\ state \notin {"IDLE", "HEAD", "STATUS"} =>
       packet_length = get_packet_size(get_payload_size(evt))
  /\ state \notin {"IDLE", "HEAD", "STATUS", "LENGTH"} =>
       len_field = get_packet_size(get_payload_size(evt))

LengthInv == SizeInv /\ SentInv

(* The payload size the pipeline computes is what the channels really take.  *)
LEMMA PayloadSizeIs ==
  ASSUME TypeOK, ~NoPayload
  PROVE  get_payload_size(evt) = NumChannels * ChannelWords
<1>1. evt.roi_size \in Nat
  BY LatchedFields DEF TypeOK, EventType, Latched
<1>2. 1 + 1 + evt.roi_size + CrcWords = ChannelWords
  BY <1>1 DEF CrcWords, ChannelWords
<1> QED BY <1>2 DEF get_payload_size, NoPayload, NumChannels

LEMMA CountedType ==
  ASSUME TypeOK
  PROVE  /\ evt.roi_size \in Nat /\ NumChannels \in Nat /\ ChannelWords \in Nat
         /\ Counted \in Nat
         /\ channel_cnt = 0 => Counted = 0
         /\ (channel_cnt + 1) * ChannelWords = Counted + ChannelWords
         /\ get_payload_size(evt) \in Nat
<1>1. evt.roi_size \in Nat /\ NumChannels \in Nat
  BY LatchedFields DEF TypeOK, EventType, Latched, NumChannels
<1>2. ChannelWords \in Nat
  BY <1>1 DEF ChannelWords
<1>3. channel_cnt \in Nat
  BY DEF TypeOK, FsmType
<1>4. \A a, b \in Nat : /\ a * b \in Nat /\ 0 * b = 0
                        /\ (a + 1) * b = a * b + b
  OBVIOUS
<1>5. get_payload_size(evt) \in Nat
  BY PayloadSizeType DEF TypeOK, EventType, Latched
<1> QED BY <1>1, <1>2, <1>3, <1>4, <1>5 DEF Counted

(* The size pipeline is settled once LEN has been sent.                      *)
LEMMA SizeSettled ==
  ASSUME SizeInv, Beside, len_field' = len_field,
         state \notin {"IDLE", "HEAD", "STATUS", "LENGTH"}
  PROVE  SizeInv'
  BY DEF SizeInv, Beside, SizeRegisters

LEMMA LengthInit == Init => LengthInv
  BY DEF Init, LengthInv, SizeInv, SentInv, HeadInv, ChannelInv, TailInv, SentBefore

(* In IDLE nothing is claimed.                                               *)
LEMMA LengthIdle == state = "IDLE" => LengthInv
  BY DEF LengthInv, SizeInv, SentInv, HeadInv, ChannelInv, TailInv, SentBefore

LEMMA LengthIdlePrimed == state' = "IDLE" => LengthInv'
  BY DEF LengthInv, SizeInv, SentInv, HeadInv, ChannelInv, TailInv, SentBefore

LEMMA LengthAccept ==
  ASSUME TypeOK, NEW rst \in RESETS, NEW req \in Requests, Accept(rst, req)
  PROVE  LengthInv'
<1>1. CASE state' = "IDLE"
  BY <1>1, LengthIdlePrimed
<1>2. CASE state' # "IDLE"
  <2>1. state' = "HEAD"
    BY <1>2 DEF Accept, Goto
  <2>2. SizeInv'
    BY <2>1 DEF SizeInv
  <2>3. SentInv'
    <3> SUFFICES ASSUME Intact' PROVE HeadInv' /\ ChannelInv' /\ TailInv'
      BY DEF SentInv
    <3>1. state_word_cnt' = 0 /\ channel_cnt' = 0 /\ sent' = 0
      BY DEF Accept, IdleRegisters, Intact
    <3>2. HeadInv'
      BY <2>1, <3>1 DEF HeadInv, SentBefore
    <3>3. ChannelInv' /\ TailInv'
      BY <2>1 DEF ChannelInv, TailInv
    <3> QED BY <3>2, <3>3
  <2> QED BY <2>2, <2>3 DEF LengthInv
<1> QED BY <1>1, <1>2

LEMMA LengthSingleWord ==
  ASSUME TypeOK, LengthInv, NEW rst \in RESETS, SingleWord(rst)
  PROVE  LengthInv'
<1>1. CASE state' = "IDLE"
  BY <1>1, LengthIdlePrimed
<1>2. CASE state' # "IDLE"
  <2>1. state \in DOMAIN NextState /\ state' = NextState[state]
    BY <1>2 DEF SingleWord, Goto
  <2>2. SizeInv'
    BY <2>1 DEF SingleWord, NextState, Beside, SizeRegisters, LengthInv, SizeInv
  <2>3. SentInv'
    <3> SUFFICES ASSUME Intact' PROVE HeadInv' /\ ChannelInv' /\ TailInv'
      BY DEF SentInv
    <3>1. HeadInv /\ TailInv
      BY DEF SingleWord, Beside, Intact, LengthInv, SentInv
    <3>2. /\ state_word_cnt' = state_word_cnt /\ channel_cnt' = channel_cnt
          /\ sent' = sent + 1 /\ evt' = evt
      BY DEF SingleWord, Send, Beside
    <3>3. sent \in Nat /\ get_payload_size(evt) \in Nat
      BY CountedType DEF TypeOK, HistoryType
    <3>4. HeadInv'
      BY <2>1, <3>1, <3>2, <3>3 DEF HeadInv, SentBefore, NextState
    <3>5. ChannelInv'
      BY <2>1 DEF ChannelInv, NextState
    <3>6. TailInv'
      BY <2>1, <3>1, <3>2, <3>3 DEF TailInv, NextState, SentBeforeCrc, NoPayload
    <3> QED BY <3>4, <3>5, <3>6
  <2> QED BY <2>2, <2>3 DEF LengthInv
<1> QED BY <1>1, <1>2

(* Within the words of a multi-word field the counter does not wrap.         *)
LEMMA CountWordsStep ==
  ASSUME TypeOK, NEW rst \in RESETS, NEW words, NEW to,
         CountWords(rst, words, to), state' # "IDLE", state_word_cnt < 3
  PROVE  \/ state_word_cnt = words - 1 /\ state' = to /\ state_word_cnt' = 0
         \/ /\ state_word_cnt # words - 1 /\ state' = state
            /\ state_word_cnt' = state_word_cnt + 1
<1>1. /\ CNT_MOD \in Nat \ {0} /\ state_word_cnt + 1 \in 0..(CNT_MOD - 1)
  BY DaqAssumption DEF TypeOK, FsmType
<1>2. (state_word_cnt + 1) % CNT_MOD = state_word_cnt + 1
  BY <1>1, ModSmall
<1> QED BY <1>2 DEF CountWords, Goto

LEMMA LengthMultiWord ==
  ASSUME TypeOK, LengthInv, NEW rst \in RESETS, MultiWord(rst)
  PROVE  LengthInv'
<1>1. CASE state' = "IDLE"
  BY <1>1, LengthIdlePrimed
<1>2. CASE state' # "IDLE"
  <2>1. SizeInv'
    <3>1. state \notin {"IDLE", "HEAD", "STATUS", "LENGTH"}
      BY DEF MultiWord
    <3>2. len_field' = len_field /\ SizeInv /\ Beside
      BY DEF MultiWord, KeepFields, LengthInv
    <3> QED BY <3>1, <3>2, SizeSettled
  <2>2. SentInv'
    <3> SUFFICES ASSUME Intact' PROVE HeadInv' /\ ChannelInv' /\ TailInv'
      BY DEF SentInv
    <3>1. HeadInv /\ ChannelInv /\ TailInv
      BY DEF MultiWord, KeepFields, Beside, Intact, LengthInv, SentInv
    <3>2. /\ channel_cnt' = channel_cnt /\ sent' = sent + 1 /\ evt' = evt
      BY DEF MultiWord, Send, Beside, KeepChannel
    <3>3. /\ sent \in Nat /\ state_word_cnt \in Nat /\ Counted \in Nat
          /\ get_payload_size(evt) \in Nat
          /\ channel_cnt = 0 => Counted = 0
      BY CountedType, DaqAssumption DEF TypeOK, HistoryType, FsmType
    <3>4. Counted' = Counted /\ SentBeforeCrc' = SentBeforeCrc /\ NoPayload' = NoPayload
          /\ NumChannels' = NumChannels
      BY <3>2 DEF Counted, ChannelWords, SentBeforeCrc, NoPayload, NumChannels
    <3>5. CASE state = "HOUSEKEEPING" /\ CountWords(rst, HousekeepingWords, "HASH")
      <4>1. state_word_cnt < 2 /\ sent = 6 + state_word_cnt /\ channel_cnt = 0
        BY <3>1, <3>5 DEF HeadInv, SentBefore
      <4>2. \/ state_word_cnt = 1 /\ state' = "HASH" /\ state_word_cnt' = 0
            \/ state_word_cnt = 0 /\ state' = "HOUSEKEEPING" /\ state_word_cnt' = 1
        BY <1>2, <3>3, <3>5, <4>1, CountWordsStep DEF HousekeepingWords
      <4> QED BY <3>2, <4>1, <4>2 DEF HeadInv, ChannelInv, TailInv, SentBefore
    <3>6. CASE state = "EVENT_CNT" /\ CountWords(rst, EventCntWords, "DTAP")
      <4>1. state_word_cnt < 2 /\ sent = 11 + state_word_cnt /\ channel_cnt = 0
        BY <3>1, <3>6 DEF HeadInv, SentBefore
      <4>2. \/ state_word_cnt = 1 /\ state' = "DTAP" /\ state_word_cnt' = 0
            \/ state_word_cnt = 0 /\ state' = "EVENT_CNT" /\ state_word_cnt' = 1
        BY <1>2, <3>3, <3>6, <4>1, CountWordsStep DEF EventCntWords
      <4> QED BY <3>2, <4>1, <4>2 DEF HeadInv, ChannelInv, TailInv, SentBefore
    <3>7. CASE state = "TIMESTAMP" /\ CountWords(rst, TimestampWords,
                                       IF NoPayload THEN "CRC32" ELSE "CH_HEADER")
      <4>1. state_word_cnt < 3 /\ sent = 15 + state_word_cnt /\ channel_cnt = 0
        BY <3>1, <3>7 DEF HeadInv, SentBefore
      <4>2. \/ /\ state_word_cnt = 2 /\ state_word_cnt' = 0
               /\ state' = IF NoPayload THEN "CRC32" ELSE "CH_HEADER"
            \/ /\ state_word_cnt \in {0, 1} /\ state' = "TIMESTAMP"
               /\ state_word_cnt' = state_word_cnt + 1
        BY <1>2, <3>3, <3>7, <4>1, CountWordsStep DEF TimestampWords
      <4>3. CASE state' = "TIMESTAMP"
        BY <3>2, <4>1, <4>2, <4>3 DEF HeadInv, ChannelInv, TailInv, SentBefore
      <4>4. CASE NoPayload /\ state' = "CRC32"
        <5>1. SentBeforeCrc' = 18
          BY <3>4, <4>4 DEF SentBeforeCrc
        <5> QED BY <3>2, <4>1, <4>2, <4>4, <5>1 DEF HeadInv, ChannelInv, TailInv, SentBefore
      <4>5. CASE ~NoPayload /\ state' = "CH_HEADER"
        BY <3>2, <3>3, <3>4, <4>1, <4>2, <4>5
           DEF HeadInv, ChannelInv, TailInv, SentBefore
      <4> QED BY <4>2, <4>3, <4>4, <4>5
    <3>8. CASE state = "CH_CRC" /\ CountWords(rst, CrcWords,
                                    IF channel_cnt = NumChannels
                                    THEN "STOP_CELL" ELSE "CH_HEADER")
      <4>1. /\ state_word_cnt < 2 /\ sent = 16 + Counted + state_word_cnt
            /\ ~NoPayload /\ NumChannels # 0
        BY <3>1, <3>8 DEF ChannelInv
      <4>2. \/ /\ state_word_cnt = 1 /\ state_word_cnt' = 0
               /\ state' = IF channel_cnt = NumChannels THEN "STOP_CELL" ELSE "CH_HEADER"
            \/ state_word_cnt = 0 /\ state' = "CH_CRC" /\ state_word_cnt' = 1
        BY <1>2, <3>3, <3>8, <4>1, CountWordsStep DEF CrcWords
      <4>3. CASE state' = "CH_CRC"
        BY <3>2, <3>3, <3>4, <4>1, <4>2, <4>3 DEF HeadInv, ChannelInv, TailInv, SentBefore
      <4>4. CASE state' = "CH_HEADER"
        BY <3>2, <3>3, <3>4, <4>1, <4>2, <4>4 DEF HeadInv, ChannelInv, TailInv, SentBefore
      <4>5. CASE channel_cnt = NumChannels /\ state' = "STOP_CELL"
        <5>1. SentBeforeCrc' = 19 + Counted
          BY <3>4, <4>1, <4>5, PayloadSizeIs DEF SentBeforeCrc, Counted
        <5> QED BY <3>2, <3>3, <3>4, <4>1, <4>2, <4>5, <5>1
                   DEF HeadInv, ChannelInv, TailInv, SentBefore
      <4> QED BY <4>2, <4>3, <4>4, <4>5
    <3>9. CASE state = "CRC32" /\ CountWords(rst, CrcWords, "TAIL")
      <4>1. state_word_cnt < 2 /\ sent = SentBeforeCrc + state_word_cnt
        BY <3>1, <3>9 DEF TailInv
      <4>2. \/ state_word_cnt = 1 /\ state' = "TAIL" /\ state_word_cnt' = 0
            \/ state_word_cnt = 0 /\ state' = "CRC32" /\ state_word_cnt' = 1
        BY <1>2, <3>3, <3>9, <4>1, CountWordsStep DEF CrcWords
      <4>3. SentBeforeCrc \in Nat
        BY <3>3 DEF SentBeforeCrc
      <4>4. CASE state' = "TAIL" /\ state_word_cnt = 1 /\ state_word_cnt' = 0
        <5>1. sent' = SentBeforeCrc' + 2
          BY <3>2, <3>4, <4>1, <4>3, <4>4
        <5> QED BY <4>4, <5>1 DEF HeadInv, ChannelInv, TailInv, SentBefore
      <4>5. CASE state' = "CRC32" /\ state_word_cnt = 0 /\ state_word_cnt' = 1
        <5>1. sent' = SentBeforeCrc' + 1
          BY <3>2, <3>4, <4>1, <4>3, <4>5
        <5> QED BY <4>5, <5>1 DEF HeadInv, ChannelInv, TailInv, SentBefore
      <4> QED BY <4>2, <4>4, <4>5
    <3>10. CASE \/ state = "PAD"  /\ CountWords(rst, packet_padding, "WAIT")
                \/ state = "WAIT" /\ CountWords(rst, PAD, "IDLE")
      <4>1. state' \in {"PAD", "WAIT"}
        BY <1>2, <3>10 DEF CountWords, Goto
      <4> QED BY <4>1 DEF HeadInv, ChannelInv, TailInv, SentBefore
    <3> QED BY <3>5, <3>6, <3>7, <3>8, <3>9, <3>10 DEF MultiWord
  <2> QED BY <2>1, <2>2 DEF LengthInv
<1> QED BY <1>1, <1>2

LEMMA LengthCalcCrc ==
  ASSUME TypeOK, LengthInv, NEW rst \in RESETS, CalcCrc(rst)
  PROVE  LengthInv'
<1>1. CASE state' = "IDLE"
  BY <1>1, LengthIdlePrimed
<1>2. CASE state' # "IDLE"
  <2>1. \/ state = "CALC_CH_CRC" /\ state' = "CH_CRC"
        \/ state = "CALC_CRC32" /\ state' = "CRC32"
    BY <1>2 DEF CalcCrc, Goto
  <2>2. SizeInv'
    <3>1. len_field' = len_field /\ SizeInv /\ Beside
      BY DEF CalcCrc, KeepFields, LengthInv
    <3> QED BY <2>1, <3>1, SizeSettled
  <2>3. SentInv'
    <3> SUFFICES ASSUME Intact' PROVE HeadInv' /\ ChannelInv' /\ TailInv'
      BY DEF SentInv
    <3>1. ChannelInv /\ TailInv
      BY DEF CalcCrc, KeepFields, Beside, Intact, LengthInv, SentInv
    <3>2. /\ channel_cnt' = channel_cnt /\ sent' = sent /\ evt' = evt
          /\ state_word_cnt' = state_word_cnt
      BY DEF CalcCrc, Silent, Beside, KeepChannel
    <3>3. /\ Counted' = Counted /\ SentBeforeCrc' = SentBeforeCrc
          /\ NoPayload' = NoPayload /\ NumChannels' = NumChannels
      BY <3>2 DEF Counted, ChannelWords, SentBeforeCrc, NoPayload, NumChannels
    <3>4. Counted \in Nat /\ SentBeforeCrc \in Nat
      BY CountedType DEF SentBeforeCrc
    <3> QED BY <2>1, <3>1, <3>2, <3>3, <3>4 DEF HeadInv, ChannelInv, TailInv, SentBefore
  <2> QED BY <2>2, <2>3 DEF LengthInv
<1> QED BY <1>1, <1>2

LEMMA LengthChHeader ==
  ASSUME TypeOK, LengthInv, NEW rst \in RESETS, ChHeader(rst)
  PROVE  LengthInv'
<1>1. CASE state' = "IDLE"
  BY <1>1, LengthIdlePrimed
<1>2. CASE state' # "IDLE"
  <2>1. /\ state = "CH_HEADER"
        /\ state' = IF NumChannels = 0 THEN "CRC32" ELSE "PAYLOAD"
    BY <1>2 DEF ChHeader, Goto
  <2>2. SizeInv'
    <3>1. len_field' = len_field /\ SizeInv /\ Beside
      BY DEF ChHeader, LengthInv
    <3> QED BY <2>1, <3>1, SizeSettled
  <2>3. SentInv'
    <3> SUFFICES ASSUME Intact' PROVE HeadInv' /\ ChannelInv' /\ TailInv'
      BY DEF SentInv
    <3>1. ChannelInv
      BY DEF ChHeader, Beside, Intact, LengthInv, SentInv
    <3>2. /\ channel_cnt' = channel_cnt /\ sent' = sent + 1 /\ evt' = evt
          /\ state_word_cnt' = 0
      BY DEF ChHeader, Send, Beside, KeepChannel
    <3>3. /\ Counted' = Counted /\ SentBeforeCrc' = SentBeforeCrc
          /\ NoPayload' = NoPayload /\ NumChannels' = NumChannels
      BY <3>2 DEF Counted, ChannelWords, SentBeforeCrc, NoPayload, NumChannels
    <3>4. /\ ~NoPayload /\ sent = 18 + Counted
          /\ NumChannels = 0 => channel_cnt = 0
      BY <2>1, <3>1 DEF ChannelInv
    <3>5. /\ Counted \in Nat /\ evt.roi_size \in Nat /\ ChannelWords \in Nat
          /\ channel_cnt = 0 => Counted = 0
      BY CountedType
    <3>6. CASE NumChannels = 0
      <4>1. SentBeforeCrc' = 19
        BY <3>3, <3>4, <3>5, <3>6, PayloadSizeIs DEF SentBeforeCrc
      <4> QED BY <2>1, <3>2, <3>4, <3>5, <3>6, <4>1
                 DEF HeadInv, ChannelInv, TailInv, SentBefore
    <3>7. CASE NumChannels # 0
      BY <2>1, <3>2, <3>3, <3>4, <3>5, <3>7 DEF HeadInv, ChannelInv, TailInv, SentBefore
    <3> QED BY <3>6, <3>7
  <2> QED BY <2>2, <2>3 DEF LengthInv
<1> QED BY <1>1, <1>2

(* An edge of PAYLOAD_state sends a word or none; the state after it is      *)
(* PAYLOAD_state with one more word, or the end of the channel.              *)
LEMMA LengthPayload ==
  ASSUME TypeOK, LengthInv, NEW rst \in RESETS, NEW drs_valid \in BOOLEAN,
         \/ PayloadTimeout(rst, drs_valid)
         \/ PayloadWord(rst, drs_valid)
         \/ PayloadLast(rst, drs_valid)
         \/ drs_valid = FALSE /\ PayloadStall(rst)
  PROVE  LengthInv'
<1>1. CASE state' = "IDLE"
  BY <1>1, LengthIdlePrimed
<1>2. CASE state' # "IDLE"
  <2>1. PayloadStep(drs_valid)
    BY DEF PayloadTimeout, PayloadWord, PayloadLast, PayloadStall
  <2>2. SizeInv'
    <3>1. state = "PAYLOAD" /\ len_field' = len_field /\ SizeInv /\ Beside
      BY <2>1 DEF PayloadStep, LengthInv
    <3> QED BY <3>1, SizeSettled
  <2>3. SentInv'
    <3> SUFFICES ASSUME Intact' PROVE HeadInv' /\ ChannelInv' /\ TailInv'
      BY DEF SentInv
    <3>1. ~overrun /\ ~dirty /\ evt' = evt
      <4>1. ~dirty' /\ ~overrun' /\ dirty' = dirty /\ evt' = evt
        BY <2>1 DEF PayloadStep, Beside, Intact
      <4>2. overrun => overrun'
        BY Zenon DEF PayloadTimeout, PayloadWord, PayloadLast, PayloadStall
      <4> QED BY <4>1, <4>2
    <3>2. /\ ~NoPayload /\ NumChannels # 0 /\ state_word_cnt <= evt.roi_size
          /\ sent = 19 + Counted + state_word_cnt
      BY <2>1, <3>1 DEF PayloadStep, LengthInv, SentInv, Intact, ChannelInv
    <3>3. NoPayload' = NoPayload /\ NumChannels' = NumChannels
          /\ ChannelWords' = ChannelWords
      BY <3>1 DEF NoPayload, NumChannels, ChannelWords
    <3>4. /\ Counted \in Nat /\ evt.roi_size \in Nat /\ state_word_cnt \in Nat
          /\ (channel_cnt + 1) * ChannelWords = Counted + ChannelWords
          /\ ChannelWords = evt.roi_size + 4
      BY CountedType, DaqAssumption DEF TypeOK, FsmType, ChannelWords
    <3>5. \/ /\ state' = "PAYLOAD" /\ channel_cnt' = channel_cnt
             /\ state_word_cnt' = state_word_cnt /\ sent' = sent
          \/ /\ state' = "PAYLOAD" /\ channel_cnt' = channel_cnt
             /\ state_word_cnt # evt.roi_size
             /\ state_word_cnt' = (state_word_cnt + 1) % CNT_MOD /\ sent' = sent + 1
          \/ /\ state' = "CALC_CH_CRC" /\ channel_cnt' = channel_cnt + 1
             /\ state_word_cnt = evt.roi_size
             /\ state_word_cnt' = 0 /\ sent' = sent + 1
      <4>1. CASE PayloadTimeout(rst, drs_valid)
        BY <1>2, <4>1, Zenon DEF PayloadTimeout, PayloadStep, Goto, Send, Silent,
                                 KeepChannel, Intact
      <4>2. CASE PayloadWord(rst, drs_valid)
        BY <1>2, <4>2, Zenon DEF PayloadWord, PayloadStep, Goto, Send, KeepChannel
      <4>3. CASE PayloadLast(rst, drs_valid)
        BY <1>2, <4>3, Zenon DEF PayloadLast, PayloadStep, Goto, Send
      <4>4. CASE drs_valid = FALSE /\ PayloadStall(rst)
        BY <1>2, <4>4, Zenon DEF PayloadStall, PayloadStep, Goto, Silent, KeepChannel
      <4> QED BY <4>1, <4>2, <4>3, <4>4
    <3>6. CASE state' = "PAYLOAD" /\ state_word_cnt' = state_word_cnt /\ sent' = sent
               /\ channel_cnt' = channel_cnt
      <4>1. Counted' = Counted
        BY <3>3, <3>6 DEF Counted
      <4> QED BY <3>1, <3>2, <3>3, <3>6, <4>1 DEF HeadInv, ChannelInv, TailInv, SentBefore
    <3>7. CASE /\ state' = "PAYLOAD" /\ channel_cnt' = channel_cnt
               /\ state_word_cnt # evt.roi_size
               /\ state_word_cnt' = (state_word_cnt + 1) % CNT_MOD /\ sent' = sent + 1
      <4>1. Counted' = Counted
        BY <3>3, <3>7 DEF Counted
      <4>2. evt.roi_size + 1 < CNT_MOD
        BY RoiFits DEF TypeOK, EventType
      <4>3. CNT_MOD \in Nat \ {0} /\ state_word_cnt + 1 \in 0..(CNT_MOD - 1)
        BY <3>2, <3>4, <3>7, <4>2, DaqAssumption
      <4>4. state_word_cnt' = state_word_cnt + 1 /\ state_word_cnt + 1 <= evt.roi_size
        <5>1. state_word_cnt' = state_word_cnt + 1
          BY <3>7, <4>3, ModSmall
        <5>2. state_word_cnt + 1 <= evt.roi_size
          BY <3>2, <3>4, <3>7
        <5> QED BY <5>1, <5>2
      <4> QED BY <3>1, <3>2, <3>3, <3>4, <3>7, <4>1, <4>4
                 DEF HeadInv, ChannelInv, TailInv, SentBefore
    <3>8. CASE /\ state' = "CALC_CH_CRC" /\ channel_cnt' = channel_cnt + 1
               /\ state_word_cnt = evt.roi_size
               /\ state_word_cnt' = 0 /\ sent' = sent + 1
      <4>1. Counted' = Counted + evt.roi_size + 4
        BY <3>3, <3>4, <3>8 DEF Counted
      <4> QED BY <3>1, <3>2, <3>3, <3>4, <3>8, <4>1
                 DEF HeadInv, ChannelInv, TailInv, SentBefore
    <3> QED BY <3>5, <3>6, <3>7, <3>8
  <2> QED BY <2>2, <2>3 DEF LengthInv
<1> QED BY <1>1, <1>2

LEMMA LengthNext == TypeOK /\ LengthInv /\ [Next]_vars => LengthInv'
<1> SUFFICES ASSUME TypeOK, LengthInv, [Next]_vars PROVE LengthInv'
  OBVIOUS
<1>1. CASE UNCHANGED vars
  BY <1>1 DEF vars, fsmVars, sizeVars, crcVars, history, LengthInv, SizeInv, SentInv,
              HeadInv, ChannelInv, TailInv, Intact, Counted, ChannelWords,
              SentBeforeCrc, NoPayload, NumChannels
<1>2. CASE Wait
  BY <1>2, LengthIdlePrimed DEF Wait, IdleRegisters
<1>3. CASE \E rst \in RESETS, req \in Requests : Accept(rst, req)
  BY <1>3, LengthAccept
<1>4. CASE \E rst \in RESETS : SingleWord(rst) \/ MultiWord(rst)
  BY <1>4, LengthSingleWord, LengthMultiWord
<1>5. CASE \E rst \in RESETS : CalcCrc(rst) \/ ChHeader(rst)
  BY <1>5, LengthCalcCrc, LengthChHeader
<1>6. CASE \E rst \in RESETS, drs_valid \in BOOLEAN :
             \/ PayloadTimeout(rst, drs_valid)
             \/ PayloadWord(rst, drs_valid)
             \/ PayloadLast(rst, drs_valid)
  BY <1>6, LengthPayload
<1>7. CASE \E rst \in RESETS : PayloadStall(rst)
  BY <1>7, LengthPayload
<1> QED BY <1>1, <1>2, <1>3, <1>4, <1>5, <1>6, <1>7 DEF Next

LEMMA LengthImplies == TypeOK /\ LengthInv => PacketLength
<1> SUFFICES ASSUME TypeOK, LengthInv, state = "TAIL", Intact
             PROVE  sent + 1 = IF NoPayload THEN len_field - 1 ELSE len_field
  BY DEF PacketLength
<1>1. sent = SentBeforeCrc + 2 /\ len_field = 22 + get_payload_size(evt)
  BY DEF LengthInv, SentInv, TailInv, SizeInv, get_packet_size, OverheadWords
<1>2. get_payload_size(evt) \in Nat
  BY CountedType
<1>3. NoPayload => get_payload_size(evt) = 0
  BY DEF NoPayload, get_payload_size
<1> QED BY <1>1, <1>2, <1>3 DEF SentBeforeCrc

(* The LEN word of a packet, fixed before any of its data exists, is the     *)
(* number of words sent from HEAD to TAIL, and one more than that for a      *)
(* packet without payload, unless a reset or a timeout on the last word of a *)
(* channel has upset the word counter.                                       *)
THEOREM PacketLengthCorrect == Spec => []PacketLength
<1>1. Init => TypeOK /\ LengthInv
  BY TypeInit, LengthInit
<1>2. TypeOK /\ LengthInv /\ [Next]_vars => (TypeOK /\ LengthInv)'
  BY TypeNext, LengthNext
<1>3. TypeOK /\ LengthInv => PacketLength
  BY LengthImplies
<1> QED BY <1>1, <1>2, <1>3, PTL DEF Spec

=============================================================================
