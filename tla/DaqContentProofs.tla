-------------------------- MODULE DaqContentProofs --------------------------
(***************************************************************************)
(* Theorems about what is in a packet of daq.vhd, for every value of the   *)
(* constants: which channels it holds, which words its CRCs cover and      *)
(* where the gap after it begins; and that the formatter does only what    *)
(* its abstract specification allows.  DaqProofs has its length.           *)
(***************************************************************************)
EXTENDS DaqProofs

-----------------------------------------------------------------------------
(* The walk over the mask.                                                   *)

Visited   == {headers[i] : i \in 1..Len(headers)}
Rest      == evt.mask \ Visited
Ascending == \A i, j \in 1..Len(headers) : i < j => headers[i] < headers[j]

(* The channels sent are the lower part of the mask.                         *)
Walked ==
  /\ Visited \subseteq evt.mask
  /\ Ascending
  /\ Cardinality(Visited) = Len(headers)
  /\ \A c \in Visited, d \in Rest : c < d

BeforeMask  == {"HEAD", "STATUS", "LENGTH", "ROI", "DNA", "RSVD0", "HOUSEKEEPING",
                "HASH", "ID", "CHMASK"}
BeforeWalk  == {"EVENT_CNT", "DTAP", "DRS_TEMP", "TIMESTAMP"}
AtAChannel  == {"CH_HEADER", "PAYLOAD", "CALC_CH_CRC", "CH_CRC"}

(* Between two channels channel_id is the next one and channel_cnt the number*)
(* of those sent; within a channel it is the last one sent.                  *)
WalkInv ==
  /\ state \in BeforeMask \cup BeforeWalk => headers = <<>> /\ channel_cnt = 0
  /\ state \in BeforeWalk => channel_id = Lowest(evt.mask)
  /\ state \in AtAChannel => Walked
  /\ state \in AtAChannel \ {"PAYLOAD"} =>
       Len(headers) = channel_cnt /\ channel_id = Lowest(Rest)
  /\ state = "CH_HEADER" /\ NumChannels # 0 => Rest # {}
  /\ state = "PAYLOAD" => /\ Len(headers) = channel_cnt + 1
                          /\ channel_id \in Visited
                          /\ \A c \in Visited : c <= channel_id
  /\ state = "STOP_CELL" => Visited = evt.mask /\ Ascending

(* The states in which the walk says nothing.                                *)
LEMMA WalkElsewhere ==
  ASSUME state' \in {"IDLE", "CALC_CRC32", "CRC32", "TAIL", "PAD", "WAIT"}
  PROVE  WalkInv'
  BY DEF WalkInv, BeforeMask, BeforeWalk, AtAChannel

(* A step that leaves the channel and its state alone.                       *)
LEMMA WalkUnchanged ==
  ASSUME WalkInv, UNCHANGED <<state, headers, channel_cnt, channel_id, evt>>
  PROVE  WalkInv'
<1>1. Visited' = Visited /\ Ascending' = Ascending
  BY DEF Visited, Ascending
<1>2. Rest' = Rest /\ NumChannels' = NumChannels
  BY <1>1 DEF Rest, NumChannels
<1>3. Walked' = Walked
  BY <1>1, <1>2 DEF Walked
<1> QED BY <1>1, <1>2, <1>3 DEF WalkInv

LEMMA MaskTypes ==
  ASSUME TypeOK
  PROVE  /\ evt.mask \in SUBSET Nat /\ IsFiniteSet(evt.mask)
         /\ NumChannels \in Nat /\ (NumChannels = 0 <=> evt.mask = {})
  BY LatchedFields, FS_EmptySet DEF TypeOK, EventType, Latched, NumChannels

LEMMA WalkSingleWord ==
  ASSUME WalkInv, NEW rst \in RESETS, SingleWord(rst)
  PROVE  WalkInv'
<1>1. CASE state' = "IDLE"
  BY <1>1, WalkElsewhere
<1>2. CASE state' # "IDLE"
  <2>1. state \in DOMAIN NextState /\ state' = NextState[state]
    BY <1>2 DEF SingleWord, Goto
  <2>2. /\ UNCHANGED <<headers, channel_cnt, evt>>
        /\ channel_id' = IF state = "CHMASK" THEN Lowest(evt.mask) ELSE channel_id
    BY DEF SingleWord, Beside, get_first_channel
  <2>3. CASE state \in {"STOP_CELL", "TAIL"}
    BY <2>1, <2>3, WalkElsewhere DEF NextState
  <2>4. CASE state \notin {"STOP_CELL", "TAIL"}
    <3>1. /\ state \in BeforeMask \cup BeforeWalk
          /\ state' \in BeforeMask \cup BeforeWalk
          /\ state' \in BeforeWalk => state \in BeforeWalk \cup {"CHMASK"}
      BY <2>1, <2>4 DEF NextState, BeforeMask, BeforeWalk
    <3>2. headers' = <<>> /\ channel_cnt' = 0
      BY <2>2, <3>1 DEF WalkInv
    <3>3. state' \in BeforeWalk => channel_id' = Lowest(evt.mask)
      BY <2>2, <3>1 DEF WalkInv, BeforeWalk
    <3> QED BY <2>2, <3>1, <3>2, <3>3 DEF WalkInv, BeforeMask, BeforeWalk, AtAChannel
  <2> QED BY <2>3, <2>4
<1> QED BY <1>1, <1>2

(* The walk begins with nothing sent.                                        *)
LEMMA WalkBegins ==
  ASSUME TypeOK, WalkInv, state = "TIMESTAMP", state' = "CH_HEADER",
         UNCHANGED <<headers, channel_cnt, channel_id, evt>>
  PROVE  WalkInv'
<1>1. headers' = <<>> /\ channel_cnt' = 0 /\ channel_id' = Lowest(evt.mask)
  BY DEF WalkInv, BeforeWalk
<1>2. Len(headers') = 0 /\ 1..Len(headers') = {}
  BY <1>1
<1>3. Visited' = {} /\ Ascending' /\ Cardinality(Visited') = 0
  BY <1>2, FS_EmptySet DEF Visited, Ascending
<1>4. Rest' = evt.mask /\ NumChannels' = NumChannels
  BY <1>3 DEF Rest, NumChannels
<1>5. Walked'
  BY <1>2, <1>3 DEF Walked
<1>6. NumChannels # 0 => Rest' # {}
  BY <1>4, MaskTypes
<1> QED BY <1>1, <1>2, <1>4, <1>5, <1>6 DEF WalkInv, BeforeMask, BeforeWalk, AtAChannel

(* After a channel the count decides what follows: it is the number of       *)
(* channels of the mask when, and only when, nothing is left.                *)
LEMMA WalkGoesOn ==
  ASSUME TypeOK, WalkInv, state = "CH_CRC",
         state' = IF channel_cnt = NumChannels THEN "STOP_CELL" ELSE "CH_HEADER",
         UNCHANGED <<headers, channel_cnt, channel_id, evt>>
  PROVE  WalkInv'
<1>1. /\ Walked /\ Len(headers) = channel_cnt /\ channel_id = Lowest(Rest)
  BY DEF WalkInv, AtAChannel
<1>2. Visited' = Visited /\ Ascending' = Ascending
  BY DEF Visited, Ascending
<1>3. Rest' = Rest /\ NumChannels' = NumChannels
  BY <1>2 DEF Rest, NumChannels
<1>4. Walked'
  BY <1>1, <1>2, <1>3 DEF Walked
<1>5. CASE channel_cnt = NumChannels
  <2>1. Cardinality(Visited) = Cardinality(evt.mask)
    BY <1>1, <1>5 DEF Walked, NumChannels
  <2>2. Visited = evt.mask
    BY <1>1, <2>1, MaskTypes, FS_Subset DEF Walked
  <2>3. state' = "STOP_CELL" /\ Visited' = evt'.mask /\ Ascending'
    BY <1>1, <1>2, <1>5, <2>2 DEF Walked
  <2> QED BY <2>3 DEF WalkInv, BeforeMask, BeforeWalk, AtAChannel
<1>6. CASE channel_cnt # NumChannels
  <2>1. Visited # evt.mask
    BY <1>1, <1>6 DEF Walked, NumChannels
  <2>2. Rest # {}
    BY <1>1, <2>1 DEF Walked, Rest
  <2> QED BY <1>1, <1>3, <1>4, <1>6, <2>2 DEF WalkInv, BeforeMask, BeforeWalk, AtAChannel
<1> QED BY <1>5, <1>6

LEMMA WalkMultiWord ==
  ASSUME TypeOK, WalkInv, NEW rst \in RESETS, MultiWord(rst)
  PROVE  WalkInv'
<1>1. UNCHANGED <<headers, channel_cnt, channel_id, evt>>
  BY DEF MultiWord, Beside, KeepChannel, KeepFields
<1>2. CASE state' = "IDLE"
  BY <1>2, WalkElsewhere
<1>3. CASE state' = state
  BY <1>1, <1>3, WalkUnchanged
<1>4. CASE state' \notin {"IDLE", state}
  <2>1. \/ state = "HOUSEKEEPING" /\ state' = "HASH"
        \/ state = "EVENT_CNT" /\ state' = "DTAP"
        \/ state = "TIMESTAMP" /\ state' \in {"CRC32", "CH_HEADER"}
        \/ state = "CH_CRC" /\ state' = IF channel_cnt = NumChannels
                                        THEN "STOP_CELL" ELSE "CH_HEADER"
        \/ state' \in {"TAIL", "WAIT"}
    BY <1>4 DEF MultiWord, CountWords, Goto
  <2>2. CASE \/ state = "HOUSEKEEPING" /\ state' = "HASH"
             \/ state = "EVENT_CNT" /\ state' = "DTAP"
    BY <1>1, <2>2 DEF WalkInv, BeforeMask, BeforeWalk, AtAChannel
  <2> QED BY <1>1, <2>1, <2>2, WalkBegins, WalkGoesOn, WalkElsewhere
<1> QED BY <1>2, <1>3, <1>4

(* The header that is sent is that of the lowest channel left.               *)
LEMMA WalkChHeader ==
  ASSUME TypeOK, WalkInv, NEW rst \in RESETS, ChHeader(rst)
  PROVE  WalkInv'
<1>1. CASE state' = "IDLE" \/ state' = "CRC32"
  BY <1>1, WalkElsewhere
<1>2. CASE state' # "IDLE" /\ state' # "CRC32"
  <2>1. state = "CH_HEADER" /\ state' = "PAYLOAD" /\ NumChannels # 0
    BY <1>2 DEF ChHeader, Goto
  <2>2. /\ headers' = Append(headers, channel_id)
        /\ UNCHANGED <<channel_cnt, channel_id, evt>>
    BY DEF ChHeader, KeepChannel, Beside
  <2>3. /\ Walked /\ Rest # {}
        /\ Len(headers) = channel_cnt /\ channel_id = Lowest(Rest)
    BY <2>1 DEF WalkInv, AtAChannel
  <2>4. Rest \in SUBSET Nat /\ Visited \in SUBSET Nat /\ IsFiniteSet(Visited)
    BY <2>3, MaskTypes, FS_Subset DEF Rest, Walked
  <2>5. channel_id \in Rest /\ \A d \in Rest : channel_id <= d
    BY <2>3, <2>4, LowestType
  <2>6. /\ headers \in Seq(Nat) /\ channel_id \in Nat /\ channel_cnt \in Nat
        /\ Len(headers) \in Nat
    BY DEF TypeOK, FsmType, HistoryType
  <2>7. /\ Len(headers') = Len(headers) + 1
        /\ \A i \in 1..Len(headers) : headers'[i] = headers[i]
        /\ headers'[Len(headers) + 1] = channel_id
    BY <2>2, <2>6
  <2>8. Visited' = Visited \cup {channel_id}
    <3>1. 1..Len(headers') = (1..Len(headers)) \cup {Len(headers) + 1}
      BY <2>6, <2>7
    <3> QED BY <2>7, <3>1 DEF Visited
  <2>9. Rest' = Rest \ {channel_id}
    BY <2>2, <2>8 DEF Rest
  <2>10. \A c \in Visited : c < channel_id
    BY <2>3, <2>5 DEF Walked
  <2>11. Ascending'
    <3> SUFFICES ASSUME NEW i \in 1..Len(headers'), NEW j \in 1..Len(headers'), i < j
                 PROVE  headers'[i] < headers'[j]
      BY DEF Ascending
    <3>1. i \in 1..Len(headers) /\ headers'[i] = headers[i]
      BY <2>6, <2>7
    <3>2. CASE j \in 1..Len(headers)
      BY <2>3, <2>7, <3>1, <3>2 DEF Walked, Ascending
    <3>3. CASE j = Len(headers) + 1
      <4>1. headers[i] \in Visited
        BY <3>1 DEF Visited
      <4> QED BY <2>7, <2>10, <3>1, <3>3, <4>1
    <3> QED BY <2>6, <2>7, <3>2, <3>3
  <2>12. Cardinality(Visited') = Len(headers')
    <3>1. channel_id \notin Visited
      BY <2>5 DEF Rest
    <3> QED BY <2>3, <2>4, <2>7, <2>8, <3>1, FS_AddElement DEF Walked
  <2>13. \A c \in Visited', d \in Rest' : c < d
    <3> SUFFICES ASSUME NEW c \in Visited', NEW d \in Rest' PROVE c < d
      OBVIOUS
    <3>1. d \in Rest /\ d # channel_id
      BY <2>9
    <3>2. channel_id < d
      BY <2>4, <2>5, <2>6, <3>1
    <3>3. CASE c \in Visited
      BY <2>3, <3>1, <3>3 DEF Walked
    <3> QED BY <2>8, <3>2, <3>3
  <2>14. Visited' \subseteq evt'.mask
    BY <2>2, <2>3, <2>5, <2>8 DEF Walked, Rest
  <2>15. Walked'
    BY <2>11, <2>12, <2>13, <2>14 DEF Walked
  <2>16. /\ channel_id' \in Visited' /\ Len(headers') = channel_cnt' + 1
         /\ \A c \in Visited' : c <= channel_id'
    BY <2>2, <2>3, <2>4, <2>6, <2>7, <2>8, <2>10
  <2> QED BY <2>1, <2>15, <2>16 DEF WalkInv, BeforeMask, BeforeWalk, AtAChannel
<1> QED BY <1>1, <1>2

(* At the end of a channel the next one of the mask is the lowest one left.  *)
LEMMA WalkPayload ==
  ASSUME TypeOK, WalkInv, NEW rst \in RESETS, NEW drs_valid \in BOOLEAN,
         \/ PayloadTimeout(rst, drs_valid)
         \/ PayloadWord(rst, drs_valid)
         \/ PayloadLast(rst, drs_valid)
         \/ PayloadStall(rst)
  PROVE  WalkInv'
<1>1. CASE state' = "IDLE"
  BY <1>1, WalkElsewhere
<1>2. CASE state' # "IDLE" /\ ~PayloadLast(rst, drs_valid)
  <2>1. UNCHANGED <<state, headers, channel_cnt, channel_id, evt>>
    BY <1>2 DEF PayloadTimeout, PayloadWord, PayloadStall, PayloadStep, Beside,
                KeepChannel, Goto
  <2> QED BY <2>1, WalkUnchanged
<1>3. CASE state' # "IDLE" /\ PayloadLast(rst, drs_valid)
  <2>1. state = "PAYLOAD" /\ state' = "CALC_CH_CRC"
    BY <1>3 DEF PayloadLast, PayloadStep, Goto
  <2>2. /\ UNCHANGED <<headers, evt>>
        /\ channel_cnt' = channel_cnt + 1
        /\ channel_id' = Lowest({c \in evt.mask : c > channel_id})
    BY <1>3 DEF PayloadLast, PayloadStep, Beside, get_next_channel
  <2>3. /\ Walked /\ Len(headers) = channel_cnt + 1
        /\ channel_id \in Visited /\ \A c \in Visited : c <= channel_id
    BY <2>1 DEF WalkInv, AtAChannel
  <2>4. {c \in evt.mask : c > channel_id} = Rest
    <3>1. ASSUME NEW c \in evt.mask PROVE c > channel_id <=> c \notin Visited
      <4>1. c \in Nat /\ channel_id \in Nat
        BY MaskTypes DEF TypeOK, FsmType
      <4>2. c \in Visited => c <= channel_id
        BY <2>3
      <4>3. c \notin Visited => channel_id < c
        BY <2>3 DEF Walked, Rest
      <4> QED BY <4>1, <4>2, <4>3
    <3> QED BY <3>1 DEF Rest
  <2>5. Visited' = Visited /\ Ascending' = Ascending
    BY <2>2 DEF Visited, Ascending
  <2>6. Rest' = Rest
    BY <2>2, <2>5 DEF Rest
  <2>7. Walked'
    BY <2>2, <2>3, <2>5, <2>6 DEF Walked
  <2> QED BY <2>1, <2>2, <2>3, <2>4, <2>6, <2>7
          DEF WalkInv, BeforeMask, BeforeWalk, AtAChannel
<1> QED BY <1>1, <1>2, <1>3

LEMMA WalkNext == TypeOK /\ WalkInv /\ [Next]_vars => WalkInv'
<1> SUFFICES ASSUME TypeOK, WalkInv, [Next]_vars PROVE WalkInv'
  OBVIOUS
<1>1. CASE UNCHANGED vars
  BY <1>1, WalkUnchanged DEF vars, fsmVars, history
<1>2. CASE Wait
  BY <1>2, WalkElsewhere DEF Wait, IdleRegisters
<1>3. ASSUME NEW rst \in RESETS, NEW req \in Requests, Accept(rst, req) PROVE WalkInv'
  <2>1. state' \in {"IDLE", "HEAD"} /\ headers' = <<>> /\ channel_cnt' = 0
    BY <1>3 DEF Accept, Goto, IdleRegisters
  <2> QED BY <2>1 DEF WalkInv, BeforeMask, BeforeWalk, AtAChannel
<1>4. ASSUME NEW rst \in RESETS, CalcCrc(rst) PROVE WalkInv'
  <2>1. UNCHANGED <<headers, channel_cnt, channel_id, evt>>
    BY <1>4 DEF CalcCrc, Beside, KeepChannel, KeepFields
  <2>2. CASE state' \in {"IDLE", "CRC32"}
    BY <2>2, WalkElsewhere
  <2>3. CASE state' \notin {"IDLE", "CRC32"}
    <3>1. state = "CALC_CH_CRC" /\ state' = "CH_CRC"
      BY <1>4, <2>3 DEF CalcCrc, Goto
    <3>2. Visited' = Visited /\ Ascending' = Ascending
      BY <2>1 DEF Visited, Ascending
    <3>3. Rest' = Rest /\ Walked' = Walked
      BY <2>1, <3>2 DEF Rest, Walked
    <3> QED BY <2>1, <3>1, <3>3 DEF WalkInv, BeforeMask, BeforeWalk, AtAChannel
  <2> QED BY <2>2, <2>3
<1>5. CASE \E rst \in RESETS : SingleWord(rst) \/ MultiWord(rst) \/ ChHeader(rst)
  BY <1>5, WalkSingleWord, WalkMultiWord, WalkChHeader
<1>6. CASE \E rst \in RESETS, drs_valid \in BOOLEAN :
             \/ PayloadTimeout(rst, drs_valid) \/ PayloadWord(rst, drs_valid)
             \/ PayloadLast(rst, drs_valid) \/ PayloadStall(rst)
  BY <1>6, WalkPayload
<1> QED BY <1>1, <1>2, <1>3, <1>4, <1>5, <1>6 DEF Next

(* A packet that gets to its STOP_CELL word holds exactly the channels of    *)
(* its mask, once each and in ascending order, for every mask: the counter   *)
(* that ends the payload and the walk over the bits of the mask agree,       *)
(* whatever the timeouts and the resets before.                              *)
THEOREM ChannelOrderCorrect == Spec => []ChannelOrder
<1>1. Init => WalkInv
  BY DEF Init, WalkInv, BeforeMask, BeforeWalk, AtAChannel
<1>2. WalkInv => ChannelOrder
  BY DEF WalkInv, ChannelOrder, Visited, Ascending
<1> QED BY <1>1, <1>2, WalkNext, TypeCorrect, PTL DEF Spec

-----------------------------------------------------------------------------
(* The CRC of the packet.  It runs one word behind: the word that is on      *)
(* data_o now is accumulated at the next edge.                               *)

Pending == IF dav THEN 1 ELSE 0

(* The states whose words, and the ones before, the packet CRC covers.       *)
Covered == {"STATUS", "LENGTH", "ROI", "DNA", "RSVD0", "HOUSEKEEPING", "HASH", "ID",
            "CHMASK"} \cup BeforeWalk \cup AtAChannel \cup {"STOP_CELL", "CALC_CRC32"}

UpToDate == packet_crc_rst = FALSE /\ packet_crc + Pending = sent

PacketCrcInv ==
  /\ state = "HEAD" => packet_crc_rst = TRUE /\ sent = 0
  /\ state \in Covered => UpToDate
  /\ state \in AtAChannel => ~NoPayload
  /\ state \in (AtAChannel \ {"CH_HEADER"}) \cup {"STOP_CELL", "CALC_CRC32"} =>
       ~NoPayload /\ NumChannels # 0
  /\ state \in {"CALC_CH_CRC", "STOP_CELL", "CALC_CRC32"} => state_word_cnt = 0
  /\ state \in {"CH_CRC", "CRC32"} => state_word_cnt < 2
  /\ state = "CRC32" /\ state_word_cnt = 0 =>
       UpToDate /\ (dav <=> NoPayload \/ NumChannels = 0)

(* The packet CRC misses no word in these states.                            *)
LEMMA CrcFollows ==
  ASSUME TypeOK, PacketCrcInv, state \in Covered \cup {"HEAD"}, Beside,
         Send \/ (Silent /\ state # "HEAD")
  PROVE  UpToDate'
<1>1. /\ packet_crc_rst' = FALSE
      /\ packet_crc' = IF packet_crc_rst THEN 0 ELSE IF dav THEN packet_crc + 1 ELSE packet_crc
  <2>1. state \notin {"IDLE", "TAIL"} /\ state \notin {"TAIL", "CRC32"}
    BY DEF Covered, BeforeWalk, AtAChannel
  <2>2. packet_crc_rst' = FALSE
    <3>1. packet_crc_rst' = (state \in {"IDLE", "TAIL"})
      BY Zenon DEF Beside, CrcRegisters
    <3>2. (state \in {"IDLE", "TAIL"}) = FALSE
      BY <2>1
    <3> QED BY <3>1, <3>2, Zenon
  <2>3. packet_crc' = Accumulate(packet_crc, packet_crc_rst,
                                 dav /\ state \notin {"TAIL", "CRC32"})
    BY Zenon DEF Beside, CrcRegisters
  <2>4. packet_crc' = IF packet_crc_rst THEN 0 ELSE IF dav THEN packet_crc + 1 ELSE packet_crc
    BY <2>1, <2>3, Zenon DEF Accumulate
  <2> QED BY <2>2, <2>4, Zenon
<1>2. packet_crc \in Nat /\ sent \in Nat
  BY DEF TypeOK, CrcType, HistoryType
<1>3. CASE state = "HEAD"
  BY <1>1, <1>2, <1>3 DEF PacketCrcInv, UpToDate, Pending, Send
<1>4. CASE state \in Covered
  <2>1. packet_crc_rst = FALSE /\ packet_crc + Pending = sent
    BY <1>4 DEF PacketCrcInv, UpToDate
  <2>2. packet_crc' = sent
    BY <1>1, <1>2, <2>1 DEF Pending
  <2>3. sent' = sent + Pending'
    BY <1>2 DEF Send, Silent, Pending
  <2> QED BY <1>1, <2>2, <2>3 DEF UpToDate
<1> QED BY <1>3, <1>4

(* What the steps leave to show: the facts about the states and the counter. *)
LEMMA CrcElsewhere ==
  ASSUME state' \in {"IDLE", "TAIL", "PAD", "WAIT"}
  PROVE  PacketCrcInv'
  BY DEF PacketCrcInv, Covered, BeforeWalk, AtAChannel

LEMMA CrcSingleWord ==
  ASSUME TypeOK, PacketCrcInv, NEW rst \in RESETS, SingleWord(rst)
  PROVE  PacketCrcInv'
<1>1. CASE state' = "IDLE"
  BY <1>1, CrcElsewhere
<1>2. CASE state' # "IDLE"
  <2>1. state \in DOMAIN NextState /\ state' = NextState[state]
    BY <1>2 DEF SingleWord, Goto
  <2>2. CASE state = "TAIL"
    BY <2>1, <2>2, CrcElsewhere DEF NextState
  <2>3. CASE state # "TAIL"
    <3>1. state \in Covered \cup {"HEAD"}
      BY <2>1, <2>3 DEF NextState, Covered, BeforeWalk
    <3>2. UpToDate'
      BY <3>1, CrcFollows DEF SingleWord
    <3>3. UNCHANGED <<state_word_cnt, evt>> /\ NoPayload' = NoPayload
          /\ NumChannels' = NumChannels
      BY DEF SingleWord, Beside, NoPayload, NumChannels
    <3> QED BY <2>1, <2>3, <3>2, <3>3
            DEF PacketCrcInv, NextState, Covered, BeforeWalk, AtAChannel
  <2> QED BY <2>2, <2>3
<1> QED BY <1>1, <1>2

LEMMA CrcMultiWord ==
  ASSUME TypeOK, PacketCrcInv, NEW rst \in RESETS, MultiWord(rst)
  PROVE  PacketCrcInv'
<1>1. CASE state' \in {"IDLE", "TAIL", "PAD", "WAIT"}
  BY <1>1, CrcElsewhere
<1>2. CASE state' \notin {"IDLE", "TAIL", "PAD", "WAIT"}
  <2>1. /\ evt' = evt /\ NoPayload' = NoPayload /\ NumChannels' = NumChannels
        /\ dav' = TRUE /\ Beside /\ Send
        /\ state_word_cnt \in Nat
    BY DaqAssumption DEF MultiWord, Beside, Send, NoPayload, NumChannels, TypeOK, FsmType
  <2>2. CASE state = "CRC32"
    <3>1. state' = "CRC32" /\ state_word_cnt < 2
      BY <1>2, <2>2 DEF MultiWord, CountWords, Goto, PacketCrcInv
    <3>2. state_word_cnt' = 1
      BY <1>2, <2>1, <2>2, <3>1, CountWordsStep DEF MultiWord, CrcWords
    <3> QED BY <3>1, <3>2 DEF PacketCrcInv, Covered, BeforeWalk, AtAChannel
  <2>3. CASE state # "CRC32"
    <3>1. \/ state \in {"HOUSEKEEPING", "EVENT_CNT", "TIMESTAMP"} /\ state' = state
          \/ state = "HOUSEKEEPING" /\ state' = "HASH"
          \/ state = "EVENT_CNT" /\ state' = "DTAP"
          \/ /\ state = "TIMESTAMP" /\ state_word_cnt' = 0
             /\ state' = IF NoPayload THEN "CRC32" ELSE "CH_HEADER"
          \/ state = "CH_CRC" /\ CountWords(rst, CrcWords,
                                   IF channel_cnt = NumChannels
                                   THEN "STOP_CELL" ELSE "CH_HEADER")
      BY <1>2, <2>3 DEF MultiWord, CountWords, Goto
    <3>2. UpToDate'
      <4>1. state \in Covered
        BY <3>1 DEF Covered, BeforeWalk, AtAChannel
      <4> QED BY <2>1, <4>1, CrcFollows
    <3>3. CASE state = "CH_CRC"
      <4>1. /\ ~NoPayload' /\ NumChannels' # 0 /\ state_word_cnt < 2
        BY <2>1, <3>3 DEF PacketCrcInv, AtAChannel
      <4>2. \/ state' = "CH_CRC" /\ state_word_cnt' = 1
            \/ state' \in {"STOP_CELL", "CH_HEADER"} /\ state_word_cnt' = 0
        BY <1>2, <2>1, <3>1, <3>3, <4>1, CountWordsStep DEF CrcWords
      <4> QED BY <3>2, <4>1, <4>2 DEF PacketCrcInv, Covered, BeforeWalk, AtAChannel
    <3>4. CASE state # "CH_CRC"
      BY <2>1, <3>1, <3>2, <3>4 DEF PacketCrcInv, Covered, BeforeWalk, AtAChannel
    <3> QED BY <3>3, <3>4
  <2> QED BY <2>2, <2>3
<1> QED BY <1>1, <1>2

LEMMA CrcChannelSteps ==
  ASSUME TypeOK, PacketCrcInv, NEW rst \in RESETS, NEW drs_valid \in BOOLEAN,
         \/ CalcCrc(rst)
         \/ ChHeader(rst)
         \/ PayloadTimeout(rst, drs_valid)
         \/ PayloadWord(rst, drs_valid)
         \/ PayloadLast(rst, drs_valid)
         \/ PayloadStall(rst)
  PROVE  PacketCrcInv'
<1>1. CASE state' = "IDLE"
  BY <1>1, CrcElsewhere
<1>2. CASE state' # "IDLE"
  <2>1. state \in Covered /\ Beside /\ (Send \/ Silent)
    BY Zenon DEF CalcCrc, ChHeader, PayloadTimeout, PayloadWord, PayloadLast, PayloadStall,
              PayloadStep, Covered, AtAChannel
  <2>2. UpToDate'
    <3>1. state # "HEAD"
      BY <2>1 DEF Covered, BeforeWalk, AtAChannel
    <3> QED BY <2>1, <3>1, CrcFollows
  <2>3. evt' = evt /\ NoPayload' = NoPayload /\ NumChannels' = NumChannels
    BY <2>1 DEF Beside, NoPayload, NumChannels
  <2>4. CASE CalcCrc(rst)
    <3>1. /\ state_word_cnt' = 0 /\ dav' = FALSE /\ ~NoPayload /\ NumChannels # 0
          /\ state' \in {"CH_CRC", "CRC32"}
      BY <1>2, <2>4 DEF CalcCrc, Goto, Silent, PacketCrcInv, AtAChannel
    <3> QED BY <2>2, <2>3, <3>1 DEF PacketCrcInv, Covered, BeforeWalk, AtAChannel
  <2>5. CASE ChHeader(rst)
    <3>1. /\ state_word_cnt' = 0 /\ dav' = TRUE /\ ~NoPayload
          /\ state' = IF NumChannels = 0 THEN "CRC32" ELSE "PAYLOAD"
      BY <1>2, <2>5 DEF ChHeader, Goto, Send, PacketCrcInv, AtAChannel
    <3> QED BY <2>2, <2>3, <3>1 DEF PacketCrcInv, Covered, BeforeWalk, AtAChannel
  <2>6. CASE ~CalcCrc(rst) /\ ~ChHeader(rst)
    <3>1. /\ state = "PAYLOAD"
          /\ \/ state' = "PAYLOAD"
             \/ state' = "CALC_CH_CRC" /\ state_word_cnt' = 0
      BY <1>2, <2>6 DEF PayloadTimeout, PayloadWord, PayloadLast, PayloadStall,
                        PayloadStep, Goto
    <3>2. ~NoPayload /\ NumChannels # 0
      BY <3>1 DEF PacketCrcInv, AtAChannel
    <3> QED BY <2>2, <2>3, <3>1, <3>2 DEF PacketCrcInv, Covered, BeforeWalk, AtAChannel
  <2> QED BY <2>4, <2>5, <2>6
<1> QED BY <1>1, <1>2

LEMMA CrcNext == TypeOK /\ PacketCrcInv /\ [Next]_vars => PacketCrcInv'
<1> SUFFICES ASSUME TypeOK, PacketCrcInv, [Next]_vars PROVE PacketCrcInv'
  OBVIOUS
<1>1. CASE UNCHANGED vars
  BY <1>1 DEF vars, fsmVars, crcVars, history, PacketCrcInv, UpToDate, Pending, NoPayload,
              NumChannels
<1>2. CASE Wait
  BY <1>2, CrcElsewhere DEF Wait, IdleRegisters
<1>3. ASSUME NEW rst \in RESETS, NEW req \in Requests, Accept(rst, req)
      PROVE  PacketCrcInv'
  <2>1. state' \in {"IDLE", "HEAD"} /\ sent' = 0 /\ packet_crc_rst' = TRUE
    BY <1>3 DEF Accept, Goto, IdleRegisters, CrcRegisters
  <2> QED BY <2>1 DEF PacketCrcInv, Covered, BeforeWalk, AtAChannel
<1>4. CASE \E rst \in RESETS : SingleWord(rst) \/ MultiWord(rst)
  BY <1>4, CrcSingleWord, CrcMultiWord
<1>5. CASE \E rst \in RESETS, drs_valid \in BOOLEAN :
             \/ CalcCrc(rst) \/ ChHeader(rst)
             \/ PayloadTimeout(rst, drs_valid) \/ PayloadWord(rst, drs_valid)
             \/ PayloadLast(rst, drs_valid) \/ PayloadStall(rst)
  BY <1>5, CrcChannelSteps
<1> QED BY <1>1, <1>2, <1>3, <1>4, <1>5 DEF Next

-----------------------------------------------------------------------------
(* The CRC of a channel: cleared before its header, and in PAYLOAD again one *)
(* word behind the word counter, which does not count the header.            *)

Cleared == channel_crc_rst = FALSE /\ channel_crc = 0

BehindTheCounter ==
  /\ channel_crc_rst = FALSE
  /\ state_word_cnt <= evt.roi_size
  /\ channel_crc = IF dav /\ state_word_cnt > 0 THEN state_word_cnt - 1 ELSE state_word_cnt

ChannelCrcInv ==
  /\ state = "HEAD" => channel_crc_rst = TRUE
  /\ state \in (BeforeMask \ {"HEAD"}) \cup BeforeWalk \cup {"CH_HEADER"} => Cleared
  /\ state = "PAYLOAD" /\ ~overrun => BehindTheCounter
  /\ state = "CALC_CH_CRC" /\ ~overrun =>
       channel_crc_rst = FALSE /\ channel_crc = evt.roi_size
  /\ state = "CH_CRC" /\ state_word_cnt = 0 /\ ~overrun => channel_crc = evt.roi_size + 1
  /\ state = "CH_CRC" /\ state_word_cnt = 1 => channel_crc_rst = TRUE

LEMMA ChannelCrcElsewhere ==
  ASSUME state' \in {"IDLE", "STOP_CELL", "CALC_CRC32", "CRC32", "TAIL", "PAD", "WAIT"}
  PROVE  ChannelCrcInv'
  BY DEF ChannelCrcInv, BeforeMask, BeforeWalk

(* The edges at which the CRC is only cleared or left alone.                 *)
LEMMA ChannelCrcCleared ==
  ASSUME TypeOK, ChannelCrcInv, CrcRegisters,
         \/ state \in BeforeMask \cup BeforeWalk \cup {"CH_HEADER"}
         \/ state = "CH_CRC" /\ state_word_cnt = 1
  PROVE  Cleared'
<1>1. channel_crc_rst' = FALSE
  <2>1. channel_crc_rst' = (state = "IDLE" \/ (state = "CH_CRC" /\ state_word_cnt = 0))
    BY Zenon DEF CrcRegisters
  <2>2. (state = "IDLE" \/ (state = "CH_CRC" /\ state_word_cnt = 0)) = FALSE
    BY DEF BeforeMask, BeforeWalk
  <2> QED BY <2>1, <2>2, Zenon
<1>2. channel_crc' = 0
  <2>1. channel_crc_rst = TRUE \/ channel_crc = 0
    BY DEF ChannelCrcInv, Cleared, BeforeMask
  <2>2. state # "CALC_CH_CRC" /\ state # "PAYLOAD"
    BY DEF BeforeMask, BeforeWalk
  <2>3. channel_crc' = IF channel_crc_rst THEN 0 ELSE channel_crc
    BY <2>2, Zenon DEF CrcRegisters, Accumulate
  <2> QED BY <2>1, <2>3
<1> QED BY <1>1, <1>2 DEF Cleared

(* An edge of PAYLOAD brings the channel CRC up to the word counter.         *)
LEMMA ChannelCrcFollows ==
  ASSUME TypeOK, state = "PAYLOAD", BehindTheCounter, CrcRegisters
  PROVE  channel_crc_rst' = FALSE /\ channel_crc' = state_word_cnt
<1>1. channel_crc_rst' = FALSE
  <2>1. channel_crc_rst' = (state = "IDLE" \/ (state = "CH_CRC" /\ state_word_cnt = 0))
    BY Zenon DEF CrcRegisters
  <2>2. (state = "IDLE" \/ (state = "CH_CRC" /\ state_word_cnt = 0)) = FALSE
    OBVIOUS
  <2> QED BY <2>1, <2>2, Zenon
<1>2. state_word_cnt \in Nat
  BY DaqAssumption DEF TypeOK, FsmType
<1>3. channel_crc' = IF dav /\ state_word_cnt > 0 THEN channel_crc + 1 ELSE channel_crc
  <2>1. channel_crc_rst = FALSE
    BY DEF BehindTheCounter
  <2>2. channel_crc' = Accumulate(channel_crc, channel_crc_rst,
                          \/ state = "CALC_CH_CRC"
                          \/ state = "PAYLOAD" /\ dav /\ state_word_cnt > 0)
    BY Zenon DEF CrcRegisters
  <2>3. state = "PAYLOAD" /\ ~(state = "CALC_CH_CRC")
    OBVIOUS
  <2> QED BY <2>1, <2>2, <2>3, Zenon DEF Accumulate
<1> QED BY <1>1, <1>2, <1>3 DEF BehindTheCounter

LEMMA ChannelCrcSingleWord ==
  ASSUME TypeOK, ChannelCrcInv, NEW rst \in RESETS, SingleWord(rst)
  PROVE  ChannelCrcInv'
<1>1. CASE state' \in {"IDLE", "CALC_CRC32", "PAD"}
  BY <1>1, ChannelCrcElsewhere
<1>2. CASE state' \notin {"IDLE", "CALC_CRC32", "PAD"}
  <2>1. /\ state \in BeforeMask \cup BeforeWalk
        /\ state' \in (BeforeMask \ {"HEAD"}) \cup BeforeWalk
    BY <1>2 DEF SingleWord, Goto, NextState, BeforeMask, BeforeWalk
  <2>2. Cleared'
    BY <2>1, ChannelCrcCleared DEF SingleWord, Beside
  <2> QED BY <2>1, <2>2 DEF ChannelCrcInv, BeforeMask, BeforeWalk
<1> QED BY <1>1, <1>2

LEMMA ChannelCrcMultiWord ==
  ASSUME TypeOK, PacketCrcInv, ChannelCrcInv, NEW rst \in RESETS, MultiWord(rst)
  PROVE  ChannelCrcInv'
<1>1. CASE state' \in {"IDLE", "STOP_CELL", "CRC32", "TAIL", "PAD", "WAIT"}
  BY <1>1, ChannelCrcElsewhere
<1>2. CASE state' \notin {"IDLE", "STOP_CELL", "CRC32", "TAIL", "PAD", "WAIT"}
  <2>1. CrcRegisters
    BY DEF MultiWord, Beside
  <2>2. CASE state = "CH_CRC"
    <3>1. CountWords(rst, CrcWords,
                     IF channel_cnt = NumChannels THEN "STOP_CELL" ELSE "CH_HEADER")
      BY <2>2 DEF MultiWord
    <3>2. state_word_cnt \in {0, 1}
      BY <2>2, DaqAssumption DEF PacketCrcInv, TypeOK, FsmType
    <3>3. \/ state_word_cnt = 0 /\ state' = "CH_CRC" /\ state_word_cnt' = 1
          \/ state_word_cnt = 1 /\ state' = "CH_HEADER"
      BY <1>2, <2>2, <3>1, <3>2, CountWordsStep DEF CrcWords
    <3>4. CASE state_word_cnt = 0
      <4>1. channel_crc_rst' = (state = "IDLE" \/ (state = "CH_CRC" /\ state_word_cnt = 0))
        BY <2>1, Zenon DEF CrcRegisters
      <4>2. channel_crc_rst' = TRUE
        BY <2>2, <3>4, <4>1, Zenon
      <4> QED BY <3>3, <3>4, <4>2 DEF ChannelCrcInv, BeforeMask, BeforeWalk
    <3>5. CASE state_word_cnt = 1
      <4>1. Cleared'
        BY <2>1, <2>2, <3>5, ChannelCrcCleared
      <4> QED BY <3>3, <3>5, <4>1 DEF ChannelCrcInv, BeforeMask, BeforeWalk
    <3> QED BY <3>2, <3>4, <3>5
  <2>3. CASE state # "CH_CRC"
    <3>1. /\ state \in BeforeMask \cup BeforeWalk
          /\ state' \in (BeforeMask \ {"HEAD"}) \cup BeforeWalk \cup {"CH_HEADER"}
      BY <1>2, <2>3 DEF MultiWord, CountWords, Goto, BeforeMask, BeforeWalk
    <3>2. Cleared'
      BY <2>1, <3>1, ChannelCrcCleared
    <3> QED BY <3>1, <3>2 DEF ChannelCrcInv, BeforeMask, BeforeWalk
  <2> QED BY <2>2, <2>3
<1> QED BY <1>1, <1>2

LEMMA ChannelCrcHeader ==
  ASSUME TypeOK, ChannelCrcInv, NEW rst \in RESETS, ChHeader(rst)
  PROVE  ChannelCrcInv'
<1>1. CASE state' \in {"IDLE", "CRC32"}
  BY <1>1, ChannelCrcElsewhere
<1>2. CASE state' \notin {"IDLE", "CRC32"}
  <2>1. state = "CH_HEADER" /\ state' = "PAYLOAD" /\ state_word_cnt' = 0
    BY <1>2 DEF ChHeader, Goto
  <2>2. Cleared'
    BY <2>1, ChannelCrcCleared DEF ChHeader, Beside
  <2>3. evt'.roi_size \in Nat
    BY LatchedFields DEF ChHeader, Beside, TypeOK, EventType, Latched
  <2>4. BehindTheCounter'
    BY <2>1, <2>2, <2>3 DEF BehindTheCounter, Cleared
  <2> QED BY <2>1, <2>4 DEF ChannelCrcInv, BeforeMask, BeforeWalk
<1> QED BY <1>1, <1>2

LEMMA ChannelCrcCalc ==
  ASSUME TypeOK, PacketCrcInv, ChannelCrcInv, NEW rst \in RESETS, CalcCrc(rst)
  PROVE  ChannelCrcInv'
<1>1. CASE state' \in {"IDLE", "CRC32"}
  BY <1>1, ChannelCrcElsewhere
<1>2. CASE state' \notin {"IDLE", "CRC32"}
  <2>1. /\ state = "CALC_CH_CRC" /\ state' = "CH_CRC" /\ overrun' = overrun
        /\ state_word_cnt' = 0 /\ evt' = evt /\ CrcRegisters
    BY <1>2 DEF CalcCrc, Goto, KeepFields, Beside, PacketCrcInv
  <2>2. ~overrun => channel_crc' = evt.roi_size + 1
    <3> SUFFICES ASSUME ~overrun PROVE channel_crc' = evt.roi_size + 1
      OBVIOUS
    <3>1. channel_crc_rst = FALSE /\ channel_crc = evt.roi_size
      BY <2>1 DEF ChannelCrcInv
    <3>2. channel_crc' = channel_crc + 1
      BY <2>1, <3>1, Zenon DEF CrcRegisters, Accumulate
    <3> QED BY <3>1, <3>2
  <2> QED BY <2>1, <2>2 DEF ChannelCrcInv, BeforeMask, BeforeWalk
<1> QED BY <1>1, <1>2

LEMMA ChannelCrcPayload ==
  ASSUME TypeOK, ChannelCrcInv, NEW rst \in RESETS, NEW drs_valid \in BOOLEAN,
         \/ PayloadTimeout(rst, drs_valid)
         \/ PayloadWord(rst, drs_valid)
         \/ PayloadLast(rst, drs_valid)
         \/ drs_valid = FALSE /\ PayloadStall(rst)
  PROVE  ChannelCrcInv'
<1>1. CASE state' = "IDLE"
  BY <1>1, ChannelCrcElsewhere
<1>2. CASE state' # "IDLE" /\ overrun'
  <2>1. state' \in {"PAYLOAD", "CALC_CH_CRC"}
    BY <1>2 DEF PayloadTimeout, PayloadWord, PayloadLast, PayloadStall, Goto
  <2> QED BY <1>2, <2>1 DEF ChannelCrcInv, BeforeMask, BeforeWalk
<1>3. CASE state' # "IDLE" /\ ~overrun'
  <2>1. state = "PAYLOAD" /\ CrcRegisters /\ evt' = evt
    BY DEF PayloadTimeout, PayloadWord, PayloadLast, PayloadStall, PayloadStep, Beside
  <2>2. ~overrun
    BY <1>3, Zenon DEF PayloadTimeout, PayloadWord, PayloadLast, PayloadStall
  <2>3. BehindTheCounter
    BY <2>1, <2>2 DEF ChannelCrcInv
  <2>4. channel_crc_rst' = FALSE /\ channel_crc' = state_word_cnt
    BY <2>1, <2>3, ChannelCrcFollows
  <2>5. /\ evt.roi_size \in Nat /\ state_word_cnt \in Nat /\ state_word_cnt <= evt.roi_size
        /\ evt.roi_size + 1 < CNT_MOD /\ CNT_MOD \in Nat \ {0}
    BY <2>3, LatchedFields, RoiFits, DaqAssumption
       DEF TypeOK, EventType, FsmType, Latched, BehindTheCounter
  <2>6. \/ state' = "PAYLOAD" /\ state_word_cnt' = state_word_cnt /\ dav' = FALSE
        \/ /\ state' = "PAYLOAD" /\ state_word_cnt # evt.roi_size /\ dav' = TRUE
           /\ state_word_cnt' = (state_word_cnt + 1) % CNT_MOD
        \/ state' = "CALC_CH_CRC" /\ state_word_cnt = evt.roi_size
    <3>1. CASE PayloadTimeout(rst, drs_valid)
      BY <1>3, <3>1, Zenon DEF PayloadTimeout, PayloadStep, Goto, Send, Silent
    <3>2. CASE PayloadWord(rst, drs_valid)
      BY <1>3, <3>2, Zenon DEF PayloadWord, PayloadStep, Goto, Send
    <3>3. CASE PayloadLast(rst, drs_valid)
      BY <1>3, <3>3, Zenon DEF PayloadLast, Goto
    <3>4. CASE drs_valid = FALSE /\ PayloadStall(rst)
      BY <1>3, <3>4, Zenon DEF PayloadStall, PayloadStep, Goto, Silent
    <3> QED BY <3>1, <3>2, <3>3, <3>4
  <2>7. CASE state' = "PAYLOAD" /\ state_word_cnt' = state_word_cnt /\ dav' = FALSE
    <3>1. BehindTheCounter'
      BY <2>1, <2>4, <2>5, <2>7 DEF BehindTheCounter
    <3> QED BY <2>7, <3>1 DEF ChannelCrcInv, BeforeMask, BeforeWalk
  <2>8. CASE /\ state' = "PAYLOAD" /\ state_word_cnt # evt.roi_size /\ dav' = TRUE
             /\ state_word_cnt' = (state_word_cnt + 1) % CNT_MOD
    <3>1. state_word_cnt + 1 \in 0..(CNT_MOD - 1)
      BY <2>5
    <3>2. state_word_cnt' = state_word_cnt + 1
      BY <2>5, <2>8, <3>1, ModSmall
    <3>3. BehindTheCounter'
      BY <2>1, <2>4, <2>5, <2>8, <3>2 DEF BehindTheCounter
    <3> QED BY <2>8, <3>3 DEF ChannelCrcInv, BeforeMask, BeforeWalk
  <2>9. CASE state' = "CALC_CH_CRC" /\ state_word_cnt = evt.roi_size
    BY <2>1, <2>4, <2>9 DEF ChannelCrcInv, BeforeMask, BeforeWalk
  <2> QED BY <2>6, <2>7, <2>8, <2>9
<1> QED BY <1>1, <1>2, <1>3

LEMMA ChannelCrcNext ==
  TypeOK /\ PacketCrcInv /\ ChannelCrcInv /\ [Next]_vars => ChannelCrcInv'
<1> SUFFICES ASSUME TypeOK, PacketCrcInv, ChannelCrcInv, [Next]_vars
             PROVE  ChannelCrcInv'
  OBVIOUS
<1>1. CASE UNCHANGED vars
  BY <1>1 DEF vars, fsmVars, crcVars, history, ChannelCrcInv, Cleared, BehindTheCounter
<1>2. CASE Wait
  BY <1>2, ChannelCrcElsewhere DEF Wait, IdleRegisters
<1>3. ASSUME NEW rst \in RESETS, NEW req \in Requests, Accept(rst, req)
      PROVE  ChannelCrcInv'
  <2>1. state' \in {"IDLE", "HEAD"} /\ state = "IDLE" /\ CrcRegisters
    BY <1>3 DEF Accept, Goto, IdleRegisters
  <2>2. channel_crc_rst' = TRUE
    <3>1. channel_crc_rst' = (state = "IDLE" \/ (state = "CH_CRC" /\ state_word_cnt = 0))
      BY <2>1, Zenon DEF CrcRegisters
    <3> QED BY <2>1, <3>1, Zenon
  <2> QED BY <2>1, <2>2 DEF ChannelCrcInv, BeforeMask, BeforeWalk
<1>4. CASE \E rst \in RESETS : SingleWord(rst) \/ MultiWord(rst)
  BY <1>4, ChannelCrcSingleWord, ChannelCrcMultiWord
<1>5. CASE \E rst \in RESETS : CalcCrc(rst) \/ ChHeader(rst)
  BY <1>5, ChannelCrcCalc, ChannelCrcHeader
<1>6. CASE \E rst \in RESETS, drs_valid \in BOOLEAN :
             \/ PayloadTimeout(rst, drs_valid) \/ PayloadWord(rst, drs_valid)
             \/ PayloadLast(rst, drs_valid)
  BY <1>6, ChannelCrcPayload
<1>7. CASE \E rst \in RESETS : PayloadStall(rst)
  BY <1>7, ChannelCrcPayload
<1> QED BY <1>1, <1>2, <1>3, <1>4, <1>5, <1>6, <1>7 DEF Next

(* In a packet with payload the packet CRC covers every word before it, and  *)
(* a channel's CRC exactly its roi_size + 1 samples, for all parameters: the *)
(* extra clocks before a CRC is sent and the resets of the CRC registers are *)
(* where they have to be.                                                    *)
THEOREM CrcCoverageCorrect == Spec => []CrcCoverage
<1>1. Init => PacketCrcInv /\ ChannelCrcInv
  BY DEF Init, PacketCrcInv, ChannelCrcInv, Covered, BeforeMask, BeforeWalk, AtAChannel
<1>2. TypeOK /\ PacketCrcInv /\ ChannelCrcInv => CrcCoverage
  <2> SUFFICES ASSUME TypeOK, PacketCrcInv, ChannelCrcInv PROVE CrcCoverage
    OBVIOUS
  <2>1. packet_crc \in Nat /\ sent \in Nat
    BY DEF TypeOK, CrcType, HistoryType
  <2>2. state = "CRC32" /\ state_word_cnt = 0 /\ ~NoPayload /\ NumChannels # 0 =>
          packet_crc = sent
    BY <2>1 DEF PacketCrcInv, UpToDate, Pending
  <2> QED BY <2>2 DEF ChannelCrcInv, CrcCoverage
<1> QED BY <1>1, <1>2, CrcNext, ChannelCrcNext, TypeCorrect, PTL DEF Spec

-----------------------------------------------------------------------------
(* The padding, and the gap after the packet.                                *)

(* What is left to a multiple of `m` makes it one.                           *)
LEMMA PaddedIsMultiple ==
  ASSUME NEW m \in Nat \ {0}, NEW size \in Nat, NEW c \in 0..(m - 1)
  PROVE  (size + (m - (size % m)) + c) % m = c
<1> DEFINE q == size \div m
<1>1. size = m * q + (size % m) /\ q \in Nat
  BY SMT
<1>2. size + (m - (size % m)) + c = m * (q + 1) + c
  BY <1>1, SMT
<1>3. \A k \in Nat : (m * k + c) % m = c
  BY SMT
<1>4. q + 1 \in Nat
  BY <1>1
<1> HIDE DEF q
<1>5. (m * (q + 1) + c) % m = c
  BY <1>3, <1>4
<1> QED BY <1>2, <1>5, Zenon

LengthOf == get_packet_size(get_payload_size(evt))

(* Words sent, and the STOP_CELL that a packet without payload does not send.*)
Padded == IF NoPayload THEN sent + 1 ELSE sent

PadInv ==
  /\ state \notin {"IDLE", "HEAD", "STATUS", "LENGTH"} =>
       packet_padding = get_packet_padding(LengthOf)
  /\ state = "PAD" /\ Intact =>
       packet_padding = 0 \/ (state_word_cnt < packet_padding /\ Padded = LengthOf + state_word_cnt)
  /\ state = "WAIT" /\ Intact =>
       /\ packet_padding # 0 /\ state_word_cnt < PAD
       /\ Padded = LengthOf + packet_padding + state_word_cnt

LEMMA PadElsewhere ==
  ASSUME state' \in {"IDLE", "HEAD", "STATUS", "LENGTH"}
  PROVE  PadInv'
  BY DEF PadInv

(* The padding is that of the packet as soon as its length is.               *)
LEMMA PaddingSettled ==
  ASSUME LengthInv, Beside, state \notin {"IDLE", "HEAD", "STATUS"}
  PROVE  packet_padding' = get_packet_padding(LengthOf) /\ LengthOf' = LengthOf
  BY DEF LengthInv, SizeInv, LengthOf, Beside, SizeRegisters

LEMMA PadSteps ==
  ASSUME TypeOK, LengthInv, PadInv, NEW rst \in RESETS, NEW drs_valid \in BOOLEAN,
         \/ SingleWord(rst)
         \/ MultiWord(rst)
         \/ CalcCrc(rst)
         \/ ChHeader(rst)
         \/ PayloadTimeout(rst, drs_valid)
         \/ PayloadWord(rst, drs_valid)
         \/ PayloadLast(rst, drs_valid)
         \/ PayloadStall(rst)
  PROVE  PadInv'
<1>1. CASE state' \in {"IDLE", "HEAD", "STATUS", "LENGTH"}
  BY <1>1, PadElsewhere
<1>2. CASE state' \notin {"IDLE", "HEAD", "STATUS", "LENGTH"}
  <2>1. Beside /\ state \notin {"IDLE", "HEAD", "STATUS"}
    <3>1. Beside
      BY DEF SingleWord, MultiWord, CalcCrc, ChHeader, PayloadTimeout, PayloadWord,
             PayloadLast, PayloadStall, PayloadStep
    <3>2. SingleWord(rst) => state \notin {"IDLE", "HEAD", "STATUS"}
      BY <1>2 DEF SingleWord, Goto, NextState
    <3>3. ~SingleWord(rst) => state \notin {"IDLE", "HEAD", "STATUS"}
      BY DEF MultiWord, CalcCrc, ChHeader, PayloadTimeout, PayloadWord, PayloadLast,
             PayloadStall, PayloadStep
    <3> QED BY <3>1, <3>2, <3>3
  <2>2. packet_padding' = get_packet_padding(LengthOf) /\ LengthOf' = LengthOf
    BY <2>1, PaddingSettled
  <2>3. evt' = evt /\ NoPayload' = NoPayload /\ dirty' = dirty
    BY <2>1 DEF Beside, NoPayload
  <2>4. CASE state = "TAIL"
    <3>1. /\ state' = "PAD" /\ state_word_cnt' = state_word_cnt /\ sent' = sent + 1
          /\ overrun' = overrun
      <4>1. SingleWord(rst)
        BY <2>4 DEF MultiWord, CalcCrc, ChHeader, PayloadTimeout, PayloadWord, PayloadLast,
                    PayloadStall, PayloadStep
      <4> QED BY <1>2, <2>4, <4>1 DEF SingleWord, Goto, NextState, Send
    <3>2. ASSUME Intact' PROVE state_word_cnt' = 0 /\ Padded' = LengthOf
      <4>1. Intact
        BY <2>3, <3>1, <3>2 DEF Intact
      <4>2. state_word_cnt = 0 /\ sent = SentBeforeCrc + 2
        BY <2>4, <4>1 DEF LengthInv, SentInv, TailInv
      <4>3. get_payload_size(evt) \in Nat
        BY CountedType
      <4>4. LengthOf = 22 + get_payload_size(evt)
        BY DEF LengthOf, get_packet_size, OverheadWords
      <4>5. SentBeforeCrc = IF NoPayload THEN 18 ELSE 19 + get_payload_size(evt)
        BY DEF SentBeforeCrc
      <4>6. NoPayload => get_payload_size(evt) = 0
        BY DEF NoPayload, get_payload_size
      <4> QED BY <2>3, <3>1, <4>2, <4>3, <4>4, <4>5, <4>6 DEF Padded
    <3>3. packet_padding' \in 0..PAD /\ LengthOf \in Nat /\ PAD \in Nat
      <4>1. LengthOf \in Nat
        BY CountedType DEF LengthOf, get_packet_size, OverheadWords
      <4> QED BY <2>2, <4>1, PaddingType, DaqAssumption
    <3> QED BY <2>2, <3>1, <3>2, <3>3 DEF PadInv
  <2>5. CASE state \in {"PAD", "WAIT"}
    <3>1. MultiWord(rst) /\ overrun' = overrun /\ sent' = sent + 1
      BY <2>5 DEF SingleWord, MultiWord, CalcCrc, ChHeader, PayloadTimeout, PayloadWord,
                  PayloadLast, PayloadStall, PayloadStep, NextState, KeepFields, Send
    <3>2. packet_padding = get_packet_padding(LengthOf) /\ packet_padding' = packet_padding
      BY <2>2, <2>5 DEF PadInv
    <3>3. /\ state_word_cnt \in Nat /\ CNT_MOD \in Nat \ {0} /\ PAD \in Nat /\ PAD < CNT_MOD
          /\ packet_padding \in 0..PAD /\ sent \in Nat /\ LengthOf \in Nat
      <4>1. LengthOf \in Nat
        BY CountedType DEF LengthOf, get_packet_size, OverheadWords
      <4> QED BY <4>1, DaqAssumption DEF TypeOK, FsmType, SizeType, HistoryType
    <3>4. (state_word_cnt + 1 < CNT_MOD) => (state_word_cnt + 1) % CNT_MOD = state_word_cnt + 1
      BY <3>3, ModSmall
    <3> SUFFICES ASSUME Intact', packet_padding' # 0 \/ state' = "WAIT"
                 PROVE  /\ state' = "PAD" => /\ state_word_cnt' < packet_padding'
                                             /\ Padded' = LengthOf' + state_word_cnt'
                        /\ state' = "WAIT" =>
                             /\ packet_padding' # 0 /\ state_word_cnt' < PAD
                             /\ Padded' = LengthOf' + packet_padding' + state_word_cnt'
      BY <2>2 DEF PadInv
    <3>5. Intact /\ Padded' = Padded + 1 /\ Padded \in Nat
      BY <2>3, <3>1, <3>3 DEF Intact, Padded
    <3>6. CASE state = "PAD"
      <4>1. CountWords(rst, packet_padding, "WAIT")
        BY <3>1, <3>6 DEF MultiWord
      <4>2. packet_padding # 0
        BY <1>2, <3>2, <3>3, <3>6, <4>1 DEF CountWords, Goto
      <4>3. state_word_cnt < packet_padding /\ Padded = LengthOf + state_word_cnt
        BY <3>5, <3>6, <4>2 DEF PadInv
      <4>4. \/ /\ state_word_cnt = packet_padding - 1 /\ state' = "WAIT"
               /\ state_word_cnt' = 0
            \/ /\ state_word_cnt # packet_padding - 1 /\ state' = "PAD"
               /\ state_word_cnt' = state_word_cnt + 1
        BY <1>2, <3>3, <3>4, <3>6, <4>1, <4>3 DEF CountWords, Goto
      <4> QED BY <2>2, <3>2, <3>3, <3>5, <4>2, <4>3, <4>4
    <3>7. CASE state = "WAIT"
      <4>1. CountWords(rst, PAD, "IDLE")
        BY <3>1, <3>7 DEF MultiWord
      <4>2. /\ packet_padding # 0 /\ state_word_cnt < PAD
            /\ Padded = LengthOf + packet_padding + state_word_cnt
        BY <3>5, <3>7 DEF PadInv
      <4>3. /\ state_word_cnt # PAD - 1 /\ state' = "WAIT"
            /\ state_word_cnt' = state_word_cnt + 1
        BY <1>2, <3>3, <3>4, <3>7, <4>1, <4>2 DEF CountWords, Goto
      <4> QED BY <2>2, <3>2, <3>3, <3>5, <4>2, <4>3
    <3> QED BY <2>5, <3>6, <3>7
  <2>6. CASE state \notin {"TAIL", "PAD", "WAIT"}
    <3>1. state' \notin {"PAD", "WAIT"}
      <4>1. CASE SingleWord(rst)
        BY <1>2, <2>6, <4>1 DEF SingleWord, Goto, NextState
      <4>2. CASE MultiWord(rst)
        BY <1>2, <2>6, <4>2 DEF MultiWord, CountWords, Goto
      <4>3. CASE CalcCrc(rst) \/ ChHeader(rst)
        BY <1>2, <4>3 DEF CalcCrc, ChHeader, Goto
      <4>4. CASE \/ PayloadTimeout(rst, drs_valid) \/ PayloadWord(rst, drs_valid)
                 \/ PayloadLast(rst, drs_valid) \/ PayloadStall(rst)
        BY <1>2, <4>4 DEF PayloadTimeout, PayloadWord, PayloadLast, PayloadStall, Goto
      <4> QED BY <4>1, <4>2, <4>3, <4>4
    <3> QED BY <2>2, <3>1 DEF PadInv
  <2> QED BY <2>4, <2>5, <2>6
<1> QED BY <1>1, <1>2

LEMMA PadNext == TypeOK /\ LengthInv /\ PadInv /\ [Next]_vars => PadInv'
<1> SUFFICES ASSUME TypeOK, LengthInv, PadInv, [Next]_vars PROVE PadInv'
  OBVIOUS
<1>1. CASE UNCHANGED vars
  BY <1>1 DEF vars, fsmVars, sizeVars, history, PadInv, Padded, Intact, NoPayload, LengthOf
<1>2. CASE Wait \/ \E rst \in RESETS, req \in Requests : Accept(rst, req)
  <2>1. state' \in {"IDLE", "HEAD"}
    BY <1>2 DEF Wait, Accept, Goto, IdleRegisters
  <2> QED BY <2>1, PadElsewhere
<1>3. CASE \E rst \in RESETS, drs_valid \in BOOLEAN :
             \/ SingleWord(rst) \/ MultiWord(rst) \/ CalcCrc(rst) \/ ChHeader(rst)
             \/ PayloadTimeout(rst, drs_valid) \/ PayloadWord(rst, drs_valid)
             \/ PayloadLast(rst, drs_valid) \/ PayloadStall(rst)
  BY <1>3, PadSteps
<1> QED BY <1>1, <1>2, <1>3 DEF Next

(* After a packet without payload the gap begins a word before a boundary,   *)
(* and the next packet with it.                                              *)
GapIsEarly == state = "WAIT" /\ Intact /\ NoPayload => (sent + 1) % PAD = state_word_cnt

(* For any masks, sample counts and burst size the gap after a packet with   *)
(* payload begins on a burst boundary: the padding computed from the LEN     *)
(* word is that of the words sent.  After a packet without payload it begins *)
(* one word early, never elsewhere.                                          *)
THEOREM GapIsAligned == Spec => [](IdleBurstAligned /\ GapIsEarly)
<1>1. Init => LengthInv /\ PadInv
  BY LengthInit DEF Init, PadInv
<1>2. TypeOK /\ PadInv => IdleBurstAligned /\ GapIsEarly
  <2> SUFFICES ASSUME TypeOK, PadInv, state = "WAIT", Intact
               PROVE  Padded % PAD = state_word_cnt
    BY DEF IdleBurstAligned, GapIsEarly, Padded
  <2>1. /\ packet_padding = get_packet_padding(LengthOf) /\ packet_padding # 0
        /\ state_word_cnt < PAD
        /\ Padded = LengthOf + packet_padding + state_word_cnt
    BY DEF PadInv
  <2>2. /\ PAD \in Nat \ {0} /\ state_word_cnt \in 0..(PAD - 1) /\ LengthOf \in Nat
    <3>1. LengthOf \in Nat
      BY CountedType DEF LengthOf, get_packet_size, OverheadWords
    <3> QED BY <2>1, <3>1, DaqAssumption DEF TypeOK, FsmType
  <2>3. packet_padding = PAD - (LengthOf % PAD)
    BY <2>1 DEF get_packet_padding
  <2>4. (LengthOf + (PAD - (LengthOf % PAD)) + state_word_cnt) % PAD = state_word_cnt
    BY <2>2, PaddedIsMultiple
  <2> QED BY <2>1, <2>3, <2>4
<1> QED BY <1>1, <1>2, PadNext, LengthNext, TypeCorrect, PTL DEF Spec

-----------------------------------------------------------------------------
(* The refinement.  The safety part of it: daq.vhd, as Daq models it, does   *)
(* only what its abstract specification Formatter allows.  The state machine *)
(* keeps one counter for all its fields, so the gap is the only place where  *)
(* a fact about it is needed (GapInv).                                       *)

Gap == IF state = "WAIT" THEN state_word_cnt ELSE 0

(* The words of the gap are counted from 0 and never past the burst.         *)
GapInv == Gap \in 0..(PAD - 1)

-----------------------------------------------------------------------------
(* Where a step leads that moves to `to` unless reset.                       *)
LEMMA GotoPhase ==
  ASSUME NEW rst \in RESETS, NEW s, Goto(rst, s)
  PROVE  /\ rst \in BOOLEAN
         /\ rst => Phase' = "ready" /\ Gap' = 0
         /\ ~rst => state' = s
  BY DaqAssumption DEF Goto, Phase, Gap

(* The initial registers are an idle formatter without an event.             *)
LEMMA FormatterInit == Init => Interface!Init /\ GapInv
  BY DaqAssumption DEF Init, Interface!Init, Phase, GapInv, Gap

(* A step inside a phase is no step of the abstract formatter, or only takes *)
(* the acknowledge back.                                                     *)
LEMMA Inside ==
  ASSUME Phase' = Phase, Gap' = Gap, ack' = FALSE, UNCHANGED evt
  PROVE  Interface!Next
  BY DEF Interface!Next, Interface!Continue, Gap

(* Accepting a request, on an edge with or without reset.                    *)
LEMMA AcceptStep ==
  ASSUME NEW rst \in RESETS, NEW req \in Requests, Accept(rst, req)
  PROVE  Interface!Next /\ Gap' = 0
<1>1. state = "IDLE" /\ Goto(rst, "HEAD") /\ ack' = TRUE /\ evt' = req
  BY DEF Accept, IdleRegisters
<1>2. Phase = "ready" /\ Gap = 0
  BY <1>1 DEF Phase, Gap
<1>3. Gap' = 0 /\ Phase' = IF rst THEN "ready" ELSE "header"
  BY <1>1 DEF Goto, Phase, Gap
<1>4. Interface!Accept(rst, req)
  BY <1>1, <1>2, <1>3 DEF Interface!Accept, Interface!Goto, Gap
<1> QED BY <1>3, <1>4 DEF Interface!Next

(* A step that takes the packet from the header, the payload or the trailer  *)
(* to what comes after it, or back to ready on a reset.                      *)
LEMMA PhaseStep ==
  ASSUME NEW rst \in RESETS, NEW s, Goto(rst, s), ack' = FALSE, UNCHANGED evt,
         Phase \in {"header", "payload", "trailer"},
         ~rst => Gap' = 0 /\
           \/ Phase' = Phase
           \/ Phase = "header"  /\ Phase' = IF NoPayload THEN "trailer" ELSE "payload"
           \/ Phase = "payload" /\ Phase' = "trailer"
           \/ Phase = "trailer" /\ Phase' = "gap"
  PROVE  Interface!Next /\ Gap' = 0
<1>1. Gap = 0
  BY DEF Phase, Gap
<1>2. Gap' = 0
  BY GotoPhase
<1>3. CASE ~rst /\ Phase' = Phase
  BY <1>1, <1>2, <1>3, Inside
<1>4. CASE rst \/ Phase' # Phase
  <2>1. Phase' = IF rst THEN "ready"
                 ELSE CASE Phase = "header" -> IF NoPayload THEN "trailer" ELSE "payload"
                        [] Phase = "payload" -> "trailer"
                        [] Phase = "trailer" -> "gap"
    BY <1>4, GotoPhase
  <2>2. \/ Interface!EndHeader(rst)
        \/ Interface!EndPayload(rst)
        \/ Interface!EndTrailer(rst)
    BY <1>1, <1>2, <2>1 DEF Interface!EndHeader, Interface!EndPayload, Interface!EndTrailer,
       Interface!Goto, Interface!AfterHeader, NoPayload, Gap
  <2> QED BY <1>2, <2>2 DEF Interface!Next, Interface!Progress, Gap
<1> QED BY <1>2, <1>3, <1>4

(* The table of the phases, for the states the code names.                   *)
LEMMA PhaseTable ==
  /\ state = "IDLE" => Phase = "ready"
  /\ state = "WAIT" => Phase = "gap"
  /\ state \in {"CH_HEADER", "PAYLOAD", "CALC_CH_CRC", "CH_CRC"} => Phase = "payload"
  /\ state \in {"STOP_CELL", "CALC_CRC32", "CRC32", "TAIL", "PAD"} => Phase = "trailer"
  /\ state \in {"HEAD", "STATUS", "LENGTH", "ROI", "DNA", "RSVD0", "HOUSEKEEPING",
                "HASH", "ID", "CHMASK", "EVENT_CNT", "DTAP", "DRS_TEMP", "TIMESTAMP"}
       => Phase = "header"
<1>1. state = "IDLE" => Phase = "ready"
  BY DEF Phase
<1>2. state = "WAIT" => Phase = "gap"
  BY DEF Phase
<1>3. state \in {"CH_HEADER", "PAYLOAD", "CALC_CH_CRC", "CH_CRC"} => Phase = "payload"
  BY DEF Phase
<1>4. state \in {"STOP_CELL", "CALC_CRC32", "CRC32", "TAIL", "PAD"} => Phase = "trailer"
  BY DEF Phase
<1>5. state \in {"HEAD", "STATUS", "LENGTH", "ROI", "DNA", "RSVD0", "HOUSEKEEPING",
                "HASH", "ID", "CHMASK", "EVENT_CNT", "DTAP", "DRS_TEMP", "TIMESTAMP"}
        => Phase = "header"
  BY DEF Phase
<1> QED BY <1>1, <1>2, <1>3, <1>4, <1>5

(* The same after a step.                                                    *)
LEMMA PhaseTablePrimed ==
  /\ state' = "WAIT" => Phase' = "gap"
  /\ state' # "WAIT" => Gap' = 0
  /\ state' \in {"CH_HEADER", "PAYLOAD", "CALC_CH_CRC", "CH_CRC"} => Phase' = "payload"
  /\ state' \in {"STOP_CELL", "CALC_CRC32", "CRC32", "TAIL", "PAD"} => Phase' = "trailer"
  /\ state' \in {"HEAD", "STATUS", "LENGTH", "ROI", "DNA", "RSVD0", "HOUSEKEEPING",
                "HASH", "ID", "CHMASK", "EVENT_CNT", "DTAP", "DRS_TEMP", "TIMESTAMP"}
       => Phase' = "header"
<1>1. /\ state' = "WAIT" => Phase' = "gap"
      /\ state' # "WAIT" => Gap' = 0
  BY DEF Phase, Gap
<1>3. state' \in {"CH_HEADER", "PAYLOAD", "CALC_CH_CRC", "CH_CRC"} => Phase' = "payload"
  BY DEF Phase
<1>4. state' \in {"STOP_CELL", "CALC_CRC32", "CRC32", "TAIL", "PAD"} => Phase' = "trailer"
  BY DEF Phase
<1>5. state' \in {"HEAD", "STATUS", "LENGTH", "ROI", "DNA", "RSVD0", "HOUSEKEEPING",
                "HASH", "ID", "CHMASK", "EVENT_CNT", "DTAP", "DRS_TEMP", "TIMESTAMP"}
        => Phase' = "header"
  BY DEF Phase
<1> QED BY <1>1, <1>3, <1>4, <1>5

-----------------------------------------------------------------------------
(* The states of one word each: within the header, or within the trailer.    *)
LEMMA SingleWordStep ==
  ASSUME NEW rst \in RESETS, SingleWord(rst)
  PROVE  Interface!Next /\ Gap' = 0
<1>1. /\ state \in DOMAIN NextState /\ Goto(rst, NextState[state])
      /\ ack' = FALSE /\ UNCHANGED evt
  BY DEF SingleWord, Beside
<1>2. CASE state \in {"STOP_CELL", "TAIL"}
  <2>1. NextState[state] \in {"CALC_CRC32", "PAD"}
    BY <1>2 DEF NextState
  <2>2. Phase = "trailer" /\ (~rst => Phase' = "trailer" /\ Gap' = 0)
    BY <1>1, <1>2, <2>1, PhaseTable, PhaseTablePrimed, GotoPhase
  <2> QED BY <1>1, <2>2, PhaseStep
<1>3. CASE state \notin {"STOP_CELL", "TAIL"}
  <2>1. /\ state \in {"HEAD", "STATUS", "LENGTH", "ROI", "DNA", "RSVD0", "HASH", "ID",
                      "CHMASK", "DTAP", "DRS_TEMP"}
        /\ NextState[state] \in {"STATUS", "LENGTH", "ROI", "DNA", "RSVD0", "HOUSEKEEPING",
                      "ID", "CHMASK", "EVENT_CNT", "DRS_TEMP", "TIMESTAMP"}
    BY <1>1, <1>3 DEF NextState
  <2>2. Phase = "header" /\ (~rst => Phase' = "header" /\ Gap' = 0)
    BY <1>1, <2>1, PhaseTable, PhaseTablePrimed, GotoPhase
  <2> QED BY <1>1, <2>2, PhaseStep
<1> QED BY <1>2, <1>3

(* A state of several words stays, or goes where its last word leads.        *)
LEMMA CountWordsGoto ==
  ASSUME NEW rst \in RESETS, NEW words, NEW to, CountWords(rst, words, to)
  PROVE  \/ state_word_cnt = words - 1 /\ Goto(rst, to) /\ state_word_cnt' = 0
         \/ state_word_cnt # words - 1 /\ Goto(rst, state)
              /\ state_word_cnt' = (state_word_cnt + 1) % CNT_MOD
  BY DEF CountWords

(* The gap: a word of it more, or back to ready after the last.              *)
LEMMA WaitStep ==
  ASSUME TypeOK, GapInv, NEW rst \in RESETS, state = "WAIT", CountWords(rst, PAD, "IDLE"),
         ack' = FALSE, UNCHANGED evt
  PROVE  Interface!Next /\ GapInv'
<1>1. Phase = "gap" /\ Gap = state_word_cnt /\ state_word_cnt \in 0..(PAD - 1)
  BY PhaseTable DEF Gap, GapInv
<1>2. CASE state_word_cnt = PAD - 1
  <2>1. Phase' = "ready" /\ Gap' = 0
    <3>1. state' = "IDLE"
      BY <1>2, CountWordsGoto DEF Goto
    <3> QED BY <3>1 DEF Phase, Gap
  <2>2. Interface!GapWord(rst)
    BY <1>1, <1>2, <2>1 DEF Interface!GapWord, Interface!Goto, Gap
  <2>3. GapInv'
    BY <2>1, DaqAssumption DEF GapInv
  <2> QED BY <2>2, <2>3 DEF Interface!Next, Interface!Progress
<1>3. CASE state_word_cnt # PAD - 1
  <2>1. Goto(rst, "WAIT") /\ state_word_cnt' = state_word_cnt + 1
    <3>1. Goto(rst, "WAIT") /\ state_word_cnt' = (state_word_cnt + 1) % CNT_MOD
      BY <1>3, CountWordsGoto
    <3>2. (state_word_cnt + 1) % CNT_MOD = state_word_cnt + 1
      <4>1. state_word_cnt + 1 \in 0..(CNT_MOD - 1) /\ CNT_MOD \in Nat \ {0}
        BY <1>1, DaqAssumption
      <4> QED BY <4>1, ModSmall
    <3> QED BY <3>1, <3>2
  <2>2. CASE rst
    <3>1. Phase' = "ready" /\ Gap' = 0
      BY <2>1, <2>2, GotoPhase
    <3>2. Interface!GapWord(rst)
      BY <1>1, <1>3, <2>2, <3>1 DEF Interface!GapWord, Interface!Goto, Gap
    <3>3. GapInv'
      BY <3>1, DaqAssumption DEF GapInv
    <3> QED BY <3>2, <3>3 DEF Interface!Next, Interface!Progress
  <2>3. CASE ~rst
    <3>1. state' = "WAIT" /\ Phase' = "gap" /\ Gap' = state_word_cnt + 1
      BY <2>1, <2>3, GotoPhase, PhaseTablePrimed DEF Gap
    <3>2. Interface!GapWord(rst)
      BY <1>1, <1>3, <2>3, <3>1 DEF Interface!GapWord, Interface!Goto, Gap
    <3>3. GapInv'
      BY <1>1, <1>3, <3>1, DaqAssumption DEF GapInv
    <3> QED BY <3>2, <3>3 DEF Interface!Next, Interface!Progress
  <2> QED BY <2>2, <2>3
<1> QED BY <1>2, <1>3

(* The states of several words each.  The last word of the timestamp ends    *)
(* the header, the last pad word the packet.                                 *)
LEMMA MultiWordStep ==
  ASSUME TypeOK, GapInv, NEW rst \in RESETS, MultiWord(rst)
  PROVE  Interface!Next /\ GapInv'
<1>1. ack' = FALSE /\ UNCHANGED evt
  BY DEF MultiWord, Beside
<1>2. ASSUME Gap' = 0 PROVE GapInv'
  BY <1>2, DaqAssumption DEF GapInv
<1>3. CASE state \in {"HOUSEKEEPING", "EVENT_CNT"}
  <2>1. Goto(rst, state) \/ Goto(rst, "HASH") \/ Goto(rst, "DTAP")
    BY <1>3, CountWordsGoto DEF MultiWord
  <2>2. Phase = "header" /\ (~rst => Phase' = "header" /\ Gap' = 0)
    BY <1>3, <2>1, PhaseTable, PhaseTablePrimed, GotoPhase
  <2> QED BY <1>1, <1>2, <2>1, <2>2, PhaseStep
<1>4. CASE state = "TIMESTAMP"
  <2>1. Goto(rst, state) \/ Goto(rst, IF NoPayload THEN "CRC32" ELSE "CH_HEADER")
    BY <1>4, CountWordsGoto DEF MultiWord
  <2>2. /\ Phase = "header"
        /\ ~rst => Gap' = 0 /\ (Phase' = Phase \/ Phase' = IF NoPayload THEN "trailer" ELSE "payload")
    BY <1>4, <2>1, PhaseTable, PhaseTablePrimed, GotoPhase
  <2> QED BY <1>1, <1>2, <2>1, <2>2, PhaseStep
<1>5. CASE state = "CH_CRC"
  <2>1. Goto(rst, state) \/ Goto(rst, "STOP_CELL") \/ Goto(rst, "CH_HEADER")
    BY <1>5, CountWordsGoto DEF MultiWord
  <2>2. /\ Phase = "payload"
        /\ ~rst => Gap' = 0 /\ (Phase' = Phase \/ Phase' = "trailer")
    BY <1>5, <2>1, PhaseTable, PhaseTablePrimed, GotoPhase
  <2> QED BY <1>1, <1>2, <2>1, <2>2, PhaseStep
<1>6. CASE state = "CRC32"
  <2>1. Goto(rst, state) \/ Goto(rst, "TAIL")
    BY <1>6, CountWordsGoto DEF MultiWord
  <2>2. Phase = "trailer" /\ (~rst => Phase' = "trailer" /\ Gap' = 0)
    BY <1>6, <2>1, PhaseTable, PhaseTablePrimed, GotoPhase
  <2> QED BY <1>1, <1>2, <2>1, <2>2, PhaseStep
<1>7. CASE state = "PAD"
  <2>1. Goto(rst, "PAD") \/ (Goto(rst, "WAIT") /\ state_word_cnt' = 0)
    BY <1>7, CountWordsGoto DEF MultiWord
  <2>2. /\ Phase = "trailer"
        /\ ~rst => Gap' = 0 /\ (Phase' = Phase \/ Phase' = "gap")
    BY <1>7, <2>1, PhaseTable, PhaseTablePrimed, GotoPhase DEF Gap
  <2> QED BY <1>1, <1>2, <2>1, <2>2, PhaseStep
<1>8. CASE state = "WAIT"
  <2>1. CountWords(rst, PAD, "IDLE")
    BY <1>8 DEF MultiWord
  <2> QED BY <1>1, <1>8, <2>1, WaitStep
<1> QED BY <1>3, <1>4, <1>5, <1>6, <1>7, <1>8 DEF MultiWord

(* The clocks between the payload and a CRC.                                 *)
LEMMA CalcCrcStep ==
  ASSUME NEW rst \in RESETS, CalcCrc(rst)
  PROVE  Interface!Next /\ Gap' = 0
<1>1. ack' = FALSE /\ UNCHANGED evt
  BY DEF CalcCrc, Beside
<1>2. CASE state = "CALC_CH_CRC" /\ Goto(rst, "CH_CRC")
  BY <1>1, <1>2, PhaseTable, PhaseTablePrimed, GotoPhase, PhaseStep
<1>3. CASE state = "CALC_CRC32" /\ Goto(rst, "CRC32")
  BY <1>1, <1>3, PhaseTable, PhaseTablePrimed, GotoPhase, PhaseStep
<1> QED BY <1>2, <1>3 DEF CalcCrc

(* A channel header; a packet without channels goes on to its trailer.       *)
LEMMA ChHeaderStep ==
  ASSUME NEW rst \in RESETS, ChHeader(rst)
  PROVE  Interface!Next /\ Gap' = 0
<1>1. /\ ack' = FALSE /\ UNCHANGED evt /\ state = "CH_HEADER"
      /\ Goto(rst, "CRC32") \/ Goto(rst, "PAYLOAD")
  BY DEF ChHeader, Beside
<1>2. Phase = "payload" /\ (~rst => Gap' = 0 /\ Phase' \in {"payload", "trailer"})
  BY <1>1, PhaseTable, PhaseTablePrimed, GotoPhase
<1> QED BY <1>1, <1>2, PhaseStep

(* The samples stay in the payload, with or without data of the DRS.         *)
LEMMA PayloadPhase ==
  ASSUME NEW rst \in RESETS, NEW drs_valid \in BOOLEAN,
         \/ PayloadTimeout(rst, drs_valid)
         \/ PayloadWord(rst, drs_valid)
         \/ PayloadLast(rst, drs_valid)
         \/ PayloadStall(rst)
  PROVE  Interface!Next /\ Gap' = 0
<1>1. /\ ack' = FALSE /\ UNCHANGED evt /\ state = "PAYLOAD"
      /\ Goto(rst, "PAYLOAD") \/ Goto(rst, "CALC_CH_CRC")
  BY DEF PayloadTimeout, PayloadWord, PayloadLast, PayloadStall, PayloadStep, Beside
<1>2. Phase = "payload" /\ (~rst => Gap' = 0 /\ Phase' = "payload")
  BY <1>1, PhaseTable, PhaseTablePrimed, GotoPhase
<1> QED BY <1>1, <1>2, PhaseStep

-----------------------------------------------------------------------------
(* Every step of the formatter is a step of its specification, or stutters,  *)
(* and keeps the gap within its burst.                                       *)
LEMMA FormatterNext ==
  TypeOK /\ GapInv /\ [Next]_vars => [Interface!Next]_(Interface!vars) /\ GapInv'
<1> SUFFICES ASSUME TypeOK, GapInv, [Next]_vars
             PROVE  [Interface!Next]_(Interface!vars) /\ GapInv'
  OBVIOUS
<1>1. ASSUME Gap' = 0 PROVE GapInv'
  BY <1>1, DaqAssumption DEF GapInv
<1>2. CASE Wait
  <2>1. state' = "IDLE" /\ state = "IDLE" /\ ack' = FALSE /\ UNCHANGED evt
    BY <1>2 DEF Wait, IdleRegisters
  <2>2. Phase' = Phase /\ Gap' = Gap /\ Gap' = 0
    BY <2>1 DEF Phase, Gap
  <2> QED BY <1>1, <2>1, <2>2, Inside
<1>3. CASE \E rst \in RESETS, req \in Requests : Accept(rst, req)
  BY <1>1, <1>3, AcceptStep
<1>4. CASE \E rst \in RESETS : SingleWord(rst)
  BY <1>1, <1>4, SingleWordStep
<1>5. CASE \E rst \in RESETS : MultiWord(rst)
  BY <1>5, MultiWordStep
<1>6. CASE \E rst \in RESETS : CalcCrc(rst)
  BY <1>1, <1>6, CalcCrcStep
<1>7. CASE \E rst \in RESETS : ChHeader(rst)
  BY <1>1, <1>7, ChHeaderStep
<1>8. CASE \E rst \in RESETS, drs_valid \in BOOLEAN :
             \/ PayloadTimeout(rst, drs_valid)
             \/ PayloadWord(rst, drs_valid)
             \/ PayloadLast(rst, drs_valid)
             \/ PayloadStall(rst)
  BY <1>1, <1>8, PayloadPhase
<1>9. CASE UNCHANGED vars
  <2>1. UNCHANGED <<state, state_word_cnt, ack, evt>>
    BY <1>9 DEF vars, fsmVars
  <2>2. Phase' = Phase /\ Gap' = Gap
    BY <2>1 DEF Phase, Gap
  <2>3. UNCHANGED Interface!vars
    BY <2>1, <2>2 DEF Interface!vars, Gap
  <2> QED BY <2>2, <2>3 DEF GapInv
<1>10. CASE Next
  BY <1>2, <1>3, <1>4, <1>5, <1>6, <1>7, <1>8, <1>10 DEF Next
<1> QED BY <1>9, <1>10

(* The formatter implements the safety part of its specification: whatever   *)
(* the DRS delivers and whenever it is reset, the event queue sees one       *)
(* acknowledge per accepted event and no acceptance before the gap is over,  *)
(* and the DMA controller a gap of exactly one burst after every packet.     *)
THEOREM FormatterImplemented ==
  Spec => Interface!Init /\ [][Interface!Next]_(Interface!vars)
<1>1. Init => Interface!Init /\ GapInv
  BY FormatterInit
<1>2. TypeOK /\ GapInv /\ [Next]_vars => [Interface!Next]_(Interface!vars) /\ GapInv'
  BY FormatterNext
<1> QED BY <1>1, <1>2, TypeCorrect, PTL DEF Spec

=============================================================================
