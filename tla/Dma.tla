-------------------------------- MODULE Dma --------------------------------
(***************************************************************************)
(* The DMA controller of the readout board, dma/src/dma_controller.vhd: it *)
(* drains the packet FIFO in bursts of WORDS_TO_SEND words into one of two *)
(* RAM buffers and jumps to the other buffer between packets.              *)
(*                                                                         *)
(* An action of the controller is one edge of clk_axi: the state machine   *)
(* takes one step and every other clocked process of the file takes its    *)
(* step beside it, all of them reading the registers as they were before   *)
(* the edge.  The writer of the FIFO is in another clock domain: its words *)
(* arrive between any two edges.  Addresses count bytes from the first     *)
(* one; of a word only whether it starts a packet and its busy bit are     *)
(* kept.  The AXI datamover is vendor IP: it is ready for a command or not *)
(* at any edge, takes one in ASSERT_CMD and posts its address at some edge *)
(* of DELAY0.                                                              *)
(***************************************************************************)
EXTENDS Integers, Sequences

CONSTANTS
  WORDS_TO_SEND,     (* 32 bit words of a burst (16)                         *)
  FIFO_LATENCY,      (* edges from fifo_rd_en to fifo_out_valid (1)          *)
  DELAY_MAX,         (* last value of delay_counter in DELAY0 (21)           *)
  RAM_BUFF_SIZE,     (* bytes of a buffer                                    *)
  BOT_HALF_ADDRESS, TOP_HALF_ADDRESS,    (* base addresses of the buffers    *)
  MAX_PACKET_SIZE,   (* bytes of a buffer kept for the packet in flight      *)
  FIFO_DEPTH,        (* words the packet FIFO holds                          *)
  PacketWords,       (* 32 bit words a packet has with the busy bit set: any
                        number, see WritePacket                              *)
  WORD_EDGES,        (* edges of clk_axi between two words written, at least *)
  READIES,           (* values s2mm_cmd_tready may take: {TRUE} or BOOLEAN   *)
  TOGGLES, CLEARS, RESETS    (* values ram_toggle_request_i, clear_ps_mem and
                                the reset may take: {FALSE} or BOOLEAN       *)

BTT == 4 * WORDS_TO_SEND     (* bytes to transfer, of every command          *)

ASSUME DmaAssumption ==
  /\ FIFO_LATENCY = 1
  /\ WORDS_TO_SEND \in Nat /\ WORDS_TO_SEND > FIFO_LATENCY + 1
  /\ DELAY_MAX \in Nat
  /\ RAM_BUFF_SIZE \in Nat /\ MAX_PACKET_SIZE \in Nat /\ FIFO_DEPTH \in Nat
  /\ BOT_HALF_ADDRESS \in Nat
  /\ TOP_HALF_ADDRESS \in Nat
  /\ TOP_HALF_ADDRESS >= BOT_HALF_ADDRESS + RAM_BUFF_SIZE
  /\ FIFO_DEPTH >= WORDS_TO_SEND
  /\ RAM_BUFF_SIZE >= MAX_PACKET_SIZE
  /\ PacketWords # {} /\ PacketWords \subseteq Nat \ {0}
  /\ \A n \in PacketWords : 4 * n + BTT <= MAX_PACKET_SIZE
  /\ WORD_EDGES \in Nat /\ READIES \subseteq BOOLEAN
  /\ TOGGLES \subseteq BOOLEAN /\ CLEARS \subseteq BOOLEAN /\ RESETS \subseteq BOOLEAN

VARIABLES
  s2mm_data_state, delay_counter, words_sent_cnt,
  fifo,                                   (* the packet FIFO                 *)
  fifo_rd_en, fifo_out, fifo_out_valid,   (* its read port                   *)
  fifo_out_valid_r, clear_valid, s2mm_tlast,    (* the stream to the mover   *)
  s2mm_allow_addr_req,                    (* may the mover post an address   *)
  mover,                                  (* the datamover: see Mover        *)
  clear_ps_mem_r, clear_pulse, clear_mode,
  saddr, ram_in_a_buff, mem_bytes_written, guardrail_err,
  toggle_buffer, buff_switch_request, buff_switch_response,
  current_buffer_reg, buff_switched_pulse,
  ram_buff_a_occupancy, ram_buff_b_occupancy,
  busy_left, idle_left,                   (* the writer: words still to come *)
  pause,                                  (* edges before it writes another  *)
  (* history, read by the properties only                                    *)
  cmd_addr,                               (* address of the last command     *)
  next_addr,                              (* end of the last posted burst    *)
  beats,                                  (* words of the burst streamed     *)
  unsent,                                 (* words popped and not streamed   *)
  packet_buff,                            (* buffer the packet started in    *)
  toggled                                 (* a toggle, not over at the last
                                             command                         *)

fsmVars    == <<s2mm_data_state, delay_counter, words_sent_cnt>>
fifoVars   == <<fifo, fifo_rd_en, fifo_out, fifo_out_valid>>
streamVars == <<fifo_out_valid_r, clear_valid, s2mm_tlast>>
moverVars  == <<s2mm_allow_addr_req, mover>>
clearVars  == <<clear_ps_mem_r, clear_pulse, clear_mode>>
addrVars   == <<saddr, ram_in_a_buff, mem_bytes_written, guardrail_err>>
switchVars == <<toggle_buffer, buff_switch_request, buff_switch_response>>
occVars    == <<current_buffer_reg, buff_switched_pulse,
                ram_buff_a_occupancy, ram_buff_b_occupancy>>
writerVars == <<busy_left, idle_left>>
history    == <<cmd_addr, next_addr, beats, unsent, packet_buff, toggled>>
vars       == <<fsmVars, fifoVars, streamVars, moverVars, clearVars, addrVars,
                switchVars, occVars, writerVars, pause, history>>

-----------------------------------------------------------------------------

(* What the read port of the FIFO shows after its reset.                     *)
IdleWord == [first |-> FALSE, busy |-> FALSE]

(* x"FFFFFFFF", what the occupancy reads after a guardrail error.            *)
AllOnes == -1

base_addr == IF ram_in_a_buff THEN BOT_HALF_ADDRESS ELSE TOP_HALF_ADDRESS

daq_busy_xfifo == fifo_out.busy
(* Mutant: the jump is asked for when the buffer is full, without the        *)
(* reserve for the packet in flight.                                         *)
TrippedAtTheEnd == RAM_BUFF_SIZE - mem_bytes_written < BTT

tripped        == RAM_BUFF_SIZE - mem_bytes_written < MAX_PACKET_SIZE
s2mm_tvalid    == fifo_out_valid_r \/ clear_valid

(* Mutant: more than a burst, where a burst is enough.                       *)
MoreThanABurst == Len(fifo) > WORDS_TO_SEND

(* A whole number of bursts waits in the FIFO.                               *)
BurstInFifo == fifo # <<>> /\ Len(fifo) % WORDS_TO_SEND = 0

idle_o == s2mm_data_state = "IDLE" /\ fifo = <<>>

Buffer(addr) == IF addr < TOP_HALF_ADDRESS THEN "A" ELSE "B"

-----------------------------------------------------------------------------
(* The processes beside the state machine.                                   *)

Pop == fifo_rd_en /\ fifo # <<>>

FifoRead ==
  IF Pop
  THEN /\ fifo' = Tail(fifo) /\ fifo_out' = Head(fifo) /\ fifo_out_valid' = TRUE
       /\ packet_buff' = IF Head(fifo).first THEN Buffer(cmd_addr) ELSE packet_buff
  ELSE /\ fifo_out_valid' = FALSE
       /\ UNCHANGED <<fifo, fifo_out, packet_buff>>

(* Rising edge of clear_ps_mem, kept until clear mode is entered.            *)
ClearPulse(clear) ==
  /\ clear_ps_mem_r' = clear
  /\ clear_pulse' = IF clear /\ ~clear_ps_mem_r THEN TRUE
                    ELSE IF clear_mode THEN FALSE ELSE clear_pulse

BufferMonitor ==
  /\ current_buffer_reg'  = ram_in_a_buff
  /\ buff_switched_pulse' = (ram_in_a_buff # current_buffer_reg)
  /\ ram_in_a_buff'       = (saddr < TOP_HALF_ADDRESS)

(* Mutant: a toggle request is saved and never looked at.                    *)
JumpOnlyWhenTripped == tripped
JumpWanted == tripped \/ toggle_buffer

(* A memory clear jumps when it starts and when it has filled a buffer; the  *)
(* mutant leaves the second jump to the rule between packets.                *)
ClearJumpsOnce == clear_pulse /\ s2mm_data_state = "IDLE"
ClearJumps     == \/ clear_pulse /\ s2mm_data_state = "IDLE"
                  \/ clear_mode /\ tripped

(* Ask for a jump: between packets when the buffer is nearly full or a       *)
(* toggle was requested, and for a memory clear.                             *)
SwitchRequest(toggle) ==
  LET betweenPackets == /\ ~daq_busy_xfifo
                        /\ JumpWanted
                        /\ ~buff_switch_request
  IN /\ toggle_buffer' = (~betweenPackets /\ (toggle \/ toggle_buffer))
     /\ buff_switch_request' = \/ betweenPackets
                               \/ ClearJumps
                               \/ buff_switch_request /\ ~buff_switch_response

OutOfRange == saddr > TOP_HALF_ADDRESS + RAM_BUFF_SIZE \/ saddr < BOT_HALF_ADDRESS

(* Where the jump goes.  The request lasts two edges; ram_in_a_buff follows  *)
(* saddr one edge late, so the second jump goes where the first one went.    *)
(* The mutant looks at the address itself.                                   *)
OppositeOfSaddr == IF saddr < TOP_HALF_ADDRESS THEN TOP_HALF_ADDRESS
                                               ELSE BOT_HALF_ADDRESS
OppositeHalf == IF ram_in_a_buff THEN TOP_HALF_ADDRESS ELSE BOT_HALF_ADDRESS

(* mem_bytes_written is held low while a switch is happening; the mutant     *)
(* goes on subtracting the base of the buffer that is being left.            *)
SwitchUnseen == FALSE
Switching    == buff_switch_request \/ buff_switch_response

(* `post` is s2mm_addr_req_posted_reg at this edge.                          *)
AddressHandler(post) ==
  /\ mem_bytes_written' = IF Switching
                          THEN 0 ELSE saddr - base_addr
  /\ guardrail_err' = (guardrail_err \/ OutOfRange)
  /\ saddr' = IF OutOfRange THEN BOT_HALF_ADDRESS
              ELSE IF buff_switch_request THEN OppositeHalf
              ELSE IF post THEN saddr + BTT ELSE saddr
  /\ buff_switch_response' = IF OutOfRange THEN buff_switch_response
                                           ELSE buff_switch_request

(* Mutant: the occupancy of the new buffer is not reset by the switch.       *)
NextOccupancyWithoutReset(post, occ, active, base) ==
  IF guardrail_err THEN AllOnes ELSE IF post /\ active THEN saddr + BTT ELSE occ

NextOccupancy(post, occ, active, base) ==
  IF active /\ buff_switched_pulse THEN base
  ELSE IF guardrail_err THEN AllOnes
  ELSE IF post /\ active THEN saddr + BTT ELSE occ

(* ram_a_occ_rst and ram_b_occ_rst are left out: the signals made of them    *)
(* are '0' in both branches.                                                 *)
Occupancy(post) ==
  /\ ram_buff_a_occupancy' =
       NextOccupancy(post, ram_buff_a_occupancy, ram_in_a_buff, BOT_HALF_ADDRESS)
  /\ ram_buff_b_occupancy' =
       NextOccupancy(post, ram_buff_b_occupancy, ~ram_in_a_buff, TOP_HALF_ADDRESS)

(* The datamover holds a command, posts its address once it is allowed to,   *)
(* and then takes a word of the stream at every edge with s2mm_tvalid, up to *)
(* the one with s2mm_tlast.  The two counts of the history saturate when     *)
(* they are wrong.                                                           *)
Mover(post) ==
  LET taken == mover = "data" /\ s2mm_tvalid
  IN /\ post => mover = "command" /\ s2mm_allow_addr_req
     /\ mover' = IF post THEN "data" ELSE IF taken /\ s2mm_tlast THEN "free" ELSE mover
     /\ next_addr' = IF post THEN cmd_addr + BTT ELSE next_addr
     /\ beats' = IF ~taken \/ beats > WORDS_TO_SEND THEN beats
                 ELSE IF s2mm_tlast THEN 0 ELSE beats + 1
     /\ unsent' = IF unsent < 0 THEN unsent
                  ELSE unsent + (IF Pop THEN 1 ELSE 0)
                              - (IF taken /\ fifo_out_valid_r THEN 1 ELSE 0)

-----------------------------------------------------------------------------
(* What every edge does beside the state machine.                            *)
Beside(post, toggle, clear) ==
  /\ FifoRead
  /\ ClearPulse(clear)
  /\ BufferMonitor
  /\ SwitchRequest(toggle)
  /\ AddressHandler(post)
  /\ Occupancy(post)
  /\ pause' = IF pause > 0 THEN pause - 1 ELSE 0
  /\ UNCHANGED writerVars

(* The edges at which the datamover has nothing to post.                     *)
NoPost(toggle, clear) ==
  /\ Beside(FALSE, toggle, clear)
  /\ Mover(FALSE)
  /\ toggled' = (toggled \/ toggle)
  /\ UNCHANGED cmd_addr

KeepStream == UNCHANGED streamVars

(* `cmd_tready` is s2mm_cmd_tready, the datamover's: without it IDLE waits.  *)
Idle(cmd_tready, toggle, clear) ==
  /\ s2mm_data_state = "IDLE"
  /\ NoPost(toggle, clear)
  /\ s2mm_allow_addr_req' = TRUE
  /\ LET start == cmd_tready /\ (BurstInFifo \/ clear_pulse)
     IN /\ s2mm_data_state' = IF start THEN "ASSERT_CMD" ELSE "IDLE"
        /\ clear_mode' = (clear_mode \/ (start /\ ~BurstInFifo))
        /\ fifo_rd_en' = (fifo_rd_en /\ start)
  /\ KeepStream
  /\ UNCHANGED <<delay_counter, words_sent_cnt>>

(* s2mm_cmd_tvalid is up in this state: the datamover, which was ready an    *)
(* edge ago and has been given nothing since, takes the command.             *)
AssertCmd(toggle, clear) ==
  /\ s2mm_data_state = "ASSERT_CMD"
  /\ Beside(FALSE, toggle, clear)
  /\ s2mm_data_state' = "DELAY0"
  /\ cmd_addr' = saddr /\ mover' = "command"
  /\ toggled' = (toggle \/ toggle_buffer \/ (toggled /\ Switching))
  /\ KeepStream
  /\ UNCHANGED <<delay_counter, words_sent_cnt, fifo_rd_en, clear_mode,
                 s2mm_allow_addr_req, next_addr, beats, unsent>>

(* The address has been posted when the delay is over.                       *)
Delay0(post, toggle, clear) ==
  /\ s2mm_data_state = "DELAY0"
  /\ Beside(post, toggle, clear)
  /\ Mover(post)
  /\ IF delay_counter = DELAY_MAX
     THEN /\ mover # "command" \/ post
          /\ s2mm_allow_addr_req' = FALSE
          /\ delay_counter' = 0
          /\ s2mm_data_state' = IF clear_mode THEN "CLEAR_MEM" ELSE "READ_FIFO"
     ELSE /\ delay_counter' = delay_counter + 1
          /\ UNCHANGED <<s2mm_allow_addr_req, s2mm_data_state>>
  /\ toggled' = (toggled \/ toggle)
  /\ KeepStream
  /\ UNCHANGED <<words_sent_cnt, fifo_rd_en, clear_mode, cmd_addr>>

(* fifo_rd_en has to fall FIFO_LATENCY + 1 words early; the mutant forgets   *)
(* the latency of the FIFO.                                                  *)
EnoughReadLate == words_sent_cnt >= WORDS_TO_SEND - 1
EnoughRead     == words_sent_cnt >= WORDS_TO_SEND - FIFO_LATENCY - 1

ReadFifo(toggle, clear) ==
  /\ s2mm_data_state = "READ_FIFO"
  /\ NoPost(toggle, clear)
  /\ LET sent == words_sent_cnt >= WORDS_TO_SEND
         last == words_sent_cnt >= WORDS_TO_SEND - 1
     IN /\ s2mm_data_state' = IF sent THEN "DONE" ELSE "READ_FIFO"
        /\ words_sent_cnt' = IF sent THEN 0
                             ELSE IF EnoughRead \/ fifo_out_valid THEN words_sent_cnt + 1
                             ELSE words_sent_cnt
        /\ fifo_rd_en' = (~EnoughRead /\ ~sent /\ (fifo_rd_en \/ ~fifo_out_valid))
        /\ fifo_out_valid_r' = (fifo_out_valid /\ ~sent)
        /\ s2mm_tlast' = IF sent THEN FALSE ELSE last \/ s2mm_tlast
  /\ UNCHANGED <<delay_counter, clear_valid, clear_mode, s2mm_allow_addr_req>>

ClearMem(toggle, clear) ==
  /\ s2mm_data_state = "CLEAR_MEM"
  /\ NoPost(toggle, clear)
  /\ LET sent == words_sent_cnt >= WORDS_TO_SEND
         last == words_sent_cnt >= WORDS_TO_SEND - 1
     IN /\ s2mm_data_state' = IF sent THEN "CONTINUE_CLEAR" ELSE "CLEAR_MEM"
        /\ words_sent_cnt' = IF sent THEN 0 ELSE words_sent_cnt + 1
        /\ clear_valid' = IF sent THEN FALSE ELSE ~last \/ clear_valid
        /\ s2mm_tlast' = IF sent THEN FALSE ELSE last \/ s2mm_tlast
  /\ UNCHANGED <<delay_counter, fifo_rd_en, fifo_out_valid_r, clear_mode,
                 s2mm_allow_addr_req>>

ContinueClear(toggle, clear) ==
  /\ s2mm_data_state = "CONTINUE_CLEAR"
  /\ NoPost(toggle, clear)
  /\ s2mm_data_state' = IF buff_switch_request THEN "IDLE"
                        ELSE IF clear_mode THEN "ASSERT_CMD" ELSE "CONTINUE_CLEAR"
  /\ clear_mode' = (clear_mode /\ ~buff_switch_request)
  /\ s2mm_allow_addr_req' = (s2mm_allow_addr_req \/ (clear_mode /\ ~buff_switch_request))
  /\ KeepStream
  /\ UNCHANGED <<delay_counter, words_sent_cnt, fifo_rd_en>>

Done(toggle, clear) ==
  /\ s2mm_data_state = "DONE"
  /\ NoPost(toggle, clear)
  /\ s2mm_data_state' = "IDLE"
  /\ s2mm_tlast' = FALSE
  /\ UNCHANGED <<delay_counter, words_sent_cnt, fifo_rd_en, fifo_out_valid_r,
                 clear_valid, clear_mode, s2mm_allow_addr_req>>

(* A reset, from its first edge to its last: it is stretched to 63 edges, in *)
(* which the buffer monitor settles on buffer A and takes along the occupancy*)
(* of a buffer that is being entered.  words_sent_cnt, fifo_out_valid_r,     *)
(* clear_valid and buff_switch_response keep their values.  The FIFO and the *)
(* datamover are reset too; what the writer writes meanwhile is lost.        *)
Reset ==
  /\ s2mm_allow_addr_req' = FALSE /\ s2mm_data_state' = "IDLE"
  /\ delay_counter' = 0 /\ fifo_rd_en' = FALSE
  /\ s2mm_tlast' = FALSE /\ clear_mode' = FALSE
  /\ clear_ps_mem_r' = FALSE /\ clear_pulse' = FALSE
  /\ toggle_buffer' = FALSE /\ buff_switch_request' = FALSE
  /\ mem_bytes_written' = 0 /\ saddr' = BOT_HALF_ADDRESS /\ guardrail_err' = FALSE
  /\ fifo' = <<>> /\ fifo_out' = IdleWord /\ fifo_out_valid' = FALSE
  /\ ram_in_a_buff' = TRUE /\ current_buffer_reg' = TRUE /\ buff_switched_pulse' = FALSE
  /\ ram_buff_a_occupancy' =
       IF /\ ram_in_a_buff /\ current_buffer_reg
          /\ saddr < TOP_HALF_ADDRESS /\ ~buff_switched_pulse
       THEN ram_buff_a_occupancy ELSE BOT_HALF_ADDRESS
  /\ ram_buff_b_occupancy' =
       IF ~ram_in_a_buff /\ (buff_switched_pulse
                             \/ (current_buffer_reg /\ saddr >= TOP_HALF_ADDRESS))
       THEN TOP_HALF_ADDRESS ELSE ram_buff_b_occupancy
  /\ \/ busy_left' \in 0..busy_left /\ UNCHANGED idle_left
     \/ busy_left' = 0 /\ idle_left' \in 0..idle_left
  /\ pause' = 0
  /\ mover' = "free" /\ beats' = 0 /\ unsent' = 0
  /\ next_addr' = BOT_HALF_ADDRESS
  /\ UNCHANGED <<words_sent_cnt, fifo_out_valid_r, clear_valid,
                 buff_switch_response, cmd_addr, packet_buff, toggled>>

-----------------------------------------------------------------------------
(* The writer: the DAQ writes the words of a packet with the busy bit set    *)
(* and then one burst of words with the busy bit low.  Its words of 16 bits  *)
(* pair up to the FIFO's words of 32, which are busy if one of the pair is.  *)
(* A packet with payload is a whole number of bursts.  One without payload   *)
(* is padded a word of 16 bits too short (PadsToBurst of Daq): it counts as  *)
(* a burst less one word, or as a whole burst if the half left over by the   *)
(* one before completes it, and what follows begins inside a burst.          *)

(* The DAQ writes a word of 32 bits in two clocks of 33 MHz at the fastest,  *)
(* some twelve edges of clk_axi.                                             *)
Paced == pause = 0 /\ pause' = WORD_EDGES

Push(first, busy) ==
  /\ Len(fifo) < FIFO_DEPTH
  /\ fifo' = Append(fifo, [first |-> first, busy |-> busy])

KeepController ==
  UNCHANGED <<fsmVars, fifo_rd_en, fifo_out, fifo_out_valid, streamVars, moverVars,
              clearVars, addrVars, switchVars, occVars, history>>

WritePacket ==
  /\ busy_left = 0 /\ idle_left = 0
  /\ Push(TRUE, TRUE)
  /\ \E n \in PacketWords : busy_left' = n - 1
  /\ idle_left' = WORDS_TO_SEND
  /\ Paced /\ KeepController

NextWord ==
  \/ busy_left > 0 /\ busy_left' = busy_left - 1 /\ UNCHANGED idle_left
  \/ busy_left = 0 /\ idle_left > 0 /\ idle_left' = idle_left - 1 /\ UNCHANGED busy_left

WriteWord ==
  /\ Push(FALSE, busy_left > 0)
  /\ NextWord
  /\ Paced /\ KeepController

(* The FIFO does not hold the writer back: a word written to a full FIFO is  *)
(* lost.  In normal operation the controller is faster than the writer (16   *)
(* words take it some 45 edges of clk_axi, the writer 190), so the model has *)
(* the FIFO overflow only while the controller is busy clearing memory.      *)
LoseWord ==
  /\ clear_mode /\ Len(fifo) = FIFO_DEPTH
  /\ NextWord
  /\ UNCHANGED fifo
  /\ Paced /\ KeepController

-----------------------------------------------------------------------------

(* After the power-up reset.                                                 *)
Init ==
  /\ s2mm_data_state = "IDLE" /\ delay_counter = 0 /\ words_sent_cnt = 0
  /\ fifo = <<>> /\ fifo_rd_en = FALSE /\ fifo_out = IdleWord
  /\ fifo_out_valid = FALSE /\ fifo_out_valid_r = FALSE
  /\ clear_valid = FALSE /\ s2mm_tlast = FALSE
  /\ s2mm_allow_addr_req = FALSE /\ mover = "free"
  /\ clear_ps_mem_r = FALSE /\ clear_pulse = FALSE /\ clear_mode = FALSE
  /\ saddr = BOT_HALF_ADDRESS /\ ram_in_a_buff = TRUE
  /\ mem_bytes_written = 0 /\ guardrail_err = FALSE
  /\ toggle_buffer = FALSE
  /\ buff_switch_request = FALSE /\ buff_switch_response = FALSE
  /\ current_buffer_reg = TRUE /\ buff_switched_pulse = FALSE
  /\ ram_buff_a_occupancy = BOT_HALF_ADDRESS
  /\ ram_buff_b_occupancy = TOP_HALF_ADDRESS
  /\ busy_left = 0 /\ idle_left = 0 /\ pause = 0
  /\ cmd_addr = BOT_HALF_ADDRESS /\ next_addr = BOT_HALF_ADDRESS
  /\ beats = 0 /\ unsent = 0 /\ packet_buff = "A" /\ toggled = FALSE

Edge ==
  \/ \E toggle \in TOGGLES, clear \in CLEARS :
       \/ \E cmd_tready \in READIES : Idle(cmd_tready, toggle, clear)
       \/ AssertCmd(toggle, clear)
       \/ \E post \in BOOLEAN : Delay0(post, toggle, clear)
       \/ ReadFifo(toggle, clear)
       \/ ClearMem(toggle, clear)
       \/ ContinueClear(toggle, clear)
       \/ Done(toggle, clear)
  \/ TRUE \in RESETS /\ Reset

Next == Edge \/ WritePacket \/ WriteWord \/ LoseWord

(* A command that waits in IDLE is taken.                                    *)
Taken == \E toggle \in TOGGLES, clear \in CLEARS : Idle(TRUE, toggle, clear)

(* clk_axi is free running, the datamover does not refuse commands for ever, *)
(* and the DAQ finishes every packet it starts (its payload state times      *)
(* out).  Nothing makes a new packet come.                                   *)
Fairness == WF_vars(Edge) /\ WF_vars(Taken) /\ WF_vars(WriteWord \/ LoseWord)

Spec == Init /\ [][Next]_vars /\ Fairness

-----------------------------------------------------------------------------
(* Properties.                                                               *)

Words == [first : BOOLEAN, busy : BOOLEAN]

(* Every register stays within its declared range; for mem_bytes_written     *)
(* that means it is never computed from the address of one buffer and the    *)
(* base of the other.                                                        *)
TypeOK ==
  /\ s2mm_data_state \in {"IDLE", "ASSERT_CMD", "DELAY0", "READ_FIFO", "DONE",
                          "CLEAR_MEM", "CONTINUE_CLEAR"}
  /\ delay_counter \in 0..DELAY_MAX /\ words_sent_cnt \in 0..WORDS_TO_SEND
  /\ fifo \in Seq(Words) /\ fifo_out \in Words
  /\ fifo_rd_en \in BOOLEAN /\ fifo_out_valid \in BOOLEAN
  /\ fifo_out_valid_r \in BOOLEAN /\ clear_valid \in BOOLEAN /\ s2mm_tlast \in BOOLEAN
  /\ s2mm_allow_addr_req \in BOOLEAN /\ mover \in {"free", "command", "data"}
  /\ clear_ps_mem_r \in BOOLEAN /\ clear_pulse \in BOOLEAN /\ clear_mode \in BOOLEAN
  /\ saddr \in Nat /\ ram_in_a_buff \in BOOLEAN
  /\ mem_bytes_written \in 0..(RAM_BUFF_SIZE - 1) /\ guardrail_err \in BOOLEAN
  /\ toggle_buffer \in BOOLEAN
  /\ buff_switch_request \in BOOLEAN /\ buff_switch_response \in BOOLEAN
  /\ current_buffer_reg \in BOOLEAN /\ buff_switched_pulse \in BOOLEAN
  /\ ram_buff_a_occupancy \in Nat \cup {AllOnes}
  /\ ram_buff_b_occupancy \in Nat \cup {AllOnes}
  /\ busy_left \in Nat /\ idle_left \in Nat /\ pause \in 0..WORD_EDGES
  /\ cmd_addr \in Nat /\ next_addr \in Nat
  /\ beats \in 0..(WORDS_TO_SEND + 1) /\ unsent \in -1..WORDS_TO_SEND
  /\ packet_buff \in {"A", "B"} /\ toggled \in BOOLEAN

(* Every burst streamed to the datamover has exactly the WORDS_TO_SEND words *)
(* its command announced, tlast on the last of them, and no word popped from *)
(* the FIFO is dropped on the way: fifo_rd_en falls early enough for the     *)
(* latency of the FIFO and not a clock too early.                            *)
WholeBursts ==
  /\ s2mm_tvalid => (s2mm_tlast <=> beats = WORDS_TO_SEND - 1)
  /\ s2mm_data_state = "IDLE" => beats = 0 /\ unsent = 0

InBuffer(addr, base) == base <= addr /\ addr + BTT <= base + RAM_BUFF_SIZE

(* A burst is never written past the end of a buffer: between the threshold  *)
(* and the end there is room for the rest of the packet in flight, and every *)
(* packet leaves an idle burst in which the jump happens.                    *)
AddressInBuffers ==
  s2mm_data_state \in {"DELAY0", "READ_FIFO", "CLEAR_MEM"} =>
    InBuffer(cmd_addr, BOT_HALF_ADDRESS) \/ InBuffer(cmd_addr, TOP_HALF_ADDRESS)

(* The bursts fill a buffer without holes and without overwriting: a command *)
(* starts where the last posted burst ended, or at the base of the other     *)
(* buffer.  Only when software has asked for a toggle that was not over at   *)
(* the last command may it be another address of either buffer: the jump may *)
(* come between the command and the posting of its address.                  *)
ContiguousBursts ==
  s2mm_data_state = "ASSERT_CMD" =>
    \/ saddr = next_addr
    \/ saddr = TOP_HALF_ADDRESS /\ Buffer(cmd_addr) = "A"
    \/ saddr = BOT_HALF_ADDRESS /\ Buffer(cmd_addr) = "B"
    \/ toggled

(* The occupancy registers say where the data ends: the one of the buffer    *)
(* being filled as soon as a burst is posted, the one of a buffer that was   *)
(* entered before its first burst is (unless its reset is under way at this  *)
(* very edge), and the one of the buffer that was left until the end of the  *)
(* next command: what the software copies out is what was written.  Again    *)
(* not for a toggle under way: the burst is then counted with the address it *)
(* moved saddr to.                                                           *)
OccupancyExact ==
  LET occ(buff) == IF buff = "A" THEN ram_buff_a_occupancy ELSE ram_buff_b_occupancy
  IN ~toggled =>
       /\ mover = "data" => occ(Buffer(cmd_addr)) = next_addr
       /\ s2mm_data_state = "ASSERT_CMD" =>
            /\ occ(Buffer(saddr)) = saddr \/ buff_switched_pulse
            /\ saddr # next_addr => occ(Buffer(cmd_addr)) = next_addr

(* A burst's worth of words in the FIFO is eventually transferred, although  *)
(* IDLE starts a transfer only when it sees a whole number of bursts: behind *)
(* a packet that ends inside a burst there is one only in the middle of a    *)
(* packet, for the time of a word.  The controller is there in time, because *)
(* it moves a burst faster than the writer makes one; if the datamover       *)
(* refuses a command just then (READIES = BOOLEAN) it is not true.           *)
Drains == (Len(fifo) >= WORDS_TO_SEND) ~> (s2mm_data_state = "READ_FIFO")

(* A toggle request that was saved is attended to.                           *)
ToggleHonoured == toggle_buffer ~> ~toggle_buffer

(* What the comment on MAX_PACKET_SIZE promises: a packet is not split       *)
(* across the two buffers.  The busy bit is that of the last word read, so   *)
(* it is still low while the first burst of a packet is being posted; if     *)
(* that burst trips the threshold the next one goes to the other buffer.     *)
PacketNotSplit ==
  fifo_out_valid /\ fifo_out.busy => packet_buff = Buffer(cmd_addr)

(* What the comment on the clear states promises: the memory is cleared and  *)
(* clear mode, "flag while memory is being cleared", ends.                   *)
ClearEnds == clear_mode ~> ~clear_mode

=============================================================================
