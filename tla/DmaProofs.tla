----------------------------- MODULE DmaProofs -----------------------------
(***************************************************************************)
(* Theorems about the DMA controller: the handshake between the packet     *)
(* FIFO and the stream to the datamover (BurstInv), where the bursts go    *)
(* (AddressInv, PathInv) and what the occupancy registers say of them      *)
(* (OccupancyInv).  All without memory clears, with toggles at any time    *)
(* and, but for the occupancy, with resets that find the controller idle.  *)
(*                                                                         *)
(* BurstInv counts the words of a burst on their way from the FIFO to the  *)
(* stream.  AddressInv adds the jump of the address (SwitchInv), the       *)
(* packets in the FIFO (PacketInv) and the argument for the reserve of     *)
(* MAX_PACKET_SIZE bytes (RoomInv): beyond the threshold there is room for *)
(* the rest of the packet, or the jump is asked for, or will be at the     *)
(* next edge and will be over when the burst is.  PathInv has at most one  *)
(* jump between two commands, and OccupancyInv the registers that follow   *)
(* the jump two edges behind.                                              *)
(***************************************************************************)
EXTENDS Dma, SequenceTheorems, TLAPS

(* No memory is cleared: it may leave words_sent_cnt, or the word last       *)
(* popped, in the middle of a burst.                                         *)
NoClears == CLEARS = {FALSE}

(* The same is true of a reset, unless it finds the controller idle: that is *)
(* what soft_reset.vhd waits for in WAIT_DMA before it asks for one.         *)
QuietReset   == TRUE \in RESETS /\ Reset => s2mm_data_state = "IDLE"
ResetsAtRest == [][QuietReset]_vars

(* Neither a memory clear nor a reset: a reset leaves an occupancy register  *)
(* at the end of data that is no longer there.                               *)
Undisturbed == NoClears /\ RESETS = {FALSE}

NoClear == /\ clear_ps_mem_r = FALSE /\ clear_pulse = FALSE
           /\ clear_mode = FALSE /\ clear_valid = FALSE

(* The registers on the way from the FIFO to the stream, and the history     *)
(* that counts with them: words streamed, and words popped but not streamed. *)
At(count, read, valid, valid_r, last, streamed, ahead) ==
  /\ words_sent_cnt = count /\ fifo_rd_en = read
  /\ fifo_out_valid = valid /\ fifo_out_valid_r = valid_r /\ s2mm_tlast = last
  /\ beats = streamed /\ unsent = ahead

Resting  == At(0, FALSE, FALSE, FALSE, FALSE, 0, 0)
Starting == At(0, TRUE, FALSE, FALSE, FALSE, 0, 0)

(* How far the burst is: the FIFO is read two words ahead of the stream, so  *)
(* the read enable falls two words before the count is full.                 *)
First   == At(0, TRUE, TRUE, FALSE, FALSE, 0, 1)
Running == /\ words_sent_cnt \in 1..(WORDS_TO_SEND - 2)
           /\ At(words_sent_cnt, TRUE, TRUE, TRUE, FALSE, words_sent_cnt - 1, 2)
Last    == At(WORDS_TO_SEND - 1, FALSE, TRUE, TRUE, FALSE, WORDS_TO_SEND - 2, 2)
Closing == At(WORDS_TO_SEND, FALSE, FALSE, TRUE, TRUE, WORDS_TO_SEND - 1, 1)

(* The words of a burst are in the FIFO before the command is given, and are *)
(* streamed one after the other, none missing and none too many.             *)
BurstInv ==
  /\ NoClear
  /\ fifo \in Seq(Words)
  /\ \/ /\ s2mm_data_state \in {"IDLE", "DONE"}
        /\ mover = "free" /\ Resting
     \/ /\ s2mm_data_state = "ASSERT_CMD"
        /\ mover = "free" /\ Resting /\ Len(fifo) >= WORDS_TO_SEND
     \/ /\ s2mm_data_state = "DELAY0"
        /\ mover \in {"command", "data"} /\ Resting /\ Len(fifo) >= WORDS_TO_SEND
     \/ /\ s2mm_data_state = "READ_FIFO" /\ mover = "data"
        /\ \/ (Resting \/ Starting) /\ Len(fifo) >= WORDS_TO_SEND
           \/ First /\ Len(fifo) >= WORDS_TO_SEND - 1
           \/ Running /\ Len(fifo) >= WORDS_TO_SEND - 1 - words_sent_cnt
           \/ Last
           \/ Closing

-----------------------------------------------------------------------------
(* A FIFO that is read when it holds n words holds n - 1 afterwards.         *)
LEMMA PopLength ==
  ASSUME fifo \in Seq(Words), FifoRead
  PROVE  /\ fifo' \in Seq(Words)
         /\ Pop  => fifo_out_valid' = TRUE  /\ Len(fifo') = Len(fifo) - 1
         /\ ~Pop => fifo_out_valid' = FALSE /\ fifo' = fifo
<1>1. CASE Pop
  <2>1. fifo # <<>> /\ fifo' = Tail(fifo) /\ fifo_out_valid' = TRUE
    BY <1>1 DEF FifoRead, Pop
  <2>2. Tail(fifo) \in Seq(Words) /\ Len(Tail(fifo)) = Len(fifo) - 1
    BY <2>1, HeadTailProperties
  <2> QED BY <1>1, <2>1, <2>2
<1>2. CASE ~Pop
  BY <1>2 DEF FifoRead
<1> QED BY <1>1, <1>2

(* A FIFO with a word in it is read when the read enable is up.              *)
LEMMA PopWhen ==
  ASSUME fifo \in Seq(Words), fifo_rd_en = TRUE, Len(fifo) >= 1
  PROVE  Pop
  BY EmptySeq DEF Pop

(* Whole bursts in a FIFO that is not empty are at least one.                *)
LEMMA BurstThere ==
  ASSUME fifo \in Seq(Words), BurstInFifo
  PROVE  Len(fifo) >= WORDS_TO_SEND
<1>1. Len(fifo) \in Nat /\ Len(fifo) # 0
  BY EmptySeq, LenProperties DEF BurstInFifo
<1>2. WORDS_TO_SEND \in Nat /\ WORDS_TO_SEND > 2
  BY DmaAssumption
<1>3. Len(fifo) < WORDS_TO_SEND => Len(fifo) % WORDS_TO_SEND = Len(fifo)
  BY <1>1, <1>2
<1> QED BY <1>1, <1>2, <1>3 DEF BurstInFifo

-----------------------------------------------------------------------------
(* Nothing is posted and nothing streamed: the counts stay.                  *)
LEMMA CountsRest ==
  ASSUME BurstInv, NEW post \in BOOLEAN, Mover(post), Resting, ~Pop
  PROVE  beats' = 0 /\ unsent' = 0
  BY DmaAssumption DEF BurstInv, NoClear, Mover, Resting, At, s2mm_tvalid

(* What the other processes leave of a burst, when they run undisturbed.     *)
LEMMA BesideUndisturbed ==
  ASSUME BurstInv, NEW post, NEW toggle, Beside(post, toggle, FALSE)
  PROVE  clear_ps_mem_r' = FALSE /\ clear_pulse' = FALSE
  BY DEF BurstInv, NoClear, Beside, ClearPulse

(* IDLE goes on with at least a burst in the FIFO, and with nothing else.    *)
LEMMA IdleStep ==
  ASSUME BurstInv, NEW cmd_tready, NEW toggle, Idle(cmd_tready, toggle, FALSE)
  PROVE  BurstInv'
<1>1. Resting /\ ~Pop /\ mover = "free" /\ NoClear /\ fifo \in Seq(Words)
  BY DEF BurstInv, Idle, Resting, At, Pop
<1>2. fifo' = fifo /\ fifo_out_valid' = FALSE
  BY <1>1, PopLength DEF Idle, NoPost, Beside
<1>3. NoClear'
  BY <1>1, BesideUndisturbed DEF Idle, NoPost, NoClear, KeepStream, streamVars
<1>4. beats' = 0 /\ unsent' = 0 /\ mover' = "free"
  BY <1>1, CountsRest DEF Idle, NoPost, Mover
<1>5. Resting'
  BY <1>1, <1>2, <1>4 DEF Idle, Resting, At, KeepStream, streamVars, NoClear
<1>6. s2mm_data_state' = "IDLE" \/ (s2mm_data_state' = "ASSERT_CMD" /\ BurstInFifo)
  BY <1>1 DEF Idle, NoClear
<1>7. BurstInFifo => Len(fifo') >= WORDS_TO_SEND
  BY <1>1, <1>2, BurstThere
<1> QED BY <1>1, <1>2, <1>3, <1>4, <1>5, <1>6, <1>7 DEF BurstInv

(* The command is taken; no word moves.                                      *)
LEMMA AssertCmdStep ==
  ASSUME BurstInv, NEW toggle, AssertCmd(toggle, FALSE)
  PROVE  BurstInv'
<1>1. Resting /\ ~Pop /\ NoClear /\ fifo \in Seq(Words) /\ Len(fifo) >= WORDS_TO_SEND
  BY DEF BurstInv, AssertCmd, Resting, At, Pop
<1>2. fifo' = fifo /\ fifo_out_valid' = FALSE
  BY <1>1, PopLength DEF AssertCmd, Beside
<1>3. NoClear'
  BY <1>1, BesideUndisturbed DEF AssertCmd, NoClear, KeepStream, streamVars
<1>4. Resting'
  BY <1>1, <1>2 DEF AssertCmd, Resting, At, KeepStream, streamVars
<1>5. s2mm_data_state' = "DELAY0" /\ mover' = "command"
  BY DEF AssertCmd
<1> QED BY <1>1, <1>2, <1>3, <1>4, <1>5 DEF BurstInv

(* The stream waits until the address has been posted.                       *)
LEMMA Delay0Step ==
  ASSUME BurstInv, NEW post \in BOOLEAN, NEW toggle, Delay0(post, toggle, FALSE)
  PROVE  BurstInv'
<1>1. /\ Resting /\ ~Pop /\ NoClear /\ fifo \in Seq(Words) /\ Len(fifo) >= WORDS_TO_SEND
      /\ mover \in {"command", "data"}
  BY DEF BurstInv, Delay0, Resting, At, Pop
<1>2. fifo' = fifo /\ fifo_out_valid' = FALSE
  BY <1>1, PopLength DEF Delay0, Beside
<1>3. NoClear'
  BY <1>1, BesideUndisturbed DEF Delay0, NoClear, KeepStream, streamVars
<1>4. beats' = 0 /\ unsent' = 0
  BY <1>1, CountsRest DEF Delay0
<1>5. Resting'
  BY <1>1, <1>2, <1>4 DEF Delay0, Resting, At, KeepStream, streamVars
<1>6. mover' = IF post THEN "data" ELSE mover
  BY <1>1 DEF Delay0, Mover, Resting, At
<1>7. s2mm_data_state' = "DELAY0" \/ (s2mm_data_state' = "READ_FIFO" /\ mover' = "data")
  BY <1>1, <1>6 DEF Delay0, NoClear
<1> QED BY <1>1, <1>2, <1>3, <1>5, <1>6, <1>7 DEF BurstInv

(* DONE finds everything back at rest.                                       *)
LEMMA DoneStep ==
  ASSUME BurstInv, NEW toggle, Done(toggle, FALSE)
  PROVE  BurstInv'
<1>1. Resting /\ ~Pop /\ mover = "free" /\ NoClear /\ fifo \in Seq(Words)
  BY DEF BurstInv, Done, Resting, At, Pop
<1>2. fifo' = fifo /\ fifo_out_valid' = FALSE
  BY <1>1, PopLength DEF Done, NoPost, Beside
<1>3. NoClear'
  BY <1>1, BesideUndisturbed DEF Done, NoPost, NoClear
<1>4. beats' = 0 /\ unsent' = 0 /\ mover' = "free"
  BY <1>1, CountsRest DEF Done, NoPost, Mover
<1>5. Resting'
  BY <1>1, <1>2, <1>4 DEF Done, Resting, At
<1> QED BY <1>1, <1>2, <1>3, <1>4, <1>5 DEF BurstInv, Done

(* One edge of READ_FIFO.  Each stage of the burst leads to the next one:    *)
(* what the FIFO delivers at this edge is counted at the next one and        *)
(* streamed at the one after that.                                           *)
LEMMA ReadFifoStep ==
  ASSUME BurstInv, NEW toggle, ReadFifo(toggle, FALSE)
  PROVE  BurstInv'
<1>0. WORDS_TO_SEND \in Nat /\ WORDS_TO_SEND > 2 /\ FIFO_LATENCY = 1
  BY DmaAssumption
<1>1. NoClear /\ fifo \in Seq(Words) /\ mover = "data" /\ Len(fifo) \in Nat
  BY LenProperties DEF BurstInv, ReadFifo
<1>2. NoClear'
  BY <1>1, BesideUndisturbed DEF ReadFifo, NoPost, NoClear
<1>3. /\ fifo' \in Seq(Words)
      /\ Pop  => fifo_out_valid' = TRUE  /\ Len(fifo') = Len(fifo) - 1
      /\ ~Pop => fifo_out_valid' = FALSE /\ fifo' = fifo
  BY <1>1, PopLength DEF ReadFifo, NoPost, Beside
<1>4. Pop <=> fifo_rd_en = TRUE /\ Len(fifo) >= 1
  BY <1>1, PopWhen, EmptySeq DEF Pop
<1>a. /\ unsent \in Nat /\ beats \in Nat /\ beats <= WORDS_TO_SEND
      /\ words_sent_cnt \in Nat /\ words_sent_cnt <= WORDS_TO_SEND
  BY <1>0 DEF BurstInv, ReadFifo, Resting, Starting, First, Running, Last, Closing, At
(* What the datamover takes at this edge is the word in fifo_out_valid_r.     *)
<1>b. Mover(FALSE) /\ (s2mm_tvalid <=> fifo_out_valid_r)
  BY <1>1 DEF ReadFifo, NoPost, s2mm_tvalid, NoClear
<1>5. /\ mover' = IF fifo_out_valid_r /\ s2mm_tlast THEN "free" ELSE "data"
      /\ fifo_out_valid_r = FALSE => beats' = beats
      /\ fifo_out_valid_r = TRUE => beats' = IF s2mm_tlast THEN 0 ELSE beats + 1
      /\ unsent' = unsent + (IF Pop THEN 1 ELSE 0) - (IF fifo_out_valid_r THEN 1 ELSE 0)
  <2>1. mover' = IF fifo_out_valid_r /\ s2mm_tlast THEN "free" ELSE "data"
    BY <1>1, <1>b DEF Mover
  <2>2. beats' = IF ~fifo_out_valid_r THEN beats ELSE IF s2mm_tlast THEN 0 ELSE beats + 1
    BY <1>0, <1>1, <1>a, <1>b DEF Mover
  <2>3. unsent' = unsent + (IF Pop THEN 1 ELSE 0) - (IF fifo_out_valid_r THEN 1 ELSE 0)
    BY <1>1, <1>a, <1>b DEF Mover
  <2> QED BY <2>1, <2>2, <2>3
(* How far the count is decides what an edge does.                            *)
<1>6. /\ words_sent_cnt >= WORDS_TO_SEND => words_sent_cnt >= WORDS_TO_SEND - 1
      /\ EnoughRead <=> words_sent_cnt >= WORDS_TO_SEND - 2
      /\ words_sent_cnt >= WORDS_TO_SEND - 1 => EnoughRead
  BY <1>0, <1>a DEF EnoughRead
<1>7. CASE (Resting \/ Starting) /\ Len(fifo) >= WORDS_TO_SEND
  <2>0. words_sent_cnt = 0 /\ ~EnoughRead
    BY <1>0, <1>6, <1>7 DEF Resting, Starting, At
  <2>1. words_sent_cnt' = 0 /\ fifo_rd_en' = TRUE /\ fifo_out_valid_r' = FALSE /\ s2mm_tlast' = FALSE
        /\ s2mm_data_state' = "READ_FIFO"
    BY <1>6, <1>7, <2>0, Zenon DEF ReadFifo, Resting, Starting, At
  <2>2. beats' = 0 /\ mover' = "data" /\ unsent' = IF Pop THEN 1 ELSE 0
    BY <1>5, <1>7 DEF Resting, Starting, At
  <2>3. IF Pop THEN First' /\ Len(fifo') >= WORDS_TO_SEND - 1
        ELSE Starting' /\ Len(fifo') >= WORDS_TO_SEND
    BY <1>0, <1>1, <1>3, <1>7, <2>1, <2>2 DEF First, Starting, At
  <2> QED BY <1>2, <1>3, <2>1, <2>2, <2>3 DEF BurstInv
<1>8. CASE First /\ Len(fifo) >= WORDS_TO_SEND - 1
  <2>1. Pop
    BY <1>0, <1>1, <1>4, <1>8 DEF First, At
  <2>2. /\ words_sent_cnt' = 1 /\ fifo_rd_en' = TRUE /\ fifo_out_valid_r' = TRUE /\ s2mm_tlast' = FALSE
        /\ s2mm_data_state' = "READ_FIFO"
    <3>1. ~EnoughRead /\ words_sent_cnt + 1 = 1
      BY <1>0, <1>6, <1>8 DEF First, At
    <3> QED BY <1>6, <1>8, <3>1, Zenon DEF ReadFifo, First, At
  <2>3. beats' = 0 /\ mover' = "data" /\ unsent' = 2
    BY <1>5, <1>8, <2>1 DEF First, At
  <2>4. Running' /\ Len(fifo') >= WORDS_TO_SEND - 1 - words_sent_cnt'
    BY <1>0, <1>1, <1>3, <1>8, <2>1, <2>2, <2>3 DEF Running, At
  <2> QED BY <1>2, <1>3, <2>2, <2>3, <2>4 DEF BurstInv
<1>9. CASE Running /\ Len(fifo) >= WORDS_TO_SEND - 1 - words_sent_cnt
  <2>0. words_sent_cnt >= 1 /\ words_sent_cnt <= WORDS_TO_SEND - 2
    BY <1>0, <1>9 DEF Running
  <2>1. Pop
    BY <1>0, <1>1, <1>4, <1>9, <2>0 DEF Running, At
  <2>2. /\ words_sent_cnt' = words_sent_cnt + 1
        /\ EnoughRead => fifo_rd_en' = FALSE
        /\ ~EnoughRead => fifo_rd_en' = TRUE
        /\ fifo_out_valid_r' = TRUE /\ s2mm_tlast' = FALSE /\ s2mm_data_state' = "READ_FIFO"
    <3>1. ~(words_sent_cnt >= WORDS_TO_SEND - 1)
      BY <1>0, <1>a, <2>0
    <3> QED BY <1>6, <1>9, <3>1, Zenon DEF ReadFifo, Running, At
  <2>3. beats' = words_sent_cnt /\ mover' = "data" /\ unsent' = 2
    BY <1>0, <1>5, <1>9, <2>0, <2>1 DEF Running, At
  <2>4. CASE ~EnoughRead
    <3>1. words_sent_cnt < WORDS_TO_SEND - 2 /\ fifo_rd_en' = TRUE
      BY <1>0, <1>6, <1>a, <2>0, <2>2, <2>4
    <3>2. Running' /\ Len(fifo') >= WORDS_TO_SEND - 1 - words_sent_cnt'
      BY <1>0, <1>1, <1>3, <1>9, <2>0, <2>1, <2>2, <2>3, <3>1 DEF Running, At
    <3> QED BY <1>2, <1>3, <2>2, <2>3, <3>2 DEF BurstInv
  <2>5. CASE EnoughRead
    <3>1. words_sent_cnt = WORDS_TO_SEND - 2 /\ fifo_rd_en' = FALSE
      BY <1>0, <1>6, <1>a, <2>0, <2>2, <2>5
    <3>2. Last'
      BY <1>0, <1>3, <2>1, <2>2, <2>3, <3>1 DEF Last, At
    <3> QED BY <1>2, <1>3, <2>2, <2>3, <3>2 DEF BurstInv
  <2> QED BY <2>4, <2>5
<1>10. CASE Last
  <2>1. ~Pop
    BY <1>10 DEF Last, At, Pop
  <2>0. /\ words_sent_cnt = WORDS_TO_SEND - 1 /\ words_sent_cnt + 1 = WORDS_TO_SEND
        /\ words_sent_cnt >= WORDS_TO_SEND - 1 /\ ~(words_sent_cnt >= WORDS_TO_SEND)
    BY <1>0, <1>10 DEF Last, At
  <2>2. /\ words_sent_cnt' = WORDS_TO_SEND /\ fifo_rd_en' = FALSE
        /\ fifo_out_valid_r' = TRUE /\ s2mm_tlast' = TRUE /\ s2mm_data_state' = "READ_FIFO"
    BY <1>6, <1>10, <2>0, Zenon DEF ReadFifo, Last, At
  <2>3. beats' = WORDS_TO_SEND - 1 /\ mover' = "data" /\ unsent' = 1
    BY <1>0, <1>5, <1>10, <2>1 DEF Last, At
  <2>4. Closing'
    BY <1>3, <2>1, <2>2, <2>3 DEF Closing, At
  <2> QED BY <1>2, <1>3, <2>2, <2>3, <2>4 DEF BurstInv
<1>11. CASE Closing
  <2>1. ~Pop
    BY <1>11 DEF Closing, At, Pop
  <2>0. words_sent_cnt >= WORDS_TO_SEND
    BY <1>0, <1>11 DEF Closing, At
  <2>2. /\ words_sent_cnt' = 0 /\ fifo_rd_en' = FALSE /\ fifo_out_valid_r' = FALSE
        /\ s2mm_tlast' = FALSE /\ s2mm_data_state' = "DONE"
    BY <2>0, Zenon DEF ReadFifo
  <2>3. beats' = 0 /\ mover' = "free" /\ unsent' = 0
    BY <1>0, <1>5, <1>11, <2>1 DEF Closing, At
  <2>4. Resting'
    BY <1>3, <2>1, <2>2, <2>3 DEF Resting, At
  <2> QED BY <1>2, <1>3, <2>2, <2>3, <2>4 DEF BurstInv
<1> QED BY <1>7, <1>8, <1>9, <1>10, <1>11 DEF BurstInv, ReadFifo

(* The writer only makes the FIFO longer.                                    *)
LEMMA WriterStep ==
  ASSUME BurstInv, WritePacket \/ WriteWord \/ LoseWord
  PROVE  BurstInv'
<1>1. fifo \in Seq(Words) /\ Len(fifo) \in Nat
  BY LenProperties DEF BurstInv
<1>2. KeepController
  BY DEF WritePacket, WriteWord, LoseWord
<1>3. fifo' \in Seq(Words) /\ Len(fifo') \in Nat /\ Len(fifo') >= Len(fifo)
  <2>1. CASE fifo' = fifo
    BY <1>1, <2>1
  <2>2. ASSUME NEW first \in BOOLEAN, NEW busy \in BOOLEAN, Push(first, busy)
        PROVE  fifo' \in Seq(Words) /\ Len(fifo') \in Nat /\ Len(fifo') >= Len(fifo)
    <3>1. [first |-> first, busy |-> busy] \in Words
      BY DEF Words
    <3> QED BY <1>1, <2>2, <3>1, AppendProperties DEF Push
  <2>3. CASE WritePacket
    BY <2>2, <2>3, TRUE \in BOOLEAN, Zenon DEF WritePacket
  <2>4. CASE WriteWord
    <3>1. (busy_left > 0) \in BOOLEAN /\ FALSE \in BOOLEAN
      OBVIOUS
    <3> QED BY <2>2, <2>4, <3>1, Zenon DEF WriteWord
  <2> QED BY <2>1, <2>3, <2>4 DEF LoseWord
<1>4. UNCHANGED <<s2mm_data_state, mover, words_sent_cnt, fifo_rd_en, fifo_out_valid,
                  fifo_out_valid_r, s2mm_tlast, beats, unsent,
                  clear_ps_mem_r, clear_pulse, clear_mode, clear_valid>>
  BY <1>2 DEF KeepController, fsmVars, streamVars, moverVars, clearVars, history
<1> QED BY <1>1, <1>3, <1>4, DmaAssumption
   DEF BurstInv, NoClear, Resting, Starting, First, Running, Last, Closing, At

-----------------------------------------------------------------------------
(* The burst invariant holds after power-up...                               *)
LEMMA BurstInit == Init => BurstInv
  BY EmptySeq DEF Init, BurstInv, NoClear, Resting, At

(* ...after a reset of an idle controller...                                 *)
LEMMA BurstReset ==
  ASSUME BurstInv, s2mm_data_state = "IDLE", Reset
  PROVE  BurstInv'
<1>1. fifo' \in Seq(Words)
  BY EmptySeq DEF Reset
<1> QED BY <1>1 DEF Reset, BurstInv, NoClear, Resting, At

(* Without resets none comes at the wrong time.                              *)
LEMMA NoResets ==
  ASSUME Undisturbed
  PROVE  NoClears /\ QuietReset
  BY DEF Undisturbed, QuietReset

(* ...and at every edge and every write that does not disturb.               *)
LEMMA BurstNext ==
  ASSUME NoClears, BurstInv, [Next]_vars, [QuietReset]_vars
  PROVE  BurstInv'
<1>1. CASE Edge /\ ~(TRUE \in RESETS /\ Reset)
  <2>1. PICK toggle \in TOGGLES :
          \/ \E cmd_tready \in READIES : Idle(cmd_tready, toggle, FALSE)
          \/ AssertCmd(toggle, FALSE)
          \/ \E post \in BOOLEAN : Delay0(post, toggle, FALSE)
          \/ ReadFifo(toggle, FALSE)
          \/ ClearMem(toggle, FALSE)
          \/ ContinueClear(toggle, FALSE)
          \/ Done(toggle, FALSE)
    BY <1>1 DEF Edge, NoClears
  <2>2. ~ClearMem(toggle, FALSE) /\ ~ContinueClear(toggle, FALSE)
    BY DEF BurstInv, ClearMem, ContinueClear
  <2> QED BY <2>1, <2>2, IdleStep, AssertCmdStep, Delay0Step, ReadFifoStep, DoneStep
<1>2. CASE WritePacket \/ WriteWord \/ LoseWord
  BY <1>2, WriterStep
<1>3. CASE UNCHANGED vars
  BY <1>3 DEF vars, fsmVars, fifoVars, streamVars, moverVars, clearVars, history,
              BurstInv, NoClear, Resting, Starting, First, Running, Last, Closing, At
<1>4. CASE TRUE \in RESETS /\ Reset
  BY <1>3, <1>4, BurstReset DEF QuietReset
<1> QED BY <1>1, <1>2, <1>3, <1>4 DEF Next

(* Without a memory clear, and with resets of an idle controller only, every *)
(* burst has exactly the words its command announced, tlast on the last of   *)
(* them, and none of those popped is dropped: for any burst size, any FIFO   *)
(* depth and delay, any packets and any toggles, however slowly or fast the  *)
(* FIFO is filled.                                                           *)
THEOREM WholeBurstsCorrect == NoClears => (Spec /\ ResetsAtRest => []WholeBursts)
<1> SUFFICES ASSUME NoClears PROVE Spec /\ ResetsAtRest => []WholeBursts
  OBVIOUS
<1>1. BurstInv /\ [Next]_vars /\ [QuietReset]_vars => BurstInv'
  BY BurstNext
<1>2. BurstInv => WholeBursts
  <2>1. WORDS_TO_SEND \in Nat /\ WORDS_TO_SEND > 2
    BY DmaAssumption
  <2>2. BurstInv /\ s2mm_tvalid => (s2mm_tlast <=> beats = WORDS_TO_SEND - 1)
    BY <2>1 DEF BurstInv, NoClear, s2mm_tvalid,
                Resting, Starting, First, Running, Last, Closing, At
  <2> QED BY <2>2 DEF WholeBursts, BurstInv, Resting, At
<1> QED BY <1>1, <1>2, BurstInit, PTL DEF Spec, ResetsAtRest
-----------------------------------------------------------------------------
(* Where the bursts go.                                                      *)

(* Bytes written to the buffer saddr is in, and how many there may be when   *)
(* the jump is not asked for.                                                *)
Used      == saddr - (IF saddr < TOP_HALF_ADDRESS THEN BOT_HALF_ADDRESS ELSE TOP_HALF_ADDRESS)
Threshold == RAM_BUFF_SIZE - MAX_PACKET_SIZE

(* The burst's address is not yet in saddr.                                  *)
Unposted == \/ s2mm_data_state \in {"IDLE", "ASSERT_CMD", "DONE"}
            \/ s2mm_data_state = "DELAY0" /\ mover = "command"

(* It may be so new that mem_bytes_written does not count it yet.            *)
JustPosted == /\ mover = "data"
              /\ s2mm_data_state = "DELAY0" \/ (s2mm_data_state = "READ_FIFO" /\ Resting)

(* The jump: ram_in_a_buff is wrong only between the first and the second of *)
(* its two edges, and the address of an old buffer is never subtracted from  *)
(* the base of the new one.                                                  *)
SwitchInv ==
  /\ guardrail_err = FALSE
  /\ saddr >= BOT_HALF_ADDRESS /\ Used + 4 <= RAM_BUFF_SIZE
  /\ buff_switch_request /\ buff_switch_response => (ram_in_a_buff <=> saddr >= TOP_HALF_ADDRESS)
  /\ ~(buff_switch_request /\ buff_switch_response) => (ram_in_a_buff <=> saddr < TOP_HALF_ADDRESS)
  /\ buff_switch_response => Used = 0
  /\ mem_bytes_written = Used \/ (JustPosted /\ mem_bytes_written + BTT = Used)

(* The k-th word to be read from now on has its busy bit low, or will have.  *)
IdleAt(k) == \/ k \in 1..Len(fifo) /\ ~fifo[k].busy
             \/ k = Len(fifo) + busy_left + 1 /\ idle_left > 0

(* After a word with the busy bit set such a word comes before the packet    *)
(* has more than its size.                                                   *)
PacketEnds(i) == \E k \in (i + 1)..(i + MAX_PACKET_SIZE) :
                   4 * (k - i) + BTT <= MAX_PACKET_SIZE /\ IdleAt(k)

PacketInv ==
  /\ busy_left > 0 => idle_left > 0
  /\ \E n \in PacketWords : busy_left < n
  /\ fifo_out.busy => PacketEnds(0)
  /\ \A i \in 1..Len(fifo) : fifo[i].busy => PacketEnds(i)

(* Where the word last read goes to, from the base of the buffer.            *)
Reach == Used + 4 * (beats + unsent) + (IF Unposted THEN BTT ELSE 0)

(* There is room for all words up to that one.                               *)
Room == \E k \in 1..RAM_BUFF_SIZE : IdleAt(k) /\ Reach + 4 * k <= RAM_BUFF_SIZE

(* Beyond the threshold the jump is asked for, or will be at the next edge,  *)
(* or there is room for the rest of the packet; and it has been made when    *)
(* the burst is over.                                                        *)
RoomInv ==
  Used > Threshold =>
    \/ fifo_out.busy /\ Room
    \/ ~Unposted /\ buff_switch_request
    \/ ~Unposted /\ ~fifo_out.busy /\ ~(s2mm_data_state = "READ_FIFO" /\ Closing)

AddressInv == BurstInv /\ TypeOK /\ SwitchInv /\ PacketInv /\ RoomInv /\ AddressInBuffers

(* A burst's address was posted in the buffer it was given, and since then   *)
(* there was no jump, or one.                                                *)
Followed ==
  /\ Buffer(next_addr) = Buffer(cmd_addr)
  /\ \/ saddr = next_addr /\ ~buff_switch_response
     \/ /\ buff_switch_request => buff_switch_response
        /\ saddr = IF Buffer(cmd_addr) = "A" THEN TOP_HALF_ADDRESS ELSE BOT_HALF_ADDRESS

(* Nothing has been posted since a reset.                                    *)
AfterReset == /\ TRUE \in RESETS /\ ~buff_switch_request
              /\ saddr = BOT_HALF_ADDRESS /\ next_addr = BOT_HALF_ADDRESS

(* While no toggle is under way the jump is over when the next command is    *)
(* issued.                                                                   *)
PathInv ==
  /\ toggle_buffer => toggled
  /\ ~toggled =>
       /\ s2mm_data_state = "DONE" => (buff_switch_request => buff_switch_response)
       /\ s2mm_data_state = "IDLE" => ~buff_switch_request
       /\ s2mm_data_state = "ASSERT_CMD" => ~Switching
       /\ IF s2mm_data_state = "DELAY0" /\ mover = "command"
          THEN ~Switching /\ saddr = cmd_addr
          ELSE Followed \/ AfterReset
-----------------------------------------------------------------------------
(* What the occupancy says.                                                  *)

(* The monitor sees a jump when it is over, and marks it an edge later.      *)
MonitorInv ==
  /\ (current_buffer_reg <=> ram_in_a_buff) <=> ~(buff_switch_response /\ ~buff_switch_request)
  /\ buff_switched_pulse => ~buff_switch_response

occ(buff) == IF buff = "A" THEN ram_buff_a_occupancy ELSE ram_buff_b_occupancy

(* The buffer of the last burst keeps its end; the one that was entered is   *)
(* empty once the mark has been seen.                                        *)
Counted ==
  IF saddr = next_addr
  THEN ~buff_switched_pulse /\ occ(Buffer(saddr)) = saddr
  ELSE /\ occ(Buffer(cmd_addr)) = next_addr
       /\ ~buff_switch_response => buff_switched_pulse \/ occ(Buffer(saddr)) = saddr

(* While no toggle is under way no mark comes while a command waits for its  *)
(* address to be posted.                                                     *)
OccInv ==
  ~toggled =>
    IF s2mm_data_state = "DELAY0" /\ mover = "command" THEN ~buff_switched_pulse
                                                       ELSE Counted

OccupancyInv == MonitorInv /\ OccInv

(* The numbers of the design.                                                *)
LEMMA Sizes ==
  /\ WORDS_TO_SEND \in Nat /\ WORDS_TO_SEND > 2 /\ BTT = 4 * WORDS_TO_SEND /\ BTT \in Nat
  /\ BOT_HALF_ADDRESS \in Nat /\ TOP_HALF_ADDRESS \in Nat /\ RAM_BUFF_SIZE \in Nat
  /\ MAX_PACKET_SIZE \in Nat /\ DELAY_MAX \in Nat
  /\ TOP_HALF_ADDRESS >= BOT_HALF_ADDRESS + RAM_BUFF_SIZE
  /\ RAM_BUFF_SIZE >= MAX_PACKET_SIZE /\ MAX_PACKET_SIZE >= BTT + 4
  /\ \A n \in PacketWords : n \in Nat /\ n >= 1 /\ 4 * n + BTT <= MAX_PACKET_SIZE
<1>1. /\ WORDS_TO_SEND \in Nat /\ WORDS_TO_SEND > 2 /\ BTT = 4 * WORDS_TO_SEND /\ BTT \in Nat
  BY DmaAssumption DEF DmaAssumption, BTT
<1>2. /\ BOT_HALF_ADDRESS \in Nat /\ TOP_HALF_ADDRESS \in Nat /\ RAM_BUFF_SIZE \in Nat
      /\ MAX_PACKET_SIZE \in Nat /\ DELAY_MAX \in Nat
      /\ TOP_HALF_ADDRESS >= BOT_HALF_ADDRESS + RAM_BUFF_SIZE
      /\ RAM_BUFF_SIZE >= MAX_PACKET_SIZE
  BY DmaAssumption DEF DmaAssumption
<1>3. /\ PacketWords # {}
      /\ \A n \in PacketWords : n \in Nat /\ n >= 1 /\ 4 * n + BTT <= MAX_PACKET_SIZE
  BY DmaAssumption DEF DmaAssumption
<1>4. PICK n \in PacketWords : TRUE
  BY <1>3
<1>5. MAX_PACKET_SIZE >= BTT + 4
  BY <1>1, <1>2, <1>3, <1>4
<1> QED BY <1>1, <1>2, <1>3, <1>5

(* The bytes used are a number below the size of a buffer.                   *)
LEMMA UsedNat ==
  ASSUME saddr \in Nat, saddr >= BOT_HALF_ADDRESS
  PROVE  Used \in Nat
  BY Sizes DEF Used

(* What an edge does to the address and the jump.                            *)
LEMMA SwitchEffect ==
  ASSUME BurstInv, TypeOK, SwitchInv, NEW post \in BOOLEAN, NEW toggle, Beside(post, toggle, FALSE)
  PROVE  /\ buff_switch_request' <=>
              \/ ~fifo_out.busy /\ JumpWanted /\ ~buff_switch_request
              \/ buff_switch_request /\ ~buff_switch_response
         /\ toggle_buffer' <=>
              /\ ~(~fifo_out.busy /\ JumpWanted /\ ~buff_switch_request)
              /\ toggle \/ toggle_buffer
         /\ buff_switch_response' <=> buff_switch_request
         /\ saddr' = IF buff_switch_request THEN OppositeHalf
                     ELSE IF post THEN saddr + BTT ELSE saddr
         /\ ram_in_a_buff' <=> saddr < TOP_HALF_ADDRESS
         /\ mem_bytes_written' = IF Switching THEN 0 ELSE saddr - base_addr
         /\ guardrail_err' = FALSE
         /\ current_buffer_reg' <=> ram_in_a_buff
         /\ buff_switched_pulse' <=> ram_in_a_buff # current_buffer_reg
<1>1. ~OutOfRange
  BY Sizes DEF OutOfRange, SwitchInv, Used, TypeOK
<1>2. clear_pulse = FALSE /\ clear_mode = FALSE
  BY DEF BurstInv, NoClear
<1>3. /\ buff_switch_request' <=>
              \/ ~fifo_out.busy /\ JumpWanted /\ ~buff_switch_request
              \/ buff_switch_request /\ ~buff_switch_response
      /\ toggle_buffer' <=>
              /\ ~(~fifo_out.busy /\ JumpWanted /\ ~buff_switch_request)
              /\ toggle \/ toggle_buffer
  BY <1>2, Zenon DEF Beside, SwitchRequest, ClearJumps, daq_busy_xfifo
<1>4. /\ buff_switch_response' <=> buff_switch_request
      /\ saddr' = IF buff_switch_request THEN OppositeHalf
                  ELSE IF post THEN saddr + BTT ELSE saddr
  BY <1>1, Zenon DEF Beside, AddressHandler
<1>5. /\ ram_in_a_buff' <=> saddr < TOP_HALF_ADDRESS
      /\ current_buffer_reg' <=> ram_in_a_buff
      /\ buff_switched_pulse' <=> ram_in_a_buff # current_buffer_reg
  BY Zenon DEF Beside, BufferMonitor
<1>6. mem_bytes_written' = IF Switching THEN 0 ELSE saddr - base_addr
  BY DEF Beside, AddressHandler
<1>7. guardrail_err' = FALSE
  BY <1>1, SwitchInv DEF SwitchInv, Beside, AddressHandler
<1> QED BY <1>3, <1>4, <1>5, <1>6, <1>7

(* A jump goes to the base of the other buffer, a posted burst further up in *)
(* the same one.                                                             *)
LEMMA UsedEffect ==
  ASSUME BurstInv, TypeOK, SwitchInv, NEW post \in BOOLEAN, NEW toggle, Beside(post, toggle, FALSE),
         post => Used + BTT + 4 <= RAM_BUFF_SIZE
  PROVE  /\ saddr' \in Nat /\ saddr' >= BOT_HALF_ADDRESS
         /\ buff_switch_request => Used' = 0
         /\ buff_switch_request /\ ~buff_switch_response =>
              saddr' = IF saddr < TOP_HALF_ADDRESS THEN TOP_HALF_ADDRESS ELSE BOT_HALF_ADDRESS
         /\ buff_switch_request /\ buff_switch_response => saddr' = saddr
         /\ ~buff_switch_request /\ ~post => Used' = Used /\ saddr' = saddr
         /\ ~buff_switch_request /\ post =>
              /\ Used' = Used + BTT /\ saddr' = saddr + BTT
              /\ saddr' < TOP_HALF_ADDRESS <=> saddr < TOP_HALF_ADDRESS
<1>1. saddr \in Nat /\ saddr >= BOT_HALF_ADDRESS
  BY DEF TypeOK, SwitchInv
<1>2. saddr' = IF buff_switch_request THEN OppositeHalf
               ELSE IF post THEN saddr + BTT ELSE saddr
  BY SwitchEffect
<1>3. CASE buff_switch_request
  <2>1. saddr' = IF ram_in_a_buff THEN TOP_HALF_ADDRESS ELSE BOT_HALF_ADDRESS
    BY <1>2, <1>3 DEF OppositeHalf
  <2>2. Used' = 0 /\ saddr' \in Nat /\ saddr' >= BOT_HALF_ADDRESS
    BY <2>1, Sizes DEF Used
  <2>3. buff_switch_response => saddr' = saddr
    BY <1>1, <1>3, <2>1, Sizes DEF SwitchInv, Used
  <2>4. ~buff_switch_response =>
          saddr' = IF saddr < TOP_HALF_ADDRESS THEN TOP_HALF_ADDRESS ELSE BOT_HALF_ADDRESS
    BY <1>3, <2>1 DEF SwitchInv
  <2> QED BY <1>3, <2>2, <2>3, <2>4
<1>4. CASE ~buff_switch_request /\ ~post
  BY <1>1, <1>2, <1>4 DEF Used
<1>5. CASE ~buff_switch_request /\ post
  <2>1. saddr' = saddr + BTT
    BY <1>2, <1>5
  <2> QED BY <1>1, <1>5, <2>1, Sizes DEF Used
<1> QED BY <1>3, <1>4, <1>5

(* An edge keeps what is known of the jump.                                  *)
LEMMA SwitchStep ==
  ASSUME BurstInv, TypeOK, SwitchInv, NEW post \in BOOLEAN, NEW toggle, Beside(post, toggle, FALSE),
         post => Used + BTT + 4 <= RAM_BUFF_SIZE, post => JustPosted'
  PROVE  SwitchInv'
<1>1. saddr \in Nat /\ saddr >= BOT_HALF_ADDRESS /\ Used \in Nat /\ Used + 4 <= RAM_BUFF_SIZE
  BY UsedNat DEF TypeOK, SwitchInv
<1>2. guardrail_err' = FALSE /\ saddr' >= BOT_HALF_ADDRESS
  BY SwitchEffect, UsedEffect
<1>3. Used' + 4 <= RAM_BUFF_SIZE
  <2>1. \/ Used' = 0
        \/ Used' = Used
        \/ post /\ Used' = Used + BTT
    BY UsedEffect
  <2> QED BY <1>1, <2>1, Sizes
<1>4. /\ buff_switch_request' /\ buff_switch_response' =>
           (ram_in_a_buff' <=> saddr' >= TOP_HALF_ADDRESS)
      /\ ~(buff_switch_request' /\ buff_switch_response') =>
           (ram_in_a_buff' <=> saddr' < TOP_HALF_ADDRESS)
  <2>1. /\ buff_switch_response' <=> buff_switch_request
        /\ ram_in_a_buff' <=> saddr < TOP_HALF_ADDRESS
        /\ buff_switch_request =>
             (buff_switch_request' <=> ~buff_switch_response)
    BY SwitchEffect
  <2>2. CASE ~buff_switch_request
    BY <2>1, <2>2, UsedEffect
  <2>3. CASE buff_switch_request /\ buff_switch_response
    BY <2>1, <2>3, UsedEffect
  <2>4. CASE buff_switch_request /\ ~buff_switch_response
    <3>1. saddr' = IF saddr < TOP_HALF_ADDRESS THEN TOP_HALF_ADDRESS ELSE BOT_HALF_ADDRESS
      BY <2>4, UsedEffect
    <3>2. BOT_HALF_ADDRESS < TOP_HALF_ADDRESS
      BY Sizes
    <3> QED BY <1>1, <2>1, <2>4, <3>1, <3>2, Sizes
  <2> QED BY <2>2, <2>3, <2>4
<1>5. buff_switch_response' => Used' = 0
  BY SwitchEffect, UsedEffect
<1>6. mem_bytes_written' = Used' \/ (JustPosted' /\ mem_bytes_written' + BTT = Used')
  <2>1. mem_bytes_written' = IF Switching THEN 0 ELSE saddr - base_addr
    BY SwitchEffect
  <2>2. CASE buff_switch_request
    BY <2>1, <2>2, UsedEffect DEF Switching
  <2>3. CASE ~buff_switch_request
    <3>1. mem_bytes_written' = Used
      <4>1. CASE buff_switch_response
        BY <2>1, <2>3, <4>1 DEF Switching, SwitchInv
      <4>2. CASE ~buff_switch_response
        BY <2>1, <2>3, <4>2 DEF Switching, SwitchInv, base_addr, Used
      <4> QED BY <4>1, <4>2
    <3> QED BY <2>3, <3>1, UsedEffect
  <2> QED BY <2>2, <2>3
<1> QED BY <1>2, <1>3, <1>4, <1>5, <1>6 DEF SwitchInv

-----------------------------------------------------------------------------
(* The packets in the FIFO.                                                  *)

(* Reading a word moves those behind it up by one.                           *)
LEMMA WordsMoveUp ==
  ASSUME fifo \in Seq(Words), Pop, FifoRead, UNCHANGED writerVars, busy_left \in Nat
  PROVE  /\ \A k \in Nat : k >= 1 /\ IdleAt(k + 1) => IdleAt(k)'
         /\ \A k \in 1..Len(fifo') : fifo'[k] = fifo[k + 1]
         /\ Len(fifo) \in Nat /\ Len(fifo) >= 1 /\ Len(fifo') = Len(fifo) - 1
         /\ fifo_out' = fifo[1]
<1>1. fifo # <<>> /\ fifo' = Tail(fifo) /\ fifo_out' = Head(fifo)
  BY DEF Pop, FifoRead
<1>2. Len(fifo) \in Nat /\ Len(fifo) >= 1
  BY <1>1, EmptySeq, LenProperties
<1>3. /\ Len(fifo') = Len(fifo) - 1 /\ fifo_out' = fifo[1]
      /\ \A k \in 1..Len(fifo') : fifo'[k] = fifo[k + 1]
  BY <1>1, HeadTailProperties
<1>4. busy_left' = busy_left /\ idle_left' = idle_left
  BY DEF writerVars
<1>5. ASSUME NEW k \in Nat, k >= 1, IdleAt(k + 1)
      PROVE  IdleAt(k)'
  BY <1>2, <1>3, <1>4, <1>5 DEF IdleAt
<1> QED BY <1>2, <1>3, <1>5

(* Writing a word leaves the others where they are, and brings the idle      *)
(* words that follow a packet nearer.                                        *)
LEMMA WordsStay ==
  ASSUME fifo \in Seq(Words), busy_left \in Nat, idle_left \in Nat,
         busy_left > 0 => idle_left > 0, WritePacket \/ WriteWord
  PROVE  /\ \A k \in Nat : IdleAt(k) => IdleAt(k)'
         /\ \A k \in 1..Len(fifo) : fifo'[k] = fifo[k]
         /\ Len(fifo) \in Nat /\ Len(fifo') = Len(fifo) + 1
         /\ fifo'[Len(fifo) + 1].busy <=> (WritePacket \/ busy_left > 0)
<1>1. ASSUME NEW first \in BOOLEAN, NEW busy \in BOOLEAN, Push(first, busy)
      PROVE  /\ \A k \in 1..Len(fifo) : fifo'[k] = fifo[k]
             /\ Len(fifo) \in Nat /\ Len(fifo') = Len(fifo) + 1
             /\ fifo'[Len(fifo) + 1].busy = busy
  <2>1. [first |-> first, busy |-> busy] \in Words
    BY DEF Words
  <2>2. fifo' = Append(fifo, [first |-> first, busy |-> busy])
    BY <1>1 DEF Push
  <2> QED BY <2>1, <2>2, AppendProperties, LenProperties
<1>2. CASE WritePacket
  <2>1. /\ Push(TRUE, TRUE) /\ busy_left = 0 /\ idle_left = 0
    BY <1>2 DEF WritePacket
  <2>2. /\ \A k \in 1..Len(fifo) : fifo'[k] = fifo[k]
        /\ Len(fifo) \in Nat /\ Len(fifo') = Len(fifo) + 1
        /\ fifo'[Len(fifo) + 1].busy = TRUE
    BY <1>1, <2>1
  <2>3. \A k \in Nat : IdleAt(k) => IdleAt(k)'
    BY <2>1, <2>2 DEF IdleAt
  <2> QED BY <1>2, <2>2, <2>3
<1>3. CASE WriteWord
  <2>1. Push(FALSE, busy_left > 0) /\ NextWord
    BY <1>3, Zenon DEF WriteWord
  <2>2. /\ \A k \in 1..Len(fifo) : fifo'[k] = fifo[k]
        /\ Len(fifo) \in Nat /\ Len(fifo') = Len(fifo) + 1
        /\ fifo'[Len(fifo) + 1].busy <=> busy_left > 0
    <3> DEFINE b == busy_left > 0
    <3>1. b \in BOOLEAN /\ FALSE \in BOOLEAN
      OBVIOUS
    <3>0. Push(FALSE, b)
      BY <2>1
    <3> HIDE DEF b
    <3>2. /\ \A k \in 1..Len(fifo) : fifo'[k] = fifo[k]
          /\ Len(fifo) \in Nat /\ Len(fifo') = Len(fifo) + 1
          /\ fifo'[Len(fifo) + 1].busy = b
      BY <1>1, <3>0, <3>1
    <3>3. b <=> busy_left > 0
      BY DEF b
    <3> QED BY <3>2, <3>3
  <2>3. \A k \in Nat : IdleAt(k) => IdleAt(k)'
    <3> SUFFICES ASSUME NEW k \in Nat, IdleAt(k) PROVE IdleAt(k)'
      OBVIOUS
    <3>1. CASE k \in 1..Len(fifo) /\ ~fifo[k].busy
      BY <2>2, <3>1 DEF IdleAt
    <3>2. CASE k = Len(fifo) + busy_left + 1 /\ idle_left > 0
      <4>1. CASE busy_left > 0
        <5>1. busy_left' = busy_left - 1 /\ idle_left' = idle_left
          BY <2>1, <4>1 DEF NextWord
        <5> QED BY <2>2, <3>2, <4>1, <5>1 DEF IdleAt
      <4>2. CASE busy_left = 0
        BY <2>2, <3>2, <4>2 DEF IdleAt
      <4> QED BY <4>1, <4>2
    <3> QED BY <3>1, <3>2 DEF IdleAt
  <2>4. ~WritePacket
    <3>1. busy_left > 0 \/ idle_left > 0
      BY <2>1 DEF NextWord
    <3>2. WritePacket => busy_left = 0 /\ idle_left = 0
      BY Zenon DEF WritePacket
    <3> QED BY <3>1, <3>2
  <2> QED BY <2>2, <2>3, <2>4
<1> QED BY <1>2, <1>3

(* An edge keeps the packets.                                                *)
LEMMA PacketEdge ==
  ASSUME fifo \in Seq(Words), TypeOK, PacketInv, FifoRead, UNCHANGED writerVars
  PROVE  PacketInv'
<1>1. busy_left' = busy_left /\ idle_left' = idle_left /\ busy_left \in Nat
  BY DEF writerVars, TypeOK
<1>2. CASE Pop
  <2> DEFINE M == MAX_PACKET_SIZE
  <2>1. ASSUME NEW i \in Nat, PacketEnds(i + 1) PROVE PacketEnds(i)'
    <3>1. PICK k \in (i + 2)..(i + 1 + M) : 4 * (k - (i + 1)) + BTT <= M /\ IdleAt(k)
      BY <2>1 DEF PacketEnds
    <3>2. k - 1 \in Nat /\ k - 1 >= 1 /\ k = (k - 1) + 1
      BY Sizes
    <3>3. IdleAt(k - 1)'
      BY <1>1, <1>2, <3>1, <3>2, WordsMoveUp
    <3>4. k - 1 \in (i + 1)..(i + M) /\ 4 * ((k - 1) - i) + BTT <= M
      BY <3>1, Sizes
    <3> QED BY <3>3, <3>4 DEF PacketEnds
  <2>2. fifo_out'.busy => PacketEnds(0)'
    <3>1. fifo_out'.busy => PacketEnds(0 + 1)
      BY <1>1, <1>2, WordsMoveUp DEF PacketInv
    <3> QED BY <2>1, <3>1
  <2>3. ASSUME NEW i \in 1..Len(fifo'), fifo'[i].busy PROVE PacketEnds(i)'
    <3>1. i + 1 \in 1..Len(fifo) /\ fifo[i + 1].busy
      BY <1>1, <1>2, <2>3, WordsMoveUp
    <3> QED BY <2>1, <3>1 DEF PacketInv
  <2> QED BY <1>1, <2>2, <2>3 DEF PacketInv
<1>3. CASE ~Pop
  BY <1>1, <1>3 DEF FifoRead, PacketInv, PacketEnds, IdleAt
<1> QED BY <1>2, <1>3

(* So does the writer, whose packets are no longer than they may be.         *)
LEMMA PacketWrite ==
  ASSUME fifo \in Seq(Words), TypeOK, PacketInv, WritePacket \/ WriteWord
  PROVE  PacketInv'
<1>1. busy_left \in Nat /\ idle_left \in Nat /\ (busy_left > 0 => idle_left > 0)
  BY DEF TypeOK, PacketInv
<1>2. /\ \A k \in Nat : IdleAt(k) => IdleAt(k)'
      /\ \A k \in 1..Len(fifo) : fifo'[k] = fifo[k]
      /\ Len(fifo) \in Nat /\ Len(fifo') = Len(fifo) + 1
      /\ fifo'[Len(fifo) + 1].busy <=> (WritePacket \/ busy_left > 0)
  BY <1>1, WordsStay
<1>3. ASSUME NEW i \in Nat, PacketEnds(i) PROVE PacketEnds(i)'
  <2>1. PICK k \in (i + 1)..(i + MAX_PACKET_SIZE) :
          4 * (k - i) + BTT <= MAX_PACKET_SIZE /\ IdleAt(k)
    BY <1>3 DEF PacketEnds
  <2>2. k \in Nat
    BY Sizes
  <2> QED BY <1>2, <2>1, <2>2 DEF PacketEnds
<1>4. fifo_out' = fifo_out
  BY DEF WritePacket, WriteWord, KeepController
<1>5. /\ busy_left' > 0 => idle_left' > 0
      /\ busy_left' \in Nat
      /\ \E n \in PacketWords : busy_left' < n
      /\ WritePacket \/ busy_left > 0 =>
           idle_left' > 0 /\ \E n \in PacketWords : busy_left' + 1 <= n
  <2>1. CASE WritePacket
    <3>1. PICK n \in PacketWords : busy_left' = n - 1
      BY <2>1 DEF WritePacket
    <3>2. idle_left' = WORDS_TO_SEND
      BY <2>1 DEF WritePacket
    <3> QED BY <3>1, <3>2, Sizes
  <2>2. CASE WriteWord
    <3>1. PICK n \in PacketWords : busy_left < n
      BY DEF PacketInv
    <3>2. n \in Nat
      BY Sizes
    <3>3. CASE busy_left > 0
      <4>1. busy_left' = busy_left - 1 /\ idle_left' = idle_left
        BY <2>2, <3>3 DEF WriteWord, NextWord
      <4> QED BY <1>1, <3>1, <3>2, <3>3, <4>1
    <3>4. CASE busy_left = 0
      <4>1. busy_left' = 0 /\ idle_left > 0
        BY <1>1, <2>2, <3>4 DEF WriteWord, NextWord
      <4>2. WritePacket => idle_left = 0
        BY Zenon DEF WritePacket
      <4> QED BY <1>1, <3>1, <3>2, <3>4, <4>1, <4>2
    <3> QED BY <1>1, <3>3, <3>4
  <2> QED BY <2>1, <2>2
<1>6. ASSUME NEW i \in 1..Len(fifo'), fifo'[i].busy PROVE PacketEnds(i)'
  <2>1. CASE i \in 1..Len(fifo)
    BY <1>2, <1>3, <1>6, <2>1 DEF PacketInv
  <2>2. CASE i = Len(fifo) + 1
    <3>1. PICK n \in PacketWords : idle_left' > 0 /\ busy_left' + 1 <= n
      BY <1>2, <1>5, <1>6, <2>2
    <3>0. PICK k \in Nat : k = Len(fifo') + busy_left' + 1
      BY <1>2, <1>5
    <3>2. IdleAt(k)'
      BY <3>0, <3>1 DEF IdleAt
    <3>3. k = i + busy_left' + 1
      BY <1>2, <2>2, <3>0
    <3>4. 4 * (busy_left' + 1) + BTT <= MAX_PACKET_SIZE /\ busy_left' + 1 <= MAX_PACKET_SIZE
      <4>1. n \in Nat /\ 4 * n + BTT <= MAX_PACKET_SIZE /\ BTT \in Nat /\ MAX_PACKET_SIZE \in Nat
        BY Sizes
      <4>2. busy_left' \in Nat /\ busy_left' + 1 <= n
        BY <1>5, <3>1
      <4>3. \A b \in Nat : b + 1 <= n => 4 * (b + 1) + BTT <= MAX_PACKET_SIZE
                                       /\ b + 1 <= MAX_PACKET_SIZE
        BY <4>1
      <4> QED BY <4>2, <4>3
    <3>5. k \in (i + 1)..(i + MAX_PACKET_SIZE) /\ 4 * (k - i) + BTT <= MAX_PACKET_SIZE
      <4>1. PICK b \in Nat : b = busy_left'
        BY <1>5
      <4>2. i \in Nat /\ k = i + b + 1
        BY <1>2, <2>2, <3>3, <4>1
      <4>3. 4 * (b + 1) + BTT <= MAX_PACKET_SIZE /\ b + 1 <= MAX_PACKET_SIZE
        BY <3>4, <4>1
      <4> QED BY <4>2, <4>3, Sizes
    <3> QED BY <3>2, <3>5 DEF PacketEnds
  <2> QED BY <1>2, <2>1, <2>2
<1>7. fifo_out'.busy => PacketEnds(0)'
  BY <1>3, <1>4 DEF PacketInv
<1> QED BY <1>5, <1>6, <1>7 DEF PacketInv

-----------------------------------------------------------------------------
(* The room in the buffer.                                                   *)

(* What the registers say of the burst is in range.                          *)
LEMMA BurstTypes ==
  ASSUME BurstInv
  PROVE  /\ beats \in Nat /\ beats <= WORDS_TO_SEND /\ unsent \in Nat /\ unsent <= 2
         /\ words_sent_cnt \in 0..WORDS_TO_SEND
         /\ fifo_rd_en \in BOOLEAN /\ fifo_out_valid \in BOOLEAN
         /\ fifo_out_valid_r \in BOOLEAN /\ s2mm_tlast \in BOOLEAN
         /\ mover \in {"free", "command", "data"}
         /\ s2mm_data_state \in {"IDLE", "DONE", "ASSERT_CMD", "DELAY0", "READ_FIFO"}
         /\ fifo \in Seq(Words) /\ Len(fifo) \in Nat
<1>1. WORDS_TO_SEND \in Nat /\ WORDS_TO_SEND > 2
  BY Sizes
<1>2. /\ fifo \in Seq(Words) /\ Len(fifo) \in Nat
      /\ s2mm_data_state \in {"IDLE", "DONE", "ASSERT_CMD", "DELAY0", "READ_FIFO"}
      /\ mover \in {"free", "command", "data"}
  BY LenProperties DEF BurstInv
<1>3. Resting \/ Starting \/ First \/ Running \/ Last \/ Closing
  BY DEF BurstInv
<1>4. /\ beats \in Nat /\ beats <= WORDS_TO_SEND /\ unsent \in Nat /\ unsent <= 2
      /\ words_sent_cnt \in 0..WORDS_TO_SEND
  BY <1>1, <1>3 DEF Resting, Starting, First, Running, Last, Closing, At
<1>5. /\ fifo_rd_en \in BOOLEAN /\ fifo_out_valid \in BOOLEAN
      /\ fifo_out_valid_r \in BOOLEAN /\ s2mm_tlast \in BOOLEAN
  BY <1>3 DEF Resting, Starting, First, Running, Last, Closing, At
<1> QED BY <1>2, <1>4, <1>5

(* There is room for the burst whose address is about to be posted.          *)
LEMMA RoomForBurst ==
  ASSUME BurstInv, TypeOK, SwitchInv, RoomInv, Unposted
  PROVE  Used + BTT + 4 <= RAM_BUFF_SIZE
<1>1. Used \in Nat /\ beats \in Nat /\ unsent \in Nat
  BY UsedNat, BurstTypes DEF TypeOK, SwitchInv
<1>2. CASE Used > Threshold
  <2>1. PICK k \in 1..RAM_BUFF_SIZE : Reach + 4 * k <= RAM_BUFF_SIZE
    BY <1>2 DEF RoomInv, Room
  <2>2. Reach = Used + 4 * (beats + unsent) + BTT
    BY DEF Reach
  <2> QED BY <1>1, <2>1, <2>2, Sizes
<1>3. CASE ~(Used > Threshold)
  BY <1>1, <1>3, Sizes DEF Threshold
<1> QED BY <1>2, <1>3

(* Room stays as long as no word is read and the next one goes to the same   *)
(* place.                                                                    *)
LEMMA RoomStays ==
  ASSUME fifo' = fifo, UNCHANGED writerVars, Reach' = Reach, Room
  PROVE  Room'
  BY DEF Room, IdleAt, writerVars

(* A buffer that is nearly full after an edge is not being entered.          *)
LEMMA NoJump ==
  ASSUME BurstInv, TypeOK, SwitchInv, NEW post \in BOOLEAN, NEW toggle, Beside(post, toggle, FALSE),
         post => Used + BTT + 4 <= RAM_BUFF_SIZE, Used' > Threshold
  PROVE  ~buff_switch_request /\ Used' = IF post THEN Used + BTT ELSE Used
<1>1. Threshold \in Nat
  BY Sizes DEF Threshold
<1>2. buff_switch_request => Used' = 0
  BY UsedEffect
<1>3. ~buff_switch_request
  BY <1>1, <1>2
<1> QED BY <1>3, UsedEffect

(* Between bursts nothing is read: an edge that does not post keeps the room.*)
LEMMA RoomBetween ==
  ASSUME BurstInv, TypeOK, SwitchInv, RoomInv, Unposted, Unposted', Resting, Resting',
         NEW toggle, Beside(FALSE, toggle, FALSE)
  PROVE  RoomInv'
<1> SUFFICES ASSUME Used' > Threshold PROVE fifo_out'.busy /\ Room'
  BY DEF RoomInv, Threshold
<1>1. ~buff_switch_request /\ Used' = Used
  BY NoJump DEF Threshold
<1>2. fifo_out.busy /\ Room
  BY <1>1 DEF RoomInv, Threshold
<1>3. ~Pop
  BY DEF Pop, Resting, At
<1>4. fifo' = fifo /\ fifo_out' = fifo_out /\ UNCHANGED writerVars
  BY <1>3 DEF Beside, FifoRead
<1>5. Reach' = Reach
  BY <1>1 DEF Reach, Resting, At
<1> QED BY <1>2, <1>4, <1>5, RoomStays

(* Posting an address leaves room for the packet that is being sent.         *)
LEMMA RoomPost ==
  ASSUME BurstInv, BurstInv', TypeOK, SwitchInv, PacketInv, RoomInv, NEW post \in BOOLEAN,
         NEW toggle, Delay0(post, toggle, FALSE)
  PROVE  RoomInv' /\ (post => Unposted /\ JustPosted')
<1>1. /\ Resting /\ s2mm_data_state = "DELAY0" /\ mover \in {"command", "data"}
      /\ clear_mode = FALSE /\ Beside(post, toggle, FALSE) /\ Mover(post)
  BY DEF BurstInv, Delay0, NoClear
<1>2. Resting' /\ s2mm_data_state' \in {"DELAY0", "READ_FIFO"}
  <2>1. s2mm_data_state' \in {"DELAY0", "READ_FIFO"}
    BY <1>1 DEF Delay0
  <2>2. words_sent_cnt' = 0 /\ fifo_rd_en' = FALSE /\ beats' = 0 /\ unsent' = 0
        /\ fifo_out_valid_r' = FALSE /\ fifo_out_valid' = FALSE /\ s2mm_tlast' = FALSE
    <3>1. ~Pop
      BY <1>1 DEF Pop, Resting, At
    <3>2. beats' = 0 /\ unsent' = 0
      BY <1>1, <3>1, CountsRest
    <3> QED BY <1>1, <3>1, <3>2 DEF Delay0, Resting, At, KeepStream, streamVars, Beside, FifoRead
  <2> QED BY <2>1, <2>2 DEF Resting, At
<1>3. /\ mover' = IF post THEN "data" ELSE mover
      /\ post => mover = "command"
  BY <1>1 DEF Mover, Resting, At
<1>4. ~post /\ mover = "command" => s2mm_data_state' = "DELAY0"
  BY <1>1 DEF Delay0
<1>5. post => Unposted /\ JustPosted'
  BY <1>1, <1>2, <1>3 DEF Unposted, JustPosted
<1>6. ~Pop /\ fifo' = fifo /\ fifo_out' = fifo_out /\ UNCHANGED writerVars
  BY <1>1 DEF Pop, Resting, At, Beside, FifoRead
<1>7. ~(s2mm_data_state' = "READ_FIFO" /\ Closing')
  BY <1>2 DEF Closing, Resting, At
<1>8. CASE ~post /\ mover = "command"
  <2>1. Unposted /\ Unposted'
    BY <1>1, <1>3, <1>4, <1>8 DEF Unposted
  <2> QED BY <1>1, <1>2, <1>5, <1>8, <2>1, RoomBetween
<1>9. CASE ~post /\ mover = "data"
  <2>1. ~Unposted /\ ~Unposted'
    BY <1>1, <1>2, <1>3, <1>9 DEF Unposted
  <2> SUFFICES ASSUME Used' > Threshold
               PROVE  (fifo_out'.busy /\ Room') \/ ~fifo_out'.busy
    BY <1>5, <1>7, <2>1 DEF RoomInv, Threshold
  <2>2. ~buff_switch_request /\ Used' = Used
    BY <1>1, <1>9, NoJump DEF Threshold
  <2>3. fifo_out.busy => Room
    BY <2>1, <2>2 DEF RoomInv, Threshold
  <2>4. Reach' = Reach
    BY <1>1, <1>2, <2>1, <2>2 DEF Reach, Resting, At
  <2> QED BY <1>6, <2>3, <2>4, RoomStays
<1>10. CASE post
  <2>1. Unposted /\ ~Unposted'
    BY <1>2, <1>3, <1>5, <1>10 DEF Unposted
  <2> SUFFICES ASSUME Used' > Threshold, fifo_out.busy PROVE Room'
    BY <1>5, <1>6, <1>7, <2>1 DEF RoomInv, Threshold
  <2>2. Used + BTT + 4 <= RAM_BUFF_SIZE
    BY <2>1, RoomForBurst
  <2>3. ~buff_switch_request /\ Used' = Used + BTT
    BY <1>1, <1>10, <2>2, NoJump DEF Threshold
  <2>4. Used \in Nat
    BY UsedNat DEF TypeOK, SwitchInv
  <2>5. Reach' = Used + BTT /\ Reach = Used + BTT
    BY <1>1, <1>2, <2>1, <2>3, <2>4, Sizes DEF Reach, Resting, At
  <2>6. CASE Used > Threshold
    BY <1>6, <2>1, <2>5, <2>6, RoomStays DEF RoomInv
  <2>7. CASE ~(Used > Threshold)
    <3>1. PICK k \in (0 + 1)..(0 + MAX_PACKET_SIZE) :
            4 * (k - 0) + BTT <= MAX_PACKET_SIZE /\ IdleAt(k)
      BY DEF PacketInv, PacketEnds
    <3>2. k \in 1..RAM_BUFF_SIZE /\ Used + BTT + 4 * k <= RAM_BUFF_SIZE
      BY <2>4, <2>7, <3>1, Sizes DEF Threshold
    <3>3. IdleAt(k)'
      BY <1>6, <3>1 DEF IdleAt, writerVars
    <3> QED BY <2>5, <3>2, <3>3 DEF Room
  <2> QED BY <2>6, <2>7
<1> QED BY <1>1, <1>8, <1>9, <1>10

(* What an edge of READ_FIFO does to the counts of a burst.                  *)
LEMMA ReadEffect ==
  ASSUME BurstInv, BurstInv', NEW toggle, ReadFifo(toggle, FALSE)
  PROVE  /\ Closing => /\ s2mm_data_state' = "DONE" /\ ~Pop
                       /\ beats + unsent = WORDS_TO_SEND /\ beats' + unsent' = 0
         /\ ~Closing => /\ s2mm_data_state' = "READ_FIFO"
                        /\ beats' + unsent' = beats + unsent + (IF Pop THEN 1 ELSE 0)
         /\ Pop => ~Closing'
         /\ Resting => ~Pop /\ ~Closing'
         /\ Last => ~Pop
<1>1. Mover(FALSE) /\ (s2mm_tvalid <=> fifo_out_valid_r) /\ mover = "data"
  BY DEF BurstInv, ReadFifo, NoPost, s2mm_tvalid, NoClear
<1>2. /\ beats \in Nat /\ beats <= WORDS_TO_SEND /\ unsent \in Nat
      /\ WORDS_TO_SEND \in Nat /\ WORDS_TO_SEND > 2
  BY BurstTypes, Sizes
<1>3. beats' = IF ~fifo_out_valid_r THEN beats ELSE IF s2mm_tlast THEN 0 ELSE beats + 1
  BY <1>1, <1>2 DEF Mover
<1>4. unsent' = unsent + (IF Pop THEN 1 ELSE 0) - (IF fifo_out_valid_r THEN 1 ELSE 0)
  BY <1>1, <1>2 DEF Mover
<1>5. /\ Closing => s2mm_tlast = TRUE /\ fifo_out_valid_r = TRUE /\ ~Pop
                    /\ beats = WORDS_TO_SEND - 1 /\ unsent = 1
      /\ ~Closing => s2mm_tlast = FALSE /\ (words_sent_cnt >= WORDS_TO_SEND <=> FALSE)
      /\ Closing => words_sent_cnt >= WORDS_TO_SEND
  BY <1>2 DEF BurstInv, ReadFifo, Resting, Starting, First, Running, Last, Closing, At, Pop
<1>6. s2mm_data_state' = IF Closing THEN "DONE" ELSE "READ_FIFO"
  BY <1>5 DEF ReadFifo
<1>7. Pop => fifo_out_valid' = TRUE
  BY DEF ReadFifo, NoPost, Beside, FifoRead
<1>8. Pop => ~Closing'
  BY <1>7 DEF Closing, At
<1>9. Resting => ~Pop /\ ~Closing'
  <2>1. fifo_out_valid_r' => fifo_out_valid
    BY Zenon DEF ReadFifo
  <2> QED BY <2>1 DEF Resting, At, Pop, Closing
<1>10. Last => ~Pop
  BY DEF Last, At, Pop
<1>11. Closing => beats + unsent = WORDS_TO_SEND /\ beats' + unsent' = 0
  BY <1>2, <1>3, <1>4, <1>5
<1>12. ~Closing => beats' + unsent' = beats + unsent + (IF Pop THEN 1 ELSE 0)
  BY <1>2, <1>3, <1>4, <1>5
<1> QED BY <1>5, <1>6, <1>8, <1>9, <1>10, <1>11, <1>12

(* Reading a burst: beyond the threshold there is room for the packet, and   *)
(* the first word with its busy bit low brings the jump.                     *)
LEMMA RoomRead ==
  ASSUME BurstInv, BurstInv', TypeOK, SwitchInv, RoomInv, NEW toggle, ReadFifo(toggle, FALSE)
  PROVE  RoomInv'
<1> SUFFICES ASSUME Used' > Threshold
             PROVE  \/ fifo_out'.busy /\ Room'
                    \/ ~Unposted' /\ buff_switch_request'
                    \/ ~Unposted' /\ ~fifo_out'.busy
                         /\ ~(s2mm_data_state' = "READ_FIFO" /\ Closing')
  BY DEF RoomInv, Threshold
<1>1. s2mm_data_state = "READ_FIFO" /\ Beside(FALSE, toggle, FALSE) /\ ~Unposted
  BY DEF ReadFifo, NoPost, Unposted
<1>2. ~buff_switch_request /\ Used' = Used
  BY <1>1, NoJump DEF Threshold
<1>3. FifoRead /\ UNCHANGED writerVars
  BY <1>1 DEF Beside
<1>4. Used \in Nat /\ beats \in Nat /\ unsent \in Nat /\ fifo \in Seq(Words) /\ busy_left \in Nat
  BY UsedNat, BurstTypes DEF TypeOK, SwitchInv
<1>5. CASE fifo_out.busy /\ Room
  <2>1. PICK k \in 1..RAM_BUFF_SIZE : IdleAt(k) /\ Reach + 4 * k <= RAM_BUFF_SIZE
    BY <1>5 DEF Room
  <2>2. Reach = Used + 4 * (beats + unsent) + 0
    BY <1>1 DEF Reach
  <2>3. CASE Closing
    <3>1. Reach' = Used' + 4 * 0 + BTT
      BY <2>3, ReadEffect DEF Reach, Unposted
    <3>2. Reach' = Reach
      <4>1. beats + unsent = WORDS_TO_SEND /\ BTT = 4 * WORDS_TO_SEND /\ WORDS_TO_SEND \in Nat
        BY <2>3, ReadEffect, Sizes
      <4> QED BY <1>2, <1>4, <2>2, <3>1, <4>1
    <3> QED BY <1>3, <1>5, <2>3, <3>2, ReadEffect, RoomStays DEF FifoRead
  <2>4. CASE ~Closing /\ ~Pop
    <3>1. Reach' = Used' + 4 * (beats + unsent) + 0
      <4>1. ~Unposted' /\ beats' + unsent' = beats + unsent + 0
        BY <2>4, ReadEffect DEF Unposted
      <4> QED BY <1>4, <4>1 DEF Reach
    <3> QED BY <1>2, <1>3, <1>5, <2>2, <2>4, <3>1, RoomStays DEF FifoRead
  <2>5. CASE ~Closing /\ Pop
    <3>1. ~Unposted' /\ ~Closing'
      BY <2>5, ReadEffect DEF Unposted
    <3>2. Reach' = Used' + 4 * (beats + unsent + 1) + 0
      BY <2>5, <3>1, ReadEffect DEF Reach
    <3>3. /\ \A j \in Nat : j >= 1 /\ IdleAt(j + 1) => IdleAt(j)'
          /\ Len(fifo) \in Nat /\ Len(fifo) >= 1 /\ fifo_out' = fifo[1]
      BY <1>3, <1>4, <2>5, WordsMoveUp
    <3>4. CASE k = 1
      <4>1. ~fifo_out'.busy
        BY <1>4, <2>1, <3>3, <3>4 DEF IdleAt
      <4> QED BY <3>1, <4>1
    <3>5. CASE k > 1
      <4>1. k - 1 \in Nat /\ k - 1 >= 1 /\ k = (k - 1) + 1 /\ k - 1 \in 1..RAM_BUFF_SIZE
        BY <3>5, Sizes
      <4>2. IdleAt(k - 1)'
        BY <2>1, <3>3, <4>1
      <4>3. Reach' + 4 * (k - 1) <= RAM_BUFF_SIZE
        BY <1>2, <1>4, <2>1, <2>2, <3>2, <3>5, Sizes
      <4>4. Room'
        BY <4>1, <4>2, <4>3 DEF Room
      <4> QED BY <3>1, <4>4
    <3> QED BY <3>4, <3>5
  <2> QED BY <2>3, <2>4, <2>5
<1>6. CASE ~fifo_out.busy /\ ~Closing
  <2>1. s2mm_data_state' = "READ_FIFO" /\ ~Unposted'
    BY <1>6, ReadEffect DEF Unposted
  <2>2. CASE Resting
    BY <1>3, <1>6, <2>1, <2>2, ReadEffect DEF FifoRead
  <2>3. CASE ~Resting
    <3>1. mem_bytes_written = Used
      BY <1>1, <2>3 DEF SwitchInv, JustPosted
    <3>2. tripped
      BY <1>2, <1>4, <3>1, Sizes DEF tripped, Threshold
    <3> QED BY <1>1, <1>2, <1>6, <2>1, <3>2, SwitchEffect DEF JumpWanted
  <2> QED BY <2>2, <2>3
<1> QED BY <1>1, <1>2, <1>5, <1>6 DEF RoomInv, Threshold

-----------------------------------------------------------------------------
(* Every step keeps the addresses in the buffers.                            *)

(* The registers that every edge writes keep their ranges.                   *)
LEMMA TypesBeside ==
  ASSUME BurstInv, BurstInv', TypeOK, SwitchInv, SwitchInv', NEW post \in BOOLEAN,
         NEW toggle \in BOOLEAN, Beside(post, toggle, FALSE), saddr' \in Nat
  PROVE  /\ fifo_out' \in Words
         /\ ram_in_a_buff' \in BOOLEAN
         /\ mem_bytes_written' \in 0..(RAM_BUFF_SIZE - 1)
         /\ toggle_buffer' \in BOOLEAN
         /\ buff_switch_request' \in BOOLEAN /\ buff_switch_response' \in BOOLEAN
         /\ current_buffer_reg' \in BOOLEAN /\ buff_switched_pulse' \in BOOLEAN
         /\ ram_buff_a_occupancy' \in Nat \cup {AllOnes}
         /\ ram_buff_b_occupancy' \in Nat \cup {AllOnes}
         /\ busy_left' \in Nat /\ idle_left' \in Nat /\ pause' \in 0..WORD_EDGES
         /\ packet_buff' \in {"A", "B"}
<1>1. fifo_out' \in Words /\ packet_buff' \in {"A", "B"}
  <2>1. CASE Pop
    <3>1. fifo \in Seq(Words) /\ fifo # <<>>
      BY <2>1 DEF TypeOK, Pop
    <3>2. fifo_out' = Head(fifo) /\ packet_buff' \in {Buffer(cmd_addr), packet_buff}
      BY <2>1 DEF Beside, FifoRead
    <3>3. Head(fifo) \in Words
      BY <3>1, HeadTailProperties
    <3> QED BY <3>2, <3>3 DEF TypeOK, Buffer
  <2>2. CASE ~Pop
    BY <2>2 DEF Beside, FifoRead, TypeOK
  <2> QED BY <2>1, <2>2
<1>2. ram_in_a_buff' \in BOOLEAN /\ current_buffer_reg' \in BOOLEAN
      /\ buff_switched_pulse' \in BOOLEAN
  BY DEF Beside, BufferMonitor, TypeOK
<1>3. toggle_buffer' \in BOOLEAN /\ buff_switch_request' \in BOOLEAN
      /\ buff_switch_response' \in BOOLEAN
  <2>1. toggle_buffer' \in BOOLEAN /\ buff_switch_request' \in BOOLEAN
    BY Zenon DEF Beside, SwitchRequest
  <2>2. buff_switch_response' \in {buff_switch_response, buff_switch_request}
    BY DEF Beside, AddressHandler
  <2> QED BY <2>1, <2>2 DEF TypeOK
<1>4. mem_bytes_written' \in 0..(RAM_BUFF_SIZE - 1)
  <2>1. mem_bytes_written' = IF Switching THEN 0 ELSE saddr - base_addr
    BY SwitchEffect
  <2>2. CASE Switching
    BY <2>1, <2>2, Sizes
  <2>3. CASE ~Switching
    <3>1. mem_bytes_written' = Used
      BY <2>1, <2>3 DEF Switching, SwitchInv, base_addr, Used
    <3>2. Used \in Nat /\ Used + 4 <= RAM_BUFF_SIZE
      BY UsedNat DEF TypeOK, SwitchInv
    <3> QED BY <3>1, <3>2, Sizes
  <2> QED BY <2>2, <2>3
<1>5. /\ ram_buff_a_occupancy' \in Nat \cup {AllOnes}
      /\ ram_buff_b_occupancy' \in Nat \cup {AllOnes}
  <2>1. saddr + BTT \in Nat /\ BOT_HALF_ADDRESS \in Nat /\ TOP_HALF_ADDRESS \in Nat
    BY Sizes DEF TypeOK
  <2> QED BY <2>1 DEF Beside, Occupancy, NextOccupancy, TypeOK
<1>6. busy_left' \in Nat /\ idle_left' \in Nat
  BY DEF Beside, writerVars, TypeOK
<1>7. pause' \in 0..WORD_EDGES
  <2>1. WORD_EDGES \in Nat
    BY DmaAssumption DEF DmaAssumption
  <2> QED BY <2>1 DEF Beside, TypeOK
<1> QED BY <1>1, <1>2, <1>3, <1>4, <1>5, <1>6, <1>7

(* A clock edge keeps all ranges.                                            *)
LEMMA TypesEdge ==
  ASSUME BurstInv, BurstInv', TypeOK, SwitchInv, SwitchInv', NEW post \in BOOLEAN,
         NEW toggle \in BOOLEAN, Beside(post, toggle, FALSE), saddr' \in Nat,
         delay_counter' \in 0..DELAY_MAX, s2mm_allow_addr_req' \in BOOLEAN,
         cmd_addr' \in {cmd_addr, saddr}, next_addr' \in {next_addr, cmd_addr + BTT},
         toggled' \in BOOLEAN
  PROVE  TypeOK'
<1>1. /\ words_sent_cnt' \in 0..WORDS_TO_SEND /\ fifo' \in Seq(Words)
      /\ fifo_rd_en' \in BOOLEAN /\ fifo_out_valid' \in BOOLEAN
      /\ fifo_out_valid_r' \in BOOLEAN /\ s2mm_tlast' \in BOOLEAN
      /\ mover' \in {"free", "command", "data"}
      /\ beats' \in 0..(WORDS_TO_SEND + 1) /\ unsent' \in -1..WORDS_TO_SEND
      /\ s2mm_data_state' \in {"IDLE", "ASSERT_CMD", "DELAY0", "READ_FIFO", "DONE",
                               "CLEAR_MEM", "CONTINUE_CLEAR"}
  <2>1. (BurstInv => /\ beats \in Nat /\ beats <= WORDS_TO_SEND /\ unsent \in Nat /\ unsent <= 2
                     /\ words_sent_cnt \in 0..WORDS_TO_SEND
                     /\ fifo_rd_en \in BOOLEAN /\ fifo_out_valid \in BOOLEAN
                     /\ fifo_out_valid_r \in BOOLEAN /\ s2mm_tlast \in BOOLEAN
                     /\ mover \in {"free", "command", "data"}
                     /\ s2mm_data_state \in {"IDLE", "DONE", "ASSERT_CMD", "DELAY0", "READ_FIFO"}
                     /\ fifo \in Seq(Words))'
    BY BurstTypes, PTL
  <2> QED BY <2>1, Sizes
<1>2. /\ clear_valid' \in BOOLEAN /\ clear_ps_mem_r' \in BOOLEAN
      /\ clear_pulse' \in BOOLEAN /\ clear_mode' \in BOOLEAN /\ guardrail_err' \in BOOLEAN
  BY DEF BurstInv, NoClear, SwitchInv
<1>3. cmd_addr' \in Nat /\ next_addr' \in Nat
  BY Sizes DEF TypeOK
<1> QED BY <1>1, <1>2, <1>3, TypesBeside DEF TypeOK

(* An edge that issues no command keeps the burst where it goes.             *)
LEMMA AddressEdge ==
  ASSUME AddressInv, BurstInv', RoomInv', NEW post \in BOOLEAN, NEW toggle \in BOOLEAN,
         Beside(post, toggle, FALSE), post => Unposted /\ JustPosted',
         delay_counter' \in 0..DELAY_MAX, s2mm_allow_addr_req' \in BOOLEAN,
         next_addr' \in {next_addr, cmd_addr + BTT}, toggled' \in BOOLEAN,
         cmd_addr' \in {cmd_addr, saddr}, AddressInBuffers'
  PROVE  AddressInv'
<1>1. BurstInv /\ TypeOK /\ SwitchInv /\ PacketInv /\ RoomInv
  BY DEF AddressInv
<1>2. post => Used + BTT + 4 <= RAM_BUFF_SIZE
  BY <1>1, RoomForBurst
<1>3. SwitchInv' /\ saddr' \in Nat
  BY <1>1, <1>2, SwitchStep, UsedEffect
<1>4. PacketInv'
  BY <1>1, PacketEdge DEF Beside, BurstInv
<1>5. TypeOK'
  BY <1>1, <1>3, TypesEdge
<1> QED BY <1>3, <1>4, <1>5 DEF AddressInv

(* The five actions of the controller: IDLE waits for a whole burst.         *)
LEMMA AddressIdle ==
  ASSUME AddressInv, BurstInv', NEW cmd_tready, NEW toggle \in BOOLEAN,
         Idle(cmd_tready, toggle, FALSE)
  PROVE  AddressInv'
<1>1. /\ BurstInv /\ TypeOK /\ SwitchInv /\ RoomInv /\ s2mm_data_state = "IDLE"
      /\ s2mm_data_state' \in {"IDLE", "ASSERT_CMD"} /\ Beside(FALSE, toggle, FALSE)
  BY DEF AddressInv, Idle, NoPost
<1>2. Resting /\ Resting'
  BY <1>1 DEF BurstInv
<1>3. RoomInv'
  BY <1>1, <1>2, RoomBetween DEF Unposted
<1>4. /\ delay_counter' = delay_counter /\ s2mm_allow_addr_req' = TRUE
      /\ cmd_addr' = cmd_addr /\ next_addr' = next_addr
  BY DEF Idle, NoPost, Mover
<1>5. toggled' \in BOOLEAN
  BY Zenon DEF Idle, NoPost
<1> QED BY <1>1, <1>3, <1>4, <1>5, AddressEdge DEF AddressInBuffers, TypeOK

(* A command is issued only where there is room for its burst.               *)
LEMMA AddressAssertCmd ==
  ASSUME AddressInv, BurstInv', NEW toggle \in BOOLEAN, AssertCmd(toggle, FALSE)
  PROVE  AddressInv'
<1>1. /\ BurstInv /\ TypeOK /\ SwitchInv /\ RoomInv /\ s2mm_data_state = "ASSERT_CMD"
      /\ s2mm_data_state' = "DELAY0" /\ mover' = "command" /\ Beside(FALSE, toggle, FALSE)
  BY DEF AddressInv, AssertCmd
<1>2. Resting /\ Resting' /\ Unposted /\ Unposted'
  BY <1>1 DEF BurstInv, Unposted
<1>3. RoomInv'
  BY <1>1, <1>2, RoomBetween
<1>4. /\ delay_counter' = delay_counter /\ s2mm_allow_addr_req' = s2mm_allow_addr_req
      /\ cmd_addr' = saddr /\ next_addr' = next_addr
  BY DEF AssertCmd
<1>5. toggled' \in BOOLEAN
  BY Zenon DEF AssertCmd
<1>6. AddressInBuffers'
  <2>1. Used \in Nat /\ Used + BTT + 4 <= RAM_BUFF_SIZE
    BY <1>1, <1>2, RoomForBurst, UsedNat DEF TypeOK, SwitchInv
  <2>2. InBuffer(saddr, BOT_HALF_ADDRESS) \/ InBuffer(saddr, TOP_HALF_ADDRESS)
    BY <1>1, <2>1, Sizes DEF InBuffer, Used, TypeOK
  <2> QED BY <1>4, <2>2 DEF AddressInBuffers, InBuffer
<1> QED BY <1>1, <1>3, <1>4, <1>5, <1>6, AddressEdge DEF TypeOK

(* The address posted is that of the command.                                *)
LEMMA AddressDelay0 ==
  ASSUME AddressInv, BurstInv', NEW post \in BOOLEAN, NEW toggle \in BOOLEAN,
         Delay0(post, toggle, FALSE)
  PROVE  AddressInv'
<1>1. /\ BurstInv /\ TypeOK /\ SwitchInv /\ PacketInv /\ RoomInv /\ AddressInBuffers
      /\ s2mm_data_state = "DELAY0" /\ Beside(post, toggle, FALSE) /\ clear_mode = FALSE
  BY DEF AddressInv, Delay0, BurstInv, NoClear
<1>2. RoomInv' /\ (post => Unposted /\ JustPosted')
  BY <1>1, RoomPost
<1>3. /\ delay_counter' \in 0..DELAY_MAX /\ s2mm_allow_addr_req' \in BOOLEAN
      /\ cmd_addr' = cmd_addr /\ next_addr' \in {next_addr, cmd_addr + BTT}
  <2>1. delay_counter \in 0..DELAY_MAX /\ s2mm_allow_addr_req \in BOOLEAN /\ DELAY_MAX \in Nat
    BY <1>1, Sizes DEF TypeOK
  <2>2. delay_counter' \in 0..DELAY_MAX
    <3>1. delay_counter' = IF delay_counter = DELAY_MAX THEN 0 ELSE delay_counter + 1
      BY DEF Delay0
    <3> QED BY <2>1, <3>1
  <2>3. s2mm_allow_addr_req' \in {FALSE, s2mm_allow_addr_req} /\ cmd_addr' = cmd_addr
    BY DEF Delay0
  <2>4. next_addr' \in {next_addr, cmd_addr + BTT}
    BY DEF Delay0, Mover
  <2> QED BY <2>1, <2>2, <2>3, <2>4
<1>4. toggled' \in BOOLEAN
  BY Zenon DEF Delay0
<1>5. AddressInBuffers'
  BY <1>1, <1>3 DEF AddressInBuffers, InBuffer
<1> QED BY <1>1, <1>2, <1>3, <1>4, <1>5, AddressEdge

(* Reading does not move the burst, but it may ask for the jump.             *)
LEMMA AddressReadFifo ==
  ASSUME AddressInv, BurstInv', NEW toggle \in BOOLEAN, ReadFifo(toggle, FALSE)
  PROVE  AddressInv'
<1>1. /\ BurstInv /\ TypeOK /\ SwitchInv /\ RoomInv /\ AddressInBuffers
      /\ s2mm_data_state = "READ_FIFO" /\ Beside(FALSE, toggle, FALSE)
  BY DEF AddressInv, ReadFifo, NoPost
<1>2. RoomInv'
  BY <1>1, RoomRead
<1>3. /\ delay_counter' = delay_counter /\ s2mm_allow_addr_req' = s2mm_allow_addr_req
      /\ cmd_addr' = cmd_addr /\ next_addr' = next_addr
  BY DEF ReadFifo, NoPost, Mover
<1>4. toggled' \in BOOLEAN
  BY Zenon DEF ReadFifo, NoPost
<1>5. AddressInBuffers'
  BY <1>1, <1>3 DEF AddressInBuffers, InBuffer
<1> QED BY <1>1, <1>2, <1>3, <1>4, <1>5, AddressEdge DEF TypeOK

(* Between two bursts.                                                       *)
LEMMA AddressDone ==
  ASSUME AddressInv, BurstInv', NEW toggle \in BOOLEAN, Done(toggle, FALSE)
  PROVE  AddressInv'
<1>1. /\ BurstInv /\ TypeOK /\ SwitchInv /\ RoomInv /\ s2mm_data_state = "DONE"
      /\ s2mm_data_state' = "IDLE" /\ Beside(FALSE, toggle, FALSE)
  BY DEF AddressInv, Done, NoPost
<1>2. Resting /\ Resting'
  BY <1>1 DEF BurstInv
<1>3. RoomInv'
  BY <1>1, <1>2, RoomBetween DEF Unposted
<1>4. /\ delay_counter' = delay_counter /\ s2mm_allow_addr_req' = s2mm_allow_addr_req
      /\ cmd_addr' = cmd_addr /\ next_addr' = next_addr
  BY DEF Done, NoPost, Mover
<1>5. toggled' \in BOOLEAN
  BY Zenon DEF Done, NoPost
<1> QED BY <1>1, <1>3, <1>4, <1>5, AddressEdge DEF AddressInBuffers, TypeOK

(* Writing a word takes no room away.                                        *)
LEMMA RoomWrite ==
  ASSUME fifo \in Seq(Words), TypeOK, PacketInv, WritePacket \/ WriteWord
  PROVE  Room => Room'
<1>1. busy_left \in Nat /\ idle_left \in Nat /\ (busy_left > 0 => idle_left > 0)
  BY DEF TypeOK, PacketInv
<1>2. \A k \in Nat : IdleAt(k) => IdleAt(k)'
  BY <1>1, WordsStay
<1>3. KeepController
  BY DEF WritePacket, WriteWord
<1>4. Reach' = Reach
  BY <1>3 DEF KeepController, fsmVars, moverVars, addrVars, history, Reach, Used, Unposted
<1> SUFFICES ASSUME Room PROVE Room'
  OBVIOUS
<1>5. PICK k \in 1..RAM_BUFF_SIZE : IdleAt(k) /\ Reach + 4 * k <= RAM_BUFF_SIZE
  BY DEF Room
<1>6. k \in Nat
  BY Sizes
<1> QED BY <1>2, <1>4, <1>5, <1>6 DEF Room

(* The writer touches no address, and brings no packet that is too long.     *)
LEMMA AddressWrite ==
  ASSUME AddressInv, BurstInv', WritePacket \/ WriteWord
  PROVE  AddressInv'
<1>1. BurstInv /\ TypeOK /\ SwitchInv /\ PacketInv /\ RoomInv /\ AddressInBuffers
  BY DEF AddressInv
<1>2. KeepController
  BY DEF WritePacket, WriteWord
<1>3. PacketInv'
  BY <1>1, PacketWrite DEF BurstInv
<1>4. SwitchInv' /\ AddressInBuffers'
  BY <1>1, <1>2 DEF KeepController, fsmVars, streamVars, moverVars, clearVars, addrVars,
     switchVars, occVars, history, SwitchInv, Used, JustPosted, Resting, At, AddressInBuffers,
     InBuffer
<1>5. RoomInv'
  <2>3. Used' = Used /\ Unposted' = Unposted
    BY <1>2 DEF KeepController, fsmVars, moverVars, addrVars, Used, Unposted
  <2>4. Room => Room'
    BY <1>1, RoomWrite DEF BurstInv
  <2>5. Closing' <=> Closing
    BY <1>2 DEF KeepController, fsmVars, streamVars, history, Closing, At
  <2> QED BY <1>1, <1>2, <2>3, <2>4, <2>5
      DEF RoomInv, Threshold, KeepController, fsmVars, switchVars
<1>6. TypeOK'
  <2>1. fifo' \in Seq(Words)
    BY DEF BurstInv
  <2>2. busy_left' \in Nat /\ idle_left' \in Nat
    <3>1. CASE WritePacket
      <4>1. PICK n \in PacketWords : busy_left' = n - 1
        BY <3>1 DEF WritePacket
      <4>2. n - 1 \in Nat
        BY Sizes
      <4>3. idle_left' = WORDS_TO_SEND
        BY <3>1 DEF WritePacket
      <4> QED BY <4>1, <4>2, <4>3, Sizes
    <3>2. CASE WriteWord
      BY <1>1, <3>2 DEF WriteWord, NextWord, TypeOK
    <3> QED BY <3>1, <3>2
  <2>3. pause' \in 0..WORD_EDGES
    <3>1. WORD_EDGES \in Nat
      BY DmaAssumption DEF DmaAssumption
    <3>2. pause' = WORD_EDGES
      BY Zenon DEF WritePacket, WriteWord, Paced
    <3> QED BY <3>1, <3>2
  <2> QED BY <1>1, <1>2, <2>1, <2>2, <2>3
      DEF TypeOK, KeepController, fsmVars, streamVars, moverVars, clearVars, addrVars,
          switchVars, occVars, history
<1> QED BY <1>3, <1>4, <1>5, <1>6 DEF AddressInv

(* After power-up the first burst goes to the base of buffer A.              *)
LEMMA AddressInit == Init => AddressInv
<1> SUFFICES ASSUME Init PROVE AddressInv
  OBVIOUS
<1>1. fifo = <<>> /\ fifo \in Seq(Words) /\ Len(fifo) = 0 /\ IdleWord \in Words
  BY EmptySeq DEF Init, IdleWord, Words
<1>2. TypeOK
  <2>1. /\ 0 \in 0..DELAY_MAX /\ 0 \in 0..WORDS_TO_SEND /\ 0 \in 0..(RAM_BUFF_SIZE - 1)
        /\ 0 \in 0..(WORDS_TO_SEND + 1) /\ 0 \in -1..WORDS_TO_SEND /\ 0 \in Nat
        /\ BOT_HALF_ADDRESS \in Nat /\ TOP_HALF_ADDRESS \in Nat
    BY Sizes
  <2>2. 0 \in 0..WORD_EDGES
    BY DmaAssumption DEF DmaAssumption
  <2> QED BY <1>1, <2>1, <2>2 DEF Init, TypeOK
<1>3. Used = 0
  BY Sizes DEF Init, Used
<1>4. SwitchInv /\ RoomInv
  BY <1>3, Sizes DEF Init, SwitchInv, RoomInv, Threshold
<1>5. PacketInv
  <2>1. PICK n \in PacketWords : TRUE
    BY DmaAssumption DEF DmaAssumption
  <2>2. busy_left < n
    BY Sizes DEF Init
  <2> QED BY <1>1, <2>2 DEF Init, PacketInv, IdleWord
<1> QED BY <1>2, <1>4, <1>5, BurstInit DEF AddressInv, AddressInBuffers, Init

(* A reset empties the FIFO and sends the next burst to the base of buffer A.*)
LEMMA AddressReset ==
  ASSUME AddressInv, BurstInv', s2mm_data_state = "IDLE", Reset
  PROVE  AddressInv'
<1>1. /\ BurstInv /\ TypeOK /\ PacketInv
      /\ beats' = 0 /\ unsent' = 0 /\ fifo' = <<>> /\ fifo_out' = IdleWord
  BY DEF AddressInv, Reset
<1>2. Len(fifo') = 0 /\ IdleWord \in Words
  BY <1>1, EmptySeq DEF IdleWord, Words
<1>3. /\ busy_left' \in Nat /\ idle_left' \in Nat /\ busy_left' <= busy_left
      /\ busy_left' > 0 => idle_left' = idle_left /\ busy_left > 0
  BY <1>1 DEF Reset, TypeOK
<1>4. TypeOK'
  <2>1. /\ 0 \in 0..DELAY_MAX /\ 0 \in 0..(RAM_BUFF_SIZE - 1)
        /\ 0 \in 0..(WORDS_TO_SEND + 1) /\ 0 \in -1..WORDS_TO_SEND /\ 0 \in Nat
        /\ BOT_HALF_ADDRESS \in Nat /\ TOP_HALF_ADDRESS \in Nat
    BY Sizes
  <2>2. fifo' \in Seq(Words)
    BY DEF BurstInv
  <2>3. 0 \in 0..WORD_EDGES
    BY DmaAssumption DEF DmaAssumption
  <2> QED BY <1>1, <1>2, <1>3, <2>1, <2>2, <2>3 DEF Reset, TypeOK
<1>5. Used' = 0
  BY Sizes DEF Reset, Used
<1>6. SwitchInv' /\ RoomInv'
  BY <1>5, Sizes DEF Reset, SwitchInv, RoomInv, Threshold
<1>7. PacketInv'
  <2>1. PICK n \in PacketWords : busy_left < n
    BY <1>1 DEF PacketInv
  <2>2. busy_left' < n
    BY <1>1, <1>3, <2>1, Sizes DEF TypeOK
  <2>3. busy_left' > 0 => idle_left' > 0
    BY <1>1, <1>3 DEF PacketInv
  <2> QED BY <1>1, <1>2, <2>2, <2>3 DEF PacketInv, IdleWord
<1> QED BY <1>4, <1>6, <1>7 DEF AddressInv, AddressInBuffers, Reset

(* Neither an edge nor a write takes an address out of its buffer.           *)
LEMMA AddressNext ==
  ASSUME NoClears, AddressInv, [Next]_vars, [QuietReset]_vars
  PROVE  AddressInv'
<1>0. BurstInv /\ BurstInv'
  BY BurstNext DEF AddressInv
<1>1. CASE Edge /\ ~(TRUE \in RESETS /\ Reset)
  <2>1. PICK toggle \in TOGGLES :
          \/ \E cmd_tready \in READIES : Idle(cmd_tready, toggle, FALSE)
          \/ AssertCmd(toggle, FALSE)
          \/ \E post \in BOOLEAN : Delay0(post, toggle, FALSE)
          \/ ReadFifo(toggle, FALSE)
          \/ ClearMem(toggle, FALSE)
          \/ ContinueClear(toggle, FALSE)
          \/ Done(toggle, FALSE)
    BY <1>1 DEF Edge, NoClears
  <2>2. ~ClearMem(toggle, FALSE) /\ ~ContinueClear(toggle, FALSE)
    BY <1>0 DEF BurstInv, ClearMem, ContinueClear
  <2>3. toggle \in BOOLEAN
    BY DmaAssumption DEF DmaAssumption
  <2> QED BY <1>0, <2>1, <2>2, <2>3, AddressIdle, AddressAssertCmd, AddressDelay0,
             AddressReadFifo, AddressDone
<1>2. CASE WritePacket \/ WriteWord
  BY <1>0, <1>2, AddressWrite
<1>3. ~LoseWord
  BY <1>0 DEF BurstInv, NoClear, LoseWord
<1>4. CASE UNCHANGED vars
  BY <1>4 DEF vars, fsmVars, fifoVars, streamVars, moverVars, clearVars, addrVars, switchVars,
     occVars, writerVars, history, AddressInv, BurstInv, NoClear, Resting, Starting, First,
     Running, Last, Closing, At, TypeOK, SwitchInv, Used, JustPosted, PacketInv, PacketEnds,
     IdleAt, RoomInv, Room, Reach, Unposted, AddressInBuffers, InBuffer
<1>5. CASE TRUE \in RESETS /\ Reset
  BY <1>0, <1>4, <1>5, AddressReset DEF QuietReset
<1> QED BY <1>1, <1>2, <1>3, <1>4, <1>5 DEF Next

(* Every register keeps its range: in particular the bytes written are never *)
(* counted from the base of the other buffer.                                *)
THEOREM TypeCorrect == NoClears => (Spec /\ ResetsAtRest => []TypeOK)
<1> SUFFICES ASSUME NoClears PROVE Spec /\ ResetsAtRest => []TypeOK
  OBVIOUS
<1>1. AddressInv /\ [Next]_vars /\ [QuietReset]_vars => AddressInv'
  BY AddressNext
<1>2. AddressInv => TypeOK
  BY DEF AddressInv
<1> QED BY <1>1, <1>2, AddressInit, PTL DEF Spec, ResetsAtRest

(* No burst is written past the end of a buffer, for any sizes of buffer,    *)
(* packet and burst that leave room for one packet and one burst beyond the  *)
(* threshold, and wherever in a burst a packet begins; resets, of an idle    *)
(* controller, may come between.                                             *)
THEOREM AddressesStayInBuffers == NoClears => (Spec /\ ResetsAtRest => []AddressInBuffers)
<1> SUFFICES ASSUME NoClears PROVE Spec /\ ResetsAtRest => []AddressInBuffers
  OBVIOUS
<1>1. AddressInv /\ [Next]_vars /\ [QuietReset]_vars => AddressInv'
  BY AddressNext
<1>2. AddressInv => AddressInBuffers
  BY DEF AddressInv
<1> QED BY <1>1, <1>2, AddressInit, PTL DEF Spec, ResetsAtRest

-----------------------------------------------------------------------------
(* One jump for a burst at most.                                             *)

(* What toggles leave behind.                                                *)
LEMMA ToggleEffect ==
  ASSUME TypeOK, NEW toggle \in BOOLEAN, NEW post, Beside(post, toggle, FALSE),
         toggled' <=> (toggled \/ toggle), toggle_buffer => toggled
  PROVE  /\ toggle_buffer' => toggled'
         /\ ~toggled' => ~toggled /\ ~toggle_buffer
<1>1. toggle_buffer' => toggle \/ toggle_buffer
  BY Zenon DEF Beside, SwitchRequest
<1> QED BY <1>1

(* Without a toggle only a buffer that is nearly full is left, and only when *)
(* the word last read has its busy bit low.                                  *)
LEMMA RequestEffect ==
  ASSUME AddressInv, NEW post \in BOOLEAN, NEW toggle \in BOOLEAN, Beside(post, toggle, FALSE),
         ~toggle_buffer
  PROVE  /\ buff_switch_request' =>
              \/ ~buff_switch_request /\ ~fifo_out.busy /\ Used > Threshold
              \/ buff_switch_request /\ ~buff_switch_response
         /\ buff_switch_request /\ ~buff_switch_response => buff_switch_request'
         /\ Unposted => (buff_switch_request' <=> buff_switch_request /\ ~buff_switch_response)
<1>1. BurstInv /\ TypeOK /\ SwitchInv /\ RoomInv
  BY DEF AddressInv
<1>2. buff_switch_request' <=>
        \/ ~fifo_out.busy /\ JumpWanted /\ ~buff_switch_request
        \/ buff_switch_request /\ ~buff_switch_response
  BY <1>1, SwitchEffect
<1>3. mem_bytes_written <= Used /\ (Unposted => mem_bytes_written = Used)
  <2>1. mem_bytes_written = Used \/ (JustPosted /\ mem_bytes_written + BTT = Used)
    BY <1>1 DEF SwitchInv
  <2>2. JustPosted => ~Unposted
    BY DEF JustPosted, Unposted
  <2>3. mem_bytes_written \in Nat /\ BTT \in Nat
    BY <1>1, Sizes DEF TypeOK
  <2> QED BY <2>1, <2>2, <2>3
<1>4. JumpWanted => Used > Threshold
  <2>1. JumpWanted => mem_bytes_written > Threshold
    BY <1>1, Sizes DEF JumpWanted, tripped, Threshold, TypeOK
  <2>2. Used \in Nat /\ mem_bytes_written \in Nat /\ Threshold \in Int
    BY <1>1, UsedNat, Sizes DEF TypeOK, SwitchInv, Threshold
  <2> QED BY <1>3, <2>1, <2>2
<1>5. Unposted /\ Used > Threshold => fifo_out.busy
  BY <1>1 DEF RoomInv
<1> QED BY <1>2, <1>4, <1>5

(* After the address was posted a jump comes once, because the buffer that   *)
(* is entered is empty.                                                      *)
LEMMA FollowedStep ==
  ASSUME AddressInv, NEW toggle \in BOOLEAN, Beside(FALSE, toggle, FALSE), ~toggle_buffer,
         Followed, cmd_addr' = cmd_addr, next_addr' = next_addr
  PROVE  Followed'
<1>1. BurstInv /\ TypeOK /\ SwitchInv /\ RoomInv
  BY DEF AddressInv
<1>2. buff_switch_response' <=> buff_switch_request
  BY <1>1, SwitchEffect
<1>3. Buffer(next_addr') = Buffer(next_addr) /\ Buffer(cmd_addr') = Buffer(cmd_addr)
  BY DEF Buffer
<1>4. /\ buff_switch_request /\ ~buff_switch_response =>
           saddr' = IF saddr < TOP_HALF_ADDRESS THEN TOP_HALF_ADDRESS ELSE BOT_HALF_ADDRESS
      /\ buff_switch_request /\ buff_switch_response => saddr' = saddr
      /\ ~buff_switch_request => saddr' = saddr
  BY <1>1, UsedEffect
<1>5. CASE saddr = next_addr /\ ~buff_switch_response
  <2>1. CASE buff_switch_request
    <3>1. saddr' = IF Buffer(cmd_addr) = "A" THEN TOP_HALF_ADDRESS ELSE BOT_HALF_ADDRESS
      BY <1>4, <1>5, <2>1 DEF Followed, Buffer
    <3> QED BY <1>2, <1>3, <2>1, <3>1 DEF Followed
  <2>2. CASE ~buff_switch_request
    BY <1>2, <1>3, <1>4, <1>5, <2>2 DEF Followed
  <2> QED BY <2>1, <2>2
<1>6. CASE /\ buff_switch_request => buff_switch_response
           /\ saddr = IF Buffer(cmd_addr) = "A" THEN TOP_HALF_ADDRESS ELSE BOT_HALF_ADDRESS
  <2>1. Used = 0
    BY <1>6, Sizes DEF Used
  <2>2. ~(Used > Threshold)
    BY <2>1, Sizes DEF Threshold
  <2>3. ~buff_switch_request'
    BY <1>6, <2>2, RequestEffect
  <2>4. saddr' = saddr
    BY <1>4, <1>6
  <2> QED BY <1>3, <1>6, <2>3, <2>4 DEF Followed
<1> QED BY <1>5, <1>6 DEF Followed

(* After a reset none comes, because buffer A is empty.                      *)
LEMMA AfterResetStep ==
  ASSUME AddressInv, NEW toggle \in BOOLEAN, Beside(FALSE, toggle, FALSE), ~toggle_buffer,
         AfterReset, next_addr' = next_addr
  PROVE  AfterReset'
<1>1. ~(Used > Threshold)
  BY Sizes DEF AfterReset, Used, Threshold
<1>2. ~buff_switch_request'
  BY <1>1, RequestEffect DEF AfterReset
<1>3. saddr' = saddr
  BY UsedEffect DEF AfterReset, AddressInv
<1> QED BY <1>2, <1>3 DEF AfterReset

(* The actions one by one.                                                   *)
LEMMA PathIdle ==
  ASSUME AddressInv, PathInv, NEW cmd_tready, NEW toggle \in BOOLEAN,
         Idle(cmd_tready, toggle, FALSE)
  PROVE  PathInv'
<1>1. /\ s2mm_data_state = "IDLE" /\ s2mm_data_state' \in {"IDLE", "ASSERT_CMD"}
      /\ Beside(FALSE, toggle, FALSE) /\ cmd_addr' = cmd_addr /\ next_addr' = next_addr
      /\ BurstInv /\ TypeOK /\ SwitchInv
  BY DEF Idle, NoPost, Mover, AddressInv
<1>2. toggled' <=> (toggled \/ toggle)
  BY Zenon DEF Idle, NoPost
<1>3. (toggle_buffer' => toggled') /\ (~toggled' => ~toggled /\ ~toggle_buffer)
  BY <1>1, <1>2, ToggleEffect DEF PathInv
<1> SUFFICES ASSUME ~toggled'
             PROVE  /\ ~buff_switch_request' /\ ~buff_switch_response'
                    /\ Followed' \/ AfterReset'
  BY <1>1, <1>3 DEF PathInv, Switching
<1>4. ~buff_switch_request /\ (Followed \/ AfterReset)
  BY <1>1, <1>3 DEF PathInv
<1>5. ~buff_switch_request' /\ ~buff_switch_response'
  BY <1>1, <1>3, <1>4, RequestEffect, SwitchEffect DEF Unposted
<1> QED BY <1>1, <1>3, <1>4, <1>5, FollowedStep, AfterResetStep

(* No jump is under way, so the command goes where saddr points.             *)
LEMMA PathAssertCmd ==
  ASSUME AddressInv, PathInv, NEW toggle \in BOOLEAN, AssertCmd(toggle, FALSE)
  PROVE  PathInv'
<1>1. /\ s2mm_data_state = "ASSERT_CMD" /\ s2mm_data_state' = "DELAY0" /\ mover' = "command"
      /\ Beside(FALSE, toggle, FALSE) /\ cmd_addr' = saddr
      /\ BurstInv /\ TypeOK /\ SwitchInv
  BY DEF AssertCmd, AddressInv
<1>2. toggled' <=> (toggle \/ toggle_buffer \/ (toggled /\ Switching))
  BY Zenon DEF AssertCmd
<1>3. toggle_buffer' => toggle \/ toggle_buffer
  BY <1>1, Zenon DEF Beside, SwitchRequest
<1> SUFFICES ASSUME ~toggled' PROVE ~Switching' /\ saddr' = cmd_addr'
  BY <1>1, <1>2, <1>3 DEF PathInv
<1>4. ~toggle_buffer /\ ~buff_switch_request /\ ~buff_switch_response
  BY <1>1, <1>2 DEF PathInv, Switching
<1>5. ~buff_switch_request' /\ ~buff_switch_response'
  BY <1>1, <1>4, RequestEffect, SwitchEffect DEF Unposted
<1>6. saddr' = saddr
  BY <1>1, <1>4, UsedEffect
<1> QED BY <1>1, <1>5, <1>6 DEF Switching

(* The address is posted before a jump can be asked for.                     *)
LEMMA PathDelay0 ==
  ASSUME AddressInv, BurstInv', PathInv, NEW post \in BOOLEAN, NEW toggle \in BOOLEAN,
         Delay0(post, toggle, FALSE)
  PROVE  PathInv'
<1>1. /\ s2mm_data_state = "DELAY0" /\ s2mm_data_state' \in {"DELAY0", "READ_FIFO"}
      /\ Beside(post, toggle, FALSE) /\ cmd_addr' = cmd_addr /\ clear_mode = FALSE
      /\ next_addr' = (IF post THEN cmd_addr + BTT ELSE next_addr) /\ Mover(post)
      /\ BurstInv /\ TypeOK /\ SwitchInv /\ PacketInv /\ RoomInv /\ Resting
      /\ mover \in {"command", "data"}
      /\ ~post /\ mover = "command" => s2mm_data_state' = "DELAY0"
  BY DEF Delay0, Mover, AddressInv, BurstInv, NoClear
<1>2. toggled' <=> (toggled \/ toggle)
  BY Zenon DEF Delay0
<1>3. (toggle_buffer' => toggled') /\ (~toggled' => ~toggled /\ ~toggle_buffer)
  BY <1>1, <1>2, ToggleEffect DEF PathInv
<1>4. mover' = (IF post THEN "data" ELSE mover) /\ (post => mover = "command")
  BY <1>1 DEF Mover, Resting, At
<1> SUFFICES ASSUME ~toggled'
             PROVE  IF s2mm_data_state' = "DELAY0" /\ mover' = "command"
                    THEN ~Switching' /\ saddr' = cmd_addr'
                    ELSE (Followed \/ AfterReset)'
  BY <1>1, <1>3 DEF PathInv
<1>5. CASE mover = "command"
  <2>1. ~buff_switch_request /\ ~buff_switch_response /\ saddr = cmd_addr /\ Unposted
    BY <1>1, <1>3, <1>5 DEF PathInv, Switching, Unposted
  <2>2. ~buff_switch_request' /\ ~buff_switch_response'
    BY <1>1, <1>3, <2>1, RequestEffect, SwitchEffect
  <2>3. CASE ~post
    <3>1. saddr' = saddr
      BY <1>1, <2>1, <2>3, UsedEffect
    <3> QED BY <1>1, <1>4, <1>5, <2>1, <2>2, <2>3, <3>1 DEF Switching
  <2>4. CASE post
    <3>1. Used + BTT + 4 <= RAM_BUFF_SIZE
      BY <1>1, <2>1, RoomForBurst
    <3>2. saddr' = saddr + BTT /\ (saddr' < TOP_HALF_ADDRESS <=> saddr < TOP_HALF_ADDRESS)
      BY <1>1, <2>1, <2>4, <3>1, UsedEffect
    <3>3. saddr' = next_addr' /\ Buffer(next_addr') = Buffer(cmd_addr')
      BY <1>1, <2>1, <2>4, <3>2 DEF Buffer
    <3>4. Followed'
      BY <2>2, <3>3 DEF Followed
    <3> QED BY <1>4, <2>4, <3>4
  <2> QED BY <2>3, <2>4
<1>6. CASE mover = "data"
  <2>1. Followed \/ AfterReset
    BY <1>1, <1>3, <1>6 DEF PathInv
  <2>2. post = FALSE /\ mover' = "data" /\ next_addr' = next_addr
    BY <1>1, <1>4, <1>6
  <2>3. (Followed \/ AfterReset)'
    BY <1>1, <1>3, <2>1, <2>2, FollowedStep, AfterResetStep
  <2> QED BY <2>2, <2>3
<1> QED BY <1>1, <1>5, <1>6

(* A jump asked for while the burst is read has been made at its end.        *)
LEMMA PathReadFifo ==
  ASSUME AddressInv, BurstInv', PathInv, NEW toggle \in BOOLEAN, ReadFifo(toggle, FALSE)
  PROVE  PathInv'
<1>1. /\ s2mm_data_state = "READ_FIFO" /\ Beside(FALSE, toggle, FALSE)
      /\ cmd_addr' = cmd_addr /\ next_addr' = next_addr
      /\ BurstInv /\ TypeOK /\ SwitchInv /\ RoomInv
  BY DEF ReadFifo, NoPost, Mover, AddressInv
<1>2. toggled' <=> (toggled \/ toggle)
  BY Zenon DEF ReadFifo, NoPost
<1>3. (toggle_buffer' => toggled') /\ (~toggled' => ~toggled /\ ~toggle_buffer)
  BY <1>1, <1>2, ToggleEffect DEF PathInv
<1>4. s2mm_data_state' = IF Closing THEN "DONE" ELSE "READ_FIFO"
  BY <1>1, ReadEffect
<1> SUFFICES ASSUME ~toggled'
             PROVE  (Followed \/ AfterReset)' /\ (Closing => (buff_switch_request' => buff_switch_response'))
  BY <1>3, <1>4 DEF PathInv
<1>5. (Followed \/ AfterReset)'
  BY <1>1, <1>3, FollowedStep, AfterResetStep DEF PathInv
<1>6. ASSUME Closing, buff_switch_request' PROVE buff_switch_response'
  <2>1. CASE buff_switch_request
    BY <1>1, <2>1, SwitchEffect
  <2>2. CASE ~buff_switch_request
    <3>1. ~fifo_out.busy /\ Used > Threshold
      BY <1>1, <1>3, <1>6, <2>2, RequestEffect
    <3> QED BY <1>1, <1>6, <2>2, <3>1 DEF RoomInv
  <2> QED BY <2>1, <2>2
<1> QED BY <1>5, <1>6

(* Nothing new is asked for when the burst is over.                          *)
LEMMA PathDone ==
  ASSUME AddressInv, PathInv, NEW toggle \in BOOLEAN, Done(toggle, FALSE)
  PROVE  PathInv'
<1>1. /\ s2mm_data_state = "DONE" /\ s2mm_data_state' = "IDLE"
      /\ Beside(FALSE, toggle, FALSE) /\ cmd_addr' = cmd_addr /\ next_addr' = next_addr
      /\ BurstInv /\ TypeOK /\ SwitchInv
  BY DEF Done, NoPost, Mover, AddressInv
<1>2. toggled' <=> (toggled \/ toggle)
  BY Zenon DEF Done, NoPost
<1>3. (toggle_buffer' => toggled') /\ (~toggled' => ~toggled /\ ~toggle_buffer)
  BY <1>1, <1>2, ToggleEffect DEF PathInv
<1> SUFFICES ASSUME ~toggled' PROVE ~buff_switch_request' /\ (Followed \/ AfterReset)'
  BY <1>1, <1>3 DEF PathInv
<1>4. (buff_switch_request => buff_switch_response) /\ (Followed \/ AfterReset)
  BY <1>1, <1>3 DEF PathInv
<1>5. ~buff_switch_request'
  BY <1>1, <1>3, <1>4, RequestEffect DEF Unposted
<1> QED BY <1>1, <1>3, <1>4, <1>5, FollowedStep, AfterResetStep

(* A reset of an idle controller.                                            *)
LEMMA PathReset ==
  ASSUME PathInv, TRUE \in RESETS, Reset
  PROVE  PathInv'
  BY DEF Reset, PathInv, AfterReset

(* The invariants of the addresses and of the jumps are kept by every step.  *)
LEMMA PathNext ==
  ASSUME NoClears, AddressInv, PathInv, [Next]_vars, [QuietReset]_vars
  PROVE  PathInv'
<1>0. BurstInv /\ BurstInv'
  BY BurstNext DEF AddressInv
<1>1. CASE Edge /\ ~(TRUE \in RESETS /\ Reset)
  <2>1. PICK toggle \in TOGGLES :
          \/ \E cmd_tready \in READIES : Idle(cmd_tready, toggle, FALSE)
          \/ AssertCmd(toggle, FALSE)
          \/ \E post \in BOOLEAN : Delay0(post, toggle, FALSE)
          \/ ReadFifo(toggle, FALSE)
          \/ ClearMem(toggle, FALSE)
          \/ ContinueClear(toggle, FALSE)
          \/ Done(toggle, FALSE)
    BY <1>1 DEF Edge, NoClears
  <2>2. ~ClearMem(toggle, FALSE) /\ ~ContinueClear(toggle, FALSE)
    BY <1>0 DEF BurstInv, ClearMem, ContinueClear
  <2>3. toggle \in BOOLEAN
    BY DmaAssumption DEF DmaAssumption
  <2> QED BY <1>0, <2>1, <2>2, <2>3, PathIdle, PathAssertCmd, PathDelay0, PathReadFifo, PathDone
<1>2. CASE WritePacket \/ WriteWord
  <2>1. KeepController
    BY <1>2 DEF WritePacket, WriteWord
  <2> QED BY <2>1 DEF KeepController, fsmVars, moverVars, addrVars, switchVars, history, PathInv,
          Followed, AfterReset, Switching, Buffer
<1>3. ~LoseWord
  BY <1>0 DEF BurstInv, NoClear, LoseWord
<1>4. CASE UNCHANGED vars
  BY <1>4 DEF vars, fsmVars, moverVars, addrVars, switchVars, history, PathInv, Followed,
     AfterReset, Switching, Buffer
<1>5. CASE TRUE \in RESETS /\ Reset
  BY <1>5, PathReset
<1> QED BY <1>1, <1>2, <1>3, <1>4, <1>5 DEF Next

(* The first command goes to the base of buffer A.                           *)
LEMMA PathInit == Init => PathInv
  BY DEF Init, PathInv, Followed, Switching, Buffer

(* The bursts fill a buffer one after the other, without holes and without   *)
(* overwriting: a command starts where the last burst ended, or at the base  *)
(* of the other buffer, unless software's toggle is under way; after a reset *)
(* it starts at the base of buffer A.                                        *)
THEOREM BurstsAreContiguous == NoClears => (Spec /\ ResetsAtRest => []ContiguousBursts)
<1> SUFFICES ASSUME NoClears PROVE Spec /\ ResetsAtRest => []ContiguousBursts
  OBVIOUS
<1>1. AddressInv /\ [Next]_vars /\ [QuietReset]_vars => AddressInv'
  BY AddressNext
<1>2. AddressInv /\ PathInv /\ [Next]_vars /\ [QuietReset]_vars => PathInv'
  BY PathNext
<1>3. PathInv => ContiguousBursts
  BY DEF PathInv, Followed, AfterReset, ContiguousBursts, Buffer
<1> QED BY <1>1, <1>2, <1>3, AddressInit, PathInit, PTL DEF Spec, ResetsAtRest

-----------------------------------------------------------------------------
(* The monitor and the occupancy.                                            *)

(* The monitor follows ram_in_a_buff, which follows the address.             *)
LEMMA MonitorEdge ==
  ASSUME BurstInv, TypeOK, SwitchInv, MonitorInv, NEW post \in BOOLEAN, NEW toggle,
         Beside(post, toggle, FALSE)
  PROVE  /\ MonitorInv'
         /\ buff_switched_pulse' <=> buff_switch_response /\ ~buff_switch_request
<1>1. /\ buff_switch_response' <=> buff_switch_request
      /\ buff_switch_request /\ buff_switch_response => ~buff_switch_request'
      /\ buff_switch_request /\ ~buff_switch_response => buff_switch_request'
      /\ ram_in_a_buff' <=> saddr < TOP_HALF_ADDRESS
      /\ current_buffer_reg' <=> ram_in_a_buff
      /\ buff_switched_pulse' <=> ram_in_a_buff # current_buffer_reg
  BY SwitchEffect
<1>2. ram_in_a_buff \in BOOLEAN /\ current_buffer_reg \in BOOLEAN
  BY DEF TypeOK
<1>3. buff_switched_pulse' <=> buff_switch_response /\ ~buff_switch_request
  BY <1>1, <1>2 DEF MonitorInv
<1>4. (ram_in_a_buff <=> saddr < TOP_HALF_ADDRESS)
        <=> ~(buff_switch_request /\ buff_switch_response)
  BY Sizes DEF SwitchInv, TypeOK
<1>5. (current_buffer_reg' <=> ram_in_a_buff')
        <=> ~(buff_switch_response' /\ ~buff_switch_request')
  BY <1>1, <1>4
<1> QED BY <1>1, <1>3, <1>5 DEF MonitorInv

(* What an edge does to the occupancy of the buffer in use and of the other. *)
LEMMA OccEffect ==
  ASSUME TypeOK, SwitchInv, NEW post \in BOOLEAN, NEW toggle, Beside(post, toggle, FALSE),
         NEW buff \in {"A", "B"}, NEW used, used = IF ram_in_a_buff THEN "A" ELSE "B"
  PROVE  occ(buff)' = IF buff # used THEN occ(buff)
                      ELSE IF buff_switched_pulse
                           THEN IF buff = "A" THEN BOT_HALF_ADDRESS ELSE TOP_HALF_ADDRESS
                      ELSE IF post THEN saddr + BTT ELSE occ(buff)
<1>1. /\ ram_buff_a_occupancy' =
           NextOccupancy(post, ram_buff_a_occupancy, ram_in_a_buff, BOT_HALF_ADDRESS)
      /\ ram_buff_b_occupancy' =
           NextOccupancy(post, ram_buff_b_occupancy, ~ram_in_a_buff, TOP_HALF_ADDRESS)
  BY DEF Beside, Occupancy
<1>2. ~guardrail_err
  BY DEF SwitchInv
<1>3. CASE buff = "A"
  BY <1>1, <1>2, <1>3 DEF NextOccupancy, occ
<1>4. CASE buff = "B"
  BY <1>1, <1>2, <1>4 DEF NextOccupancy, occ
<1> QED BY <1>3, <1>4

(* Once a burst has been counted, a jump marks the buffer it enters empty    *)
(* and leaves the end of the other one.                                      *)
LEMMA CountedStep ==
  ASSUME Undisturbed, AddressInv, MonitorInv, NEW toggle \in BOOLEAN, Beside(FALSE, toggle, FALSE),
         ~toggle_buffer, Followed \/ AfterReset, Counted, cmd_addr' = cmd_addr, next_addr' = next_addr
  PROVE  Counted'
<1>0. Followed
  BY DEF AfterReset, Undisturbed
<1>1. BurstInv /\ TypeOK /\ SwitchInv /\ RoomInv
  BY DEF AddressInv
<1>2. /\ buff_switch_response' <=> buff_switch_request
      /\ buff_switched_pulse' <=> buff_switch_response /\ ~buff_switch_request
  BY <1>1, MonitorEdge, SwitchEffect
<1>3. /\ buff_switch_request /\ ~buff_switch_response =>
           saddr' = IF saddr < TOP_HALF_ADDRESS THEN TOP_HALF_ADDRESS ELSE BOT_HALF_ADDRESS
      /\ buff_switch_request /\ buff_switch_response => saddr' = saddr
      /\ ~buff_switch_request => saddr' = saddr
  BY <1>1, UsedEffect
<1>4. BOT_HALF_ADDRESS < TOP_HALF_ADDRESS /\ BOT_HALF_ADDRESS \in Nat /\ TOP_HALF_ADDRESS \in Nat
  <2>1. RAM_BUFF_SIZE > 0
    BY Sizes
  <2> QED BY <2>1, Sizes
<1>5. \A buff \in {"A", "B"} : ~buff_switched_pulse => occ(buff)' = occ(buff)
  BY <1>1, OccEffect
<1>6. \A a : Buffer(a) \in {"A", "B"}
  BY DEF Buffer
<1>7. /\ Buffer(cmd_addr)' = Buffer(cmd_addr) /\ Buffer(next_addr)' = Buffer(next_addr)
      /\ Buffer(next_addr) = Buffer(cmd_addr)
      /\ saddr' = saddr => Buffer(saddr)' = Buffer(saddr)
  BY <1>0 DEF Followed, Buffer
<1>8. CASE saddr = next_addr
  <2>1. ~buff_switched_pulse /\ occ(Buffer(saddr)) = saddr
    BY <1>8 DEF Counted
  <2>2. ~buff_switch_response
    BY <1>0, <1>4, <1>8 DEF Followed, Buffer
  <2>3. ~buff_switched_pulse'
    BY <1>2, <2>2
  <2>4. occ(Buffer(cmd_addr))' = next_addr'
    BY <1>5, <1>6, <1>7, <1>8, <2>1 DEF occ
  <2>5. CASE buff_switch_request
    <3>1. saddr' # next_addr'
      BY <1>3, <1>4, <1>8, <2>2, <2>5
    <3> QED BY <1>2, <2>4, <2>5, <3>1 DEF Counted
  <2>6. CASE ~buff_switch_request
    <3>1. saddr' = next_addr' /\ saddr' = saddr
      BY <1>3, <1>8, <2>6
    <3>2. occ(Buffer(saddr))' = saddr'
      BY <1>7, <1>8, <2>4, <3>1 DEF occ
    <3> QED BY <2>3, <3>1, <3>2 DEF Counted
  <2> QED BY <2>5, <2>6
<1>9. CASE saddr # next_addr
  <2>1. /\ occ(Buffer(cmd_addr)) = next_addr
        /\ ~buff_switch_response => buff_switched_pulse \/ occ(Buffer(saddr)) = saddr
    BY <1>9 DEF Counted
  <2>2. /\ buff_switch_request => buff_switch_response
        /\ saddr = IF Buffer(cmd_addr) = "A" THEN TOP_HALF_ADDRESS ELSE BOT_HALF_ADDRESS
    BY <1>0, <1>9 DEF Followed
  <2>3. saddr' = saddr /\ saddr' # next_addr'
    BY <1>3, <1>9, <2>2
  <2>4. Buffer(saddr) # Buffer(cmd_addr)
    BY <1>4, <1>6, <2>2 DEF Buffer
  <2>5. buff_switched_pulse =>
          /\ ram_in_a_buff <=> saddr < TOP_HALF_ADDRESS
          /\ ~buff_switch_response
    BY <1>1 DEF MonitorInv, SwitchInv
  <2>6. PICK used \in {"A", "B"} : used = IF ram_in_a_buff THEN "A" ELSE "B"
    OBVIOUS
  <2>7. buff_switched_pulse => used = Buffer(saddr)
    BY <2>5, <2>6 DEF Buffer
  <2>8. \A buff \in {"A", "B"} :
          occ(buff)' = IF buff # used THEN occ(buff)
                       ELSE IF buff_switched_pulse
                            THEN IF buff = "A" THEN BOT_HALF_ADDRESS ELSE TOP_HALF_ADDRESS
                       ELSE occ(buff)
    BY <1>1, <2>6, OccEffect
  <2>9. occ(Buffer(cmd_addr))' = next_addr'
    <3>1. PICK b \in {"A", "B"} : b = Buffer(cmd_addr)
      BY <1>6
    <3>2. occ(b)' = occ(b)
      BY <2>4, <2>7, <2>8, <3>1
    <3> QED BY <1>7, <2>1, <3>1, <3>2 DEF occ
  <2>10. ~buff_switch_response' => buff_switched_pulse' \/ occ(Buffer(saddr))' = saddr'
    <3> SUFFICES ASSUME ~buff_switch_response', ~buff_switched_pulse'
                 PROVE  occ(Buffer(saddr))' = saddr'
      OBVIOUS
    <3>1. ~buff_switch_request /\ ~buff_switch_response
      BY <1>2
    <3>2. PICK s \in {"A", "B"} : s = Buffer(saddr)
      BY <1>6
    <3>3. occ(s)' = saddr
      <4>1. CASE buff_switched_pulse
        <5>1. occ(s)' = IF s = "A" THEN BOT_HALF_ADDRESS ELSE TOP_HALF_ADDRESS
          BY <2>7, <2>8, <3>2, <4>1
        <5> QED BY <1>4, <2>2, <3>2, <5>1 DEF Buffer
      <4>2. CASE ~buff_switched_pulse
        <5>1. occ(s) = saddr
          BY <2>1, <3>1, <3>2, <4>2 DEF occ
        <5> QED BY <1>5, <3>2, <4>2, <5>1
      <4> QED BY <4>1, <4>2
    <3> QED BY <1>7, <2>3, <3>2, <3>3 DEF occ
  <2> QED BY <2>3, <2>9, <2>10 DEF Counted
<1> QED BY <1>8, <1>9

(* IDLE, READ_FIFO and DONE leave a burst that has been counted.             *)
LEMMA OccAfterPost ==
  ASSUME Undisturbed, AddressInv, PathInv, MonitorInv, OccInv, NEW toggle \in BOOLEAN,
         NoPost(toggle, FALSE), s2mm_data_state \in {"IDLE", "READ_FIFO", "DONE"},
         s2mm_data_state' # "DELAY0"
  PROVE  OccInv'
<1>1. /\ Beside(FALSE, toggle, FALSE) /\ cmd_addr' = cmd_addr /\ next_addr' = next_addr
      /\ BurstInv /\ TypeOK /\ SwitchInv
  BY DEF NoPost, Mover, AddressInv
<1>2. toggled' <=> (toggled \/ toggle)
  BY Zenon DEF NoPost
<1>3. ~toggled' => ~toggled /\ ~toggle_buffer
  BY <1>1, <1>2, ToggleEffect DEF PathInv
<1> SUFFICES ASSUME ~toggled' PROVE Counted'
  BY DEF OccInv
<1> QED BY <1>1, <1>3, CountedStep DEF PathInv, OccInv

(* The command: no mark can come before its address is posted.               *)
LEMMA OccAssertCmd ==
  ASSUME AddressInv, PathInv, MonitorInv, NEW toggle \in BOOLEAN, AssertCmd(toggle, FALSE)
  PROVE  OccInv'
<1>1. /\ s2mm_data_state = "ASSERT_CMD" /\ s2mm_data_state' = "DELAY0" /\ mover' = "command"
      /\ Beside(FALSE, toggle, FALSE) /\ BurstInv /\ TypeOK /\ SwitchInv
  BY DEF AssertCmd, AddressInv
<1>2. toggled' <=> (toggle \/ toggle_buffer \/ (toggled /\ Switching))
  BY Zenon DEF AssertCmd
<1> SUFFICES ASSUME ~toggled' PROVE ~buff_switched_pulse'
  BY <1>1 DEF OccInv
<1>3. ~buff_switch_request /\ ~buff_switch_response
  BY <1>1, <1>2 DEF PathInv, Switching
<1> QED BY <1>1, <1>3, MonitorEdge

(* Posting counts the burst.                                                 *)
LEMMA OccDelay0 ==
  ASSUME Undisturbed, AddressInv, PathInv, MonitorInv, OccInv, NEW post \in BOOLEAN,
         NEW toggle \in BOOLEAN, Delay0(post, toggle, FALSE)
  PROVE  OccInv'
<1>1. /\ s2mm_data_state = "DELAY0" /\ s2mm_data_state' \in {"DELAY0", "READ_FIFO"}
      /\ Beside(post, toggle, FALSE) /\ cmd_addr' = cmd_addr
      /\ next_addr' = (IF post THEN cmd_addr + BTT ELSE next_addr) /\ Mover(post)
      /\ BurstInv /\ TypeOK /\ SwitchInv /\ RoomInv /\ Resting
      /\ mover \in {"command", "data"}
      /\ ~post /\ mover = "command" => s2mm_data_state' = "DELAY0"
  BY DEF Delay0, Mover, AddressInv, BurstInv, NoClear
<1>2. toggled' <=> (toggled \/ toggle)
  BY Zenon DEF Delay0
<1>3. ~toggled' => ~toggled /\ ~toggle_buffer
  BY <1>1, <1>2, ToggleEffect DEF PathInv
<1>4. mover' = (IF post THEN "data" ELSE mover) /\ (post => mover = "command")
  BY <1>1 DEF Mover, Resting, At
<1> SUFFICES ASSUME ~toggled'
             PROVE  IF s2mm_data_state' = "DELAY0" /\ mover' = "command"
                    THEN ~buff_switched_pulse' ELSE Counted'
  BY DEF OccInv
<1>6. CASE mover = "command"
  <2>1. ~buff_switch_request /\ ~buff_switch_response /\ saddr = cmd_addr /\ Unposted
    BY <1>1, <1>3, <1>6 DEF PathInv, Switching, Unposted
  <2>2. ~buff_switched_pulse /\ ~buff_switched_pulse'
    BY <1>1, <1>3, <1>6, <2>1, MonitorEdge DEF OccInv
  <2>3. CASE ~post
    BY <1>1, <1>4, <1>6, <2>2, <2>3
  <2>4. CASE post
    <3>1. Used + BTT + 4 <= RAM_BUFF_SIZE
      BY <1>1, <2>1, RoomForBurst DEF AddressInv
    <3>2. saddr' = saddr + BTT /\ (saddr' < TOP_HALF_ADDRESS <=> saddr < TOP_HALF_ADDRESS)
      BY <1>1, <2>1, <2>4, <3>1, UsedEffect
    <3>3. PICK s \in {"A", "B"} : s = Buffer(saddr)
      BY DEF Buffer
    <3>4. s = IF ram_in_a_buff THEN "A" ELSE "B"
      BY <1>1, <2>1, <3>3 DEF SwitchInv, Buffer
    <3>5. occ(s)' = saddr + BTT
      BY <1>1, <2>2, <2>4, <3>4, OccEffect
    <3>6. Buffer(saddr)' = s /\ saddr' = next_addr'
      BY <1>1, <2>1, <2>4, <3>2, <3>3 DEF Buffer
    <3>7. Counted'
      BY <2>2, <3>2, <3>5, <3>6 DEF Counted, occ
    <3> QED BY <1>4, <2>4, <3>7
  <2> QED BY <2>3, <2>4
<1>7. CASE mover = "data"
  <2>1. (Followed \/ AfterReset) /\ Counted
    BY <1>1, <1>3, <1>7 DEF PathInv, OccInv
  <2>2. post = FALSE /\ mover' = "data" /\ next_addr' = next_addr
    BY <1>1, <1>4, <1>7
  <2>3. Counted'
    BY <1>1, <1>3, <2>1, <2>2, CountedStep
  <2> QED BY <2>2, <2>3
<1> QED BY <1>1, <1>6, <1>7

-----------------------------------------------------------------------------
(* Every step keeps the occupancy.                                           *)

(* The writer changes neither address nor jump.                              *)
LEMMA OccupancyWrite ==
  ASSUME OccupancyInv, KeepController
  PROVE  OccupancyInv'
  BY DEF OccupancyInv, MonitorInv, OccInv, Counted, occ, Buffer, KeepController,
     fsmVars, moverVars, addrVars, switchVars, occVars, history

(* All of it is kept by every step.                                          *)
LEMMA OccupancyNext ==
  ASSUME Undisturbed, AddressInv, PathInv, OccupancyInv, [Next]_vars
  PROVE  OccupancyInv'
<1>0. BurstInv /\ TypeOK /\ SwitchInv /\ MonitorInv /\ OccInv
  BY DEF AddressInv, OccupancyInv
<1>1. CASE Edge
  <2>1. PICK toggle \in TOGGLES :
          \/ \E cmd_tready \in READIES : Idle(cmd_tready, toggle, FALSE)
          \/ AssertCmd(toggle, FALSE)
          \/ \E post \in BOOLEAN : Delay0(post, toggle, FALSE)
          \/ ReadFifo(toggle, FALSE)
          \/ ClearMem(toggle, FALSE)
          \/ ContinueClear(toggle, FALSE)
          \/ Done(toggle, FALSE)
    BY <1>1 DEF Edge, NoClears, Undisturbed
  <2>2. ~ClearMem(toggle, FALSE) /\ ~ContinueClear(toggle, FALSE)
    BY <1>0 DEF BurstInv, ClearMem, ContinueClear
  <2>3. toggle \in BOOLEAN
    BY DmaAssumption DEF DmaAssumption
  <2>4. MonitorInv'
    <3>1. \E post \in BOOLEAN : Beside(post, toggle, FALSE)
      BY <2>1, <2>2 DEF Idle, AssertCmd, Delay0, ReadFifo, Done, NoPost
    <3> QED BY <1>0, <3>1, MonitorEdge
  <2>5. OccInv'
    <3>1. CASE s2mm_data_state \in {"ASSERT_CMD", "DELAY0"}
      BY <1>0, <2>1, <2>2, <2>3, <3>1, OccAssertCmd, OccDelay0 DEF Idle, ReadFifo, Done
    <3>2. CASE s2mm_data_state \notin {"ASSERT_CMD", "DELAY0"}
      <4>1. /\ NoPost(toggle, FALSE) /\ s2mm_data_state \in {"IDLE", "READ_FIFO", "DONE"}
            /\ s2mm_data_state' # "DELAY0"
        BY <2>1, <2>2, <3>2 DEF Idle, AssertCmd, Delay0, ReadFifo, Done
      <4> QED BY <1>0, <2>3, <4>1, OccAfterPost
    <3> QED BY <3>1, <3>2
  <2> QED BY <2>4, <2>5 DEF OccupancyInv
<1>2. CASE WritePacket \/ WriteWord \/ LoseWord
  BY <1>2, OccupancyWrite DEF WritePacket, WriteWord, LoseWord
<1>3. CASE UNCHANGED vars
  BY <1>3 DEF vars, fsmVars, moverVars, addrVars, switchVars, occVars, history,
     OccupancyInv, MonitorInv, OccInv, Counted, occ, Buffer
<1> QED BY <1>1, <1>2, <1>3 DEF Next

(* After power-up both buffers are empty.                                    *)
LEMMA OccupancyInit == Init => OccupancyInv
  BY Sizes DEF Init, OccupancyInv, MonitorInv, OccInv, Counted, occ, Buffer

(* What the occupancy registers tell the software is where the data ends, in *)
(* the buffer being filled and in the one just left, unless a toggle is under*)
(* way: for packets of any length, wherever in a burst they begin and end.   *)
THEOREM OccupancyIsExact == Undisturbed => (Spec => []OccupancyExact)
<1> SUFFICES ASSUME Undisturbed PROVE Spec => []OccupancyExact
  OBVIOUS
<1>1. AddressInv /\ [Next]_vars => AddressInv'
  BY NoResets, AddressNext
<1>2. AddressInv /\ PathInv /\ [Next]_vars => PathInv'
  BY NoResets, PathNext
<1>3. AddressInv /\ PathInv /\ OccupancyInv /\ [Next]_vars => OccupancyInv'
  BY OccupancyNext
<1>4. AddressInv /\ PathInv /\ OccupancyInv => OccupancyExact
  <2> SUFFICES ASSUME AddressInv, PathInv, OccupancyInv, ~toggled
               PROVE  /\ mover = "data" => occ(Buffer(cmd_addr)) = next_addr
                      /\ s2mm_data_state = "ASSERT_CMD" =>
                           /\ occ(Buffer(saddr)) = saddr \/ buff_switched_pulse
                           /\ saddr # next_addr => occ(Buffer(cmd_addr)) = next_addr
    BY DEF OccupancyExact, occ
  <2>1. CASE s2mm_data_state = "DELAY0" /\ mover = "command"
    BY <2>1
  <2>2. CASE ~(s2mm_data_state = "DELAY0" /\ mover = "command")
    <3>1. Counted /\ Followed
      BY <2>2 DEF OccupancyInv, OccInv, PathInv, AfterReset, Undisturbed
    <3>2. s2mm_data_state = "ASSERT_CMD" => ~buff_switch_response
      BY DEF PathInv, Switching
    <3> QED BY <3>1, <3>2 DEF Counted, Followed
  <2> QED BY <2>1, <2>2
<1> QED BY <1>1, <1>2, <1>3, <1>4, AddressInit, PathInit, OccupancyInit, PTL DEF Spec

=============================================================================
