-------------------------------- MODULE Drs --------------------------------
(***************************************************************************)
(* The controller of the DRS4 sampling chip, drs/src/drs.sv: the FSM that  *)
(* starts the domino wave, freezes it on a trigger and clocks the samples  *)
(* of the enabled channels out of the chip and into the DRS FIFO.          *)
(*                                                                         *)
(* An action of the FSM is one edge of `clock` in one of its states; the   *)
(* other clocked processes of the file take their step beside it.  Of the  *)
(* chip's pins only domino enable and domino write are kept; a word is the *)
(* channel and the sample it belongs to.  The parameter `pulse` is the     *)
(* register write that arrives at the edge, `trig` is trigger_i.           *)
(***************************************************************************)
EXTENDS Integers, FiniteSets

CONSTANTS
  ReadoutMasks,        (* values of the readout mask: sets of channels (0..8) *)
  SAMPLE_COUNT_MAX,    (* drs_ctl_sample_count_max, index of the last sample  *)
  ADC_LATENCY,         (* drs_ctl_adc_latency (9)                             *)
  WAIT_VDD_CLOCKS,     (* drs_ctl_wait_vdd_clocks (333)                       *)
  START_TIMER,         (* drs_ctl_start_timer (105)                           *)
  SPIKE_CLOCKS,        (* clocks that empty the read shift register (1024)    *)
  RSR_CLOCKS,          (* last value of drs_sr_count in INIT_RSR (1025)       *)
  SHIFT_CLOCKS,        (* last value of drs_sr_count in a configuration (7)   *)
  RD_MOD,              (* drs_rd_tmp_count wraps here (2^16)                  *)
  SR_MOD,              (* drs_sr_count wraps here (2^11)                      *)
  DMODE,               (* drs_ctl_dmode: TRUE is continuous domino            *)
  Pulses,              (* register writes: of "none", "start", "reinit",
                          "configure", "reset"                                *)
  MODES,               (* may software change the mode registers?             *)
  MASK_WHILE_READING   (* may the mask change while a readout is under way?   *)

ASSUME DrsAssumption ==
  /\ \A m \in ReadoutMasks : m \subseteq Nat /\ IsFiniteSet(m)
  /\ {SAMPLE_COUNT_MAX, ADC_LATENCY, WAIT_VDD_CLOCKS, START_TIMER} \subseteq Nat
  /\ {SPIKE_CLOCKS, RSR_CLOCKS, SHIFT_CLOCKS, RD_MOD, SR_MOD} \subseteq Nat
  /\ RD_MOD > WAIT_VDD_CLOCKS /\ RD_MOD > SPIKE_CLOCKS
  /\ RD_MOD > ADC_LATENCY + SAMPLE_COUNT_MAX + 2 /\ RD_MOD > 1
  /\ SR_MOD > RSR_CLOCKS /\ SR_MOD > SHIFT_CLOCKS
  /\ {DMODE, MODES, MASK_WHILE_READING} \subseteq BOOLEAN
  /\ "none" \in Pulses

VARIABLES
  drs_readout_state,
  drs_start_timer, drs_rd_tmp_count, drs_sr_count, drs_sample_count,
  drs_addr,                                    (* the channel being read      *)
  readout_mask_sr,                             (* channels still to be read   *)
  drs_ctl_first_chn, drs_ctl_last_chn, drs_ctl_next_chn,
  drs_trigger,                                 (* the register `trigger`      *)
  drs_reinit_request, drs_old_roi_mode,
  drs_dwrite_o, drs_denable_o,
  drs_word,                                    (* fifo_wen and fifo_wdata     *)
  (* registers of the board that software or the trigger link writes          *)
  drs_ctl_readout_mask_i, drs_ctl_roi_mode, drs_ctl_standby_mode,
  drs_ctl_spike_removal,
  (* history of the current readout, read by the properties only              *)
  due,                                         (* the word that should follow *)
  in_order                                     (* every word was the due one  *)

counters == <<drs_start_timer, drs_rd_tmp_count, drs_sr_count, drs_sample_count>>
channels == <<drs_addr, readout_mask_sr>>
lookup   == <<drs_ctl_first_chn, drs_ctl_last_chn, drs_ctl_next_chn>>
pins     == <<drs_dwrite_o, drs_denable_o>>
settings == <<drs_ctl_readout_mask_i, drs_ctl_roi_mode, drs_ctl_standby_mode,
              drs_ctl_spike_removal>>
history  == <<due, in_order>>
vars     == <<drs_readout_state, counters, channels, lookup, drs_trigger,
              drs_reinit_request, drs_old_roi_mode, pins, drs_word, settings, history>>

-----------------------------------------------------------------------------

NoWord == [ch |-> 0, sample |-> 0, wen |-> FALSE]

(* The priority encoders: the lowest and the highest channel of a mask.      *)
prienc9(mask)     == IF mask = {} THEN 0 ELSE CHOOSE c \in mask : \A d \in mask : c <= d
prienc9_rev(mask) == IF mask = {} THEN 0 ELSE CHOOSE c \in mask : \A d \in mask : d <= c

busy_o == drs_readout_state # "RUNNING"
idle_o == drs_readout_state \in {"IDLE", "INIT"}

(* From the frozen wave to the last sample.                                  *)
Reading == {"TRIGGER", "WAIT_VDD", "INIT_READOUT", "RSR_LOAD", "ADC_READOUT", "STOP_CELL"}

Inc(cnt, m) == (cnt + 1) % m

(* The processes beside the FSM, and the memory of a reinit pulse.           *)
Beside(trig) ==
  /\ drs_ctl_next_chn'  = prienc9(readout_mask_sr)
  /\ drs_ctl_first_chn' = prienc9(drs_ctl_readout_mask_i)
  /\ drs_ctl_last_chn'  = prienc9_rev(drs_ctl_readout_mask_i)
  /\ drs_trigger' = (trig /\ drs_ctl_readout_mask_i # {} /\ ~busy_o)
  /\ UNCHANGED settings

Memorise(pulse) == drs_reinit_request' = (drs_reinit_request \/ pulse = "reinit")

(* An edge in state `s` that is not a reset edge.                            *)
Edge(s, pulse, trig) ==
  /\ drs_readout_state = s
  /\ pulse # "reset"
  /\ Beside(trig)

Goto(s) == drs_readout_state' = s

KeepCounters == UNCHANGED counters
Silent == drs_word' = NoWord

-----------------------------------------------------------------------------

(* The reset branch.                                                         *)
Reset(pulse, trig) ==
  /\ pulse = "reset"
  /\ Beside(trig)
  /\ Goto("INIT")
  /\ drs_denable_o' = FALSE /\ drs_dwrite_o' = FALSE
  /\ drs_start_timer' = 0 /\ drs_rd_tmp_count' = 0
  /\ drs_sr_count' = 0 /\ drs_sample_count' = 0
  /\ drs_addr' = 0
  /\ drs_reinit_request' = TRUE /\ drs_old_roi_mode' = TRUE
  /\ Silent
  /\ UNCHANGED readout_mask_sr

InitChip(pulse, trig) ==
  /\ Edge("INIT", pulse, trig)
  /\ Goto(IF drs_rd_tmp_count # 1 THEN "INIT"
          ELSE IF drs_ctl_roi_mode THEN "INIT_RSR" ELSE "IDLE")
  /\ drs_reinit_request' = FALSE
  /\ drs_denable_o' = FALSE
  /\ drs_rd_tmp_count' = Inc(drs_rd_tmp_count, RD_MOD)
  /\ Silent
  /\ UNCHANGED <<drs_start_timer, drs_sr_count, drs_sample_count, channels,
                 drs_old_roi_mode, drs_dwrite_o>>

(* IDLE zeroes the counters the other states share; the mutant forgets the   *)
(* one of the shift registers.                                               *)
ZeroWithoutShift ==
  drs_start_timer' = 0 /\ drs_rd_tmp_count' = 0 /\ UNCHANGED drs_sr_count
ZeroCounters ==
  drs_start_timer' = 0 /\ drs_rd_tmp_count' = 0 /\ drs_sr_count' = 0

(* Of several reasons to leave IDLE the last one in the code wins.           *)
Idle(pulse, trig) ==
  /\ Edge("IDLE", pulse, trig)
  /\ Goto(IF drs_ctl_standby_mode THEN "STANDBY"
          ELSE IF ~drs_old_roi_mode /\ drs_ctl_roi_mode THEN "SPIKE_REMOVAL"
          ELSE IF drs_old_roi_mode /\ ~drs_ctl_roi_mode THEN "INIT_RSR"
          ELSE IF pulse = "configure" THEN "CONF_SETUP"
          ELSE IF drs_reinit_request THEN "INIT"
          ELSE IF pulse = "start" THEN "START_RUNNING"
          ELSE "IDLE")
  /\ drs_addr' = 0
  /\ ZeroCounters
  /\ drs_old_roi_mode' = drs_ctl_roi_mode
  /\ Memorise(pulse) /\ Silent
  /\ UNCHANGED <<drs_sample_count, readout_mask_sr, pins>>

StartRunning(pulse, trig) ==
  /\ Edge("START_RUNNING", pulse, trig)
  /\ IF drs_start_timer = START_TIMER
     THEN Goto("RUNNING") /\ UNCHANGED drs_start_timer
     ELSE /\ Goto(IF drs_reinit_request THEN "INIT" ELSE "START_RUNNING")
          /\ drs_start_timer' = drs_start_timer + 1
  /\ drs_denable_o' = TRUE /\ drs_dwrite_o' = TRUE
  /\ Memorise(pulse) /\ Silent
  /\ UNCHANGED <<drs_rd_tmp_count, drs_sr_count, drs_sample_count, channels,
                 drs_old_roi_mode>>

Running(pulse, trig) ==
  /\ Edge("RUNNING", pulse, trig)
  /\ IF drs_trigger \/ ~DMODE
     THEN Goto("TRIGGER") /\ drs_dwrite_o' = FALSE
     ELSE /\ Goto(IF drs_ctl_standby_mode THEN "IDLE"
                  ELSE IF drs_reinit_request THEN "INIT" ELSE "RUNNING")
          /\ UNCHANGED drs_dwrite_o
  /\ Memorise(pulse) /\ Silent /\ KeepCounters
  /\ UNCHANGED <<channels, drs_old_roi_mode, drs_denable_o>>

(* The mask that is read out is the one of this edge.                        *)
Trigger(pulse, trig) ==
  /\ Edge("TRIGGER", pulse, trig)
  /\ Goto("WAIT_VDD")
  /\ drs_addr' = drs_ctl_first_chn
  /\ readout_mask_sr' = drs_ctl_readout_mask_i
  /\ drs_sample_count' = 0 /\ drs_rd_tmp_count' = 0
  /\ Memorise(pulse) /\ Silent
  /\ UNCHANGED <<drs_start_timer, drs_sr_count, drs_old_roi_mode, pins>>

WaitVdd(pulse, trig) ==
  /\ Edge("WAIT_VDD", pulse, trig)
  /\ IF drs_rd_tmp_count = WAIT_VDD_CLOCKS
     THEN Goto("INIT_READOUT") /\ drs_rd_tmp_count' = 0
     ELSE /\ Goto(IF drs_reinit_request THEN "INIT" ELSE "WAIT_VDD")
          /\ drs_rd_tmp_count' = Inc(drs_rd_tmp_count, RD_MOD)
  /\ Memorise(pulse) /\ Silent
  /\ UNCHANGED <<drs_start_timer, drs_sr_count, drs_sample_count, channels,
                 drs_old_roi_mode, pins>>

InitReadout(pulse, trig) ==
  /\ \/ /\ Edge("INIT_READOUT", pulse, trig)
        /\ Goto(IF drs_reinit_request THEN "INIT" ELSE "RSR_LOAD")
     \/ /\ Edge("RSR_LOAD", pulse, trig)
        /\ Goto(IF drs_reinit_request THEN "INIT" ELSE "ADC_READOUT")
  /\ Memorise(pulse) /\ Silent /\ KeepCounters
  /\ UNCHANGED <<channels, drs_old_roi_mode, pins>>

(* The bit of the channel that is read is cleared at its second sample, so   *)
(* that the lookup has the next channel by the last one.  The mutants clear  *)
(* it too late for that, and not at all.                                     *)
ClearAtTheEnd == drs_sample_count = SAMPLE_COUNT_MAX
ClearNow      == drs_sample_count = 1

ClearNothing(mask) == mask
ClearBit(mask)     == mask \ {drs_ctl_next_chn}

WordOut == [ch |-> drs_addr, sample |-> drs_sample_count, wen |-> TRUE]

(* A word is written once the ADC's pipeline has filled.                     *)
WriteSample == IF drs_rd_tmp_count > ADC_LATENCY THEN drs_word' = WordOut ELSE Silent

(* Mutant: one sample too many.                                              *)
OnePastTheLast == drs_sample_count = SAMPLE_COUNT_MAX + 1
LastSample  == drs_sample_count = SAMPLE_COUNT_MAX
LastChannel == drs_addr = drs_ctl_last_chn

AdcReadout(pulse, trig) ==
  /\ Edge("ADC_READOUT", pulse, trig)
  /\ Goto(IF LastSample /\ LastChannel THEN "STOP_CELL"
          ELSE IF drs_reinit_request THEN "INIT" ELSE "ADC_READOUT")
  /\ WriteSample
  /\ drs_rd_tmp_count' = IF LastSample THEN 0 ELSE Inc(drs_rd_tmp_count, RD_MOD)
  /\ drs_sample_count' = IF LastSample THEN 0
                         ELSE IF drs_rd_tmp_count > ADC_LATENCY THEN drs_sample_count + 1
                         ELSE drs_sample_count
  /\ drs_addr' = IF ~LastSample THEN drs_addr
                 ELSE IF LastChannel THEN 0 ELSE drs_ctl_next_chn
  /\ readout_mask_sr' = IF LastSample /\ LastChannel THEN {}
                        ELSE IF ClearNow THEN ClearBit(readout_mask_sr)
                        ELSE readout_mask_sr
  /\ Memorise(pulse)
  /\ UNCHANGED <<drs_start_timer, drs_sr_count, drs_old_roi_mode, pins>>

StopCell(pulse, trig) ==
  /\ Edge("STOP_CELL", pulse, trig)
  /\ Goto("DONE")
  /\ Memorise(pulse) /\ Silent /\ KeepCounters
  /\ UNCHANGED <<channels, drs_old_roi_mode, pins>>

(* The start timer is not reset: START_RUNNING lasts one clock from here on. *)
Done(pulse, trig) ==
  /\ Edge("DONE", pulse, trig)
  /\ Goto(IF drs_ctl_spike_removal THEN "SPIKE_REMOVAL" ELSE "START_RUNNING")
  /\ drs_dwrite_o' = TRUE
  /\ Memorise(pulse) /\ Silent /\ KeepCounters
  /\ UNCHANGED <<channels, drs_old_roi_mode, drs_denable_o>>

SpikeRemoval(pulse, trig) ==
  /\ Edge("SPIKE_REMOVAL", pulse, trig)
  /\ Goto(IF drs_rd_tmp_count = SPIKE_CLOCKS THEN "START_RUNNING" ELSE "SPIKE_REMOVAL")
  /\ drs_rd_tmp_count' = Inc(drs_rd_tmp_count, RD_MOD)
  /\ Memorise(pulse) /\ Silent
  /\ UNCHANGED <<drs_start_timer, drs_sr_count, drs_sample_count, channels,
                 drs_old_roi_mode, pins>>

(* The configuration and the write shift register: a set-up state that zeroes*)
(* the counter, then a state that shifts until it has counted up.            *)
SetUp(s, next, pulse, trig) ==
  /\ Edge(s, pulse, trig)
  /\ Goto(next)
  /\ drs_sr_count' = 0
  /\ Memorise(pulse) /\ Silent
  /\ UNCHANGED <<drs_start_timer, drs_rd_tmp_count, drs_sample_count, channels,
                 drs_old_roi_mode, pins>>

Shift(s, next, last, pulse, trig) ==
  /\ Edge(s, pulse, trig)
  /\ Goto(IF drs_sr_count = last THEN next ELSE s)
  /\ drs_sr_count' = Inc(drs_sr_count, SR_MOD)
  /\ Memorise(pulse) /\ Silent
  /\ UNCHANGED <<drs_start_timer, drs_rd_tmp_count, drs_sample_count, channels,
                 drs_old_roi_mode, pins>>

Configure(pulse, trig) ==
  \/ SetUp("CONF_SETUP", "CONF_WRITE", pulse, trig)
  \/ Shift("CONF_WRITE", "WSR_SETUP", SHIFT_CLOCKS, pulse, trig)
  \/ SetUp("WSR_SETUP", "WSR_STROBE", pulse, trig)
  \/ Shift("WSR_STROBE", "IDLE", SHIFT_CLOCKS, pulse, trig)

InitRsr(pulse, trig) == Shift("INIT_RSR", "IDLE", RSR_CLOCKS, pulse, trig)

Standby(pulse, trig) ==
  /\ Edge("STANDBY", pulse, trig)
  /\ Goto(IF drs_ctl_standby_mode THEN "STANDBY" ELSE "IDLE")
  /\ Memorise(pulse) /\ Silent /\ KeepCounters
  /\ UNCHANGED <<channels, drs_old_roi_mode, pins>>

-----------------------------------------------------------------------------

(* The history of a readout: the first word due is the first sample of the   *)
(* lowest channel of the mask when the wave was stopped.                     *)
FirstDue(mask) == [ch |-> prienc9(mask), sample |-> 0, left |-> mask]
NothingDue     == FirstDue({})
AfterDue ==
  IF due.sample < SAMPLE_COUNT_MAX THEN [due EXCEPT !.sample = @ + 1]
  ELSE FirstDue(due.left \ {due.ch})

Due(word) == word.ch = due.ch /\ word.sample = due.sample /\ due.left # {}

History ==
  LET ended == drs_readout_state' \notin Reading
  IN /\ due' = IF drs_readout_state' = "TRIGGER" \/ ended THEN NothingDue
               ELSE IF drs_readout_state = "TRIGGER" THEN FirstDue(drs_ctl_readout_mask_i)
               ELSE IF drs_word'.wen THEN AfterDue ELSE due
     /\ in_order' = (ended \/ (in_order /\ (drs_word'.wen => Due(drs_word'))))

(* A register write between two edges.  The readout mask follows the trigger *)
(* link or software; the other registers are software's.  The mask a trigger *)
(* comes with stays until it is taken: the next packet on the link is        *)
(* thousands of clocks away.                                                 *)
WriteMask ==
  /\ ~drs_trigger /\ drs_readout_state # "TRIGGER"
  /\ MASK_WHILE_READING \/ drs_readout_state \notin Reading
  /\ drs_ctl_readout_mask_i' \in ReadoutMasks \ {drs_ctl_readout_mask_i}
  /\ UNCHANGED <<drs_readout_state, counters, channels, lookup, drs_trigger,
                 drs_reinit_request, drs_old_roi_mode, pins, drs_word,
                 drs_ctl_roi_mode, drs_ctl_standby_mode, drs_ctl_spike_removal,
                 history>>

WriteMode ==
  /\ MODES
  /\ \/ /\ drs_ctl_roi_mode' = ~drs_ctl_roi_mode
        /\ UNCHANGED <<drs_ctl_standby_mode, drs_ctl_spike_removal>>
     \/ /\ drs_ctl_standby_mode' = ~drs_ctl_standby_mode
        /\ UNCHANGED <<drs_ctl_roi_mode, drs_ctl_spike_removal>>
     \/ /\ drs_ctl_spike_removal' = ~drs_ctl_spike_removal
        /\ UNCHANGED <<drs_ctl_roi_mode, drs_ctl_standby_mode>>
  /\ UNCHANGED <<drs_readout_state, counters, channels, lookup, drs_trigger,
                 drs_reinit_request, drs_old_roi_mode, pins, drs_word,
                 drs_ctl_readout_mask_i, history>>

(* Power-up: the registers' defaults, ROI mode and spike removal on.         *)
Init ==
  /\ drs_readout_state = "INIT"
  /\ drs_start_timer = 0 /\ drs_rd_tmp_count = 0
  /\ drs_sr_count = 0 /\ drs_sample_count = 0
  /\ drs_addr = 0 /\ readout_mask_sr = {}
  /\ drs_ctl_first_chn = 0 /\ drs_ctl_last_chn = 0 /\ drs_ctl_next_chn = 0
  /\ drs_trigger = FALSE
  /\ drs_reinit_request = FALSE /\ drs_old_roi_mode = FALSE
  /\ drs_dwrite_o = FALSE /\ drs_denable_o = FALSE
  /\ drs_word = NoWord
  /\ drs_ctl_readout_mask_i \in ReadoutMasks
  /\ drs_ctl_roi_mode = TRUE /\ drs_ctl_standby_mode = FALSE
  /\ drs_ctl_spike_removal \in (IF MODES THEN {TRUE} ELSE BOOLEAN)
  /\ due = NothingDue /\ in_order = TRUE

FsmEdge(pulse, trig) ==
  \/ Reset(pulse, trig)
  \/ InitChip(pulse, trig)     \/ Idle(pulse, trig)
  \/ StartRunning(pulse, trig) \/ Running(pulse, trig)
  \/ Trigger(pulse, trig)      \/ WaitVdd(pulse, trig)
  \/ InitReadout(pulse, trig)  \/ AdcReadout(pulse, trig)
  \/ StopCell(pulse, trig)     \/ Done(pulse, trig)
  \/ SpikeRemoval(pulse, trig) \/ Configure(pulse, trig)
  \/ InitRsr(pulse, trig)      \/ Standby(pulse, trig)

(* An edge, and the history of the readout.                                  *)
ClockEdge(pulse, trig) ==
  /\ FsmEdge(pulse, trig)
  /\ History

SomeEdge == \E pulse \in Pulses, trig \in BOOLEAN : ClockEdge(pulse, trig)

Next == SomeEdge \/ WriteMask \/ WriteMode

(* The clock is free running.                                                *)
Spec == Init /\ [][Next]_vars /\ WF_vars(SomeEdge)

-----------------------------------------------------------------------------
(* Properties.                                                               *)

Channels == (UNION ReadoutMasks) \cup {0}

(* Every register stays within its range; a channel address is one of a mask.*)
TypeOK ==
  /\ drs_readout_state \in {"INIT", "IDLE", "START_RUNNING", "RUNNING", "SPIKE_REMOVAL",
                            "DONE", "CONF_SETUP", "CONF_WRITE", "WSR_SETUP",
                            "WSR_STROBE", "INIT_RSR", "STANDBY"} \cup Reading
  /\ drs_start_timer \in 0..START_TIMER
  /\ drs_rd_tmp_count \in 0..(RD_MOD - 1) /\ drs_sr_count \in 0..(SR_MOD - 1)
  /\ drs_sample_count \in 0..SAMPLE_COUNT_MAX
  /\ drs_addr \in Channels /\ readout_mask_sr \in SUBSET Channels
  /\ {drs_ctl_first_chn, drs_ctl_last_chn, drs_ctl_next_chn} \subseteq Channels
  /\ {drs_trigger, drs_reinit_request, drs_old_roi_mode, drs_dwrite_o,
      drs_denable_o, in_order} \subseteq BOOLEAN
  /\ drs_word \in [ch : Channels, sample : 0..SAMPLE_COUNT_MAX, wen : BOOLEAN]
  /\ drs_ctl_readout_mask_i \in ReadoutMasks
  /\ {drs_ctl_roi_mode, drs_ctl_standby_mode, drs_ctl_spike_removal} \subseteq BOOLEAN
  /\ due \in [ch : Channels, sample : 0..SAMPLE_COUNT_MAX, left : SUBSET Channels]

(* A readout that is finished wrote every sample of every enabled channel,   *)
(* channels and samples in ascending order, and nothing else: the lookahead  *)
(* of the next channel, the two counters and the registered first and last   *)
(* channels agree about where a channel ends.                                *)
ReadsMask == drs_readout_state = "STOP_CELL" => in_order /\ due.left = {}

(* The states that count leave on equality with a limit, and two counters    *)
(* serve seven of them: each must start low enough to meet its limit, or it  *)
(* lasts until the counter wraps and gives the chip the wrong clocks.        *)
NoOvershoot ==
  /\ drs_readout_state = "WAIT_VDD"      => drs_rd_tmp_count <= WAIT_VDD_CLOCKS
  /\ drs_readout_state = "SPIKE_REMOVAL" => drs_rd_tmp_count <= SPIKE_CLOCKS
  /\ drs_readout_state = "INIT_RSR"      => drs_sr_count <= RSR_CLOCKS
  /\ drs_readout_state \in {"CONF_WRITE", "WSR_STROBE"} => drs_sr_count <= SHIFT_CLOCKS
  /\ drs_readout_state = "ADC_READOUT" =>
       drs_rd_tmp_count <= ADC_LATENCY + 1 + SAMPLE_COUNT_MAX

(* Nothing the FSM does lasts for ever, whatever software writes meanwhile:  *)
(* it comes back to where it is ready for a trigger or waits for software,   *)
(* or it is started anew.                                                    *)
ComesToRest == []<>(drs_readout_state \in {"RUNNING", "IDLE", "STANDBY", "INIT"})

=============================================================================
