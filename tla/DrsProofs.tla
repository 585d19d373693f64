----------------------------- MODULE DrsProofs -----------------------------
(***************************************************************************)
(* Theorems about the DRS controller for every value of its settings: the  *)
(* counters that several states share always meet the limit they are       *)
(* compared with, every register keeps its range, and a finished readout   *)
(* wrote exactly the samples of the mask.                                  *)
(***************************************************************************)
EXTENDS Drs, NatSets, TLAPS

LEMMA SettingTypes ==
  /\ SAMPLE_COUNT_MAX \in Nat /\ ADC_LATENCY \in Nat /\ WAIT_VDD_CLOCKS \in Nat
  /\ SPIKE_CLOCKS \in Nat /\ RSR_CLOCKS \in Nat /\ SHIFT_CLOCKS \in Nat
  /\ RD_MOD \in Nat /\ SR_MOD \in Nat
  /\ RD_MOD > WAIT_VDD_CLOCKS /\ RD_MOD > SPIKE_CLOCKS
  /\ RD_MOD > ADC_LATENCY + SAMPLE_COUNT_MAX + 2 /\ RD_MOD > 1
  /\ SR_MOD > RSR_CLOCKS /\ SR_MOD > SHIFT_CLOCKS
  BY DrsAssumption

(* A counter is a number below its modulus; below the last value it counts.  *)
LEMMA IncBounds ==
  ASSUME NEW m \in Nat, m > 0, NEW cnt \in 0..(m - 1)
  PROVE  /\ Inc(cnt, m) \in 0..(m - 1)
         /\ cnt < m - 1 => Inc(cnt, m) = cnt + 1
         /\ Inc(cnt, m) \in {0, cnt + 1}
<1>1. CASE cnt = m - 1
  <2>1. (cnt + 1) % m = 0
    BY <1>1
  <2> QED BY <2>1, <1>1 DEF Inc
<1>2. CASE cnt < m - 1
  <2>1. (cnt + 1) % m = cnt + 1
    BY <1>2
  <2> QED BY <2>1, <1>2 DEF Inc
<1> QED BY <1>1, <1>2

(* The states in which a counter may be anything: those that count with it   *)
(* and those from which the next state zeroes it.                            *)
ShiftStates == {"CONF_WRITE", "WSR_SETUP", "WSR_STROBE", "INIT_RSR", "IDLE"}
ZeroStates  == {"INIT_READOUT", "RSR_LOAD", "STOP_CELL", "DONE"}

CounterTypes ==
  /\ drs_rd_tmp_count \in 0..(RD_MOD - 1)
  /\ drs_sr_count \in 0..(SR_MOD - 1)
  /\ drs_sample_count \in Nat

(* In a readout the sample follows the count of shift clocks.                *)
SampleFollows ==
  drs_readout_state = "ADC_READOUT" =>
    /\ drs_sample_count <= SAMPLE_COUNT_MAX
    /\ IF drs_rd_tmp_count <= ADC_LATENCY THEN drs_sample_count = 0
       ELSE drs_rd_tmp_count = ADC_LATENCY + 1 + drs_sample_count

CountersInv ==
  /\ CounterTypes
  /\ NoOvershoot
  /\ drs_readout_state \notin ShiftStates => drs_sr_count = 0
  /\ drs_readout_state \in ZeroStates => drs_rd_tmp_count = 0
  /\ drs_readout_state \in {"WAIT_VDD", "INIT_READOUT", "RSR_LOAD"} => drs_sample_count = 0
  /\ SampleFollows

LEMMA EdgeStep ==
  ASSUME CountersInv, NEW pulse, NEW trig, FsmEdge(pulse, trig)
  PROVE  CountersInv'
<1> USE SettingTypes
    DEF CountersInv, CounterTypes, NoOvershoot, SampleFollows, ShiftStates, ZeroStates
<1>1. /\ Inc(drs_rd_tmp_count, RD_MOD) \in 0..(RD_MOD - 1)
      /\ drs_rd_tmp_count < RD_MOD - 1 =>
           Inc(drs_rd_tmp_count, RD_MOD) = drs_rd_tmp_count + 1
      /\ Inc(drs_rd_tmp_count, RD_MOD) \in {0, drs_rd_tmp_count + 1}
  BY IncBounds
<1>2. /\ Inc(drs_sr_count, SR_MOD) \in 0..(SR_MOD - 1)
      /\ drs_sr_count < SR_MOD - 1 => Inc(drs_sr_count, SR_MOD) = drs_sr_count + 1
      /\ Inc(drs_sr_count, SR_MOD) \in {0, drs_sr_count + 1}
  BY IncBounds
<1>3. CASE Reset(pulse, trig)
  BY <1>3 DEF Reset, Goto
<1>4. CASE InitChip(pulse, trig)
  BY <1>4, <1>1 DEF InitChip, Edge, Goto
<1>5. CASE Idle(pulse, trig)
  BY <1>5 DEF Idle, Edge, Goto, ZeroCounters
<1>6. CASE StartRunning(pulse, trig)
  BY <1>6 DEF StartRunning, Edge, Goto
<1>7. CASE Running(pulse, trig)
  BY <1>7 DEF Running, Edge, Goto, KeepCounters, counters
<1>8. CASE Trigger(pulse, trig)
  BY <1>8 DEF Trigger, Edge, Goto
<1>9. CASE WaitVdd(pulse, trig)
  BY <1>9, <1>1 DEF WaitVdd, Edge, Goto
<1>10. CASE InitReadout(pulse, trig)
  BY <1>10 DEF InitReadout, Edge, Goto, KeepCounters, counters
<1>11. CASE AdcReadout(pulse, trig)
  BY <1>11, <1>1 DEF AdcReadout, Edge, Goto, LastSample, LastChannel
<1>12. CASE StopCell(pulse, trig)
  BY <1>12 DEF StopCell, Edge, Goto, KeepCounters, counters
<1>13. CASE Done(pulse, trig)
  BY <1>13 DEF Done, Edge, Goto, KeepCounters, counters
<1>14. CASE SpikeRemoval(pulse, trig)
  BY <1>14, <1>1 DEF SpikeRemoval, Edge, Goto
<1>15. CASE Configure(pulse, trig)
  <2>1. CASE SetUp("CONF_SETUP", "CONF_WRITE", pulse, trig)
    BY <2>1 DEF SetUp, Edge, Goto
  <2>2. CASE Shift("CONF_WRITE", "WSR_SETUP", SHIFT_CLOCKS, pulse, trig)
    BY <2>2, <1>2 DEF Shift, Edge, Goto
  <2>3. CASE SetUp("WSR_SETUP", "WSR_STROBE", pulse, trig)
    BY <2>3 DEF SetUp, Edge, Goto
  <2>4. CASE Shift("WSR_STROBE", "IDLE", SHIFT_CLOCKS, pulse, trig)
    BY <2>4, <1>2 DEF Shift, Edge, Goto
  <2> QED BY <1>15, <2>1, <2>2, <2>3, <2>4 DEF Configure
<1>16. CASE InitRsr(pulse, trig)
  BY <1>16, <1>2 DEF InitRsr, Shift, Edge, Goto
<1>17. CASE Standby(pulse, trig)
  BY <1>17 DEF Standby, Edge, Goto, KeepCounters, counters
<1> QED BY <1>3, <1>4, <1>5, <1>6, <1>7, <1>8, <1>9, <1>10, <1>11, <1>12, <1>13, <1>14,
           <1>15, <1>16, <1>17 DEF FsmEdge

(* The invariant of the counters, for the theorems below.                    *)
LEMMA CountersCorrect == Spec => []CountersInv
<1>1. Init => CountersInv
  BY SettingTypes
     DEF Init, CountersInv, CounterTypes, NoOvershoot, SampleFollows, ShiftStates, ZeroStates
<1>2. CountersInv /\ [Next]_vars => CountersInv'
  <2> SUFFICES ASSUME CountersInv, [Next]_vars PROVE CountersInv'
    OBVIOUS
  <2>1. CASE SomeEdge
    BY <2>1, EdgeStep DEF SomeEdge, ClockEdge
  <2>2. CASE WriteMask \/ WriteMode \/ UNCHANGED vars
    <3>1. UNCHANGED <<drs_readout_state, drs_rd_tmp_count, drs_sr_count, drs_sample_count>>
      BY <2>2 DEF WriteMask, WriteMode, vars, counters
    <3> QED BY <3>1
            DEF CountersInv, CounterTypes, NoOvershoot, SampleFollows, ShiftStates, ZeroStates
  <2> QED BY <2>1, <2>2 DEF Next
<1> QED BY <1>1, <1>2, PTL DEF Spec

(* Whatever software writes at whatever clock, no state that waits for a     *)
(* counter to reach a limit is entered with the counter beyond it: no state  *)
(* lasts until a counter wraps.                                              *)
THEOREM NoOvershootCorrect == Spec => []NoOvershoot
<1>1. CountersInv => NoOvershoot
  BY DEF CountersInv
<1> QED BY <1>1, CountersCorrect, PTL

-----------------------------------------------------------------------------
(* Masks and channels.                                                       *)

(* A channel is a number, the channels of a mask are finitely many.          *)
LEMMA ChannelTypes ==
  /\ Channels \subseteq Nat /\ 0 \in Channels
  /\ \A m \in ReadoutMasks : m \subseteq Channels /\ IsFiniteSet(m)
  /\ START_TIMER \in Nat
<1>1. \A m \in ReadoutMasks : m \subseteq Nat /\ IsFiniteSet(m)
  BY DrsAssumption
<1>2. Channels \subseteq Nat
  <2> SUFFICES ASSUME NEW c \in Channels PROVE c \in Nat
    OBVIOUS
  <2>1. c = 0 \/ \E m \in ReadoutMasks : c \in m
    BY DEF Channels
  <2> QED BY <1>1, <2>1
<1>3. 0 \in Channels /\ \A m \in ReadoutMasks : m \subseteq Channels
  BY DEF Channels
<1>4. START_TIMER \in Nat
  BY DrsAssumption
<1> QED BY <1>1, <1>2, <1>3, <1>4

(* The priority encoder finds the lowest channel of a mask.                  *)
LEMMA LowestChannel ==
  ASSUME NEW m \in SUBSET Channels, m # {}
  PROVE  prienc9(m) \in m /\ \A d \in m : prienc9(m) <= d
<1>1. \E c \in m : \A d \in m : c <= d
  BY ChannelTypes, LeastElement
<1>2. prienc9(m) = CHOOSE c \in m : \A d \in m : c <= d
  BY DEF prienc9
<1> QED BY <1>1, <1>2

(* The reversed encoder finds the highest channel of a mask.                 *)
LEMMA HighestChannel ==
  ASSUME NEW m \in ReadoutMasks, m # {}
  PROVE  prienc9_rev(m) \in m /\ \A d \in m : d <= prienc9_rev(m)
<1>1. \E c \in m : \A d \in m : d <= c
  BY ChannelTypes, GreatestElement
<1>2. prienc9_rev(m) = CHOOSE c \in m : \A d \in m : d <= c
  BY DEF prienc9_rev
<1> QED BY <1>1, <1>2

(* What the encoders return is a channel, of an empty mask as well.          *)
LEMMA EncoderTypes ==
  /\ \A m \in SUBSET Channels : prienc9(m) \in Channels
  /\ \A m \in ReadoutMasks : prienc9_rev(m) \in Channels
<1>1. ASSUME NEW m \in SUBSET Channels PROVE prienc9(m) \in Channels
  <2>1. m = {} => prienc9(m) = 0
    BY DEF prienc9
  <2> QED BY <2>1, LowestChannel, ChannelTypes
<1>2. ASSUME NEW m \in ReadoutMasks PROVE prienc9_rev(m) \in Channels
  <2>1. m = {} => prienc9_rev(m) = 0
    BY DEF prienc9_rev
  <2>2. m # {} => prienc9_rev(m) \in m
    BY HighestChannel
  <2> QED BY <2>1, <2>2, ChannelTypes
<1> QED BY <1>1, <1>2

-----------------------------------------------------------------------------
(* Type correctness.                                                         *)

States == {"INIT", "IDLE", "START_RUNNING", "RUNNING", "SPIKE_REMOVAL", "DONE",
           "CONF_SETUP", "CONF_WRITE", "WSR_SETUP", "WSR_STROBE", "INIT_RSR",
           "STANDBY"} \cup Reading

Words == [ch : Channels, sample : 0..SAMPLE_COUNT_MAX, wen : BOOLEAN]
Dues  == [ch : Channels, sample : 0..SAMPLE_COUNT_MAX, left : SUBSET Channels]

(* TypeOK, register by register, in the three parts that steps treat alike.  *)
FsmTypes ==
  /\ drs_readout_state \in States
  /\ drs_start_timer \in 0..START_TIMER
  /\ drs_sample_count \in 0..SAMPLE_COUNT_MAX
  /\ drs_addr \in Channels /\ readout_mask_sr \in SUBSET Channels
  /\ drs_reinit_request \in BOOLEAN /\ drs_old_roi_mode \in BOOLEAN
  /\ drs_dwrite_o \in BOOLEAN /\ drs_denable_o \in BOOLEAN
  /\ drs_word \in Words
BesideTypes ==
  /\ drs_ctl_first_chn \in Channels /\ drs_ctl_last_chn \in Channels
  /\ drs_ctl_next_chn \in Channels /\ drs_trigger \in BOOLEAN
SettingsTypes ==
  /\ drs_ctl_readout_mask_i \in ReadoutMasks
  /\ drs_ctl_roi_mode \in BOOLEAN /\ drs_ctl_standby_mode \in BOOLEAN
  /\ drs_ctl_spike_removal \in BOOLEAN
HistoryTypes == due \in Dues /\ in_order \in BOOLEAN

TypeInv == FsmTypes /\ BesideTypes /\ SettingsTypes /\ HistoryTypes

LEMMA TypeOKParts == TypeInv /\ CounterTypes => TypeOK
<1> SUFFICES ASSUME TypeInv, CounterTypes PROVE TypeOK
  OBVIOUS
<1> USE DEF TypeInv
<1>1. drs_readout_state \in {"INIT", "IDLE", "START_RUNNING", "RUNNING", "SPIKE_REMOVAL",
                            "DONE", "CONF_SETUP", "CONF_WRITE", "WSR_SETUP",
                            "WSR_STROBE", "INIT_RSR", "STANDBY"} \cup Reading
  BY DEF FsmTypes, States
<1>2. {drs_trigger, drs_reinit_request, drs_old_roi_mode, drs_dwrite_o,
       drs_denable_o, in_order} \subseteq BOOLEAN
  BY Zenon DEF FsmTypes, BesideTypes, HistoryTypes
<1>3. {drs_ctl_first_chn, drs_ctl_last_chn, drs_ctl_next_chn} \subseteq Channels
  BY DEF BesideTypes
<1>4. {drs_ctl_roi_mode, drs_ctl_standby_mode, drs_ctl_spike_removal} \subseteq BOOLEAN
  BY Zenon DEF SettingsTypes
<1>5. /\ drs_word \in [ch : Channels, sample : 0..SAMPLE_COUNT_MAX, wen : BOOLEAN]
      /\ due \in [ch : Channels, sample : 0..SAMPLE_COUNT_MAX, left : SUBSET Channels]
  BY Zenon DEF FsmTypes, HistoryTypes, Words, Dues
<1>6. /\ drs_start_timer \in 0..START_TIMER /\ drs_sample_count \in 0..SAMPLE_COUNT_MAX
      /\ drs_rd_tmp_count \in 0..(RD_MOD - 1) /\ drs_sr_count \in 0..(SR_MOD - 1)
      /\ drs_addr \in Channels /\ readout_mask_sr \in SUBSET Channels
      /\ drs_ctl_readout_mask_i \in ReadoutMasks
  BY Zenon DEF FsmTypes, CounterTypes, SettingsTypes
<1> QED BY <1>1, <1>2, <1>3, <1>4, <1>5, <1>6, Zenon DEF TypeOK

LEMMA ResetValues ==
  /\ 0 \in 0..SAMPLE_COUNT_MAX /\ 0 \in 0..START_TIMER
  /\ NoWord \in Words /\ NothingDue \in Dues
<1>1. 0 \in 0..SAMPLE_COUNT_MAX /\ 0 \in 0..START_TIMER
  BY SettingTypes, ChannelTypes
<1>2. NoWord \in Words
  BY <1>1, ChannelTypes DEF NoWord, Words
<1>3. prienc9({}) = 0
  BY DEF prienc9
<1>4. NothingDue \in Dues
  BY <1>1, <1>3, ChannelTypes DEF NothingDue, FirstDue, Dues
<1> QED BY <1>1, <1>2, <1>4

(* Every edge is one of the processes beside the FSM as well.                *)
LEMMA EveryEdgeBeside ==
  ASSUME NEW pulse, NEW trig, FsmEdge(pulse, trig)
  PROVE  Beside(trig)
  BY DEF FsmEdge, Reset, InitChip, Idle, StartRunning, Running, Trigger, WaitVdd,
         InitReadout, AdcReadout, StopCell, Done, SpikeRemoval, Configure, SetUp, Shift,
         InitRsr, Standby, Edge

LEMMA BesideStep ==
  ASSUME TypeInv, NEW trig \in BOOLEAN, Beside(trig)
  PROVE  BesideTypes' /\ SettingsTypes'
<1>1. SettingsTypes'
  BY DEF TypeInv, SettingsTypes, Beside, settings
<1>2. /\ drs_ctl_first_chn' \in Channels /\ drs_ctl_last_chn' \in Channels
      /\ drs_ctl_next_chn' \in Channels
  BY EncoderTypes, ChannelTypes DEF TypeInv, SettingsTypes, FsmTypes, Beside
<1>3. drs_trigger' \in BOOLEAN
  BY DEF Beside
<1> QED BY <1>1, <1>2, <1>3 DEF BesideTypes

LEMMA FsmStep ==
  ASSUME TypeInv, NEW pulse, NEW trig, FsmEdge(pulse, trig)
  PROVE  FsmTypes'
<1> USE SettingTypes, ChannelTypes, ResetValues
    DEF TypeInv, FsmTypes, SettingsTypes, BesideTypes, Goto
<1>1. Memorise(pulse) => drs_reinit_request' \in BOOLEAN
  BY DEF Memorise
<1>2. Silent => drs_word' \in Words
  BY DEF Silent
<1>3. CASE Reset(pulse, trig)
  BY <1>3, <1>2 DEF Reset, States
<1>4. CASE InitChip(pulse, trig)
  BY <1>4, <1>2 DEF InitChip, States, channels
<1>5. CASE Idle(pulse, trig)
  BY <1>5, <1>1, <1>2 DEF Idle, States, ZeroCounters, pins
<1>6. CASE StartRunning(pulse, trig)
  BY <1>6, <1>1, <1>2 DEF StartRunning, States, channels
<1>7. CASE Running(pulse, trig)
  BY <1>7, <1>1, <1>2 DEF Running, States, Reading, channels, KeepCounters, counters
<1>8. CASE Trigger(pulse, trig)
  BY <1>8, <1>1, <1>2 DEF Trigger, States, Reading, pins
<1>9. CASE WaitVdd(pulse, trig)
  BY <1>9, <1>1, <1>2 DEF WaitVdd, States, Reading, channels, pins
<1>10. CASE InitReadout(pulse, trig)
  BY <1>10, <1>1, <1>2
     DEF InitReadout, States, Reading, channels, pins, KeepCounters, counters
<1>11. CASE AdcReadout(pulse, trig)
  <2> USE <1>11 DEF AdcReadout
  <2>1. drs_readout_state' \in States
    BY DEF States, Reading
  <2>2. drs_word' \in Words
    <3>1. WordOut \in Words
      BY DEF WordOut, Words
    <3>2. drs_word' = WordOut \/ Silent
      BY DEF WriteSample, Silent
    <3> QED BY <1>2, <3>1, <3>2, Zenon
  <2>3. drs_sample_count' \in 0..SAMPLE_COUNT_MAX
    BY DEF LastSample
  <2>4. drs_addr' \in Channels /\ readout_mask_sr' \in SUBSET Channels
    BY DEF ClearBit
  <2>5. drs_start_timer' \in 0..START_TIMER
    BY DEF pins
  <2>6. /\ drs_reinit_request' \in BOOLEAN /\ drs_old_roi_mode' \in BOOLEAN
        /\ drs_dwrite_o' \in BOOLEAN /\ drs_denable_o' \in BOOLEAN
    BY <1>1 DEF pins
  <2> QED BY <2>1, <2>2, <2>3, <2>4, <2>5, <2>6
<1>12. CASE StopCell(pulse, trig)
  BY <1>12, <1>1, <1>2 DEF StopCell, States, channels, pins, KeepCounters, counters
<1>13. CASE Done(pulse, trig)
  BY <1>13, <1>1, <1>2 DEF Done, States, channels, KeepCounters, counters
<1>14. CASE SpikeRemoval(pulse, trig)
  BY <1>14, <1>1, <1>2 DEF SpikeRemoval, States, channels, pins
<1>15. ASSUME NEW s, NEW next \in States, SetUp(s, next, pulse, trig) PROVE FsmTypes'
  BY <1>15, <1>1, <1>2 DEF SetUp, channels, pins
<1>16. ASSUME NEW s \in States, NEW next \in States, NEW last,
              Shift(s, next, last, pulse, trig)
       PROVE  FsmTypes'
  BY <1>16, <1>1, <1>2 DEF Shift, channels, pins
<1>17. CASE Configure(pulse, trig) \/ InitRsr(pulse, trig)
  BY <1>17, <1>15, <1>16 DEF Configure, InitRsr, States
<1>18. CASE Standby(pulse, trig)
  BY <1>18, <1>1, <1>2 DEF Standby, States, channels, pins, KeepCounters, counters
<1> QED BY <1>3, <1>4, <1>5, <1>6, <1>7, <1>8, <1>9, <1>10, <1>11, <1>12, <1>13, <1>14,
           <1>17, <1>18 DEF FsmEdge

LEMMA HistoryStep ==
  ASSUME TypeInv, FsmTypes', History
  PROVE  HistoryTypes'
<1> USE SettingTypes, ResetValues DEF TypeInv, HistoryTypes
<1>1. \A m \in SUBSET Channels : FirstDue(m) \in Dues
  BY EncoderTypes DEF FirstDue, Dues
<1>2. drs_ctl_readout_mask_i \in SUBSET Channels
  BY ChannelTypes DEF SettingsTypes
<1>3. AfterDue \in Dues
  <2>1. due.left \ {due.ch} \in SUBSET Channels
    BY DEF Dues
  <2>2. CASE due.sample < SAMPLE_COUNT_MAX
    BY <2>2 DEF AfterDue, Dues
  <2>3. CASE ~(due.sample < SAMPLE_COUNT_MAX)
    BY <2>1, <2>3, <1>1 DEF AfterDue
  <2> QED BY <2>2, <2>3
<1>4. due' \in Dues
  BY <1>1, <1>2, <1>3 DEF History
<1>5. in_order' \in BOOLEAN
  BY DEF History
<1> QED BY <1>4, <1>5

(* The three parts and the history keep their ranges.                        *)
LEMMA TypesCorrect == Spec => []TypeInv
<1>1. Init => TypeInv
  <2> SUFFICES ASSUME Init PROVE TypeInv
    OBVIOUS
  <2>1. FsmTypes
    BY ResetValues, ChannelTypes DEF Init, FsmTypes, States
  <2>2. BesideTypes /\ HistoryTypes
    BY ResetValues, ChannelTypes DEF Init, BesideTypes, HistoryTypes
  <2>3. SettingsTypes
    BY DrsAssumption DEF Init, SettingsTypes
  <2> QED BY <2>1, <2>2, <2>3 DEF TypeInv
<1>2. TypeInv /\ [Next]_vars => TypeInv'
  <2> SUFFICES ASSUME TypeInv, [Next]_vars PROVE TypeInv'
    OBVIOUS
  <2>1. CASE SomeEdge
    <3>1. PICK pulse \in Pulses, trig \in BOOLEAN : ClockEdge(pulse, trig)
      BY <2>1 DEF SomeEdge
    <3>2. FsmEdge(pulse, trig) /\ History
      BY <3>1 DEF ClockEdge
    <3> QED BY <3>2, EveryEdgeBeside, BesideStep, FsmStep, HistoryStep DEF TypeInv
  <2>2. CASE WriteMask
    BY <2>2 DEF WriteMask, TypeInv, FsmTypes, BesideTypes, SettingsTypes, HistoryTypes,
                counters, channels, lookup, pins, history
  <2>3. CASE WriteMode
    BY <2>3 DEF WriteMode, TypeInv, FsmTypes, BesideTypes, SettingsTypes, HistoryTypes,
                counters, channels, lookup, pins, history
  <2>4. CASE UNCHANGED vars
    BY <2>4 DEF vars, TypeInv, FsmTypes, BesideTypes, SettingsTypes, HistoryTypes,
                counters, channels, lookup, pins, settings, history
  <2> QED BY <2>1, <2>2, <2>3, <2>4 DEF Next
<1> QED BY <1>1, <1>2, PTL DEF Spec

(* Every register of the DRS controller keeps its range, whatever software   *)
(* writes and at whatever clock a trigger comes, for all settings.           *)
THEOREM TypeCorrect == Spec => []TypeOK
<1>1. TypeInv /\ CountersInv => TypeOK
  BY TypeOKParts DEF CountersInv
<1> QED BY <1>1, TypesCorrect, CountersCorrect, PTL

-----------------------------------------------------------------------------
(* A readout reads its mask.  What the theorem needs of the parameters: the  *)
(* wave is stopped by triggers only, the mask stays while it is read, and a  *)
(* channel is long enough for the lookahead.                                 *)
MaskHolds == DMODE = TRUE /\ MASK_WHILE_READING = FALSE /\ SAMPLE_COUNT_MAX >= 3

(* The registered first and last channels are those of the mask.             *)
LookedUp ==
  /\ drs_ctl_first_chn = prienc9(drs_ctl_readout_mask_i)
  /\ drs_ctl_last_chn = prienc9_rev(drs_ctl_readout_mask_i)
  /\ drs_ctl_readout_mask_i # {}

(* Before the first sample nothing has been read of the mask.                *)
Prepared ==
  /\ readout_mask_sr = drs_ctl_readout_mask_i
  /\ due = FirstDue(drs_ctl_readout_mask_i)
  /\ drs_addr = due.ch

(* Within a readout the word due is the one the counters point to, what is   *)
(* left of the mask ends with the last channel, and the lookahead is at the  *)
(* present channel until its bit is cleared and at the next one two samples  *)
(* later.                                                                    *)
Following ==
  /\ due.ch = drs_addr /\ due.sample = drs_sample_count
  /\ due.left \subseteq drs_ctl_readout_mask_i
  /\ drs_ctl_last_chn \in due.left
  /\ due.ch = prienc9(due.left)
  /\ readout_mask_sr = IF drs_sample_count <= 1 THEN due.left ELSE due.left \ {due.ch}
  /\ drs_sample_count # 2 => drs_ctl_next_chn = prienc9(readout_mask_sr)

ReadInv ==
  /\ in_order
  /\ drs_trigger \/ drs_readout_state \in Reading => LookedUp
  /\ drs_readout_state \in {"WAIT_VDD", "INIT_READOUT", "RSR_LOAD"} => Prepared
  /\ drs_readout_state \in {"INIT_READOUT", "RSR_LOAD"} =>
       drs_ctl_next_chn = prienc9(readout_mask_sr)
  /\ drs_readout_state = "ADC_READOUT" => Following
  /\ drs_readout_state = "STOP_CELL" => due.left = {}

(* After an edge the lookup has seen the mask, which the edge does not       *)
(* change, and a trigger is only let through for a mask with channels.       *)
LEMMA LookupStep ==
  ASSUME NEW trig, Beside(trig)
  PROVE  /\ drs_ctl_readout_mask_i' = drs_ctl_readout_mask_i
         /\ drs_trigger' \/ drs_ctl_readout_mask_i # {} => LookedUp'
         /\ drs_ctl_next_chn' = prienc9(readout_mask_sr)
  BY DEF Beside, settings, LookedUp

(* A step that ends outside of a readout.                                    *)
LEMMA Elsewhere ==
  ASSUME NEW trig, Beside(trig), History, drs_readout_state' \notin Reading
  PROVE  ReadInv'
<1>1. in_order'
  BY DEF History
<1>2. drs_trigger' => LookedUp'
  BY LookupStep
<1> QED BY <1>1, <1>2, Zenon DEF ReadInv, Reading

(* A step inside a readout that writes no word.                              *)
LEMMA SilentHistory ==
  ASSUME ReadInv, History, Silent, drs_readout_state # "TRIGGER",
         drs_readout_state' \in Reading \ {"TRIGGER"}
  PROVE  in_order' /\ due' = due
<1>1. drs_word'.wen = FALSE
  BY DEF Silent, NoWord
<1> QED BY <1>1 DEF ReadInv, History

(* The states up to the first sample.                                        *)
LEMMA PrepareStep ==
  ASSUME ReadInv, CountersInv, DMODE = TRUE, SettingsTypes,
         NEW pulse, NEW trig, Beside(trig), History,
         \/ Running(pulse, trig)
         \/ Trigger(pulse, trig)
         \/ WaitVdd(pulse, trig)
         \/ InitReadout(pulse, trig),
         drs_readout_state' \in Reading
  PROVE  ReadInv'
<1>1. /\ drs_ctl_readout_mask_i' = drs_ctl_readout_mask_i
      /\ drs_ctl_next_chn' = prienc9(readout_mask_sr)
  BY LookupStep
<1>2. LookedUp
  BY DEF ReadInv, Reading, Running, Trigger, WaitVdd, InitReadout, Edge, Goto
<1>3. LookedUp'
  BY <1>2, LookupStep DEF LookedUp
<1>4. CASE Running(pulse, trig)
  <2>1. drs_readout_state' = "TRIGGER"
    BY <1>4 DEF Running, Goto, Reading
  <2>2. drs_word'.wen = FALSE
    BY <1>4 DEF Running, Silent, NoWord
  <2>3. in_order'
    BY <2>2 DEF History, ReadInv
  <2> QED BY <1>3, <2>1, <2>3 DEF ReadInv
<1>5. CASE Trigger(pulse, trig)
  <2>1. drs_readout_state' = "WAIT_VDD" /\ drs_readout_state = "TRIGGER"
    BY <1>5 DEF Trigger, Edge, Goto
  <2>2. drs_word'.wen = FALSE
    BY <1>5 DEF Trigger, Silent, NoWord
  <2>3. in_order' /\ due' = FirstDue(drs_ctl_readout_mask_i)
    BY <2>1, <2>2 DEF History, ReadInv, Reading
  <2>4. /\ drs_addr' = prienc9(drs_ctl_readout_mask_i)
        /\ readout_mask_sr' = drs_ctl_readout_mask_i
    BY <1>5, <1>2 DEF Trigger, LookedUp
  <2>5. Prepared'
    BY <1>1, <2>3, <2>4 DEF Prepared, FirstDue
  <2> QED BY <1>3, <2>1, <2>3, <2>5 DEF ReadInv
<1>6. CASE WaitVdd(pulse, trig)
  <2>1. /\ drs_readout_state = "WAIT_VDD"
        /\ drs_readout_state' \in {"WAIT_VDD", "INIT_READOUT"}
    BY <1>6 DEF WaitVdd, Edge, Goto, Reading
  <2>2. in_order' /\ due' = due
    BY <1>6, <2>1, SilentHistory DEF WaitVdd, Reading
  <2>3. Prepared' /\ drs_ctl_next_chn' = prienc9(readout_mask_sr')
    BY <1>1, <1>6, <2>1, <2>2 DEF WaitVdd, channels, ReadInv, Prepared, FirstDue
  <2> QED BY <1>3, <2>1, <2>2, <2>3 DEF ReadInv
<1>7. CASE InitReadout(pulse, trig)
  <2>1. \/ drs_readout_state = "INIT_READOUT" /\ drs_readout_state' = "RSR_LOAD"
        \/ drs_readout_state = "RSR_LOAD" /\ drs_readout_state' = "ADC_READOUT"
    BY <1>7 DEF InitReadout, Edge, Goto, Reading
  <2>2. in_order' /\ due' = due
    BY <1>7, <2>1, SilentHistory DEF InitReadout, Reading
  <2>3. UNCHANGED <<drs_addr, readout_mask_sr, drs_sample_count>>
    BY <1>7 DEF InitReadout, channels, KeepCounters, counters
  <2>4. Prepared /\ Prepared' /\ drs_ctl_next_chn' = prienc9(readout_mask_sr')
    BY <1>1, <2>1, <2>2, <2>3 DEF ReadInv, Prepared, FirstDue
  <2>5. CASE drs_readout_state' = "RSR_LOAD"
    BY <1>3, <2>2, <2>4, <2>5 DEF ReadInv
  <2>6. CASE drs_readout_state' = "ADC_READOUT"
    <3>1. drs_sample_count' = 0
      BY <2>1, <2>3, <2>6 DEF CountersInv
    <3>2. drs_ctl_last_chn' \in drs_ctl_readout_mask_i'
      BY <1>1, <1>3, HighestChannel DEF LookedUp, SettingsTypes
    <3>3. Following'
      BY <2>4, <3>1, <3>2 DEF Following, Prepared, FirstDue
    <3> QED BY <1>3, <2>2, <2>6, <3>3 DEF ReadInv
  <2> QED BY <2>1, <2>5, <2>6
<1> QED BY <1>4, <1>5, <1>6, <1>7

(* The first and the last channel of what is left are where the counters     *)
(* say: the present one is the last if nothing else is left.                 *)
LEMMA WhatIsLeft ==
  ASSUME TypeInv, ReadInv, drs_readout_state = "ADC_READOUT"
  PROVE  /\ Following /\ LookedUp
         /\ drs_addr \in due.left
         /\ LastChannel <=> due.left = {drs_addr}
<1>1. Following /\ LookedUp
  BY DEF ReadInv, Reading
<1>2. due.left \in SUBSET Channels /\ due.left # {}
  BY <1>1, ChannelTypes DEF TypeInv, HistoryTypes, Dues, Following
<1>3. drs_addr \in due.left /\ \A d \in due.left : drs_addr <= d
  BY <1>1, <1>2, LowestChannel DEF Following
<1>4. \A d \in due.left : d <= drs_ctl_last_chn
  BY <1>1, HighestChannel DEF TypeInv, SettingsTypes, Following, LookedUp
<1>5. ASSUME LastChannel, NEW d \in due.left PROVE d = drs_addr
  <2>1. d \in Nat /\ drs_addr \in Nat
    BY <1>2, <1>3, ChannelTypes
  <2>2. drs_addr <= d /\ d <= drs_addr
    BY <1>3, <1>4, <1>5 DEF LastChannel
  <2> QED BY <2>1, <2>2
<1>6. drs_ctl_last_chn \in due.left
  BY <1>1 DEF Following
<1> QED BY <1>1, <1>3, <1>5, <1>6 DEF LastChannel

(* An edge within a channel.                                                 *)
LEMMA SampleStep ==
  ASSUME TypeInv, CountersInv, ReadInv, NEW pulse, NEW trig, AdcReadout(pulse, trig),
         Beside(trig), History, drs_readout_state' \in Reading, ~LastSample, MaskHolds
  PROVE  ReadInv'
<1>1. drs_readout_state = "ADC_READOUT" /\ drs_readout_state' = "ADC_READOUT"
  BY DEF AdcReadout, Edge, Goto, Reading
<1>2. Following /\ LookedUp /\ drs_addr \in due.left
  BY <1>1, WhatIsLeft
<1>3. LookedUp' /\ drs_ctl_last_chn' = drs_ctl_last_chn
  BY <1>2, LookupStep DEF LookedUp, Beside
<1>4. /\ drs_sample_count \in Nat /\ drs_sample_count < SAMPLE_COUNT_MAX
      /\ drs_rd_tmp_count <= ADC_LATENCY => drs_sample_count = 0
  BY <1>1, SettingTypes DEF CountersInv, CounterTypes, SampleFollows, LastSample
<1>5. /\ drs_addr' = drs_addr
      /\ readout_mask_sr' = IF drs_sample_count = 1 THEN readout_mask_sr \ {drs_ctl_next_chn}
                            ELSE readout_mask_sr
      /\ drs_ctl_next_chn' = prienc9(readout_mask_sr)
      /\ drs_ctl_readout_mask_i' = drs_ctl_readout_mask_i
  BY LookupStep DEF AdcReadout, ClearNow, ClearBit
<1>6. due.sample < SAMPLE_COUNT_MAX /\ due \in Dues
  BY <1>2, <1>4 DEF Following, TypeInv, HistoryTypes
<1>7. CASE drs_rd_tmp_count > ADC_LATENCY
  <2>1. drs_word' = WordOut /\ drs_sample_count' = drs_sample_count + 1
    BY <1>7 DEF AdcReadout, WriteSample, LastSample
  <2>2. in_order' /\ due' = [due EXCEPT !.sample = drs_sample_count + 1]
    <3>1. drs_word'.wen /\ Due(drs_word')
      BY <1>2, <2>1 DEF WordOut, Due, Following
    <3>2. due' = AfterDue /\ in_order'
      BY <1>1, <3>1 DEF History, Reading, ReadInv
    <3> QED BY <1>2, <1>6, <3>2 DEF AfterDue, Following
  <2>3. /\ due'.ch = due.ch /\ due'.left = due.left
        /\ due'.sample = drs_sample_count'
    BY <1>6, <2>1, <2>2 DEF Dues
  <2>4. readout_mask_sr' = IF drs_sample_count' <= 1 THEN due.left
                           ELSE due.left \ {due.ch}
    BY <1>2, <1>4, <1>5, <2>1 DEF Following
  <2>5. drs_sample_count' # 2 => readout_mask_sr' = readout_mask_sr
    BY <1>4, <1>5, <2>1
  <2>6. Following'
    BY <1>2, <1>3, <1>5, <2>3, <2>4, <2>5 DEF Following
  <2> QED BY <1>1, <1>3, <2>2, <2>6 DEF ReadInv
<1>8. CASE ~(drs_rd_tmp_count > ADC_LATENCY)
  <2>1. drs_sample_count = 0 /\ drs_sample_count' = 0
    BY <1>4, <1>8, SettingTypes DEF AdcReadout, LastSample, CountersInv, CounterTypes
  <2>2. drs_word'.wen = FALSE
    BY <1>8 DEF AdcReadout, WriteSample, Silent, NoWord
  <2>3. in_order' /\ due' = due
    BY <1>1, <2>2 DEF History, Reading, ReadInv
  <2>4. readout_mask_sr' = readout_mask_sr /\ readout_mask_sr = due.left
    BY <1>2, <1>5, <2>1 DEF Following
  <2>5. due'.ch = due.ch /\ due'.sample = due.sample /\ due'.left = due.left
    BY <2>3
  <2>6. Following'
    BY <1>2, <1>3, <1>5, <2>1, <2>4, <2>5 DEF Following
  <2> QED BY <1>1, <1>3, <2>3, <2>6 DEF ReadInv
<1> QED BY <1>7, <1>8

(* The edge of the last sample of a channel.                                 *)
LEMMA ChannelStep ==
  ASSUME TypeInv, CountersInv, ReadInv, NEW pulse, NEW trig, AdcReadout(pulse, trig),
         Beside(trig), History, drs_readout_state' \in Reading, LastSample, MaskHolds
  PROVE  ReadInv'
<1>1. drs_readout_state = "ADC_READOUT"
  BY DEF AdcReadout, Edge
<1>2. /\ Following /\ LookedUp /\ drs_addr \in due.left
      /\ LastChannel <=> due.left = {drs_addr}
  BY <1>1, WhatIsLeft
<1>3. LookedUp' /\ drs_ctl_last_chn' = drs_ctl_last_chn
  BY <1>2, LookupStep DEF LookedUp, Beside
<1>4. /\ drs_sample_count = SAMPLE_COUNT_MAX /\ drs_sample_count >= 3
      /\ drs_sample_count \in Nat
  BY SettingTypes DEF LastSample, MaskHolds
<1>5. drs_rd_tmp_count > ADC_LATENCY
  BY <1>1, <1>4, SettingTypes DEF CountersInv, CounterTypes, SampleFollows
<1>6. drs_word' = WordOut
  BY <1>5 DEF AdcReadout, WriteSample
<1> DEFINE rest == due.left \ {drs_addr}
<1>7. in_order' /\ due' = FirstDue(rest)
  <2>1. drs_word'.wen /\ Due(drs_word')
    BY <1>2, <1>6 DEF WordOut, Due, Following
  <2>2. drs_readout_state' # "TRIGGER"
    BY DEF AdcReadout, Goto
  <2>3. due' = AfterDue /\ in_order'
    BY <1>1, <2>1, <2>2 DEF History, ReadInv
  <2>4. ~(due.sample < SAMPLE_COUNT_MAX) /\ due.ch = drs_addr
    BY <1>2, <1>4 DEF Following
  <2> QED BY <2>3, <2>4 DEF AfterDue
<1>8. due'.ch = prienc9(rest) /\ due'.sample = 0 /\ due'.left = rest
  BY <1>7 DEF FirstDue
<1>9. CASE LastChannel
  <2>1. drs_readout_state' = "STOP_CELL"
    BY <1>9 DEF AdcReadout, Goto
  <2>2. due'.left = {}
    BY <1>2, <1>8, <1>9
  <2> QED BY <1>3, <1>7, <2>1, <2>2 DEF ReadInv
<1>10. CASE ~LastChannel
  <2>1. drs_readout_state' = "ADC_READOUT"
    BY <1>10 DEF AdcReadout, Goto, Reading
  <2>2. readout_mask_sr = rest /\ drs_ctl_next_chn = prienc9(rest)
    BY <1>2, <1>4 DEF Following
  <2>3. /\ drs_addr' = drs_ctl_next_chn /\ drs_sample_count' = 0
        /\ readout_mask_sr' = readout_mask_sr
        /\ drs_ctl_next_chn' = prienc9(readout_mask_sr)
        /\ drs_ctl_readout_mask_i' = drs_ctl_readout_mask_i
    BY <1>4, <1>10, LookupStep DEF AdcReadout, ClearNow
  <2>4. drs_ctl_last_chn' \in rest
    BY <1>2, <1>3, <1>10 DEF Following, LastChannel
  <2>5. rest \subseteq drs_ctl_readout_mask_i'
    BY <1>2, <2>3 DEF Following
  <2>6. Following'
    BY <1>8, <2>2, <2>3, <2>4, <2>5 DEF Following
  <2> QED BY <1>3, <1>7, <2>1, <2>6 DEF ReadInv
<1> QED BY <1>9, <1>10

(* The other states never lead into a readout.                               *)
LEMMA OtherStates ==
  ASSUME NEW pulse, NEW trig, FsmEdge(pulse, trig), drs_readout_state' \in Reading
  PROVE  \/ Running(pulse, trig) \/ Trigger(pulse, trig) \/ WaitVdd(pulse, trig)
         \/ InitReadout(pulse, trig) \/ AdcReadout(pulse, trig)
  BY DEF FsmEdge, Reset, InitChip, Idle, StartRunning, StopCell, Done, SpikeRemoval,
         Configure, SetUp, Shift, InitRsr, Standby, Goto, Reading

(* A finished readout wrote each sample of each channel of the mask once, in *)
(* ascending order, and nothing else, for any masks, lengths and latency:    *)
(* the lookahead of the next channel settles in the two samples after the    *)
(* present one is cleared from the mask, and the last channel's address is   *)
(* met exactly when nothing is left.                                         *)
THEOREM ReadsMaskCorrect == MaskHolds => (Spec => []ReadsMask)
<1> SUFFICES ASSUME MaskHolds PROVE Spec => []ReadsMask
  OBVIOUS
<1>1. Init => ReadInv
  BY Zenon DEF Init, ReadInv, Reading
<1>2. TypeInv /\ CountersInv /\ ReadInv /\ [Next]_vars => ReadInv'
  <2> SUFFICES ASSUME TypeInv, CountersInv, ReadInv, [Next]_vars PROVE ReadInv'
    OBVIOUS
  <2>1. CASE SomeEdge
    <3>1. PICK pulse \in Pulses, trig \in BOOLEAN : ClockEdge(pulse, trig)
      BY <2>1 DEF SomeEdge
    <3>2. FsmEdge(pulse, trig) /\ History /\ Beside(trig)
      BY <3>1, EveryEdgeBeside DEF ClockEdge
    <3>3. CASE drs_readout_state' \notin Reading
      BY <3>2, <3>3, Elsewhere
    <3>4. CASE drs_readout_state' \in Reading
      BY <3>2, <3>4, OtherStates, PrepareStep, SampleStep, ChannelStep
         DEF MaskHolds, TypeInv
    <3> QED BY <3>3, <3>4
  <2>2. CASE WriteMask
    <3>1. drs_readout_state \notin Reading /\ ~drs_trigger
      BY <2>2 DEF WriteMask, MaskHolds
    <3>2. UNCHANGED <<drs_readout_state, drs_trigger, in_order>>
      BY <2>2 DEF WriteMask, history
    <3> QED BY <3>1, <3>2, Zenon DEF ReadInv, Reading
  <2>3. CASE WriteMode \/ UNCHANGED vars
    <3>1. UNCHANGED <<drs_readout_state, drs_sample_count, drs_addr, readout_mask_sr,
                      drs_ctl_first_chn, drs_ctl_last_chn, drs_ctl_next_chn,
                      drs_trigger, drs_ctl_readout_mask_i, due, in_order>>
      BY <2>3 DEF WriteMode, vars, counters, channels, lookup, settings, history
    <3> QED BY <3>1 DEF ReadInv, LookedUp, Prepared, Following
  <2> QED BY <2>1, <2>2, <2>3 DEF Next
<1>3. ReadInv => ReadsMask
  BY DEF ReadInv, ReadsMask
<1> QED BY <1>1, <1>2, <1>3, TypesCorrect, CountersCorrect, PTL DEF Spec

=============================================================================
