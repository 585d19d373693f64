----------------------------- MODULE MtbProofs -----------------------------
(***************************************************************************)
(* Proofs about the trigger path of the master trigger board, for every    *)
(* value of its constants.                                                 *)
(*                                                                         *)
(* BoardsReady and WindowClosed rest on one fact: the fixed dead time runs *)
(* on while a trigger is on its way through the integrator to the boards'  *)
(* dead-time counters, and Margins says for how many clocks at each stage: *)
(* what the window leaves of it, at least one clock with every window, two *)
(* with one that is covered.                                               *)
(* The action properties need the vetoes (MIN_DEADTIME_MODE                *)
(* off).  HandshakeInv follows a trigger through the tracker interface:    *)
(* its number and the samples of its answer are its own, because a trigger *)
(* is formed only after a clock in which the interface was ready.  LinkInv *)
(* counts, for a trigger, the clocks to the end of its stretched pulse, to *)
(* the end of its packet, and to the tracker interface being ready again:  *)
(* the second is never above the third.                                    *)
(***************************************************************************)
EXTENDS Mtb, TLAPS

-----------------------------------------------------------------------------
(* The inductive invariant.                                                  *)

CountersHold ==
  /\ deadcnt > 0 => dead
  /\ rb_dead_cnt > 0 => rb_dead
  /\ pre_trigger => ~dead

Spare == DEADCNT_MAX - rb_window

Margins ==
  /\ window_cnt > 0 => deadcnt = window_cnt + Spare
  /\ trg_o => deadcnt = Spare
  /\ rb_trigger => dead /\ deadcnt = Spare - 1

Vetoed ==
  WindowCovered /\ rb_block_if_busy /\ ~MIN_DEADTIME_MODE /\ rb_dead => rb_busy_block \/ dead

IInv == TypeOK /\ CountersHold /\ Margins /\ Vetoed

-----------------------------------------------------------------------------
(* Each part's type is kept by a clock of that part: the handshake of        *)
(* tiu.vhd leaves its registers in range whatever its inputs.                *)
LEMMA TiuTypes ==
  ASSUME TiuAssumption, TiuTypeOK, NEW pre \in BOOLEAN, NEW cnt \in Nat,
         NEW busy \in BOOLEAN, TiuClock(pre, cnt, busy)
  PROVE  TiuTypeOK'
<1> USE DEF TiuAssumption, TiuTypeOK, TiuStates
<1>1. ack_run' \in 0..ACK_SR_LENGTH /\ tiu_ack' \in BOOLEAN
  BY DEF TiuClock, AckFilter, Filtered
<1>2. tx_left' \in 0..TX_CLOCKS /\ tiu_tx_done' \in BOOLEAN
  BY DEF TiuClock, Transmitter
<1>3. /\ tx_init_state' \in TiuStates
      /\ {pretrigger_latch', tiu_init_tx'} \subseteq BOOLEAN
      /\ tiu_timeout_cnt' \in 0..TIU_TIMEOUT_CNT_MAX
      /\ tiu_event_cnt' \in Nat
  <2>1. CASE Ready(pre)
    <3>1. pretrigger_latch' \in BOOLEAN /\ tiu_init_tx' \in BOOLEAN
      BY <2>1 DEF Ready
    <3>2. tx_init_state' \in TiuStates /\ tiu_event_cnt' = tiu_event_cnt
      BY <2>1 DEF Ready
    <3>3. tiu_timeout_cnt' \in 0..TIU_TIMEOUT_CNT_MAX
      BY <2>1 DEF Ready
    <3> QED BY <3>1, <3>2, <3>3
  <2>2. CASE WaitForAck(cnt)
    <3>1. tx_init_state' \in TiuStates /\ tiu_event_cnt' \in Nat
      BY <2>2 DEF WaitForAck
    <3>2. tiu_timeout_cnt' \in 0..TIU_TIMEOUT_CNT_MAX
      <4>1. tiu_timeout_cnt' = tiu_timeout_cnt
              \/ (tiu_timeout_cnt # 0 /\ tiu_timeout_cnt' = tiu_timeout_cnt - 1)
        BY <2>2 DEF WaitForAck
      <4> QED BY <4>1
    <3>3. pretrigger_latch' \in BOOLEAN /\ tiu_init_tx' \in BOOLEAN
      BY <2>2 DEF WaitForAck
    <3> QED BY <3>1, <3>2, <3>3
  <2>3. CASE InitTx
    BY <2>3 DEF InitTx
  <2>4. CASE WaitForTxDone
    BY <2>4 DEF WaitForTxDone, Wait
  <2>5. CASE WaitForNotBusy
    BY <2>5 DEF WaitForNotBusy, Wait
  <2> QED BY <2>1, <2>2, <2>3, <2>4, <2>5 DEF TiuClock
<1>4. {tiu_busy_i', tiu_busy_ignore'} \subseteq BOOLEAN
  BY DEF TiuClock
<1> QED BY <1>1, <1>2, <1>3, <1>4

(* The counters of the trigger stay in their ranges: the event counter stops *)
(* at its maximum, the window fits in the dead time.                         *)
LEMMA TriggerTypes ==
  ASSUME TriggerAssumption, TriggerTypeOK, NEW source \in BOOLEAN,
         NEW b \in BOOLEAN, NEW rb \in BOOLEAN, NEW rst \in BOOLEAN,
         TriggerClock(source, b, rb, rst)
  PROVE  TriggerTypeOK'
<1> USE DEF TriggerAssumption, TriggerTypeOK, TriggerClock
<1>1. event_count' \in 0..EVENT_COUNT_MAX
  BY DEF EventCounter, Counted
<1>2. window_cnt' \in 0..DEADCNT_MAX /\ trg_o' \in BOOLEAN
  <2>1. window_cnt' \in 0..DEADCNT_MAX
    BY DEF Integrator
  <2>2. trg_o' \in BOOLEAN
    BY DEF Integrator
  <2> QED BY <2>1, <2>2
<1>3. deadcnt' \in 0..DEADCNT_MAX /\ dead' \in BOOLEAN
  BY DEF DeadTime, DeadStarts
<1>4. /\ rb_window' \in RB_WINDOWS
      /\ {pre_trigger', global_trigger', rb_busy_block', rb_trigger'} \subseteq BOOLEAN
  BY DEF ready
<1> QED BY <1>1, <1>2, <1>3, <1>4

(* The link's bit counter never leaves the packet.                           *)
LEMMA RbTxTypes ==
  ASSUME RbTxAssumption, RbTxTypeOK, NEW trg \in BOOLEAN, NEW cnt \in Nat,
         RbTxClock(trg, cnt)
  PROVE  RbTxTypeOK'
<1> USE DEF RbTxAssumption, RbTxTypeOK, RbTxClock
<1>1. phase' \in 0..(CLK_RATIO - 1)
  OBVIOUS
<1>2. rb_trg_extend' \in 0..EXTEND
  BY DEF PulseStretch, Stretched, rb_trg
<1>3. /\ rb_tx_state' \in {"IDLE_state", "DATA_state"}
      /\ state_bit_cnt' \in 0..(LENGTH - 1)
      /\ rb_event_cnt' \in Nat
  <2>1. CASE Idle(cnt)
    BY <2>1 DEF Idle
  <2>2. CASE Data
    BY <2>2 DEF Data
  <2>3. CASE NoSlowEdge
    BY <2>3 DEF NoSlowEdge
  <2> QED BY <2>1, <2>2, <2>3 DEF SlowEdge
<1>4. rb_dead' \in BOOLEAN /\ rb_dead_cnt' \in Nat
  <2>1. CASE rb_dead' = TRUE /\ rb_dead_cnt' \in RB_DEADTIMES
    BY <2>1
  <2>2. CASE /\ rb_dead' = (rb_dead_cnt > 0)
             /\ rb_dead_cnt' = IF rb_dead_cnt > 0 THEN rb_dead_cnt - 1 ELSE 0
    <3>1. rb_dead_cnt' \in Nat
      BY <2>2
    <3>2. rb_dead' \in BOOLEAN
      BY <2>2
    <3> QED BY <3>1, <3>2
  <2> QED BY <2>1, <2>2 DEF BoardDeadTime
<1>5. rb_block_if_busy' \in BOOLEAN
  OBVIOUS
<1> QED BY <1>1, <1>2, <1>3, <1>4, <1>5

(* One clock keeps the types of the whole board and of the history.          *)
LEMMA TypeStep ==
  ASSUME TiuAssumption, TriggerAssumption, RbTxAssumption, MtbAssumption, TypeOK, [Next]_vars
  PROVE  TypeOK'
<1>1. CASE Next
  <2>1. PICK source \in BOOLEAN, busy \in BOOLEAN, rst \in EVENT_CNT_RESETS :
          Clock(source, busy, rst)
    BY <1>1 DEF Next
  <2>2. rst \in BOOLEAN
    BY DEF MtbAssumption
  <2>3. /\ tiu_pre_trigger_i \in BOOLEAN /\ busy_i \in BOOLEAN /\ rb_busy_i \in BOOLEAN
        /\ event_count \in Nat /\ rb_trigger \in BOOLEAN
    BY DEF TypeOK, TiuTypeOK, TriggerTypeOK, RbTxTypeOK, tiu_pre_trigger_i, busy_i, rb_busy_i,
           global_busy, ready_to_trigger, MtbAssumption, TriggerAssumption
  <2>4. TiuTypeOK'
    BY <2>1, <2>3, TiuTypes DEF TypeOK, Clock
  <2>5. TriggerTypeOK'
    BY <2>1, <2>2, <2>3, TriggerTypes DEF TypeOK, Clock
  <2>6. RbTxTypeOK'
    BY <2>1, <2>3, RbTxTypes DEF TypeOK, Clock
  <2>7. number' \in Nat
    BY <2>1, <2>5 DEF TypeOK, Clock, History, TriggerTypeOK, TriggerAssumption
  <2>8. {recounted', owed', missed'} \subseteq BOOLEAN
    BY <2>1, <2>2 DEF TypeOK, Clock, History, TriggerTypeOK, tiu_busy
  <2>9. held' \in 0..(TIU_TIMEOUT_CNT_MAX + 1) /\ seen' \in 0..ACK_SR_LENGTH
    BY <2>1 DEF TypeOK, Clock, History, TiuAssumption
  <2> QED BY <2>4, <2>5, <2>6, <2>7, <2>8, <2>9 DEF TypeOK
<1>2. CASE UNCHANGED vars
  BY <1>2 DEF vars, tiuVars, triggerVars, rbTxVars, mtbVars, TypeOK, TiuTypeOK,
              TriggerTypeOK, RbTxTypeOK
<1> QED BY <1>1, <1>2

-----------------------------------------------------------------------------
(* A clock keeps the margins: the integrator and the dead time start on the  *)
(* same clock and count down together.                                       *)
LEMMA MarginStep ==
  ASSUME TriggerAssumption, IInv, NEW source \in BOOLEAN, NEW b \in BOOLEAN,
         NEW rst \in BOOLEAN, TriggerClock(source, b, rb_busy_i, rst),
         NEW cnt \in Nat, RbTxClock(rb_trigger, cnt)
  PROVE  CountersHold' /\ Margins' /\ Vetoed'
<1> USE DEF TriggerAssumption, IInv, TypeOK, TriggerTypeOK, CountersHold, Margins, TriggerClock
<1>1. DeadStarts <=> pre_trigger
  BY DEF DeadStarts
<1>s. Spare' = Spare /\ Spare \in 1..DEADCNT_MAX /\ rb_window \in 0..(DEADCNT_MAX - 1)
  BY DEF Spare
<1>2. pre_trigger => deadcnt = 0 /\ window_cnt = 0 /\ ~trg_o /\ ~rb_trigger
  BY <1>s
<1>3. deadcnt' > 0 => dead'
  <2>1. deadcnt' > 0 => DeadStarts \/ deadcnt > 0
    BY DEF DeadTime
  <2>2. dead' = (DeadStarts \/ deadcnt > 0)
    BY DEF DeadTime
  <2> QED BY <2>1, <2>2
<1>4. pre_trigger' => ~dead'
  BY <1>1 DEF DeadTime, ready
<1>5. rb_dead_cnt' > 0 => rb_dead'
  BY DEF RbTxClock, BoardDeadTime, RbTxTypeOK
<1>6. window_cnt' > 0 => deadcnt' = window_cnt' + Spare
  <2>1. CASE pre_trigger
    BY <1>1, <1>2, <1>s, <2>1 DEF DeadTime, Integrator, Spare
  <2>2. CASE ~pre_trigger
    BY <1>1, <1>s, <2>2 DEF DeadTime, Integrator
  <2> QED BY <2>1, <2>2
<1>7. trg_o' => deadcnt' = Spare
  <2>1. CASE pre_trigger
    <3>1. deadcnt' = DEADCNT_MAX /\ trg_o' = (rb_window = 0)
      BY <1>1, <1>2, <2>1 DEF DeadTime, Integrator
    <3> QED BY <3>1 DEF Spare
  <2>2. CASE ~pre_trigger
    <3>1. trg_o' = (window_cnt = 1)
      BY <2>2 DEF Integrator
    <3>2. deadcnt' = IF deadcnt > 0 THEN deadcnt - 1 ELSE 0
      BY <1>1, <2>2 DEF DeadTime
    <3> QED BY <1>s, <3>1, <3>2
  <2> QED BY <2>1, <2>2
<1>8. rb_trigger' => dead' /\ deadcnt' = Spare - 1
  <2>1. trg_o => ~pre_trigger /\ deadcnt = Spare /\ deadcnt > 0
    BY <1>2, <1>s
  <2> QED BY <1>1, <2>1 DEF DeadTime
<1>9. Vetoed'
  <2>1. rb_dead' => rb_dead \/ rb_trigger
    BY DEF RbTxClock, BoardDeadTime, RbTxTypeOK
  <2>2. WindowCovered /\ rb_trigger => dead'
    <3>1. WindowCovered /\ rb_trigger => deadcnt > 0
      BY <1>s DEF WindowCovered, Spare
    <3> QED BY <3>1 DEF DeadTime
  <2>3. /\ rb_block_if_busy' = rb_block_if_busy /\ (WindowCovered' <=> WindowCovered)
        /\ rb_busy_block' = rb_busy_i
    BY DEF RbTxClock, WindowCovered
  <2> SUFFICES ASSUME WindowCovered, rb_block_if_busy, ~MIN_DEADTIME_MODE, rb_dead', ~dead'
               PROVE  rb_busy_block'
    BY <2>3 DEF Vetoed
  <2>4. rb_dead
    BY <2>1, <2>2
  <2> QED BY <2>3, <2>4 DEF rb_busy_i
<1> QED BY <1>s, <1>3, <1>4, <1>5, <1>6, <1>7, <1>8, <1>9

LEMMA InitIInv ==
  ASSUME TiuAssumption, TriggerAssumption, RbTxAssumption, Init
  PROVE  IInv
<1> USE DEF Init
<1>1. TiuTypeOK
  <2> USE DEF TiuInit
  <2>1. {tiu_busy_i, tiu_busy_ignore, pretrigger_latch, tiu_ack, tiu_init_tx, tiu_tx_done}
          \subseteq BOOLEAN
    OBVIOUS
  <2>2. tx_init_state \in TiuStates /\ tiu_event_cnt \in Nat
    BY DEF TiuStates
  <2>3. /\ tiu_timeout_cnt \in 0..TIU_TIMEOUT_CNT_MAX
        /\ ack_run \in 0..ACK_SR_LENGTH /\ tx_left \in 0..TX_CLOCKS
    BY DEF TiuAssumption
  <2> QED BY <2>1, <2>2, <2>3 DEF TiuTypeOK
<1>2. TriggerTypeOK
  <2> USE DEF TriggerInit
  <2>1. {pre_trigger, global_trigger, dead, rb_busy_block, trg_o, rb_trigger}
          \subseteq BOOLEAN
    OBVIOUS
  <2>2. /\ rb_window \in RB_WINDOWS
        /\ deadcnt \in 0..DEADCNT_MAX /\ window_cnt \in 0..DEADCNT_MAX
        /\ event_count \in 0..EVENT_COUNT_MAX
    BY DEF TriggerAssumption
  <2> QED BY <2>1, <2>2 DEF TriggerTypeOK
<1>3. RbTxTypeOK
  <2> USE DEF RbTxInit
  <2>1. {rb_block_if_busy, rb_dead} \subseteq BOOLEAN
    OBVIOUS
  <2>2. phase \in 0..(CLK_RATIO - 1) /\ state_bit_cnt \in 0..(LENGTH - 1)
    BY DEF RbTxAssumption
  <2>3. /\ rb_trg_extend \in 0..EXTEND /\ rb_tx_state \in {"IDLE_state", "DATA_state"}
        /\ rb_event_cnt \in Nat /\ rb_dead_cnt \in Nat
    BY DEF RbTxAssumption
  <2> QED BY <2>1, <2>2, <2>3 DEF RbTxTypeOK
<1>4. number \in Nat /\ {recounted, owed, missed} \subseteq BOOLEAN
  OBVIOUS
<1>5. held \in 0..(TIU_TIMEOUT_CNT_MAX + 1) /\ seen \in 0..ACK_SR_LENGTH
  BY DEF TiuAssumption
<1>6. CountersHold /\ Margins /\ Vetoed
  BY DEF TriggerInit, RbTxInit, CountersHold, Margins, Vetoed
<1> QED BY <1>1, <1>2, <1>3, <1>4, <1>5, <1>6 DEF IInv, TypeOK

LEMMA IInvStep ==
  ASSUME TiuAssumption, TriggerAssumption, RbTxAssumption, MtbAssumption, IInv, [Next]_vars
  PROVE  IInv'
<1>1. TypeOK'
  BY TypeStep DEF IInv
<1>2. CASE Next
  <2>1. PICK source \in BOOLEAN, busy \in BOOLEAN, rst \in EVENT_CNT_RESETS :
          Clock(source, busy, rst)
    BY <1>2 DEF Next
  <2>2. /\ TriggerClock(source, busy_i, rb_busy_i, rst)
        /\ RbTxClock(rb_trigger, event_count)
    BY <2>1 DEF Clock
  <2>3. rst \in BOOLEAN /\ busy_i \in BOOLEAN /\ event_count \in Nat
    BY DEF MtbAssumption, busy_i, global_busy, ready_to_trigger, IInv, TypeOK, TriggerTypeOK,
           TriggerAssumption
  <2>4. CountersHold' /\ Margins' /\ Vetoed'
    BY <2>2, <2>3, MarginStep
  <2> QED BY <1>1, <2>4 DEF IInv
<1>3. CASE UNCHANGED vars
  BY <1>1, <1>3 DEF vars, tiuVars, triggerVars, rbTxVars, mtbVars, IInv, CountersHold,
                    Margins, Spare, WindowCovered, Vetoed
<1> QED BY <1>2, <1>3

LEMMA Invariance == Spec => []IInv
<1>1. Init => IInv
  BY InitIInv, TiuAssumption, TriggerAssumption, RbTxAssumption
<1>2. IInv /\ [Next]_vars => IInv'
  BY IInvStep, TiuAssumption, TriggerAssumption, RbTxAssumption, MtbAssumption
<1> QED BY <1>1, <1>2, PTL DEF Spec

-----------------------------------------------------------------------------

(* Every counter of the trigger path stays in its range.                     *)
THEOREM TypeCorrect == Spec => []TypeOK
<1>1. IInv => TypeOK
  BY DEF IInv
<1> QED BY <1>1, Invariance, PTL

(* For every window the register holds, the longest included, no trigger     *)
(* restarts the integration of the one before.                               *)
THEOREM WindowStaysClosed == Spec => []WindowClosed
<1>1. IInv => WindowClosed
  BY TriggerAssumption
  DEF IInv, TypeOK, TriggerTypeOK, TriggerAssumption, CountersHold, Margins, Spare, WindowClosed
<1> QED BY <1>1, Invariance, PTL

(* For every dead time of the boards and every window but the longest, no    *)
(* trigger is formed while a board that blocks is busy: the veto of the      *)
(* board takes over from the fixed dead time without a gap.  With the        *)
(* longest there is a gap of one clock, and the statement is false.          *)
THEOREM BoardsAreReady == Spec => []BoardsReady
<1>1. IInv /\ BoardsReady /\ [Next]_vars => BoardsReady'
  <2> SUFFICES ASSUME IInv, BoardsReady, [Next]_vars PROVE BoardsReady'
    OBVIOUS
  <2>1. CASE Next
    <3>1. PICK source \in BOOLEAN, busy \in BOOLEAN, rst \in EVENT_CNT_RESETS :
            Clock(source, busy, rst)
      BY <2>1 DEF Next
    <3>2. pre_trigger' => ~dead /\ ~rb_busy_block
      BY <3>1 DEF Clock, TriggerClock, ready
    <3>3. rb_trigger => dead
      BY DEF IInv, Margins
    <3>4. rb_dead' => rb_dead \/ rb_trigger
      BY <3>1 DEF Clock, RbTxClock, BoardDeadTime, IInv, TypeOK, RbTxTypeOK, CountersHold
    <3>5. rb_block_if_busy' = rb_block_if_busy /\ WindowCovered' = WindowCovered
      BY <3>1 DEF Clock, RbTxClock, TriggerClock, WindowCovered
    <3> QED BY <3>2, <3>3, <3>4, <3>5 DEF BoardsReady, IInv, Vetoed
  <2>2. CASE UNCHANGED vars
    BY <2>2 DEF vars, triggerVars, rbTxVars, BoardsReady, WindowCovered
  <2> QED BY <2>1, <2>2
<1>2. Init => BoardsReady
  BY DEF Init, TriggerInit, BoardsReady
<1> QED BY <1>1, <1>2, Invariance, PTL DEF Spec
-----------------------------------------------------------------------------
(* The trigger to the tracker and the event count it is sent.                *)

(* A trigger is formed only while the tracker interface is ready, and only   *)
(* when the busy line was low a clock before: no run of busy samples is      *)
(* under way when the trigger is taken, but for one glitch.                  *)
Formed ==
  /\ pre_trigger => tx_init_state = "READY_FOR_TRIGGER"
  /\ global_trigger => dead
  /\ ~tiu_busy_ignore => /\ pre_trigger => ack_run = 0
                         /\ global_trigger => ack_run <= 1

(* The trigger is on from the clock it is taken until it is answered.        *)
Answered == tiu_busy_ignore \/ seen = ACK_SR_LENGTH \/ held > TIU_TIMEOUT_CNT_MAX

Waiting ==
  /\ pretrigger_latch <=> tx_init_state \in {"WAIT_FOR_ACK", "INIT_TX"}
  /\ tx_init_state \in {"READY_FOR_TRIGGER", "WAIT_FOR_NOT_BUSY"} => held = 0 /\ seen = 0
  /\ tx_init_state = "WAIT_FOR_ACK" =>
       /\ held + tiu_timeout_cnt = TIU_TIMEOUT_CNT_MAX + 1
       /\ ~tiu_busy_ignore => /\ ack_run = seen \/ seen = ACK_SR_LENGTH
                              /\ tiu_ack => seen = ACK_SR_LENGTH
  /\ tx_init_state = "INIT_TX" => Answered

(* The count stays the trigger's as long as it may still be sent.            *)
Counts ==
  ~recounted => /\ event_count = number
                /\ tx_init_state = "INIT_TX" \/ tiu_init_tx => tiu_event_cnt = number

(* The transmission to the tracker goes through its stages in turn.          *)
Sending ==
  /\ tx_left > 0 => tx_init_state = "WAIT_FOR_TX_DONE" /\ ~tiu_tx_done
  /\ tiu_tx_done => tx_init_state = "WAIT_FOR_TX_DONE"
  /\ tiu_init_tx => tx_init_state = "WAIT_FOR_TX_DONE" /\ tx_left = 0 /\ ~tiu_tx_done

HandshakeInv == Formed /\ Waiting /\ Counts /\ Sending

(* What a clock does to the signals that are one or zero.                    *)
LEMMA SignalEffect ==
  ASSUME NEW source, NEW busy, NEW rst, Clock(source, busy, rst)
  PROVE  /\ pre_trigger' <=> ready(busy_i) /\ ~pre_trigger /\ source
         /\ global_trigger' <=> pre_trigger
         /\ rb_trigger' <=> trg_o
         /\ trg_o' <=> IF pre_trigger THEN rb_window = 0 ELSE window_cnt = 1
         /\ dead' <=> DeadStarts \/ deadcnt > 0
         /\ tiu_ack' <=> ack_run = ACK_SR_LENGTH
         /\ tiu_tx_done' <=> tx_left = 1
         /\ recounted' <=> rst \/ (recounted /\ ~pre_trigger)
         /\ tiu_busy_ignore' <=> tiu_busy_ignore
<1>1. /\ pre_trigger' <=> ready(busy_i) /\ ~pre_trigger /\ source
      /\ global_trigger' <=> pre_trigger
      /\ rb_trigger' <=> trg_o
  BY Zenon DEF Clock, TriggerClock
<1>2. trg_o' <=> IF pre_trigger THEN rb_window = 0 ELSE window_cnt = 1
  BY Zenon DEF Clock, TriggerClock, Integrator
<1>3. dead' <=> DeadStarts \/ deadcnt > 0
  BY Zenon DEF Clock, TriggerClock, DeadTime
<1>4. (tiu_ack' <=> ack_run = ACK_SR_LENGTH) /\ (tiu_tx_done' <=> tx_left = 1)
  BY Zenon DEF Clock, TiuClock, AckFilter, Filtered, Transmitter
<1>5. recounted' <=> rst \/ (recounted /\ ~pre_trigger)
  BY Zenon DEF Clock, History
<1>6. tiu_busy_ignore' <=> tiu_busy_ignore
  BY Zenon DEF Clock, TiuClock
<1> QED BY <1>1, <1>2, <1>3, <1>4, <1>5, <1>6

(* A trigger is formed after a clock in which the interface was ready.       *)
LEMMA FormedFrom ==
  ASSUME MIN_DEADTIME_MODE = FALSE, NEW source, NEW busy, NEW rst, Clock(source, busy, rst),
         pre_trigger'
  PROVE  ready_to_trigger /\ ~dead /\ ~pre_trigger
  BY SignalEffect DEF ready, busy_i, global_busy

(* What a clock does to the handshake, state by state.                       *)
LEMMA HandshakeEffect ==
  ASSUME TiuTypeOK, NEW source, NEW busy, NEW rst, Clock(source, busy, rst)
  PROVE  /\ tx_init_state = "READY_FOR_TRIGGER" =>
              IF tiu_pre_trigger_i /\ ~tiu_busy
              THEN /\ tx_init_state' = "WAIT_FOR_ACK" /\ pretrigger_latch'
                   /\ tiu_timeout_cnt' = TIU_TIMEOUT_CNT_MAX /\ ~tiu_init_tx'
              ELSE tx_init_state' = "READY_FOR_TRIGGER" /\ ~pretrigger_latch' /\ ~tiu_init_tx'
         /\ tx_init_state = "WAIT_FOR_ACK" =>
              /\ IF tiu_ack \/ tiu_timeout_cnt = 0 THEN tx_init_state' = "INIT_TX"
                 ELSE /\ tx_init_state' = "WAIT_FOR_ACK"
                      /\ tiu_timeout_cnt' = tiu_timeout_cnt - 1
              /\ tiu_event_cnt' = event_count /\ ~tiu_init_tx'
              /\ pretrigger_latch' <=> pretrigger_latch
         /\ tx_init_state = "INIT_TX" =>
              /\ tx_init_state' = "WAIT_FOR_TX_DONE" /\ ~pretrigger_latch' /\ tiu_init_tx'
              /\ tiu_event_cnt' = tiu_event_cnt
         /\ tx_init_state = "WAIT_FOR_TX_DONE" =>
              /\ tx_init_state' = IF tiu_tx_done THEN "WAIT_FOR_NOT_BUSY"
                                  ELSE "WAIT_FOR_TX_DONE"
              /\ ~tiu_init_tx' /\ (pretrigger_latch' <=> pretrigger_latch)
         /\ tx_init_state = "WAIT_FOR_NOT_BUSY" =>
              /\ tx_init_state' \in {"WAIT_FOR_NOT_BUSY", "READY_FOR_TRIGGER"}
              /\ ~tiu_init_tx' /\ (pretrigger_latch' <=> pretrigger_latch)
<1>1. TiuClock(tiu_pre_trigger_i, event_count, busy)
  BY DEF Clock
<1>2. CASE Ready(tiu_pre_trigger_i)
  <2>1. tx_init_state = "READY_FOR_TRIGGER" /\ ~tiu_init_tx'
    BY <1>2, Zenon DEF Ready
  <2>2. pretrigger_latch' <=> tiu_pre_trigger_i /\ ~tiu_busy
    BY <1>2, Zenon DEF Ready
  <2>3. IF tiu_pre_trigger_i /\ ~tiu_busy
        THEN tx_init_state' = "WAIT_FOR_ACK" /\ tiu_timeout_cnt' = TIU_TIMEOUT_CNT_MAX
        ELSE tx_init_state' = "READY_FOR_TRIGGER"
    BY <1>2 DEF Ready
  <2> QED BY <2>1, <2>2, <2>3
<1>3. CASE WaitForAck(event_count)
  <2>1. /\ tx_init_state = "WAIT_FOR_ACK" /\ ~tiu_init_tx'
        /\ (pretrigger_latch' <=> pretrigger_latch)
    BY <1>3, Zenon DEF WaitForAck
  <2>2. /\ IF tiu_ack \/ tiu_timeout_cnt = 0 THEN tx_init_state' = "INIT_TX"
           ELSE tx_init_state' = "WAIT_FOR_ACK" /\ tiu_timeout_cnt' = tiu_timeout_cnt - 1
        /\ tiu_event_cnt' = event_count
    BY <1>3 DEF WaitForAck, TimedOut
  <2> QED BY <2>1, <2>2
<1>4. CASE InitTx
  <2>1. /\ tx_init_state = "INIT_TX" /\ tx_init_state' = "WAIT_FOR_TX_DONE"
        /\ ~pretrigger_latch' /\ tiu_init_tx' /\ tiu_event_cnt' = tiu_event_cnt
    BY <1>4, Zenon DEF InitTx
  <2> QED BY <2>1
<1>5. CASE WaitForTxDone
  <2>1. /\ tx_init_state = "WAIT_FOR_TX_DONE" /\ ~tiu_init_tx'
        /\ (pretrigger_latch' <=> pretrigger_latch)
    BY <1>5, Zenon DEF WaitForTxDone, Wait
  <2>2. tx_init_state' = IF tiu_tx_done THEN "WAIT_FOR_NOT_BUSY" ELSE "WAIT_FOR_TX_DONE"
    BY <1>5 DEF WaitForTxDone, Wait
  <2> QED BY <2>1, <2>2
<1>6. CASE WaitForNotBusy
  <2>1. /\ tx_init_state = "WAIT_FOR_NOT_BUSY" /\ ~tiu_init_tx'
        /\ (pretrigger_latch' <=> pretrigger_latch)
    BY <1>6, Zenon DEF WaitForNotBusy, Wait
  <2>2. tx_init_state' \in {"WAIT_FOR_NOT_BUSY", "READY_FOR_TRIGGER"}
    BY <1>6 DEF WaitForNotBusy, Wait
  <2> QED BY <2>1, <2>2
<1> QED BY <1>1, <1>2, <1>3, <1>4, <1>5, <1>6 DEF TiuClock

(* A trigger is formed, and taken, with no run of busy samples under way.    *)
LEMMA FormedStep ==
  ASSUME MIN_DEADTIME_MODE = FALSE, IInv, HandshakeInv,
         NEW source, NEW busy, NEW rst, Clock(source, busy, rst)
  PROVE  Formed'
<1>1. Formed /\ CountersHold /\ TiuTypeOK
  BY DEF HandshakeInv, IInv, TypeOK
<1>2. pre_trigger' => tx_init_state' = "READY_FOR_TRIGGER"
  <2> SUFFICES ASSUME pre_trigger' PROVE tx_init_state' = "READY_FOR_TRIGGER"
    OBVIOUS
  <2>1. tx_init_state = "READY_FOR_TRIGGER" /\ ~dead /\ ~pre_trigger
    BY FormedFrom DEF ready_to_trigger
  <2>2. ~tiu_pre_trigger_i
    BY <1>1, <2>1 DEF Formed, tiu_pre_trigger_i
  <2> QED BY <1>1, <2>1, <2>2, HandshakeEffect
<1>3. global_trigger' => dead'
  BY <1>1, SignalEffect DEF CountersHold, DeadStarts
<1>4. ASSUME ~tiu_busy_ignore'
      PROVE  (pre_trigger' => ack_run' = 0) /\ (global_trigger' => ack_run' <= 1)
  <2>1. ack_run' = IF tiu_busy \/ tiu_busy_ignore
                   THEN IF ack_run < ACK_SR_LENGTH THEN ack_run + 1 ELSE ack_run
                   ELSE 0
    BY DEF Clock, TiuClock, AckFilter
  <2>2. ~tiu_busy_ignore
    BY <1>4, SignalEffect
  <2>3. pre_trigger' => ack_run' = 0
    BY <2>1, <2>2, FormedFrom DEF ready_to_trigger
  <2>4. pre_trigger => ack_run = 0
    BY <1>1, <2>2 DEF Formed
  <2>5. global_trigger' => ack_run' <= 1
    BY <2>1, <2>4, SignalEffect
  <2> QED BY <2>3, <2>5
<1> QED BY <1>2, <1>3, <1>4 DEF Formed

(* The clocks and the samples of the answer are counted while the trigger is *)
(* on.                                                                       *)
LEMMA HeldEffect ==
  ASSUME NEW source, NEW busy, NEW rst, Clock(source, busy, rst)
  PROVE  IF tiu_trigger_o(tiu_pre_trigger_i)
         THEN /\ held' = IF held <= TIU_TIMEOUT_CNT_MAX THEN held + 1 ELSE held
              /\ seen' = IF seen = ACK_SR_LENGTH THEN seen
                         ELSE IF tiu_busy \/ tiu_busy_ignore THEN seen + 1 ELSE 0
         ELSE held' = 0 /\ seen' = 0
  BY DEF Clock, History

(* The trigger stays on from the clock it is taken until it is answered.     *)
LEMMA WaitingStep ==
  ASSUME MIN_DEADTIME_MODE = FALSE, ACK_SR_LENGTH >= 2, IInv, HandshakeInv,
         NEW source, NEW busy, NEW rst, Clock(source, busy, rst)
  PROVE  Waiting'
<1> USE TiuAssumption DEF TiuAssumption
<1>1. /\ Waiting /\ Formed /\ TiuTypeOK
      /\ held \in 0..(TIU_TIMEOUT_CNT_MAX + 1) /\ seen \in 0..ACK_SR_LENGTH
      /\ ack_run \in 0..ACK_SR_LENGTH /\ tiu_timeout_cnt \in 0..TIU_TIMEOUT_CNT_MAX
      /\ tx_init_state \in TiuStates
  BY DEF HandshakeInv, IInv, TypeOK, TiuTypeOK
<1>2. ack_run' = IF tiu_busy \/ tiu_busy_ignore
                 THEN IF ack_run < ACK_SR_LENGTH THEN ack_run + 1 ELSE ack_run
                 ELSE 0
  BY DEF Clock, TiuClock, AckFilter
<1>3. (tiu_ack' <=> ack_run = ACK_SR_LENGTH) /\ (tiu_busy_ignore' <=> tiu_busy_ignore)
  BY SignalEffect
<1>4. CASE tx_init_state = "READY_FOR_TRIGGER"
  <2>1. tiu_trigger_o(tiu_pre_trigger_i) <=> tiu_pre_trigger_i /\ ~tiu_busy
    BY <1>1, <1>4 DEF Waiting, tiu_trigger_o, ready_to_trigger
  <2>2. CASE tiu_pre_trigger_i /\ ~tiu_busy
    <3>1. /\ tx_init_state' = "WAIT_FOR_ACK" /\ pretrigger_latch'
          /\ tiu_timeout_cnt' = TIU_TIMEOUT_CNT_MAX
      BY <1>1, <1>4, <2>2, HandshakeEffect
    <3>2. held = 0 /\ seen = 0
      BY <1>1, <1>4 DEF Waiting
    <3>3. held' = 1 /\ (~tiu_busy_ignore => seen' = 0 /\ ack_run' = 0)
      <4>1. tiu_trigger_o(tiu_pre_trigger_i)
        BY <2>1, <2>2
      <4>2. held' = 1
        BY <3>2, <4>1, HeldEffect
      <4>3. ~tiu_busy_ignore => seen' = 0
        BY <2>2, <3>2, <4>1, HeldEffect
      <4>4. ~tiu_busy_ignore => ack_run' = 0
        BY <1>2, <2>2
      <4> QED BY <4>2, <4>3, <4>4
    <3>4. ~tiu_busy_ignore => ack_run <= 1
      BY <1>1, <2>2 DEF Formed, tiu_pre_trigger_i
    <3>5. ~tiu_busy_ignore => ~tiu_ack'
      BY <1>1, <1>3, <3>4
    <3> QED BY <1>1, <1>3, <3>1, <3>3, <3>5 DEF Waiting
  <2>3. CASE ~(tiu_pre_trigger_i /\ ~tiu_busy)
    BY <1>1, <1>4, <2>1, <2>3, HandshakeEffect, HeldEffect DEF Waiting
  <2> QED BY <2>2, <2>3
<1>5. CASE tx_init_state = "WAIT_FOR_ACK"
  <2>1. tiu_trigger_o(tiu_pre_trigger_i) /\ pretrigger_latch'
    BY <1>1, <1>5, HandshakeEffect DEF Waiting, tiu_trigger_o
  <2>2. /\ held + tiu_timeout_cnt = TIU_TIMEOUT_CNT_MAX + 1
        /\ ~tiu_busy_ignore => (ack_run = seen \/ seen = ACK_SR_LENGTH)
                               /\ (tiu_ack => seen = ACK_SR_LENGTH)
    BY <1>1, <1>5 DEF Waiting
  <2>3. seen = ACK_SR_LENGTH => seen' = ACK_SR_LENGTH
    BY <2>1, HeldEffect
  <2>4. CASE tiu_ack \/ tiu_timeout_cnt = 0
    <3>1. tx_init_state' = "INIT_TX"
      BY <1>1, <1>5, <2>4, HandshakeEffect
    <3>2. tiu_timeout_cnt = 0 => held' > TIU_TIMEOUT_CNT_MAX
      BY <1>1, <2>1, <2>2, HeldEffect
    <3>3. Answered'
      BY <1>3, <2>2, <2>3, <2>4, <3>2 DEF Answered
    <3> QED BY <2>1, <3>1, <3>3 DEF Waiting
  <2>5. CASE ~(tiu_ack \/ tiu_timeout_cnt = 0)
    <3>1. tx_init_state' = "WAIT_FOR_ACK" /\ tiu_timeout_cnt' = tiu_timeout_cnt - 1
      BY <1>1, <1>5, <2>5, HandshakeEffect
    <3>2. held' = held + 1
      BY <1>1, <2>1, <2>2, <2>5, HeldEffect
    <3>3. ~tiu_busy_ignore => ack_run' = seen' \/ seen' = ACK_SR_LENGTH
      BY <1>1, <1>2, <2>1, <2>2, <2>3, HeldEffect
    <3>4. ~tiu_busy_ignore => (tiu_ack' => seen' = ACK_SR_LENGTH)
      BY <1>3, <2>2, <2>3
    <3>5. held' + tiu_timeout_cnt' = TIU_TIMEOUT_CNT_MAX + 1
      BY <1>1, <2>2, <3>1, <3>2
    <3> QED BY <1>3, <2>1, <3>1, <3>3, <3>4, <3>5 DEF Waiting
  <2> QED BY <2>4, <2>5
<1>6. CASE tx_init_state = "INIT_TX"
  BY <1>1, <1>6, HandshakeEffect DEF Waiting
<1>7. CASE tx_init_state \in {"WAIT_FOR_TX_DONE", "WAIT_FOR_NOT_BUSY"}
  <2>1. ~pretrigger_latch /\ ~tiu_trigger_o(tiu_pre_trigger_i)
    BY <1>1, <1>7 DEF Waiting, tiu_trigger_o, ready_to_trigger
  <2>2. held' = 0 /\ seen' = 0
    BY <2>1, HeldEffect
  <2>3. ~pretrigger_latch'
        /\ tx_init_state' \in {"WAIT_FOR_TX_DONE", "WAIT_FOR_NOT_BUSY", "READY_FOR_TRIGGER"}
    BY <1>1, <1>7, <2>1, HandshakeEffect
  <2> QED BY <2>2, <2>3 DEF Waiting
<1> QED BY <1>1, <1>4, <1>5, <1>6, <1>7 DEF TiuStates

(* No trigger is counted while a count may still be sent.                    *)
LEMMA CountsStep ==
  ASSUME MIN_DEADTIME_MODE = FALSE, IInv, HandshakeInv,
         NEW source, NEW busy, NEW rst \in BOOLEAN, Clock(source, busy, rst)
  PROVE  Counts'
<1>1. Counts /\ Formed /\ Sending /\ TiuTypeOK /\ tx_init_state \in TiuStates
  BY DEF HandshakeInv, IInv, TypeOK, TiuTypeOK
<1>2. SUFFICES ASSUME ~recounted'
               PROVE  /\ event_count' = number'
                      /\ tx_init_state' = "INIT_TX" \/ tiu_init_tx' => tiu_event_cnt' = number'
  BY DEF Counts
<1>3. ~rst /\ (pre_trigger \/ ~recounted)
  BY <1>2, SignalEffect
<1>4. /\ number' = IF pre_trigger THEN event_count' ELSE number
      /\ ~pre_trigger => event_count' = event_count
  BY <1>3 DEF Clock, History, TriggerClock, EventCounter, Counted
<1>5. event_count' = number'
  BY <1>1, <1>3, <1>4 DEF Counts
<1>6. ASSUME tx_init_state' = "INIT_TX" \/ tiu_init_tx'
      PROVE  tiu_event_cnt' = number'
  <2>1. \/ tx_init_state = "WAIT_FOR_ACK" /\ tiu_event_cnt' = event_count
        \/ tx_init_state = "INIT_TX" /\ tiu_event_cnt' = tiu_event_cnt
    BY <1>1, <1>6, HandshakeEffect DEF TiuStates
  <2>2. ~pre_trigger
    BY <1>1, <2>1 DEF Formed
  <2> QED BY <1>1, <1>3, <1>4, <2>1, <2>2 DEF Counts
<1> QED BY <1>5, <1>6

(* The transmission goes through its stages in turn.                         *)
LEMMA SendingStep ==
  ASSUME IInv, HandshakeInv, NEW source, NEW busy, NEW rst, Clock(source, busy, rst)
  PROVE  Sending'
<1>1. Sending /\ TiuTypeOK /\ tx_init_state \in TiuStates /\ tx_left \in 0..TX_CLOCKS
      /\ TX_CLOCKS \in Nat \ {0}
  BY TiuAssumption DEF HandshakeInv, IInv, TypeOK, TiuTypeOK, TiuAssumption
<1>2. tx_left' = IF tx_left > 0 THEN tx_left - 1 ELSE IF tiu_init_tx THEN TX_CLOCKS ELSE 0
  BY DEF Clock, TiuClock, Transmitter
<1>3. tiu_tx_done' <=> tx_left = 1
  BY SignalEffect
<1>4. tiu_init_tx' => tx_init_state = "INIT_TX" /\ tx_init_state' = "WAIT_FOR_TX_DONE"
  BY <1>1, HandshakeEffect DEF TiuStates
<1>5. tx_left > 0 \/ tiu_init_tx => tx_init_state' = "WAIT_FOR_TX_DONE"
  BY <1>1, HandshakeEffect DEF Sending
<1>6. tx_left' > 0 => tx_init_state' = "WAIT_FOR_TX_DONE" /\ ~tiu_tx_done'
  BY <1>1, <1>2, <1>3, <1>5
<1>7. tiu_tx_done' => tx_init_state' = "WAIT_FOR_TX_DONE"
  BY <1>1, <1>3, <1>5
<1>8. tiu_init_tx' => tx_left' = 0 /\ ~tiu_tx_done'
  BY <1>1, <1>2, <1>3, <1>4 DEF Sending
<1> QED BY <1>4, <1>6, <1>7, <1>8 DEF Sending

(* The handshake begins idle.                                                *)
LEMMA HandshakeInit == Init => HandshakeInv
<1> SUFFICES ASSUME Init PROVE HandshakeInv
  OBVIOUS
<1>1. /\ ~pre_trigger /\ ~global_trigger /\ tx_init_state = "READY_FOR_TRIGGER"
      /\ ~pretrigger_latch /\ held = 0 /\ seen = 0 /\ ~tiu_init_tx /\ tx_left = 0
      /\ ~tiu_tx_done /\ event_count = 0 /\ number = 0
  BY Zenon DEF Init, TiuInit, TriggerInit
<1> QED BY <1>1 DEF HandshakeInv, Formed, Waiting, Counts, Sending

(* A clock keeps the handshake's invariant.                                  *)
LEMMA HandshakeStep ==
  ASSUME MIN_DEADTIME_MODE = FALSE, ACK_SR_LENGTH >= 2, IInv, HandshakeInv, [Next]_vars
  PROVE  HandshakeInv'
<1>1. CASE Next
  <2>1. PICK source \in BOOLEAN, busy \in BOOLEAN, rst \in EVENT_CNT_RESETS :
          Clock(source, busy, rst)
    BY <1>1 DEF Next
  <2>2. rst \in BOOLEAN
    BY MtbAssumption DEF MtbAssumption
  <2> QED BY <2>1, <2>2, FormedStep, WaitingStep, CountsStep, SendingStep DEF HandshakeInv
<1>2. CASE UNCHANGED vars
  BY <1>2 DEF vars, tiuVars, triggerVars, mtbVars, HandshakeInv, Formed, Waiting, Answered,
     Counts, Sending
<1> QED BY <1>1, <1>2

(* The trigger to the tracker stays on until the tracker has answered it or  *)
(* the time is up, for any number of samples but one and any timeout. With   *)
(* one sample, or with the vetoes off, a busy line that was high before the  *)
(* trigger passes for the answer to it.                                      *)
THEOREM TriggerIsHeld ==
  MIN_DEADTIME_MODE = FALSE /\ ACK_SR_LENGTH >= 2 => (Spec => TriggerHeld)
<1> SUFFICES ASSUME MIN_DEADTIME_MODE = FALSE, ACK_SR_LENGTH >= 2
             PROVE  Spec => TriggerHeld
  OBVIOUS
<1>1. IInv /\ HandshakeInv /\ [Next]_vars => HandshakeInv'
  BY HandshakeStep
<1>2. IInv /\ HandshakeInv /\ [Next]_vars =>
        [ (tiu_trigger_o(tiu_pre_trigger_i) /\ ~tiu_trigger_o(tiu_pre_trigger_i)')
            => tiu_busy_ignore \/ seen = ACK_SR_LENGTH \/ held > TIU_TIMEOUT_CNT_MAX ]_vars
  <2> SUFFICES ASSUME IInv, HandshakeInv, Next, tiu_trigger_o(tiu_pre_trigger_i),
                      ~tiu_trigger_o(tiu_pre_trigger_i)'
               PROVE  Answered
    BY DEF Answered
  <2>1. PICK source \in BOOLEAN, busy \in BOOLEAN, rst \in EVENT_CNT_RESETS :
          Clock(source, busy, rst)
    BY DEF Next
  <2>2. ~pretrigger_latch'
    BY DEF tiu_trigger_o
  <2>3. TiuTypeOK /\ tx_init_state \in TiuStates /\ Waiting
    BY DEF IInv, TypeOK, TiuTypeOK, HandshakeInv
  <2>4. \/ tx_init_state = "READY_FOR_TRIGGER" /\ tiu_pre_trigger_i /\ ~tiu_busy
        \/ tx_init_state \in {"WAIT_FOR_ACK", "INIT_TX"} /\ pretrigger_latch
    BY <2>3 DEF tiu_trigger_o, ready_to_trigger, Waiting
  <2>5. tx_init_state = "INIT_TX"
    BY <2>1, <2>2, <2>3, <2>4, HandshakeEffect
  <2> QED BY <2>3, <2>5 DEF Waiting
<1> QED BY <1>1, <1>2, Invariance, HandshakeInit, PTL DEF Spec, TriggerHeld

(* Tracker and boards are told one number for an event, the one its trigger  *)
(* was given, for any lengths of the two transmissions: no trigger is counted *)
(* while a count may still have to be sent to the tracker.                   *)
THEOREM SameEventCountSent ==
  MIN_DEADTIME_MODE = FALSE /\ ACK_SR_LENGTH >= 2 => (Spec => SameEventCount)
<1> SUFFICES ASSUME MIN_DEADTIME_MODE = FALSE, ACK_SR_LENGTH >= 2
             PROVE  Spec => SameEventCount
  OBVIOUS
<1>1. IInv /\ HandshakeInv /\ [Next]_vars => HandshakeInv'
  BY HandshakeStep
<1>2. IInv /\ HandshakeInv /\ [Next]_vars =>
        [ recounted \/
          /\ (rb_tx_state = "IDLE_state" /\ rb_tx_state' = "DATA_state")
               => rb_event_cnt' = number
          /\ tiu_init_tx => tiu_event_cnt = number ]_vars
  <2> SUFFICES ASSUME IInv, HandshakeInv, Next, ~recounted
               PROVE  /\ (rb_tx_state = "IDLE_state" /\ rb_tx_state' = "DATA_state")
                           => rb_event_cnt' = number
                      /\ tiu_init_tx => tiu_event_cnt = number
    OBVIOUS
  <2>1. PICK source \in BOOLEAN, busy \in BOOLEAN, rst \in EVENT_CNT_RESETS :
          Clock(source, busy, rst)
    BY DEF Next
  <2>2. rb_tx_state = "IDLE_state" /\ rb_tx_state' = "DATA_state"
          => rb_event_cnt' = event_count
    BY <2>1 DEF Clock, RbTxClock, SlowEdge, NoSlowEdge, Idle, Data
  <2> QED BY <2>2 DEF HandshakeInv, Counts
<1> QED BY <1>1, <1>2, Invariance, HandshakeInit, PTL DEF Spec, SameEventCount
-----------------------------------------------------------------------------
(* The link to the boards.                                                   *)

(* Clocks until the last stretched pulse on its way is over.                 *)
PulseLeft ==
  IF window_cnt > 0 THEN window_cnt + 2 + EXTEND
  ELSE IF trg_o THEN 2 + EXTEND
  ELSE IF rb_trigger THEN 1 + EXTEND
  ELSE rb_trg_extend

(* Clocks until the packet on the link is over.                              *)
DataLeft ==
  IF rb_tx_state = "DATA_state" THEN phase + CLK_RATIO * (LENGTH - 1 - state_bit_cnt) + 1
  ELSE 0

(* Clocks until the packet of the pulse that is on its way is over, at most. *)
LinkLeft ==
  IF rb_tx_state = "DATA_state" THEN DataLeft
  ELSE IF PulseLeft > EXTEND THEN PulseLeft - EXTEND + CLK_RATIO + CLK_RATIO * LENGTH
  ELSE phase + 1 + CLK_RATIO * LENGTH

(* Clocks until the tracker interface is ready again, at least.              *)
TiuLeft ==
  CASE tx_init_state = "READY_FOR_TRIGGER" -> 0
    [] tx_init_state = "WAIT_FOR_ACK"      -> TX_CLOCKS + 5
    [] tx_init_state = "INIT_TX"           -> TX_CLOCKS + 4
    [] tx_init_state = "WAIT_FOR_TX_DONE"  ->
         IF tiu_init_tx THEN TX_CLOCKS + 3 ELSE tx_left + 2
    [] tx_init_state = "WAIT_FOR_NOT_BUSY" -> 1

(* A trigger whose fate is open: the tracker may still take it.              *)
Open == global_trigger /\ tx_init_state = "READY_FOR_TRIGGER"

(* No pulse outlasts the packet on the link but one that is owed a packet.   *)
PulsesOver == ~owed => PulseLeft <= DataLeft

(* A pulse leaves the window as the window ends.                             *)
WindowOver == trg_o => window_cnt = 0

(* A trigger the tracker took finds the link free, its pulse lasts until the *)
(* slow clock sees it, and its packet is over before the next trigger.       *)
Punctual ==
  ~missed =>
    /\ pre_trigger => rb_tx_state = "IDLE_state" /\ ~owed
    /\ Open => owed
    /\ owed => /\ rb_tx_state = "IDLE_state" /\ PulseLeft > 0
               /\ IF PulseLeft > EXTEND
                  THEN rb_trg_extend = 0 /\ (rb_trigger => window_cnt = 0 /\ ~trg_o)
                  ELSE PulseLeft > phase
    /\ (rb_tx_state = "DATA_state" \/ owed) /\ ~Open => LinkLeft <= TiuLeft

LinkInv == PulsesOver /\ WindowOver /\ Punctual

(* Products of the link's numbers.                                           *)
LEMMA ProductStep == \A a, b \in Int : a * (b - 1) = a * b - a
  OBVIOUS

(* A product of naturals is one.                                             *)
LEMMA ProductNat == \A a, b \in Nat : a * b \in Nat
  OBVIOUS

(* The numbers the two counts below are made of.                             *)
LEMMA LinkTypes ==
  ASSUME IInv
  PROVE  /\ CLK_RATIO \in Nat /\ CLK_RATIO >= 1 /\ LENGTH \in Nat /\ LENGTH >= 1
         /\ EXTEND \in Nat /\ EXTEND >= CLK_RATIO
         /\ CLK_RATIO * LENGTH \in Nat
         /\ \A k \in Int : CLK_RATIO * k \in Int
         /\ phase \in 0..(CLK_RATIO - 1) /\ state_bit_cnt \in 0..(LENGTH - 1)
         /\ rb_trg_extend \in 0..EXTEND /\ window_cnt \in Nat
         /\ rb_tx_state \in {"IDLE_state", "DATA_state"}
         /\ DEADCNT_MAX \in Nat /\ rb_window \in 0..(DEADCNT_MAX - 1)
<1>1. CLK_RATIO \in Nat /\ CLK_RATIO >= 1 /\ LENGTH \in Nat /\ LENGTH >= 1
      /\ EXTEND \in Nat /\ EXTEND >= CLK_RATIO
  BY RbTxAssumption DEF RbTxAssumption
<1>2. CLK_RATIO * LENGTH \in Nat /\ \A k \in Int : CLK_RATIO * k \in Int
  BY <1>1
<1>3. /\ phase \in 0..(CLK_RATIO - 1) /\ state_bit_cnt \in 0..(LENGTH - 1)
      /\ rb_trg_extend \in 0..EXTEND /\ rb_tx_state \in {"IDLE_state", "DATA_state"}
  BY DEF IInv, TypeOK, RbTxTypeOK
<1>4. window_cnt \in Nat /\ DEADCNT_MAX \in Nat /\ rb_window \in 0..(DEADCNT_MAX - 1)
  BY TriggerAssumption DEF IInv, TypeOK, TriggerTypeOK, TriggerAssumption
<1> QED BY <1>1, <1>2, <1>3, <1>4

(* How long a pulse can be on its way: the window is shorter than the dead   *)
(* time.                                                                     *)
LEMMA PulseBound ==
  ASSUME IInv
  PROVE  PulseLeft \in 0..(DEADCNT_MAX + EXTEND + 1)
<1>1. /\ window_cnt > 0 => window_cnt < DEADCNT_MAX
      /\ DEADCNT_MAX >= 1
  BY TriggerAssumption DEF IInv, TypeOK, TriggerTypeOK, Margins, Spare, TriggerAssumption
<1> QED BY <1>1, LinkTypes DEF PulseLeft

(* The counts are numbers.                                                   *)
LEMMA LinkNumbers == IInv => DataLeft \in Nat /\ PulseLeft \in Nat /\ LinkLeft \in Int
<1> SUFFICES ASSUME IInv PROVE DataLeft \in Nat /\ PulseLeft \in Nat /\ LinkLeft \in Int
  OBVIOUS
<1>1. DataLeft \in Nat
  <2>1. LENGTH - 1 - state_bit_cnt \in Nat
    BY LinkTypes
  <2>2. CLK_RATIO * (LENGTH - 1 - state_bit_cnt) \in Nat
    BY <2>1, LinkTypes, ProductNat
  <2> QED BY <2>2, LinkTypes DEF DataLeft
<1>2. PulseLeft \in Nat
  BY PulseBound, LinkTypes
<1> QED BY <1>1, <1>2, LinkTypes DEF LinkLeft

(* A clock takes one off the time of the pulses on their way, unless a       *)
(* trigger is formed.                                                        *)
LEMMA PulseStep ==
  ASSUME IInv, NEW source, NEW busy, NEW rst, Clock(source, busy, rst)
  PROVE  /\ ~pre_trigger => PulseLeft' = IF PulseLeft = 0 THEN 0 ELSE PulseLeft - 1
         /\ pre_trigger => PulseLeft' = rb_window + 2 + EXTEND
<1>1. /\ trg_o' <=> IF pre_trigger THEN rb_window = 0 ELSE window_cnt = 1
      /\ rb_trigger' <=> trg_o
  BY SignalEffect
<1>2. window_cnt' = IF pre_trigger THEN rb_window
                    ELSE IF window_cnt > 0 THEN window_cnt - 1 ELSE 0
  BY DEF Clock, TriggerClock, Integrator
<1>3. rb_trg_extend' = IF rb_trigger THEN EXTEND
                       ELSE IF rb_trg_extend > 0 THEN rb_trg_extend - 1 ELSE 0
  BY DEF Clock, RbTxClock, PulseStretch, Stretched, rb_trg
<1>4. CASE pre_trigger
  BY <1>1, <1>2, <1>4, LinkTypes DEF PulseLeft
<1>5. CASE ~pre_trigger
  <2>1. CASE window_cnt > 0
    BY <1>1, <1>2, <1>5, <2>1, LinkTypes DEF PulseLeft
  <2>2. CASE window_cnt = 0
    BY <1>1, <1>2, <1>3, <1>5, <2>2, LinkTypes DEF PulseLeft
  <2> QED BY <2>1, <2>2, LinkTypes
<1> QED BY <1>4, <1>5

(* What a clock does to the link: only at an edge of the slow clock does     *)
(* anything but the time change.                                             *)
LEMMA LinkEffect ==
  ASSUME IInv, NEW source, NEW busy, NEW rst, Clock(source, busy, rst)
  PROVE  /\ rb_tx_state = "DATA_state" =>
              /\ DataLeft' = DataLeft - 1 /\ DataLeft >= 1
              /\ rb_tx_state' = "IDLE_state" <=> DataLeft = 1
         /\ rb_tx_state = "IDLE_state" /\ (phase > 0 \/ rb_trg_extend = 0) =>
              rb_tx_state' = "IDLE_state" /\ DataLeft' = 0
         /\ rb_tx_state = "IDLE_state" /\ phase = 0 /\ rb_trg_extend > 0 =>
              rb_tx_state' = "DATA_state" /\ DataLeft' = CLK_RATIO * LENGTH
         /\ phase > 0 => phase' = phase - 1
         /\ phase' \in 0..(CLK_RATIO - 1)
<1> USE LinkTypes
<1>1. /\ phase' = IF phase = 0 THEN CLK_RATIO - 1 ELSE phase - 1
      /\ SlowEdge(event_count) \/ NoSlowEdge
  BY DEF Clock, RbTxClock
<1>2. CASE NoSlowEdge
  <2>1. phase > 0 /\ phase' = phase - 1 /\ rb_tx_state' = rb_tx_state
        /\ state_bit_cnt' = state_bit_cnt
    BY <1>1, <1>2 DEF NoSlowEdge
  <2>2. CASE rb_tx_state = "DATA_state"
    <3> DEFINE bits == CLK_RATIO * (LENGTH - 1 - state_bit_cnt)
    <3>1. bits \in Nat
      <4>1. LENGTH - 1 - state_bit_cnt \in Nat
        OBVIOUS
      <4> QED BY <4>1, ProductNat
    <3>2. DataLeft = phase + bits + 1 /\ DataLeft' = phase' + bits + 1
      BY <2>1, <2>2 DEF DataLeft
    <3> HIDE DEF bits
    <3> QED BY <2>1, <2>2, <3>1, <3>2
  <2>3. CASE rb_tx_state = "IDLE_state"
    BY <2>1, <2>3 DEF DataLeft
  <2> QED BY <2>1, <2>2, <2>3
<1>3. CASE phase = 0 /\ Idle(event_count)
  <2>1. /\ rb_tx_state = "IDLE_state" /\ state_bit_cnt' = 0 /\ phase' = CLK_RATIO - 1
        /\ rb_tx_state' = IF rb_trg_extend > 0 THEN "DATA_state" ELSE "IDLE_state"
    BY <1>1, <1>3 DEF Idle, rb_trg
  <2>2. rb_trg_extend > 0 => DataLeft' = CLK_RATIO * LENGTH
    <3>1. rb_trg_extend > 0 => DataLeft' = CLK_RATIO - 1 + CLK_RATIO * (LENGTH - 1 - 0) + 1
      BY <2>1 DEF DataLeft
    <3>2. LENGTH - 1 - 0 = LENGTH - 1
      OBVIOUS
    <3>3. CLK_RATIO * (LENGTH - 1) = CLK_RATIO * LENGTH - CLK_RATIO
      BY ProductStep
    <3> QED BY <3>1, <3>2, <3>3
  <2>3. rb_trg_extend = 0 => DataLeft' = 0
    BY <2>1 DEF DataLeft
  <2> QED BY <1>3, <2>1, <2>2, <2>3
<1>4. CASE phase = 0 /\ Data
  <2>1. rb_tx_state = "DATA_state" /\ phase' = CLK_RATIO - 1
    BY <1>1, <1>4 DEF Data
  <2>2. CASE state_bit_cnt = LENGTH - 1
    <3>1. rb_tx_state' = "IDLE_state"
      BY <1>4, <2>2 DEF Data
    <3>2. DataLeft = 0 + CLK_RATIO * 0 + 1
      BY <1>4, <2>1, <2>2 DEF DataLeft
    <3>3. DataLeft = 1
      BY <3>2
    <3>4. DataLeft' = 0
      BY <3>1 DEF DataLeft
    <3> QED BY <1>4, <2>1, <3>1, <3>3, <3>4
  <2>3. CASE state_bit_cnt # LENGTH - 1
    <3>1. rb_tx_state' = "DATA_state" /\ state_bit_cnt' = state_bit_cnt + 1
      BY <1>4, <2>3 DEF Data
    <3> DEFINE k == LENGTH - 1 - state_bit_cnt
    <3>2. DataLeft = CLK_RATIO * k + 1
      BY <1>4, <2>1 DEF DataLeft
    <3>3. DataLeft' = CLK_RATIO - 1 + CLK_RATIO * (k - 1) + 1
      <4>1. LENGTH - 1 - (state_bit_cnt + 1) = k - 1
        OBVIOUS
      <4> QED BY <2>1, <3>1, <4>1 DEF DataLeft
    <3>4. k \in Nat /\ k >= 1
      BY <2>3
    <3>5. CLK_RATIO * (k - 1) = CLK_RATIO * k - CLK_RATIO /\ CLK_RATIO * k \in Int
      BY <3>4, ProductStep
    <3>6. CLK_RATIO * (k - 1) \in Nat
      <4>1. k - 1 \in Nat
        BY <3>4
      <4> QED BY <4>1, ProductNat
    <3>7. DataLeft' = DataLeft - 1 /\ DataLeft >= 1 /\ DataLeft # 1
      <4> HIDE DEF k
      <4> QED BY <3>2, <3>3, <3>5, <3>6
    <3> QED BY <1>4, <2>1, <3>1, <3>7
  <2> QED BY <2>2, <2>3
<1> QED BY <1>1, <1>2, <1>3, <1>4 DEF SlowEdge

(* What a clock does to the debts of the link.                               *)
LEMMA OwedEffect ==
  ASSUME NEW source, NEW busy, NEW rst, Clock(source, busy, rst)
  PROVE  /\ owed' <=> \/ pre_trigger
                      \/ owed /\ ~(rb_tx_state = "IDLE_state" /\ rb_tx_state' = "DATA_state")
         /\ missed' <=> \/ Open /\ tiu_busy
                        \/ missed /\ (rb_tx_state = "DATA_state" \/ owed)
<1>1. owed' <=> \/ pre_trigger
                \/ owed /\ ~(rb_tx_state = "IDLE_state" /\ rb_tx_state' = "DATA_state")
  BY Zenon DEF Clock, History
<1>2. missed' <=> \/ Open /\ tiu_busy
                  \/ missed /\ (rb_tx_state = "DATA_state" \/ owed)
  BY Zenon DEF Clock, History, Open
<1> QED BY <1>1, <1>2

(* A pulse started on the link is over when its packet is.                   *)
LEMMA PulsesOverStep ==
  ASSUME DEADCNT_MAX + EXTEND <= CLK_RATIO * LENGTH, IInv, LinkInv,
         NEW source, NEW busy, NEW rst, Clock(source, busy, rst)
  PROVE  PulsesOver'
<1> SUFFICES ASSUME ~owed' PROVE PulseLeft' <= DataLeft'
  BY DEF PulsesOver
<1> USE LinkTypes
<1>1. /\ ~pre_trigger
      /\ owed => rb_tx_state = "IDLE_state" /\ rb_tx_state' = "DATA_state"
  BY OwedEffect
<1>2. PulseLeft \in 0..(DEADCNT_MAX + EXTEND + 1)
      /\ PulseLeft' = IF PulseLeft = 0 THEN 0 ELSE PulseLeft - 1
  BY <1>1, PulseBound, PulseStep
<1>3. CASE rb_tx_state = "IDLE_state" /\ phase = 0 /\ rb_trg_extend > 0
  <2>1. DataLeft' = CLK_RATIO * LENGTH
    BY <1>3, LinkEffect
  <2> QED BY <1>2, <2>1
<1>4. CASE ~(rb_tx_state = "IDLE_state" /\ phase = 0 /\ rb_trg_extend > 0)
  <2>1. ~owed
    BY <1>1, <1>4, LinkEffect
  <2>2. PulseLeft <= DataLeft
    BY <2>1 DEF LinkInv, PulsesOver
  <2>3. CASE rb_tx_state = "DATA_state"
    <3>1. DataLeft' = DataLeft - 1 /\ DataLeft >= 1 /\ DataLeft \in Nat
      BY <2>3, LinkEffect, LinkNumbers
    <3> QED BY <1>2, <2>2, <3>1
  <2>4. CASE rb_tx_state = "IDLE_state"
    <3>1. DataLeft = 0 /\ DataLeft' = 0
      BY <1>4, <2>4, LinkEffect DEF DataLeft
    <3> QED BY <1>2, <2>2, <3>1
  <2> QED BY <2>3, <2>4
<1> QED BY <1>3, <1>4

(* The tracker interface is never ready sooner than it was to be.            *)
LEMMA TiuLeftStep ==
  ASSUME IInv, HandshakeInv, NEW source, NEW busy, NEW rst, Clock(source, busy, rst)
  PROVE  /\ TiuLeft \in Nat /\ TiuLeft' \in Nat /\ TiuLeft' >= TiuLeft - 1
         /\ tx_init_state' = "WAIT_FOR_ACK" => TiuLeft' = TX_CLOCKS + 5
<1> USE TiuAssumption DEF TiuAssumption
<1>1. /\ TiuTypeOK /\ tx_init_state \in TiuStates /\ tx_left \in 0..TX_CLOCKS /\ Sending
  BY DEF IInv, TypeOK, TiuTypeOK, HandshakeInv
<1>2. tx_left' = IF tx_left > 0 THEN tx_left - 1 ELSE IF tiu_init_tx THEN TX_CLOCKS ELSE 0
  BY DEF Clock, TiuClock, Transmitter
<1>3. CASE tx_init_state = "READY_FOR_TRIGGER"
  BY <1>1, <1>3, HandshakeEffect DEF TiuLeft
<1>4. CASE tx_init_state = "WAIT_FOR_ACK"
  BY <1>1, <1>4, HandshakeEffect DEF TiuLeft
<1>5. CASE tx_init_state = "INIT_TX"
  BY <1>1, <1>5, HandshakeEffect DEF TiuLeft
<1>6. CASE tx_init_state = "WAIT_FOR_TX_DONE"
  <2>1. CASE tiu_tx_done
    BY <1>1, <1>6, <2>1, HandshakeEffect DEF TiuLeft, Sending
  <2>2. CASE ~tiu_tx_done
    <3>1. tx_init_state' = "WAIT_FOR_TX_DONE" /\ ~tiu_init_tx'
      BY <1>1, <1>6, <2>2, HandshakeEffect
    <3>2. tx_left' \in Nat /\ TiuLeft' = tx_left' + 2
      BY <1>1, <1>2, <3>1 DEF TiuLeft
    <3>3. CASE tiu_init_tx
      BY <1>1, <1>2, <1>6, <3>1, <3>2, <3>3 DEF TiuLeft, Sending
    <3>4. CASE ~tiu_init_tx
      BY <1>1, <1>2, <1>6, <3>1, <3>2, <3>4 DEF TiuLeft
    <3> QED BY <3>3, <3>4
  <2> QED BY <2>1, <2>2
<1>7. CASE tx_init_state = "WAIT_FOR_NOT_BUSY"
  BY <1>1, <1>7, HandshakeEffect DEF TiuLeft
<1> QED BY <1>1, <1>3, <1>4, <1>5, <1>6, <1>7 DEF TiuStates

(* A trigger that is formed finds the link free and no pulse on its way,     *)
(* unless the tracker missed the one before.                                 *)
LEMMA FreshTrigger ==
  ASSUME MIN_DEADTIME_MODE = FALSE, IInv, HandshakeInv, LinkInv,
         NEW source, NEW busy, NEW rst, Clock(source, busy, rst),
         pre_trigger', ~missed'
  PROVE  rb_tx_state' = "IDLE_state" /\ ~owed'
<1> USE LinkTypes
<1>1. ready_to_trigger /\ ~dead /\ ~pre_trigger
  BY FormedFrom
<1>2. TiuLeft = 0 /\ ~Open
  BY <1>1 DEF ready_to_trigger, TiuLeft, HandshakeInv, Formed, Open
<1>3. rb_tx_state = "IDLE_state" /\ ~owed
  <2>1. CASE missed
    BY <2>1, OwedEffect
  <2>2. CASE ~missed
    <3>1. rb_tx_state = "DATA_state" \/ owed => LinkLeft <= 0
      BY <1>2, <2>2 DEF LinkInv, Punctual
    <3>2. rb_tx_state = "DATA_state" => LinkLeft >= 1
      BY LinkEffect DEF LinkLeft
    <3>3. rb_tx_state = "IDLE_state" => LinkLeft >= 1
      BY LinkNumbers DEF LinkLeft
    <3> QED BY <3>1, <3>2, <3>3, LinkNumbers
  <2> QED BY <2>1, <2>2
<1>4. PulseLeft = 0
  BY <1>3, PulseBound DEF LinkInv, PulsesOver, DataLeft
<1>5. rb_trg_extend = 0
  BY <1>4 DEF PulseLeft
<1> QED BY <1>1, <1>3, <1>5, LinkEffect, OwedEffect

(* The time of the packet of a pulse runs down with the clock.               *)
LEMMA LinkLeftStep ==
  ASSUME IInv, LinkInv, ~missed, ~pre_trigger, rb_tx_state = "DATA_state" \/ owed,
         NEW source, NEW busy, NEW rst, Clock(source, busy, rst),
         rb_tx_state' = "DATA_state" \/ owed', IInv'
  PROVE  LinkLeft' <= LinkLeft - 1
<1> USE LinkTypes
<1>1. CASE rb_tx_state = "DATA_state"
  <2>1. ~owed
    BY <1>1 DEF LinkInv, Punctual
  <2>2. rb_tx_state' = "DATA_state"
    BY <2>1, OwedEffect
  <2>3. DataLeft' = DataLeft - 1 /\ DataLeft \in Nat
    BY <1>1, LinkEffect, LinkNumbers
  <2>4. LinkLeft' = DataLeft' /\ LinkLeft = DataLeft
    BY <1>1, <2>2 DEF LinkLeft
  <2> QED BY <2>3, <2>4
<1>2. CASE rb_tx_state = "IDLE_state"
  <2>1. /\ owed /\ PulseLeft > 0
        /\ IF PulseLeft > EXTEND THEN rb_trg_extend = 0 ELSE PulseLeft > phase
    BY <1>2 DEF LinkInv, Punctual
  <2>2. PulseLeft' = PulseLeft - 1 /\ PulseLeft \in Nat
    BY <2>1, PulseStep, PulseBound
  <2>3. CASE PulseLeft > EXTEND
    <3>1. rb_tx_state' = "IDLE_state" /\ phase' \in 0..(CLK_RATIO - 1)
      BY <1>2, <2>1, <2>3, LinkEffect
    <3>2. LinkLeft = PulseLeft - EXTEND + CLK_RATIO + CLK_RATIO * LENGTH
      BY <1>2, <2>3 DEF LinkLeft
    <3>3. CASE PulseLeft' > EXTEND
      <4>1. LinkLeft' = PulseLeft' - EXTEND + CLK_RATIO + CLK_RATIO * LENGTH
        BY <3>1, <3>3 DEF LinkLeft
      <4> QED BY <2>2, <3>2, <4>1
    <3>4. CASE ~(PulseLeft' > EXTEND)
      <4>1. LinkLeft' = phase' + 1 + CLK_RATIO * LENGTH
        BY <3>1, <3>4 DEF LinkLeft
      <4> QED BY <2>2, <2>3, <3>1, <3>2, <4>1
    <3> QED BY <3>3, <3>4
  <2>4. CASE ~(PulseLeft > EXTEND)
    <3>1. LinkLeft = phase + 1 + CLK_RATIO * LENGTH /\ rb_trg_extend > 0
      BY <1>2, <2>1, <2>4 DEF LinkLeft, PulseLeft
    <3>2. CASE phase = 0
      <4>1. rb_tx_state' = "DATA_state" /\ DataLeft' = CLK_RATIO * LENGTH
        BY <1>2, <3>1, <3>2, LinkEffect
      <4>2. LinkLeft' = CLK_RATIO * LENGTH
        BY <4>1 DEF LinkLeft
      <4> QED BY <3>1, <3>2, <4>2
    <3>3. CASE phase > 0
      <4>1. rb_tx_state' = "IDLE_state" /\ phase' = phase - 1
        BY <1>2, <3>3, LinkEffect
      <4>2. ~(PulseLeft' > EXTEND)
        BY <2>2, <2>4
      <4>3. LinkLeft' = phase' + 1 + CLK_RATIO * LENGTH
        BY <4>1, <4>2 DEF LinkLeft
      <4> QED BY <3>1, <4>1, <4>3
    <3> QED BY <3>2, <3>3
  <2> QED BY <2>3, <2>4
<1> QED BY <1>1, <1>2

(* The tracker's transmission outlasts the packet of a fresh trigger.        *)
LEMMA Outlasts ==
  TX_CLOCKS \in Nat /\ TX_CLOCKS >= CLK_RATIO * LENGTH + CLK_RATIO + CLK_RATIO + DEADCNT_MAX
<1>1. CLK_RATIO \in Nat /\ LENGTH \in Nat
  BY RbTxAssumption DEF RbTxAssumption
<1>2. CLK_RATIO * (LENGTH + 2) = CLK_RATIO * LENGTH + CLK_RATIO + CLK_RATIO
  BY <1>1
<1> QED BY <1>2, MtbAssumption, TiuAssumption DEF MtbAssumption, TiuAssumption

(* Once the tracker takes its trigger, the link keeps its times.             *)
LEMMA PunctualStep ==
  ASSUME MIN_DEADTIME_MODE = FALSE, IInv, HandshakeInv, LinkInv,
         NEW source, NEW busy, NEW rst, Clock(source, busy, rst), IInv'
  PROVE  Punctual'
<1> USE LinkTypes
<1> SUFFICES ASSUME ~missed'
             PROVE  /\ pre_trigger' => rb_tx_state' = "IDLE_state" /\ ~owed'
                    /\ Open' => owed'
                    /\ owed' => /\ rb_tx_state' = "IDLE_state" /\ PulseLeft' > 0
                                /\ IF PulseLeft' > EXTEND
                                   THEN /\ rb_trg_extend' = 0
                                        /\ rb_trigger' => window_cnt' = 0 /\ ~trg_o'
                                   ELSE PulseLeft' > phase'
                    /\ (rb_tx_state' = "DATA_state" \/ owed') /\ ~Open' => LinkLeft' <= TiuLeft'
  BY DEF Punctual
<1>1. pre_trigger' => rb_tx_state' = "IDLE_state" /\ ~owed'
  BY FreshTrigger
<1>2. ~missed \/ (rb_tx_state = "IDLE_state" /\ ~owed)
  BY OwedEffect
<1>w. /\ window_cnt' = IF pre_trigger THEN rb_window
                        ELSE IF window_cnt > 0 THEN window_cnt - 1 ELSE 0
      /\ trg_o => window_cnt = 0
  BY DEF Clock, TriggerClock, Integrator, LinkInv, WindowOver
<1>o. Open' => owed'
  BY SignalEffect, OwedEffect DEF Open
<1>3. rb_trg_extend' = IF rb_trigger THEN EXTEND
                       ELSE IF rb_trg_extend > 0 THEN rb_trg_extend - 1 ELSE 0
  BY DEF Clock, RbTxClock, PulseStretch, Stretched, rb_trg
<1>4. CASE pre_trigger
  <2>1. rb_tx_state = "IDLE_state" /\ ~owed
    BY <1>2, <1>4 DEF LinkInv, Punctual
  <2>2. PulseLeft = 0
    BY <2>1, PulseBound DEF LinkInv, PulsesOver, DataLeft
  <2>3. rb_trg_extend = 0 /\ ~rb_trigger /\ ~trg_o
    BY <2>2 DEF PulseLeft
  <2>4. rb_tx_state' = "IDLE_state" /\ rb_trg_extend' = 0 /\ ~rb_trigger'
    BY <1>3, <2>1, <2>3, LinkEffect, SignalEffect
  <2>5. PulseLeft' = rb_window + 2 + EXTEND
    BY <1>4, PulseStep
  <2>6. ASSUME ~Open' PROVE LinkLeft' <= TiuLeft'
    <3>1. LinkLeft' = rb_window + 2 + CLK_RATIO + CLK_RATIO * LENGTH
      BY <2>4, <2>5 DEF LinkLeft
    <3>2. tx_init_state = "READY_FOR_TRIGGER"
      BY <1>4 DEF HandshakeInv, Formed
    <3>3. global_trigger'
      BY <1>4, SignalEffect
    <3>4. tx_init_state' = "WAIT_FOR_ACK"
      BY <2>6, <3>2, <3>3, HandshakeEffect DEF Open, IInv, TypeOK
    <3>5. TiuLeft' = TX_CLOCKS + 5
      BY <3>4, TiuLeftStep
    <3> QED BY <3>1, <3>5, Outlasts
  <2> QED BY <1>1, <1>o, <2>4, <2>5, <2>6
<1>5. CASE ~pre_trigger
  <2>1. owed' => owed /\ rb_tx_state' = rb_tx_state /\ ~missed
    <3>1. owed' => owed /\ ~(rb_tx_state = "IDLE_state" /\ rb_tx_state' = "DATA_state")
      BY <1>5, OwedEffect
    <3>2. owed' => ~missed
      BY <1>2, <3>1
    <3>3. owed' => rb_tx_state = "IDLE_state"
      BY <3>1, <3>2 DEF LinkInv, Punctual
    <3>4. rb_tx_state' \in {"IDLE_state", "DATA_state"}
      BY DEF IInv, TypeOK, RbTxTypeOK
    <3> QED BY <3>1, <3>2, <3>3, <3>4
  <2>2. ASSUME owed'
        PROVE  /\ rb_tx_state' = "IDLE_state" /\ PulseLeft' > 0
               /\ IF PulseLeft' > EXTEND
                  THEN rb_trg_extend' = 0 /\ (rb_trigger' => window_cnt' = 0 /\ ~trg_o')
                  ELSE PulseLeft' > phase'
    <3>1. /\ owed /\ ~missed /\ rb_tx_state = "IDLE_state" /\ rb_tx_state' = "IDLE_state"
          /\ PulseLeft > 0
          /\ IF PulseLeft > EXTEND
             THEN rb_trg_extend = 0 /\ (rb_trigger => window_cnt = 0 /\ ~trg_o)
             ELSE PulseLeft > phase
      BY <2>1, <2>2 DEF LinkInv, Punctual
    <3>2. PulseLeft' = PulseLeft - 1 /\ PulseLeft \in Nat /\ phase' \in 0..(CLK_RATIO - 1)
      BY <1>5, <3>1, PulseStep, PulseBound, LinkEffect
    <3>3. CASE PulseLeft > EXTEND
      <4>1. PulseLeft' > EXTEND => ~rb_trigger \/ window_cnt > 0 \/ trg_o
        BY <3>2, <3>3 DEF PulseLeft
      <4>2. rb_trigger' => window_cnt' = 0 /\ ~trg_o'
        BY <1>5, <1>w, SignalEffect
      <4>3. PulseLeft' > EXTEND => rb_trg_extend' = 0
        BY <1>3, <3>1, <3>3, <4>1
      <4>4. ~(PulseLeft' > EXTEND) => PulseLeft' > phase' /\ PulseLeft' > 0
        BY <3>2, <3>3
      <4> QED BY <3>1, <3>2, <4>2, <4>3, <4>4
    <3>4. CASE ~(PulseLeft > EXTEND)
      <4>1. rb_trg_extend > 0
        BY <3>1, <3>4 DEF PulseLeft
      <4>2. phase > 0 /\ phase' = phase - 1
        BY <3>1, <4>1, LinkEffect
      <4> QED BY <3>1, <3>2, <3>4, <4>2
    <3> QED BY <3>3, <3>4
  <2>3. ASSUME rb_tx_state' = "DATA_state" \/ owed', ~Open'
        PROVE  LinkLeft' <= TiuLeft'
    <3>1. rb_tx_state = "DATA_state" \/ owed
      <4>1. CASE rb_tx_state = "IDLE_state" /\ ~owed
        <5>1. PulseLeft = 0
          BY <4>1, PulseBound DEF LinkInv, PulsesOver, DataLeft
        <5>2. rb_trg_extend = 0
          BY <5>1 DEF PulseLeft
        <5> QED BY <2>1, <2>3, <4>1, <5>2, LinkEffect
      <4> QED BY <4>1
    <3>2. ~missed
      BY <1>2, <3>1
    <3>3. LinkLeft' <= LinkLeft - 1
      BY <1>5, <2>3, <3>1, <3>2, LinkLeftStep
    <3>4. LinkLeft \in Int /\ LinkLeft' \in Int
      <4>1. (IInv => DataLeft \in Nat /\ PulseLeft \in Nat /\ LinkLeft \in Int)'
        BY LinkNumbers, PTL
      <4> QED BY <4>1, LinkNumbers
    <3>5. CASE ~Open
      BY <3>1, <3>2, <3>3, <3>4, <3>5, TiuLeftStep DEF LinkInv, Punctual
    <3>6. CASE Open
      <4>1. owed /\ rb_tx_state = "IDLE_state"
        BY <3>2, <3>6 DEF LinkInv, Punctual
      <4>2. LinkLeft <= DEADCNT_MAX + 1 + CLK_RATIO + CLK_RATIO * LENGTH
        BY <4>1, PulseBound DEF LinkLeft
      <4>3. tiu_pre_trigger_i /\ ~tiu_busy /\ tx_init_state = "READY_FOR_TRIGGER"
        BY <3>6, OwedEffect DEF Open, tiu_pre_trigger_i
      <4>4. TiuLeft' = TX_CLOCKS + 5
        BY <4>3, HandshakeEffect, TiuLeftStep DEF IInv, TypeOK
      <4> QED BY <3>3, <3>4, <4>2, <4>4, Outlasts
    <3> QED BY <3>5, <3>6
  <2> QED BY <1>1, <1>o, <2>2, <2>3
<1> QED BY <1>4, <1>5

(* Nothing is on its way at first.                                           *)
LEMMA LinkInit == EXTEND \in Nat /\ Init => LinkInv
  BY DEF Init, TiuInit, TriggerInit, RbTxInit, LinkInv, PulsesOver, WindowOver, Punctual,
         PulseLeft, DataLeft, Open

(* A clock keeps the link's invariant.                                       *)
LEMMA LinkStep ==
  ASSUME MIN_DEADTIME_MODE = FALSE, DEADCNT_MAX + EXTEND <= CLK_RATIO * LENGTH,
         IInv, HandshakeInv, LinkInv, [Next]_vars, IInv'
  PROVE  LinkInv'
<1>1. ASSUME NEW source \in BOOLEAN, NEW busy \in BOOLEAN, NEW rst \in EVENT_CNT_RESETS,
             Clock(source, busy, rst)
      PROVE  LinkInv'
  <2>1. PulsesOver'
    BY <1>1, PulsesOverStep
  <2>2. Punctual'
    BY <1>1, PunctualStep
  <2>3. WindowOver'
    <3>1. window_cnt' = IF pre_trigger THEN rb_window
                        ELSE IF window_cnt > 0 THEN window_cnt - 1 ELSE 0
      BY <1>1 DEF Clock, TriggerClock, Integrator
    <3> QED BY <1>1, <3>1, SignalEffect, LinkTypes DEF WindowOver
  <2> QED BY <2>1, <2>2, <2>3 DEF LinkInv
<1>2. ASSUME UNCHANGED vars PROVE LinkInv'
  BY <1>2 DEF vars, tiuVars, triggerVars, rbTxVars, mtbVars, LinkInv, PulsesOver, WindowOver,
              Punctual, PulseLeft, DataLeft, LinkLeft, TiuLeft, Open
<1> QED BY <1>1, <1>2 DEF Next

(* Every trigger the tracker takes gets its packet on the link, for any      *)
(* ratio of the clocks and any length of pulse, packet and window that fit:  *)
(* the stretched pulse has to be over when the packet is.                    *)
THEOREM NoTriggerSwallowed ==
  /\ MIN_DEADTIME_MODE = FALSE /\ ACK_SR_LENGTH >= 2
  /\ DEADCNT_MAX + EXTEND <= CLK_RATIO * LENGTH
  => (Spec => NoneSwallowed)
<1> SUFFICES ASSUME MIN_DEADTIME_MODE = FALSE, ACK_SR_LENGTH >= 2,
                    DEADCNT_MAX + EXTEND <= CLK_RATIO * LENGTH
             PROVE  Spec => NoneSwallowed
  OBVIOUS
<1>1. IInv /\ HandshakeInv /\ [Next]_vars => HandshakeInv'
  BY HandshakeStep
<1>2. IInv /\ HandshakeInv /\ LinkInv /\ [Next]_vars /\ IInv' => LinkInv'
  BY LinkStep
<1>3. IInv /\ LinkInv /\ [Next]_vars =>
        [ (rb_trg_extend = 1 /\ ~rb_trigger) => ~owed' \/ missed ]_vars
  <2> SUFFICES ASSUME IInv, LinkInv, Next, rb_trg_extend = 1, ~rb_trigger, ~missed
               PROVE  ~owed'
    OBVIOUS
  <2>1. PICK source \in BOOLEAN, busy \in BOOLEAN, rst \in EVENT_CNT_RESETS :
          Clock(source, busy, rst)
    BY DEF Next
  <2>2. ~pre_trigger
    <3> SUFFICES ASSUME pre_trigger PROVE FALSE
      OBVIOUS
    <3>1. rb_tx_state = "IDLE_state" /\ ~owed
      BY DEF LinkInv, Punctual
    <3>2. PulseLeft = 0
      BY <3>1, PulseBound, LinkTypes DEF LinkInv, PulsesOver, DataLeft
    <3> QED BY <3>2, LinkTypes DEF PulseLeft
  <2>3. owed => rb_tx_state' = "DATA_state" /\ rb_tx_state = "IDLE_state"
    <3> SUFFICES ASSUME owed
                 PROVE  rb_tx_state' = "DATA_state" /\ rb_tx_state = "IDLE_state"
      OBVIOUS
    <3>1. rb_tx_state = "IDLE_state"
          /\ IF PulseLeft > EXTEND THEN rb_trg_extend = 0 ELSE PulseLeft > phase
      BY DEF LinkInv, Punctual
    <3>2. PulseLeft = 1 /\ phase = 0
      BY <3>1, LinkTypes DEF PulseLeft
    <3> QED BY <2>1, <3>1, <3>2, LinkEffect
  <2> QED BY <2>1, <2>2, <2>3, OwedEffect
<1>4. Init => LinkInv
  BY LinkInit, RbTxAssumption DEF RbTxAssumption
<1> QED BY <1>1, <1>2, <1>3, <1>4, Invariance, HandshakeInit, PTL DEF Spec, NoneSwallowed

=============================================================================
