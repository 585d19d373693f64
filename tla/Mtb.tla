-------------------------------- MODULE Mtb --------------------------------
(***************************************************************************)
(* The trigger path of the master trigger board, as master_trigger.vhd     *)
(* wires it: the trigger (MtbTrigger) vetoed by the tracker interface      *)
(* (Tiu) and by the readout boards' dead time (RbTx), and its event count  *)
(* sent to both.  Each step is one edge of the 100 MHz clock.  Outside are *)
(* the trigger sources and software's counter reset, free at each clock,   *)
(* and the tracker, which may raise and drop its busy line at any clock,   *)
(* answer late, or never.                                                  *)
(***************************************************************************)
EXTENDS Tiu, MtbTrigger, RbTx

CONSTANTS
  MIN_DEADTIME_MODE,     (* the register of that name                         *)
  EVENT_CNT_RESETS       (* {FALSE}, or BOOLEAN: software may reset the count *)

ASSUME MtbAssumption ==
  /\ MIN_DEADTIME_MODE \in BOOLEAN
  /\ EVENT_CNT_RESETS \subseteq BOOLEAN
  (* a transmission to the tracker outlasts the packet to a board: 3400      *)
  (* clocks and 57 * 4                                                       *)
  /\ TX_CLOCKS >= CLK_RATIO * (LENGTH + 2) + DEADCNT_MAX

(* What happened, for the properties; the design has none of it.             *)
VARIABLES
  number,                (* the count given to the last trigger               *)
  recounted,             (* the counter was reset since                       *)
  owed,                  (* the last trigger is not yet on the link           *)
  missed,                (* the tracker did not get a trigger the boards get  *)
  held, seen             (* clocks the tracker's trigger has been on, and the *)
                         (* samples of its answer seen in a row since         *)

mtbVars == <<number, recounted, owed, missed, held, seen>>
vars == <<tiuVars, triggerVars, rbTxVars, mtbVars>>

-----------------------------------------------------------------------------

(* master_trigger.vhd, 1193: two clocks of pretrigger, so that a glitch of   *)
(* one clock on the busy line does not hide it.                              *)
tiu_pre_trigger_i == pre_trigger \/ global_trigger

(* The vetoes (831 and 848).                                                 *)
busy_i == global_busy /\ ~MIN_DEADTIME_MODE

rb_busy_i == rb_dead /\ rb_block_if_busy /\ ~MIN_DEADTIME_MODE

History(event_cnt_reset) ==
  LET starts == rb_tx_state = "IDLE_state" /\ rb_tx_state' = "DATA_state"
      lost   == global_trigger /\ tx_init_state = "READY_FOR_TRIGGER" /\ tiu_busy
      on     == tiu_trigger_o(tiu_pre_trigger_i)
      sample == tiu_busy \/ tiu_busy_ignore
  IN /\ number' = IF pre_trigger THEN event_count' ELSE number
     /\ recounted' = (event_cnt_reset \/ (recounted /\ ~pre_trigger))
     /\ owed' = (pre_trigger \/ (owed /\ ~starts))
     /\ missed' = (lost \/ (missed /\ (rb_tx_state = "DATA_state" \/ owed)))
     /\ held' = IF ~on THEN 0
                ELSE IF held <= TIU_TIMEOUT_CNT_MAX THEN held + 1 ELSE held
     /\ seen' = IF ~on THEN 0
                ELSE IF seen = ACK_SR_LENGTH THEN seen
                ELSE IF sample THEN seen + 1 ELSE 0

Clock(source, busy, event_cnt_reset) ==
  /\ TiuClock(tiu_pre_trigger_i, event_count, busy)
  /\ TriggerClock(source, busy_i, rb_busy_i, event_cnt_reset)
  /\ RbTxClock(rb_trigger, event_count)
  /\ History(event_cnt_reset)

Init ==
  /\ TiuInit /\ TriggerInit /\ RbTxInit
  /\ number = 0 /\ recounted = FALSE /\ owed = FALSE /\ missed = FALSE
  /\ held = 0 /\ seen = 0

Next == \E source, busy \in BOOLEAN, event_cnt_reset \in EVENT_CNT_RESETS :
          Clock(source, busy, event_cnt_reset)

(* The clock runs, and the tracker is not busy for ever.                     *)
NotBusyNext == \E source \in BOOLEAN, event_cnt_reset \in EVENT_CNT_RESETS :
                 Clock(source, FALSE, event_cnt_reset)

Spec == Init /\ [][Next]_vars /\ WF_vars(NotBusyNext)

-----------------------------------------------------------------------------

(* Type invariant of the registers of the three parts.                       *)
TypeOK ==
  /\ TiuTypeOK /\ TriggerTypeOK /\ RbTxTypeOK
  /\ number \in Nat /\ {recounted, owed, missed} \subseteq BOOLEAN
  /\ held \in 0..(TIU_TIMEOUT_CNT_MAX + 1) /\ seen \in 0..ACK_SR_LENGTH

(* The trigger has reached the boards' dead-time counters before the fixed   *)
(* dead time is over: every window but the longest the register holds.       *)
WindowCovered == rb_window + 2 <= DEADCNT_MAX

(* No trigger is formed while a readout board that blocks is still reading   *)
(* out the last one, although the trigger reaches the board's dead-time      *)
(* counter only after the integration window and three registers: the fixed  *)
(* dead time covers the gap.                                                 *)
BoardsReady ==
  pre_trigger /\ WindowCovered => MIN_DEADTIME_MODE \/ ~rb_block_if_busy \/ ~rb_dead

(* What the register RB_BLOCK_IF_BUSY promises whatever the window: "if a    *)
(* readout board is BUSY then do not trigger".  The assertion in trigger.vhd,*)
(* "DEADCNT should be greater than integration window", admits the longest   *)
(* window, with which the veto comes a clock after the fixed dead time: as an*)
(* INVARIANT of MCMtb.cfg this is violated.                                  *)
BlockIfBusy == pre_trigger => MIN_DEADTIME_MODE \/ ~rb_block_if_busy \/ ~rb_dead

(* No trigger is formed while the hits of the last one are being integrated: *)
(* it would restart the window and the two would share one packet.           *)
WindowClosed == pre_trigger => window_cnt = 0 /\ ~trg_o

(* Tracker and readout boards are told the same number for an event, the one *)
(* the counter gave to its trigger, whichever of the two is told first (the  *)
(* tracker can take a trigger a clock after it formed, and its ack may come  *)
(* at once or after the timeout); unless software reset the counter between. *)
SameEventCount ==
  [][ recounted \/
      /\ (rb_tx_state = "IDLE_state" /\ rb_tx_state' = "DATA_state")
           => rb_event_cnt' = number
      /\ tiu_init_tx => tiu_event_cnt = number ]_vars

(* Every trigger gets a packet on the link: its pulse is not over before the *)
(* slower clock has seen it, nor while the link is still busy with the       *)
(* packet before.  The length of the tracker's transmission makes it so:     *)
(* after a trigger that the tracker missed, it need not hold.                *)
NoneSwallowed ==
  [][ (rb_trg_extend = 1 /\ ~rb_trigger) => ~owed' \/ missed ]_vars

(* The trigger to the tracker stays on until the tracker has answered it:    *)
(* its busy line was high for four samples since, not before; or until the   *)
(* timeout.                                                                  *)
TriggerHeld ==
  [][ (tiu_trigger_o(tiu_pre_trigger_i) /\ ~tiu_trigger_o(tiu_pre_trigger_i)')
        => tiu_busy_ignore \/ seen = ACK_SR_LENGTH \/ held > TIU_TIMEOUT_CNT_MAX ]_vars

(* A tracker that never answers does not lock the trigger up: the event      *)
(* count is sent all the same, and another trigger can be taken.             *)
Recovers ==
  /\ tx_init_state = "WAIT_FOR_ACK" ~> tx_left > 0
  /\ tx_init_state # "READY_FOR_TRIGGER" ~> tx_init_state = "READY_FOR_TRIGGER"
=============================================================================
