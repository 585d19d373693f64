-------------------------------- MODULE RbTx --------------------------------
(***************************************************************************)
(* The link from the master trigger to a readout board: the pulse stretch  *)
(* between the 100 MHz and the 25 MHz clock (master_trigger.vhd), the      *)
(* serializer rb_tx/rb_tx.vhd and the dead time kept for the board         *)
(* (rb_tx/rb_deadtime.vhd).  All links see the same trigger on the same    *)
(* edge: one is modelled.  RbTxClock is one edge of the 100 MHz clock;     *)
(* every CLK_RATIO of them is one of the 25 MHz clock.  Of the packet, its *)
(* event count and its length are kept: the mask, the CRC and the link     *)
(* number are left out.                                                    *)
(***************************************************************************)
EXTENDS Integers

CONSTANTS
  CLK_RATIO,             (* 100 MHz / 25 MHz (4)                              *)
  EXTEND,                (* length of the stretched trigger pulse (8)         *)
  LENGTH,                (* bits of a packet (57)                             *)
  RB_DEADTIMES           (* clocks a board reads out: 687 + 3102 per channel  *)

ASSUME RbTxAssumption ==
  /\ CLK_RATIO \in Nat \ {0} /\ LENGTH \in Nat \ {0}
  /\ EXTEND \in Nat /\ EXTEND >= CLK_RATIO
  /\ RB_DEADTIMES \subseteq Nat

VARIABLES
  phase,                 (* clocks to the next edge of the 25 MHz clock       *)
  rb_trg_extend,         (* clocks the stretched pulse still lasts            *)
  rb_tx_state, state_bit_cnt,
  rb_event_cnt,          (* the event count in the packet                     *)
  rb_block_if_busy,      (* the register: the board's dead time is a veto     *)
  rb_dead, rb_dead_cnt

rbTxVars == <<phase, rb_trg_extend, rb_tx_state, state_bit_cnt, rb_event_cnt,
              rb_block_if_busy, rb_dead, rb_dead_cnt>>

-----------------------------------------------------------------------------

rb_trg == rb_trg_extend > 0

(* Mutant: the pulse is as long as the trigger, one clock of the fast clock. *)
NotStretched == 1
Stretched    == EXTEND

PulseStretch(rb_trigger) ==
  rb_trg_extend' = IF rb_trigger THEN Stretched
                   ELSE IF rb_trg THEN rb_trg_extend - 1 ELSE 0

Idle(event_cnt) ==
  /\ rb_tx_state = "IDLE_state"
  /\ state_bit_cnt' = 0
  /\ rb_tx_state' = IF rb_trg THEN "DATA_state" ELSE "IDLE_state"
  /\ rb_event_cnt' = IF rb_trg THEN event_cnt ELSE rb_event_cnt

(* A trigger seen here is not remembered.                                    *)
Data ==
  LET last == state_bit_cnt = LENGTH - 1
  IN /\ rb_tx_state = "DATA_state"
     /\ rb_tx_state' = IF last THEN "IDLE_state" ELSE "DATA_state"
     /\ state_bit_cnt' = IF last THEN 0 ELSE state_bit_cnt + 1
     /\ UNCHANGED rb_event_cnt

SlowEdge(event_cnt) == phase = 0 /\ (Idle(event_cnt) \/ Data)

NoSlowEdge == phase > 0 /\ UNCHANGED <<rb_tx_state, state_bit_cnt, rb_event_cnt>>

BoardDeadTime(rb_trigger) ==
  \/ /\ ~rb_dead /\ rb_trigger
     /\ rb_dead' = TRUE
     /\ rb_dead_cnt' \in RB_DEADTIMES
  \/ /\ ~(~rb_dead /\ rb_trigger)
     /\ rb_dead' = (rb_dead_cnt > 0)
     /\ rb_dead_cnt' = IF rb_dead_cnt > 0 THEN rb_dead_cnt - 1 ELSE 0

RbTxClock(rb_trigger, event_cnt) ==
  /\ phase' = IF phase = 0 THEN CLK_RATIO - 1 ELSE phase - 1
  /\ PulseStretch(rb_trigger)
  /\ SlowEdge(event_cnt) \/ NoSlowEdge
  /\ BoardDeadTime(rb_trigger)
  /\ UNCHANGED rb_block_if_busy

RbTxInit ==
  /\ phase = 0 /\ rb_trg_extend = 0
  /\ rb_tx_state = "IDLE_state" /\ state_bit_cnt = 0 /\ rb_event_cnt = 0
  /\ rb_block_if_busy \in BOOLEAN
  /\ rb_dead = FALSE /\ rb_dead_cnt = 0

RbTxTypeOK ==
  /\ phase \in 0..(CLK_RATIO - 1)
  /\ rb_trg_extend \in 0..EXTEND
  /\ rb_tx_state \in {"IDLE_state", "DATA_state"}
  /\ state_bit_cnt \in 0..(LENGTH - 1)
  /\ rb_event_cnt \in Nat
  /\ {rb_block_if_busy, rb_dead} \subseteq BOOLEAN
  /\ rb_dead_cnt \in Nat
=============================================================================
