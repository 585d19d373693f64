-------------------------------- MODULE Tiu --------------------------------
(***************************************************************************)
(* The master trigger board's side of the tracker interface unit:          *)
(* trigger/src/tiu/tiu.vhd and the serializer it starts, tiu_tx.vhd.  A    *)
(* trigger is held out until the tracker answers with its busy line, or a  *)
(* timeout; then the event count is sent, and the next trigger waits for   *)
(* the busy to fall.                                                       *)
(*                                                                         *)
(* TiuClock is one edge of the 100 MHz clock.  The glitch filter is a      *)
(* shift register of which only "all ones" is used: it is modelled by the  *)
(* number of latest samples that were high.  The serializer is modelled by *)
(* its duration.  GPS words and monitors are left out, and so is `reset`,  *)
(* which is only raised while the board has no clock.                      *)
(***************************************************************************)
EXTENDS Integers

CONSTANTS
  ACK_SR_LENGTH,         (* samples of busy that make an ack (4)              *)
  TIU_TIMEOUT_CNT_MAX,   (* clocks the trigger waits for the ack (105)        *)
  TX_CLOCKS              (* clocks of one transmission: 34 bits of 100 clocks *)

ASSUME TiuAssumption ==
  /\ ACK_SR_LENGTH \in Nat \ {0}
  /\ TIU_TIMEOUT_CNT_MAX \in Nat
  /\ TX_CLOCKS \in Nat \ {0}

VARIABLES
  tiu_busy_i,            (* the tracker's busy line                           *)
  tiu_busy_ignore,       (* the register TIU_BUSY_IGNORE                      *)
  tx_init_state, pretrigger_latch, tiu_timeout_cnt,
  tiu_event_cnt,         (* the event count taken for transmission            *)
  ack_run, tiu_ack,      (* latest samples of busy that were high; the ack    *)
  tiu_init_tx,
  tx_left, tiu_tx_done   (* clocks the transmission still lasts               *)

tiuVars == <<tiu_busy_i, tiu_busy_ignore, tx_init_state, pretrigger_latch,
             tiu_timeout_cnt, tiu_event_cnt, ack_run, tiu_ack, tiu_init_tx,
             tx_left, tiu_tx_done>>

TiuStates == {"READY_FOR_TRIGGER", "WAIT_FOR_ACK", "INIT_TX", "WAIT_FOR_TX_DONE",
              "WAIT_FOR_NOT_BUSY"}

-----------------------------------------------------------------------------

tiu_busy == tiu_busy_i /\ ~tiu_busy_ignore

ready_to_trigger == tx_init_state = "READY_FOR_TRIGGER" /\ ~tiu_busy

global_busy == ~ready_to_trigger

(* The trigger to the tracker: the pretrigger itself in its first clock, the *)
(* latch afterwards.                                                         *)
tiu_trigger_o(pre) == (ready_to_trigger /\ pre) \/ pretrigger_latch

(* Mutant: an ack of a single sample.                                        *)
Unfiltered == ack_run > 0
Filtered   == ack_run = ACK_SR_LENGTH

AckFilter ==
  /\ ack_run' = IF tiu_busy \/ tiu_busy_ignore
                THEN IF ack_run < ACK_SR_LENGTH THEN ack_run + 1 ELSE ack_run
                ELSE 0
  /\ tiu_ack' = Filtered

Transmitter ==
  /\ tx_left' = IF tx_left > 0 THEN tx_left - 1
                ELSE IF tiu_init_tx THEN TX_CLOCKS ELSE 0
  /\ tiu_tx_done' = (tx_left = 1)

-----------------------------------------------------------------------------
(* The states of the handshake; `pre` is pre_trigger_i.                      *)

Ready(pre) ==
  /\ tx_init_state = "READY_FOR_TRIGGER"
  /\ LET trigger == pre /\ ~tiu_busy
     IN /\ pretrigger_latch' = trigger
        /\ tiu_timeout_cnt' = IF trigger THEN TIU_TIMEOUT_CNT_MAX ELSE tiu_timeout_cnt
        /\ tx_init_state' = IF trigger THEN "WAIT_FOR_ACK" ELSE "READY_FOR_TRIGGER"
  /\ tiu_init_tx' = FALSE
  /\ UNCHANGED tiu_event_cnt

(* Mutant: without an answer the trigger waits on.                           *)
WaitsForEver == FALSE
TimedOut     == tiu_timeout_cnt = 0

(* send_event_cnt_on_timeout is tied high.                                   *)
WaitForAck(cnt) ==
  /\ tx_init_state = "WAIT_FOR_ACK"
  /\ tiu_event_cnt' = cnt
  /\ tx_init_state' = IF tiu_ack \/ TimedOut THEN "INIT_TX" ELSE "WAIT_FOR_ACK"
  /\ tiu_timeout_cnt' = IF tiu_ack \/ tiu_timeout_cnt = 0 THEN tiu_timeout_cnt
                        ELSE tiu_timeout_cnt - 1
  /\ tiu_init_tx' = FALSE
  /\ UNCHANGED pretrigger_latch

InitTx ==
  /\ tx_init_state = "INIT_TX"
  /\ tx_init_state' = "WAIT_FOR_TX_DONE"
  /\ pretrigger_latch' = FALSE
  /\ tiu_init_tx' = TRUE
  /\ UNCHANGED <<tiu_timeout_cnt, tiu_event_cnt>>

(* A state that only waits for `go`.                                         *)
Wait(from, go, to) ==
  /\ tx_init_state = from
  /\ tx_init_state' = IF go THEN to ELSE from
  /\ tiu_init_tx' = FALSE
  /\ UNCHANGED <<pretrigger_latch, tiu_timeout_cnt, tiu_event_cnt>>

WaitForTxDone  == Wait("WAIT_FOR_TX_DONE", tiu_tx_done, "WAIT_FOR_NOT_BUSY")
WaitForNotBusy == Wait("WAIT_FOR_NOT_BUSY", ~tiu_busy, "READY_FOR_TRIGGER")

(* One clock: `cnt` is the event counter, `busy` what the tracker drives     *)
(* next.                                                                     *)
TiuClock(pre, cnt, busy) ==
  /\ AckFilter
  /\ Transmitter
  /\ \/ Ready(pre)
     \/ WaitForAck(cnt)
     \/ InitTx
     \/ WaitForTxDone
     \/ WaitForNotBusy
  /\ tiu_busy_i' = busy
  /\ UNCHANGED tiu_busy_ignore

TiuInit ==
  /\ tiu_busy_i = FALSE /\ tiu_busy_ignore \in BOOLEAN
  /\ tx_init_state = "READY_FOR_TRIGGER"
  /\ pretrigger_latch = FALSE /\ tiu_timeout_cnt = 0 /\ tiu_event_cnt = 0
  /\ ack_run = 0 /\ tiu_ack = FALSE /\ tiu_init_tx = FALSE
  /\ tx_left = 0 /\ tiu_tx_done = FALSE

TiuTypeOK ==
  /\ {tiu_busy_i, tiu_busy_ignore, pretrigger_latch, tiu_ack, tiu_init_tx, tiu_tx_done}
       \subseteq BOOLEAN
  /\ tx_init_state \in TiuStates
  /\ tiu_timeout_cnt \in 0..TIU_TIMEOUT_CNT_MAX
  /\ tiu_event_cnt \in Nat
  /\ ack_run \in 0..ACK_SR_LENGTH
  /\ tx_left \in 0..TX_CLOCKS
=============================================================================
