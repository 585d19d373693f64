----------------------------- MODULE SoftReset -----------------------------
(***************************************************************************)
(* The soft reset sequencer of the readout board, drs/src/soft_reset.vhd:  *)
(* triggers off, wait for the DRS, the DAQ and the DMA to be idle, then    *)
(* clear the buffers.  A watchdog cuts a state short that lasts too long.  *)
(* The module has the registers and one action per state, each an edge of  *)
(* `clock`; `in` holds the input ports at that edge.  The board that       *)
(* drives the ports is in EventPath.  The registers that say which parts   *)
(* are waited for and cleared keep their defaults (all of them); the port  *)
(* drs_idle, high while the DRS is not started, is taken to be low.        *)
(***************************************************************************)
EXTENDS Integers

CONSTANTS
  FLUSH_CNT_MAX,       (* SOFT_RESET_FLUSH_CNT_MAX (127), one less than a     *)
                       (* power of two                                        *)
  WATCHDOG_CNT_MAX,    (* clocks a state may last (11000)                     *)
  WATCHDOG_EN          (* the watchdog enable register                        *)

ASSUME SoftResetAssumption ==
  /\ FLUSH_CNT_MAX \in Nat \ {0}
  /\ WATCHDOG_CNT_MAX \in Nat /\ WATCHDOG_CNT_MAX > FLUSH_CNT_MAX + 1
  /\ WATCHDOG_EN \in BOOLEAN

VARIABLES
  soft_rst_state, soft_rst_state_last,
  soft_reset_flush_cnt,
  watchdog_cnt, watchdog_timeout,
  soft_reset_done,
  soft_reset_buf               (* clears the event queue and the DRS FIFO     *)

softResetVars == <<soft_rst_state, soft_rst_state_last, soft_reset_flush_cnt,
                   watchdog_cnt, watchdog_timeout, soft_reset_done, soft_reset_buf>>

-----------------------------------------------------------------------------

SoftResetStates == {"AUTO_RESET", "IDLE", "WAIT_DRS", "WAIT_DAQ", "WAIT_DMA",
                    "RST_POINTER", "FLUSH", "HALT"}

(* The counter is 7 bits wide.                                               *)
NoWrap(cnt)    == cnt - 1
CountDown(cnt) == (cnt - 1) % (FLUSH_CNT_MAX + 1)

(* Mutant: a watchdog that never barks.                                      *)
NeverBarks == FALSE
Barks      == watchdog_cnt = WATCHDOG_CNT_MAX /\ WATCHDOG_EN

Watchdog ==
  LET fresh == soft_rst_state = "IDLE" \/ soft_rst_state # soft_rst_state_last
  IN /\ soft_rst_state_last' = soft_rst_state
     /\ watchdog_cnt' = IF fresh \/ watchdog_cnt = WATCHDOG_CNT_MAX
                        THEN 0 ELSE watchdog_cnt + 1
     /\ watchdog_timeout' = (~fresh /\ Barks)

(* An edge in `from` that moves on to `to` if `go` holds.                    *)
Advance(from, go, to) ==
  /\ soft_rst_state = from
  /\ soft_rst_state' = IF go THEN to ELSE from
  /\ Watchdog
  /\ soft_reset_done' = FALSE /\ soft_reset_buf' = (from = "FLUSH")

SoftResetIdle(in) ==
  /\ soft_rst_state = "IDLE"
  /\ soft_rst_state' = IF in.soft_reset THEN "AUTO_RESET" ELSE "IDLE"
  /\ soft_reset_flush_cnt' = FLUSH_CNT_MAX
  /\ Watchdog
  /\ soft_reset_done' = TRUE /\ soft_reset_buf' = FALSE

(* The board reset itself is not modelled: `reset` is low.                   *)
WaitIdle(in) ==
  /\ \/ Advance("AUTO_RESET", TRUE, "WAIT_DRS")
     \/ Advance("WAIT_DRS", ~in.drs_busy \/ watchdog_timeout, "WAIT_DAQ")
     \/ Advance("WAIT_DAQ", ~in.daq_busy \/ watchdog_timeout, "WAIT_DMA")
     \/ Advance("WAIT_DMA", in.dma_idle \/ watchdog_timeout, "RST_POINTER")
  /\ UNCHANGED soft_reset_flush_cnt

(* When the count is up but the DMA is not idle the counter wraps and the    *)
(* DMA is looked at again a whole count later.                               *)
CountStates(in) ==
  LET up == soft_reset_flush_cnt = 0
      ends(s) == watchdog_timeout \/ (up /\ (s = "RST_POINTER" => in.dma_idle))
      next == [RST_POINTER |-> "FLUSH", FLUSH |-> "HALT", HALT |-> "IDLE"]
  IN \E s \in DOMAIN next :
       /\ Advance(s, ends(s), next[s])
       /\ soft_reset_flush_cnt' =
            IF ~ends(s) THEN CountDown(soft_reset_flush_cnt)
            ELSE IF s = "HALT" THEN soft_reset_flush_cnt ELSE FLUSH_CNT_MAX

SoftResetEdge(in) == SoftResetIdle(in) \/ WaitIdle(in) \/ CountStates(in)

SoftResetInit ==
  /\ soft_rst_state = "IDLE" /\ soft_rst_state_last = "IDLE"
  /\ soft_reset_flush_cnt = FLUSH_CNT_MAX
  /\ watchdog_cnt = 0 /\ watchdog_timeout = FALSE
  /\ soft_reset_done = TRUE /\ soft_reset_buf = FALSE

SoftResetTypeOK ==
  /\ {soft_rst_state, soft_rst_state_last} \subseteq SoftResetStates
  /\ soft_reset_flush_cnt \in 0..FLUSH_CNT_MAX
  /\ watchdog_cnt \in 0..WATCHDOG_CNT_MAX /\ watchdog_timeout \in BOOLEAN
  /\ soft_reset_done \in BOOLEAN /\ soft_reset_buf \in BOOLEAN
=============================================================================
