----------------------------- MODULE MtbTrigger -----------------------------
(***************************************************************************)
(* The last stage of the master trigger, trigger/src/trg/trigger.vhd from  *)
(* `want_pretrigger` on, with the integrator of the hit window             *)
(* (trg/integrator.vhd) and the event counter (infra/event_counter.vhd).   *)
(* TriggerClock is one edge of the 100 MHz clock.  What makes a trigger    *)
(* (hits, thresholds, prescales) is the input `source`; the hit masks and  *)
(* the monitors of lost triggers are left out.                             *)
(***************************************************************************)
EXTENDS Integers

CONSTANTS
  DEADCNT_MAX,           (* the fixed dead time (32 clocks)                   *)
  RB_WINDOWS,            (* values of the register RB_INTEGRATION_WINDOW: 5   *)
                         (* bits, and the code asserts DEADCNT_MAX >= 2^5     *)
  EVENT_COUNT_MAX        (* where the event counter stops (2^32 - 1)          *)

ASSUME TriggerAssumption ==
  /\ DEADCNT_MAX \in Nat
  /\ RB_WINDOWS \subseteq 0..(DEADCNT_MAX - 1)
  /\ EVENT_COUNT_MAX \in Nat \ {0}

VARIABLES
  rb_window,
  pre_trigger, global_trigger,
  dead, deadcnt,
  rb_busy_block,
  event_count,
  window_cnt, trg_o,     (* the integrator: clocks left, its output           *)
  rb_trigger             (* the output to the readout boards                  *)

triggerVars == <<rb_window, pre_trigger, global_trigger, dead, deadcnt, rb_busy_block,
                 event_count, window_cnt, trg_o, rb_trigger>>

-----------------------------------------------------------------------------

(* Mutant: the busy of the readout boards is not looked at.                  *)
ready_without_boards(busy_i) == ~busy_i /\ ~dead
ready(busy_i)                == ~(busy_i \/ rb_busy_block) /\ ~dead

(* Mutant: the event counter counts global_trigger, a clock later.           *)
CountedLate == global_trigger
Counted     == pre_trigger

(* Mutant: the counter is not kept at its maximum.                           *)
EventCounterUnbounded(event_cnt_reset) ==
  event_count' = IF event_cnt_reset THEN 0
                 ELSE IF Counted THEN event_count + 1 ELSE event_count
EventCounter(event_cnt_reset) ==
  event_count' = IF event_cnt_reset THEN 0
                 ELSE IF Counted /\ event_count # EVENT_COUNT_MAX THEN event_count + 1
                 ELSE event_count

Integrator ==
  /\ window_cnt' = IF pre_trigger THEN rb_window
                   ELSE IF window_cnt > 0 THEN window_cnt - 1 ELSE 0
  /\ trg_o' = IF pre_trigger THEN rb_window = 0 ELSE window_cnt = 1

(* Mutant: the dead time is not started.                                     *)
NoDeadTime == FALSE
DeadStarts == ~dead /\ pre_trigger

DeadTime ==
  /\ deadcnt' = IF DeadStarts THEN DEADCNT_MAX
                ELSE IF deadcnt > 0 THEN deadcnt - 1 ELSE 0
  /\ dead' = (DeadStarts \/ deadcnt > 0)

(* One clock: `source` says that a trigger source is on; busy_i and          *)
(* rb_busy_i are the vetoes, and event_cnt_reset software's pulse.           *)
TriggerClock(source, busy_i, rb_busy_i, event_cnt_reset) ==
  /\ pre_trigger' = (ready(busy_i) /\ ~pre_trigger /\ source)
  /\ global_trigger' = pre_trigger
  /\ rb_busy_block' = rb_busy_i
  /\ rb_trigger' = trg_o
  /\ EventCounter(event_cnt_reset)
  /\ Integrator
  /\ DeadTime
  /\ UNCHANGED rb_window

TriggerInit ==
  /\ rb_window \in RB_WINDOWS
  /\ pre_trigger = FALSE /\ global_trigger = FALSE
  /\ dead = FALSE /\ deadcnt = 0 /\ rb_busy_block = FALSE
  /\ event_count = 0
  /\ window_cnt = 0 /\ trg_o = FALSE /\ rb_trigger = FALSE

TriggerTypeOK ==
  /\ rb_window \in RB_WINDOWS
  /\ {pre_trigger, global_trigger, dead, rb_busy_block, trg_o, rb_trigger} \subseteq BOOLEAN
  /\ deadcnt \in 0..DEADCNT_MAX
  /\ event_count \in 0..EVENT_COUNT_MAX
  /\ window_cnt \in 0..DEADCNT_MAX
=============================================================================
