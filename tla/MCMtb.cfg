SPECIFICATION Spec
CONSTANTS
  ACK_SR_LENGTH = 2
  TIU_TIMEOUT_CNT_MAX = 4
  TX_CLOCKS = 13
  DEADCNT_MAX = 3
  RB_WINDOWS = {0, 1, 2}
  EVENT_COUNT_MAX = 2
  CLK_RATIO = 2
  EXTEND = 4
  LENGTH = 3
  RB_DEADTIMES = {6}
  MIN_DEADTIME_MODE = FALSE
  EVENT_CNT_RESETS = {TRUE, FALSE}
INVARIANTS TypeOK BoardsReady WindowClosed
PROPERTIES SameEventCount NoneSwallowed TriggerHeld Recovers
