SPECIFICATION Spec
CONSTANTS
  FLUSH_CNT_MAX = 1
  WATCHDOG_CNT_MAX = 12
  WATCHDOG_EN = TRUE
  MAX_EVENTS = 4
  QUEUE_DEPTH = 3
  BODY_CLKS = 3
  WAIT_CLKS = 1
  READ_CLKS = {1, 6}
  SEND_CLKS = {1, 8}
  PAYLOAD_TIMEOUT_MAX = 10
  MAX_WRITES = 5
  Writes = {"enable", "disable", "soft_reset", "fragment_en", "fragment_dis"}
  CAREFUL = TRUE
INVARIANTS TypeOK OwnSamples NoLeftover OneOnItsWay
PROPERTIES EveryEventSent SoftResetFinishes
