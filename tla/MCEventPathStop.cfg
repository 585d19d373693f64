SPECIFICATION Spec
CONSTANTS
  FLUSH_CNT_MAX = 1
  WATCHDOG_CNT_MAX = 12
  WATCHDOG_EN = TRUE
  MAX_EVENTS = 3
  QUEUE_DEPTH = 3
  BODY_CLKS = 3
  WAIT_CLKS = 1
  READ_CLKS = {1, 6}
  SEND_CLKS = {1, 8}
  PAYLOAD_TIMEOUT_MAX = 10
  MAX_WRITES = 3
  Writes = {"enable", "disable"}
  CAREFUL = FALSE
PROPERTIES QueueIsRead
