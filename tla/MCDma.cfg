SPECIFICATION Spec
CONSTANTS
  WORDS_TO_SEND = 3
  FIFO_LATENCY = 1
  DELAY_MAX = 2
  RAM_BUFF_SIZE = 60
  BOT_HALF_ADDRESS = 12
  TOP_HALF_ADDRESS = 96
  MAX_PACKET_SIZE = 36
  FIFO_DEPTH = 6
  PacketWords = {2, 3, 6}
  WORD_EDGES = 5
  READIES = {TRUE}
  TOGGLES = {TRUE, FALSE}
  CLEARS = {FALSE}
  RESETS = {FALSE}
INVARIANTS TypeOK WholeBursts AddressInBuffers ContiguousBursts OccupancyExact
PROPERTIES Drains ToggleHonoured
