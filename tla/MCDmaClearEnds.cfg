SPECIFICATION Spec
CONSTANTS
  WORDS_TO_SEND = 3
  FIFO_LATENCY = 1
  DELAY_MAX = 2
  RAM_BUFF_SIZE = 48
  BOT_HALF_ADDRESS = 12
  TOP_HALF_ADDRESS = 96
  MAX_PACKET_SIZE = 24
  FIFO_DEPTH = 3
  PacketWords = {3}
  WORD_EDGES = 0
  READIES = {TRUE, FALSE}
  TOGGLES = {FALSE}
  CLEARS = {TRUE, FALSE}
  RESETS = {FALSE}
PROPERTY ClearEnds
