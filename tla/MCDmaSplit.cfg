SPECIFICATION Spec
CONSTANTS
  WORDS_TO_SEND = 3
  FIFO_LATENCY = 1
  DELAY_MAX = 2
  RAM_BUFF_SIZE = 72
  BOT_HALF_ADDRESS = 12
  TOP_HALF_ADDRESS = 96
  MAX_PACKET_SIZE = 36
  FIFO_DEPTH = 6
  PacketWords = {3, 6}
  WORD_EDGES = 0
  READIES = {TRUE, FALSE}
  TOGGLES = {FALSE}
  CLEARS = {FALSE}
  RESETS = {FALSE}
INVARIANT PacketNotSplit
