SPECIFICATION Spec
CONSTANTS
  Channels = {0, 1, 2}
  Masks = {{}, {0, 2}}
  Rois = {1}
  DebugRoi = 2
  PAD = 7
  PAYLOAD_TIMEOUT_MAX = 1
  CNT_MOD = 10
  RESETS = {TRUE, FALSE}
INVARIANTS TypeOK PacketLength ChannelOrder CrcCoverage IdleBurstAligned
PROPERTIES ComesBackToIdle ImplementsFormatter
