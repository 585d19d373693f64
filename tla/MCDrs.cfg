SPECIFICATION Spec
CONSTANTS
  ReadoutMasks = {{}, {1, 2, 8}}
  SAMPLE_COUNT_MAX = 3
  ADC_LATENCY = 1
  WAIT_VDD_CLOCKS = 1
  START_TIMER = 1
  SPIKE_CLOCKS = 2
  RSR_CLOCKS = 1
  SHIFT_CLOCKS = 1
  RD_MOD = 8
  SR_MOD = 4
  DMODE = TRUE
  Pulses = {"none", "start", "reinit", "configure", "reset"}
  MODES = TRUE
  MASK_WHILE_READING = FALSE
INVARIANTS TypeOK ReadsMask 
PROPERTIES ComesToRest
