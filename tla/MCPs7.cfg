SPECIFICATION Spec
CONSTANTS
  PS7_MASK_POLL_TIME = 1
  MAX_CALLS = 3
INVARIANTS TypeOK WritesTakeEffect ClocksFromLockedPll SuccessMeansUp
PROPERTIES ReleaseOrder Returns
CHECK_DEADLOCK FALSE
