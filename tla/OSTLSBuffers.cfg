CONSTANTS
  RingSize = 2
  PlainSize = 3
  BufSize = 3
  MaxBytes = 6
SPECIFICATION Spec
INVARIANT StagedIntact
PROPERTY RingImplementsFifo QueueImplementsFifo
CHECK_DEADLOCK FALSE
