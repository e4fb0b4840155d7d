CONSTANTS
  ChainSizes = {1, 3}
  MaxFragment = 3
  Overhead = 1
  BufSize = 4
SPECIFICATION Spec
INVARIANT RequestAnswered
CHECK_DEADLOCK FALSE
