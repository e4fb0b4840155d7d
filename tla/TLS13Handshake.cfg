CONSTANTS
  ChainSizes = {1, 3}
  MaxFragment = 3
  Overhead = 1
  BufSize = 4
SPECIFICATION FairSpec
INVARIANT TypeOK NoFalseAlarm NothingToReject Agreement
PROPERTY Finishes
CHECK_DEADLOCK FALSE
