CONSTANTS
  HeaderSize = 1
  MaxOut = 1
  MaxData = 2
  Request = 2
  OutCap = 3
  Limit = 1
  Wrap = 4
  MaxRecords = 5
SPECIFICATION Spec
INVARIANT ReturnsTheWhole TimeoutIsLate
CHECK_DEADLOCK FALSE
