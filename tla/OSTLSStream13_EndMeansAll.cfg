CONSTANTS
  HeaderSize = 1
  MaxData = 1
  IoSize = 2
  RingSize = 1
  QueueSize = 2
  SendRoom = 1
  MaxRecords = 2
  MaxWrite = 2
SPECIFICATION Spec
INVARIANT EndMeansAll
CHECK_DEADLOCK FALSE
