CONSTANTS
  HeaderSize = 1
  MaxData = 1
  IoSize = 2
  RingSize = 1
  QueueSize = 1
  SendRoom = 1
  MaxRecords = 2
  MaxWrite = 1
SPECIFICATION FairSpec
PROPERTY NoStall FinSettles
CHECK_DEADLOCK FALSE
