CONSTANTS
  HeaderSize = 1
  MaxData = 2
  IoSize = 5
  RingSize = 1
  QueueSize = 1
  SendRoom = 2
  MaxRecords = 2
  MaxWrite = 2
SPECIFICATION Spec
INVARIANT TypeOK NothingStranded ReadToTheEnd WrittenOnce
CHECK_DEADLOCK FALSE
