CONSTANTS
  HeaderSize = 1
  MaxData = 1
  MaxOut = 1
  RingSize = 1
  QueueSize = 1
  SendRoom = 1
  MaxRecords = 2
  MaxWrite = 1
SPECIFICATION FairSpec
INVARIANT TypeOK ReadToTheEnd WrittenOnce
PROPERTY PeerEndsIt
CHECK_DEADLOCK FALSE
