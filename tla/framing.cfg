SPECIFICATION FairSpec
CHECK_DEADLOCK FALSE
CONSTANTS
  Newline = Newline
  Announced <- MCAnnounced
  Bytes <- MCBytes
  Messages <- MCMessages
  MaxMessages = 3
  LineMax = 2
  DataMax = 3
INVARIANTS
  TypeOK
  MessagesIntact
PROPERTIES
  ImplementsByteStream
  EveryMessageArrives
