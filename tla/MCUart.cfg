SPECIFICATION USpec
CONSTANTS
  Messages <- MCMessages
  PipeSize = 2
  CHAR_BUFFER_SIZE = 1
  GivenBack <- MCGivenBack
  MaxBack = 2
  AfterEnd = 3
INVARIANTS
  UTypeOK
  AfterTheEnd
PROPERTIES
  ImplementsChannel
  Delivered
CHECK_DEADLOCK FALSE
